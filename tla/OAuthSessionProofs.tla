------------------------- MODULE OAuthSessionProofs -------------------------
(* Proofs about the session file and the operations on it: that the          *)
(* invariant of OAuthSessionInvariant is inductive, and what follows from it *)
(* for refresh tokens, logins and logouts.                                   *)
(*                                                                           *)
(* The argument: under the lock is one process, and what it has in hand is   *)
(* the file (Working), so that whatever it drafts is one of six changes of   *)
(* the file (Drafted), and the rename makes exactly that change.  The        *)
(* attempts recorded on disk bound the requests sent (SentRecorded), because *)
(* the record is renamed into place before the request; the login a process  *)
(* has just completed is known to nobody else (FreshUnseen), so that no      *)
(* session comes back once it is gone.                                       *)
EXTENDS OAuthSessionInvariant, TLAPS

\* A file left by an earlier login, its tokens issued once and accepted by
\* the registry, and commands that have not started satisfy the invariant.
LEMMA InitSession == Init => SessionInv
<1> SUFFICES ASSUME Init PROVE SessionInv
  OBVIOUS
<1> USE StoreAssumption, SessionAssumption
<1>1. disk = Nothing \/ \E l \in Logins : disk = [revision |-> 1, session |-> NewSession(l, 1, "ready")]
  BY DEF Init
<1>2. TypeOK
  <2>1. disk \in Snapshot
    BY DEF Init, Snapshot, Session, Nothing, NewSession, Statuses
  <2>2. me \in [Procs -> Record]
    <3>1. Idle \in Record
      BY DEF Idle, Record, Nothing, Snapshot, Outside, Inside, Goals, Outcomes
    <3>2. QED
      BY <3>1 DEF Init
  <2>3. /\ now \in Nat /\ issued \in [Logins -> 0..MaxTokens] /\ vouched \subseteq Tokens
        /\ holder \in Procs \cup {Nobody} /\ revoked \subseteq Logins
    BY DEF Init, Tokens
  <2>4. /\ sent \in [Tokens -> [times : Nat, first : Nat]]
        /\ spent \in [ops : Nat, crashes : Nat, faults : Nat]
    BY DEF Init
  <2>5. QED
    BY <2>1, <2>2, <2>3, <2>4 DEF TypeOK
<1>3. /\ \A p \in Procs : me[p] = Idle
      /\ \A t \in Tokens : sent[t].times = 0
  BY DEF Init
<1>4. LockHeld
  BY <1>3 DEF Init, LockHeld, Idle, Inside
<1>5. FileSound /\ ReadyIsVouched /\ TokensKept
  BY <1>1 DEF Init, FileSound, ReadyIsVouched, TokensKept, HasSession,
     Nothing, NewSession, TokenOf, Session
<1>6. SentRecorded /\ SentIsFenced /\ ReplaysCounted
  BY <1>3 DEF SentRecorded, SentIsFenced, ReplaysCounted
<1>7. ASSUME NEW p \in Procs PROVE Hand(p)
  BY <1>3 DEF Hand, AtPlace, Working, Stage, Chosen, Drafted, Unmoved,
     BaseSound, Confirming,
     FreshUnseen, Fresh, PickedIssued, LoginOn, Idle, Nothing, At,
     WithSession, Saves
<1>8. QED
  BY <1>2, <1>4, <1>5, <1>6, <1>7 DEF SessionInv

\* What a process is about to write stays a draft of its kind while others
\* work: only the file, the clock and what the process has in hand bear on it.
LEMMA DraftStays ==
    ASSUME NEW q \in Procs, disk' = disk, now' = now, vouched \subseteq vouched',
           me'[q].draft = me[q].draft, me'[q].resume = me[q].resume, me'[q].goal = me[q].goal,
           me'[q].base = me[q].base, me'[q].cur = me[q].cur, me'[q].picked = me[q].picked
    PROVE  /\ Ending(q) => Ending(q)'
           /\ SigningIn(q) => SigningIn(q)'
           /\ FencingOff(q) => FencingOff(q)'
           /\ Rotating(q) => Rotating(q)'
           /\ Rejecting(q) => Rejecting(q)'
           /\ Vouching(q) => Vouching(q)'
<1>1. Ending(q) => Ending(q)'
  BY DEF Ending, HasSession, Tombstone
<1>2. SigningIn(q) => SigningIn(q)'
  BY DEF SigningIn, TokenOf
<1>3. Renewing(q) => Renewing(q)'
  BY DEF Renewing, HasSession
<1>4. FencingOff(q) => FencingOff(q)'
  <2> SUFFICES ASSUME FencingOff(q) PROVE FencingOff(q)'
    OBVIOUS
  <2>1. PICK since \in 0..now, n \in 1..MaxAttempts :
          /\ me[q].draft.session = [disk.session EXCEPT !.status = "uncertain",
                                       !.started = since, !.attempts = n]
          /\ IF disk.session.status = "uncertain"
             THEN since = disk.session.started /\ n = disk.session.attempts + 1
             ELSE n = 1
    BY DEF FencingOff
  <2>2. /\ me'[q].draft.session = [disk'.session EXCEPT !.status = "uncertain",
                                       !.started = since, !.attempts = n]
        /\ IF disk'.session.status = "uncertain"
           THEN since = disk'.session.started /\ n = disk'.session.attempts + 1
           ELSE n = 1
        /\ since \in 0..now'
    BY <2>1
  <2>3. \E i \in 0..now', k \in 1..MaxAttempts :
          /\ me'[q].draft.session = [disk'.session EXCEPT !.status = "uncertain",
                                       !.started = i, !.attempts = k]
          /\ IF disk'.session.status = "uncertain"
             THEN i = disk'.session.started /\ k = disk'.session.attempts + 1
             ELSE k = 1
    BY <2>2
  <2>4. QED
    BY <1>3, <2>3 DEF FencingOff
<1>5. Rotating(q) => Rotating(q)'
  BY <1>3 DEF Rotating
<1>6. Rejecting(q) => Rejecting(q)'
  BY <1>3 DEF Rejecting
<1>7. Vouching(q) => Vouching(q)'
  BY <1>3 DEF Vouching, TokenOf
<1>8. QED
  BY <1>1, <1>2, <1>4, <1>5, <1>6, <1>7

\* A step of one process that leaves the file, the clock, the tokens issued
\* and the requests sent keeps the invariant if that process keeps its claims.
LEMMA Frame ==
    ASSUME SessionInv, NEW p \in Procs,
           UNCHANGED <<disk, now, issued, sent>>,
           me' \in [Procs -> Record], \A q \in Procs \ {p} : me'[q] = me[q],
           holder' \in Procs \cup {Nobody}, LockHeld',
           vouched \subseteq vouched', vouched' \subseteq Tokens,
           revoked \subseteq revoked', revoked' \subseteq Logins,
           spent' \in [ops : Nat, crashes : Nat, faults : Nat],
           Faultless' => /\ Faultless
                         /\ me[p].pc \in Saves /\ Rotating(p) =>
                              /\ me'[p].pc \in Saves /\ Rotating(p)'
                              /\ me'[p].draft = me[p].draft,
           LoginOn(me[p].picked)' \subseteq LoginOn(me[p].picked) \cup LoginOn(disk),
           Fresh(p)' => Fresh(p) /\ me'[p].cur = me[p].cur,
           AtPlace(p)'
    PROVE  SessionInv'
<1>1. TypeOK'
  BY DEF SessionInv, TypeOK
<1>2. FileSound' /\ SentRecorded' /\ SentIsFenced' /\ ReplaysCounted'
  BY DEF SessionInv, FileSound, SentRecorded, SentIsFenced, ReplaysCounted,
     HasSession, TokenOf
<1>3. ReadyIsVouched'
  BY DEF SessionInv, ReadyIsVouched, TokenOf
<1>4. TokensKept'
  <2> SUFFICES ASSUME Faultless', HasSession' PROVE TokensKept'
    BY DEF TokensKept
  <2>1. Faultless /\ HasSession
    BY DEF HasSession
  <2>2. CASE disk.session.token >= issued[disk.session.login]
    BY <2>2 DEF TokensKept
  <2>3. ASSUME NEW q \in Procs, me[q].pc \in Saves, Rotating(q),
               me[q].draft.session.token = issued[disk.session.login]
        PROVE  TokensKept'
    <3>1. me'[q].pc \in Saves /\ Rotating(q)' /\ me'[q].draft = me[q].draft
      <4>1. CASE q = p
        BY <2>3, <4>1
      <4>2. CASE q # p
        BY <2>3, <4>2, DraftStays
      <4>3. QED
        BY <4>1, <4>2
    <3>2. QED
      BY <2>3, <3>1 DEF TokensKept
  <2>4. QED
    BY <2>1, <2>2, <2>3 DEF SessionInv, TokensKept
<1>5. ASSUME NEW q \in Procs PROVE FreshUnseen(q)' /\ PickedIssued(q)'
  <2>1. ASSUME NEW r \in Procs
        PROVE  /\ LoginOn(me[r].picked)' \subseteq LoginOn(me[r].picked) \cup LoginOn(disk)
               /\ Fresh(r)' => Fresh(r) /\ me'[r].cur = me[r].cur
    BY <2>1 DEF LoginOn, Fresh
  <2>2. /\ FreshUnseen(q) /\ PickedIssued(q) /\ FileSound
    BY DEF SessionInv, Hand
  <2>3. PickedIssued(q)'
    BY <2>1, <2>2 DEF PickedIssued, LoginOn, FileSound, HasSession
  <2>4. FreshUnseen(q)'
    <3> SUFFICES ASSUME Fresh(q)' PROVE FreshUnseen(q)'
      BY DEF FreshUnseen
    <3>1. Fresh(q) /\ me'[q].cur = me[q].cur /\ LoginOn(disk)' = LoginOn(disk)
      BY <2>1 DEF LoginOn
    <3> DEFINE s == me[q].cur.session
    <3>2. /\ s # NoSession
          /\ s.status = "ready" /\ s.token = 1 /\ s.started = 0
          /\ issued[s.login] = 1
          /\ s.login \notin LoginOn(disk)
          /\ \A k \in 1..MaxTokens : sent[<<s.login, k>>].times = 0
          /\ \A r \in Procs : s.login \notin LoginOn(me[r].picked)
          /\ \A r \in Procs \ {q} : Fresh(r) => me[r].cur.session.login # s.login
      BY <2>2, <3>1 DEF FreshUnseen
    <3>3. \A r \in Procs : s.login \notin LoginOn(me[r].picked)'
      BY <2>1, <3>2
    <3>4. \A r \in Procs \ {q} : Fresh(r)' => me'[r].cur.session.login # s.login
      BY <2>1, <3>2
    <3>5. QED
      BY <3>1, <3>2, <3>3, <3>4 DEF FreshUnseen
  <2>5. QED
    BY <2>3, <2>4
<1>6. ASSUME NEW q \in Procs \ {p} PROVE AtPlace(q)'
  <2>1. AtPlace(q) /\ me'[q] = me[q]
    BY DEF SessionInv, Hand
  <2>2. Working(q)' /\ Stage(q)' /\ Chosen(q)' /\ Unmoved(q)' /\ BaseSound(q)' /\ Confirming(q)'
    BY <2>1 DEF AtPlace, Working, Stage, Chosen, Unmoved, BaseSound,
       Confirming, HasSession, At,
       LoginOn, TokenOf
  <2>3. Drafted(q)'
    <3>1. QED
      BY <2>1, DraftStays DEF AtPlace, Drafted
  <2>4. QED
    BY <2>2, <2>3 DEF AtPlace
<1>7. QED
  BY <1>1, <1>2, <1>3, <1>4, <1>5, <1>6 DEF SessionInv, Hand

\* A process goes to another place on the same side of the lock.
LEMMA Walk ==
    ASSUME SessionInv, NEW p \in Procs, NEW r \in Record,
           UNCHANGED <<disk, holder, now, issued, sent, spent>>,
           vouched \subseteq vouched', vouched' \subseteq Tokens,
           revoked \subseteq revoked', revoked' \subseteq Logins,
           me' = [me EXCEPT ![p] = r],
           r.pc \in Inside <=> me[p].pc \in Inside,
           me[p].pc \in Saves /\ Rotating(p) =>
               r.pc \in Saves /\ Rotating(p)' /\ r.draft = me[p].draft,
           r.picked \in {me[p].picked, disk},
           Fresh(p)' => Fresh(p) /\ r.cur = me[p].cur,
           AtPlace(p)'
    PROVE  SessionInv'
<1>1. TypeOK
  BY DEF SessionInv
<1>2. /\ me' \in [Procs -> Record] /\ me'[p] = r
      /\ \A q \in Procs \ {p} : me'[q] = me[q]
  BY <1>1 DEF TypeOK
<1>3. LockHeld' /\ holder' \in Procs \cup {Nobody} /\ spent' \in [ops : Nat, crashes : Nat, faults : Nat]
  BY <1>1, <1>2 DEF SessionInv, LockHeld, TypeOK
<1>4. LoginOn(me[p].picked)' \subseteq LoginOn(me[p].picked) \cup LoginOn(disk)
  BY <1>2 DEF LoginOn
<1>5. Faultless' => Faultless
  BY DEF Faultless
<1>6. QED
  BY <1>2, <1>3, <1>4, <1>5, Frame

\* Nothing is claimed of a process outside the lock, just inside it, or
\* about to leave it.
LEMMA Nowhere ==
    ASSUME NEW p \in Procs, BaseSound(p)', me'[p].outcome # "confirmed",
           me'[p].pc \in Outside \cup {"entered", "releasing"}
    PROVE  AtPlace(p)'
BY DEF AtPlace, Working, Stage, Chosen, Drafted, Unmoved, Confirming, At,
   WithSession, Saves, Outside

\* An operation of oauth-session.ts ends: its callback returns or throws.
LEMMA LeaveInv ==
    ASSUME SessionInv, NEW p \in Procs, NEW outcome \in Outcomes \ {"confirmed"},
           Leave(p, outcome), me[p].pc \in Inside, ~ (me[p].pc \in Saves /\ Rotating(p)),
           UNCHANGED <<disk, holder, now, issued, sent, spent>>,
           vouched \subseteq vouched', vouched' \subseteq Tokens,
           revoked \subseteq revoked', revoked' \subseteq Logins
    PROVE  SessionInv'
<1> DEFINE r == [me[p] EXCEPT !.pc = "releasing", !.outcome = outcome]
<1>1. me \in [Procs -> Record] /\ BaseSound(p)
  BY DEF SessionInv, TypeOK, Hand, AtPlace
<1>2. r \in Record /\ me' = [me EXCEPT ![p] = r]
  BY <1>1 DEF Leave, Record, Inside
<1>3. /\ me'[p] = r /\ r.pc = "releasing" /\ r.outcome = outcome /\ r.base = me[p].base
      /\ r.picked = me[p].picked
  BY <1>1, <1>2 DEF Record
<1>4. BaseSound(p)' /\ AtPlace(p)'
  <2>1. BaseSound(p)'
    BY <1>1, <1>3 DEF BaseSound
  <2>2. QED
    BY <2>1, <1>3, Nowhere
<1>5. ~ Fresh(p)' /\ r.pc \in Inside
  BY <1>3 DEF Fresh, Inside, Saves
<1> HIDE DEF r
<1>6. QED
  BY <1>2, <1>3, <1>4, <1>5, Walk

\* An operation goes on to another await under the lock.
LEMMA GotoInv ==
    ASSUME SessionInv, NEW p \in Procs, NEW place \in Inside,
           Goto(p, place), me[p].pc \in Inside \ Saves, me[p].outcome # "confirmed",
           place \in Saves => FALSE,
           me[p].goal = "login" => me[p].pc = "entered" /\ place = "verifyingLogin" /\ disk = me[p].picked,
           place = "verifyingLogin" => me[p].goal = "login",
           UNCHANGED <<disk, holder, now, issued, sent, spent>>,
           vouched \subseteq vouched', vouched' \subseteq Tokens,
           revoked \subseteq revoked', revoked' \subseteq Logins,
           place \in WithSession => me[p].pc \in WithSession,
           place \in {"rereading", "revoking", "revokingDead", "rereadingDead"} => me[p].goal = "logout",
           place \in WithSession => Stage(p)'
    PROVE  SessionInv'
<1> DEFINE r == [me[p] EXCEPT !.pc = place]
<1>1. me \in [Procs -> Record] /\ AtPlace(p)
  BY DEF SessionInv, TypeOK, Hand
<1>2. r \in Record /\ me' = [me EXCEPT ![p] = r]
  BY <1>1 DEF Goto, Record
<1>0. me[p].goal \in Goals
  BY <1>1 DEF Record
<1>3. /\ me'[p] = r /\ r.pc = place /\ r.outcome = me[p].outcome /\ r.base = me[p].base
      /\ r.picked = me[p].picked /\ r.cur = me[p].cur /\ r.goal = me[p].goal
  BY <1>1, <1>2 DEF Record
<1> HIDE DEF r
<1>4. AtPlace(p)'
  <2>1. Working(p)'
    BY <1>0, <1>1, <1>3 DEF AtPlace, Working, HasSession, Goals
  <2>2. Stage(p)'
    BY <1>3 DEF Stage, At, WithSession
  <2>3. Chosen(p)' /\ Drafted(p)' /\ Unmoved(p)' /\ BaseSound(p)' /\ Confirming(p)'
    BY <1>1, <1>3 DEF AtPlace, Chosen, Drafted, Unmoved, BaseSound,
       Confirming, LoginOn, At, Working
  <2>4. QED
    BY <2>1, <2>2, <2>3 DEF AtPlace
<1>5. Fresh(p)' => Fresh(p)
  BY <1>3 DEF Fresh, Saves
<1>6. QED
  BY <1>2, <1>3, <1>4, <1>5, Walk

\* An operation begins a save (saveOAuthSession, deleteOAuthSession).
LEMMA SavingInv ==
    ASSUME SessionInv, NEW p \in Procs, NEW draft \in Snapshot, NEW resume \in Inside,
           NEW outcome \in Outcomes,
           Saving(p, draft, resume, outcome), me[p].pc \in Inside \ Saves,
           me[p].goal = "login" => me[p].pc = "verifyingLogin",
           me[p].goal \in {"logout", "forget"} => LoginOn(me[p].picked) = LoginOn(disk),
           UNCHANGED <<disk, holder, now, issued, sent, spent>>,
           vouched \subseteq vouched', vouched' \subseteq Tokens,
           revoked \subseteq revoked', revoked' \subseteq Logins,
           outcome = "confirmed" => /\ LoginOn(me[p].picked) \subseteq revoked'
                                    /\ draft.session = NoSession,
           Drafted(p)'
    PROVE  SessionInv'
<1> DEFINE r == [me[p] EXCEPT !.pc = "checking", !.draft = draft, !.resume = resume,
                              !.outcome = outcome]
<1>1. me \in [Procs -> Record] /\ AtPlace(p)
  BY DEF SessionInv, TypeOK, Hand
<1>2. r \in Record /\ me' = [me EXCEPT ![p] = r]
  <2>0. me[p] \in Record /\ "checking" \in Inside
    BY <1>1 DEF Inside
  <2>1. r \in Record
    BY <2>0 DEF Record
  <2>2. me' = [me EXCEPT ![p] = r]
    BY <1>1 DEF Saving
  <2>3. QED
    BY <2>1, <2>2
<1>3. /\ me'[p] = r /\ r.pc = "checking" /\ r.outcome = outcome /\ r.base = me[p].base
      /\ r.picked = me[p].picked /\ r.cur = me[p].cur /\ r.goal = me[p].goal /\ r.draft = draft
  BY <1>1, <1>2 DEF Record
<1> HIDE DEF r
<1>4. AtPlace(p)'
  <2>1. Working(p)' /\ Stage(p)' /\ Unmoved(p)'
    BY <1>3 DEF Working, Stage, Unmoved, At, WithSession
  <2>2. Chosen(p)' /\ BaseSound(p)' /\ Confirming(p)'
    BY <1>1, <1>3 DEF AtPlace, Chosen, BaseSound, Confirming, LoginOn, Saves
  <2>3. QED
    BY <2>1, <2>2 DEF AtPlace
<1>5. Fresh(p)' => Fresh(p)
  BY <1>3 DEF Fresh, Saves
<1>6. r.pc \in Inside
  BY <1>3 DEF Inside
<1>7. QED
  BY <1>2, <1>3, <1>4, <1>5, <1>6, Walk

\* A process that works on a session has in hand exactly what the file holds:
\* its generation is the file's, and the file cannot change under its lock.
LEMMA InHand ==
    ASSUME SessionInv, NEW p \in Procs, me[p].pc \in WithSession
    PROVE  /\ me[p] \in Record /\ disk \in Snapshot /\ now \in Nat
           /\ me[p].cur = disk /\ HasSession /\ disk.session \in Session
           /\ disk.session.token \in 1..MaxTokens
           /\ me[p].pc \in Inside \ Saves /\ me[p].outcome # "confirmed"
           /\ me[p].goal \in {"logout", "forget"} => LoginOn(me[p].picked) = LoginOn(disk)
           /\ me[p].goal # "forget"
           /\ me[p].goal = "login" => me[p].pc = "settling"
           /\ me[p].goal \in {"resolve", "logout"} => me[p].base \in Session
<1>1. /\ TypeOK /\ FileSound /\ Working(p) /\ Chosen(p) /\ Confirming(p)
  BY DEF SessionInv, Hand, AtPlace
<1>2. me[p] \in Record /\ disk \in Snapshot /\ now \in Nat /\ me[p].cur = disk /\ HasSession
  BY <1>1 DEF TypeOK, Working
<1>3. disk.session \in Session /\ disk.session.token \in 1..MaxTokens
  BY <1>1, <1>2 DEF Snapshot, HasSession, FileSound
<1>4. me[p].pc \in Inside \ Saves /\ me[p].outcome # "confirmed"
  BY <1>1 DEF WithSession, Inside, Saves, Confirming
<1>5. me[p].goal \in {"resolve", "logout"} => me[p].base \in Session
  BY <1>1, <1>2 DEF Working, Record
<1>6. QED
  BY <1>1, <1>2, <1>3, <1>4, <1>5 DEF Working, Chosen

\* REFRESH_UNAVAILABLE (resolveHeld): the token in hand, or a failure.
LEMMA UnavailableInv ==
    ASSUME SessionInv, NEW p \in Procs, Unavailable(p), me[p].pc \in WithSession,
           me[p].goal # "login",
           UNCHANGED <<disk, holder, now, issued, sent, spent>>,
           vouched \subseteq vouched', vouched' \subseteq Tokens,
           revoked \subseteq revoked', revoked' \subseteq Logins
    PROVE  SessionInv'
<1>1. me[p].pc \in Inside \ Saves /\ me[p].outcome # "confirmed" /\ me[p] \in Record
  BY InHand
<1>2. CASE Fail(p)
  <2>1. "failed" \in Outcomes \ {"confirmed"} /\ Leave(p, "failed")
    BY <1>2 DEF Outcomes, Fail
  <2>2. QED
    BY <1>1, <2>1, LeaveInv
<1>3. CASE Goto(p, "verifyingHeld")
  <2>1. me'[p].pc = "verifyingHeld"
    BY <1>3 DEF Goto, SessionInv, TypeOK
  <2>2. Stage(p)' /\ "verifyingHeld" \in Inside
    BY <2>1 DEF Stage, At, Inside
  <2>3. QED
    BY <1>1, <1>3, <2>2, GotoInv DEF Saves
<1>4. QED
  BY <1>2, <1>3 DEF Unavailable

\* A credential is handed out, or used for a logout.
LEMMA ResolvedInv ==
    ASSUME SessionInv, NEW p \in Procs, Resolved(p), me[p].pc \in WithSession,
           me[p].goal # "login",
           UNCHANGED <<disk, holder, now, issued, sent, spent>>,
           vouched \subseteq vouched', vouched' \subseteq Tokens,
           revoked \subseteq revoked', revoked' \subseteq Logins
    PROVE  SessionInv'
<1>1. /\ me[p].pc \in Inside \ Saves /\ me[p].outcome # "confirmed" /\ me[p] \in Record
      /\ me[p].goal # "forget"
  BY InHand
<1>2. CASE Leave(p, "credential")
  <2>1. "credential" \in Outcomes \ {"confirmed"}
    BY DEF Outcomes
  <2>2. QED
    BY <1>1, <1>2, <2>1, LeaveInv
<1>3. CASE me[p].goal # "resolve" /\ Goto(p, "rereading")
  <2>1. me'[p].pc = "rereading"
    BY <1>3 DEF Goto, SessionInv, TypeOK
  <2>2. Stage(p)' /\ "rereading" \in Inside
    BY <2>1 DEF Stage, At, Inside
  <2>3. me[p].goal = "logout"
    BY <1>1, <1>3 DEF Record, Goals
  <2>4. QED
    BY <1>1, <1>3, <2>2, <2>3, GotoInv DEF Saves
<1>4. QED
  BY <1>2, <1>3 DEF Resolved

\* resolveHeld chooses by the status and by the time left.
LEMMA ResolveInv ==
    ASSUME SessionInv, NEW p \in Procs, Resolve(p) PROVE SessionInv'
<1>1. /\ At(p, "resolving") /\ me[p].pc \in WithSession /\ UNCHANGED <<disk, holder, world>>
      /\ UNCHANGED <<now, issued, sent, vouched, revoked, spent>>
  BY DEF Resolve, WithSession, At, world
<1>2. /\ me[p].pc \in Inside \ Saves /\ me[p].outcome # "confirmed" /\ me[p] \in Record
      /\ me[p].cur = disk /\ disk.session \in Session /\ me[p].goal # "login"
  BY <1>1, InHand DEF At
<1>3. vouched' \subseteq Tokens /\ revoked' \subseteq Logins /\ vouched \subseteq vouched' /\ revoked \subseteq revoked'
  BY <1>1 DEF SessionInv, TypeOK
<1>4. CASE Fail(p)
  <2>1. "failed" \in Outcomes \ {"confirmed"} /\ Leave(p, "failed")
    BY <1>4 DEF Outcomes, Fail
  <2>2. QED
    BY <1>1, <1>2, <1>3, <2>1, LeaveInv
<1>5. ASSUME NEW place \in {"verifyingPending", "verifyingHeld", "fencing"}, Goto(p, place),
             place = "verifyingPending" => disk.session.status = "pending",
             place = "fencing" => disk.session.status # "reauth"
      PROVE  SessionInv'
  <2>1. me'[p].pc = place
    BY <1>5 DEF Goto, SessionInv, TypeOK
  <2>2. Stage(p)' /\ place \in Inside
    BY <1>1, <1>5, <2>1 DEF Stage, At, Inside
  <2>3. QED
    BY <1>1, <1>2, <1>3, <1>5, <2>2, GotoInv DEF Saves
<1>6. \/ Fail(p)
      \/ disk.session.status = "pending" /\ Goto(p, "verifyingPending")
      \/ Goto(p, "verifyingHeld")
      \/ disk.session.status # "reauth" /\ Goto(p, "fencing")
  BY <1>2 DEF Resolve
<1>7. QED
  BY <1>4, <1>5, <1>6

\* The step of the store leaves the rest of the world as it is.
LEMMA AloneTypes ==
    ASSUME SessionInv, UNCHANGED world
    PROVE  /\ UNCHANGED <<now, issued, sent, vouched, revoked, spent>>
           /\ vouched' \subseteq Tokens /\ revoked' \subseteq Logins
           /\ vouched \subseteq vouched' /\ revoked \subseteq revoked'
BY DEF world, SessionInv, TypeOK

\* The records a refresh writes are sessions.
LEMMA SessionWith ==
    ASSUME NEW s \in Session, NEW status \in Statuses, NEW started \in Nat,
           NEW attempts \in 0..MaxAttempts
    PROVE  [s EXCEPT !.status = status, !.started = started, !.attempts = attempts] \in Session
BY DEF Session

\* The next generation of a file is a snapshot.
LEMMA SnapshotOf ==
    ASSUME NEW snapshot \in Snapshot, NEW s \in Session \cup {NoSession}
    PROVE  /\ [revision |-> snapshot.revision + 1, session |-> s] \in Snapshot
           /\ snapshot.revision \in Nat
BY DEF Snapshot

\* The record of a request is drafted (refreshHeld, before the exchange).
LEMMA FenceInv ==
    ASSUME SessionInv, NEW p \in Procs, Fence(p) PROVE SessionInv'
<1> DEFINE s == disk.session
<1>1. /\ At(p, "fencing") /\ me[p].pc \in WithSession /\ UNCHANGED <<disk, holder, world>>
  BY DEF Fence, WithSession, At
<1>2. /\ me[p].pc \in Inside \ Saves /\ me[p].outcome # "confirmed" /\ me[p] \in Record
      /\ me[p].cur = disk /\ s \in Session /\ me[p].goal \notin {"login", "forget"}
      /\ me[p].goal \in {"logout", "forget"} => LoginOn(me[p].picked) = LoginOn(disk)
      /\ HasSession /\ disk \in Snapshot /\ now \in Nat
  BY <1>1, InHand DEF At
<1>3. CASE Fail(p)
  <2>1. "failed" \in Outcomes \ {"confirmed"} /\ Leave(p, "failed")
    BY <1>3 DEF Outcomes, Fail
  <2>2. QED
    BY <1>1, <1>2, <2>1, AloneTypes, LeaveInv
<1>4. CASE ~ Stale(s) /\ Saving(p, [revision |-> disk.revision + 1, session |-> Fenced(s)],
                                "dispatching", "none")
  <2> DEFINE since == IF s.status = "uncertain" THEN s.started ELSE now
             n == IF s.status = "uncertain" THEN s.attempts + 1 ELSE 1
  <2>1. s.started <= now /\ s.status # "reauth"
    BY <1>1 DEF SessionInv, FileSound, HasSession, Hand, AtPlace, Stage, At,
       Working
  <2>2. since \in 0..now /\ n \in 1..MaxAttempts
    BY <1>2, <1>4, <2>1, StoreAssumption DEF Stale, Session
  <2>3. Fenced(s) = [s EXCEPT !.status = "uncertain", !.started = since, !.attempts = n]
    BY DEF Fenced
  <2>4. Fenced(s) \in Session
    <3>1. since \in Nat /\ n \in 0..MaxAttempts /\ "uncertain" \in Statuses
      BY <1>2, <2>2 DEF Statuses
    <3> HIDE DEF since, n
    <3>2. [s EXCEPT !.status = "uncertain", !.started = since, !.attempts = n] \in Session
      BY <1>2, <3>1, SessionWith
    <3>3. QED
      BY <2>3, <3>2
  <2> DEFINE draft == [revision |-> disk.revision + 1, session |-> Fenced(s)]
  <2>5. draft \in Snapshot /\ "dispatching" \in Inside /\ "none" \in Outcomes
    BY <1>2, <2>4, SnapshotOf DEF Inside, Outcomes
  <2>6. /\ me'[p].draft = draft /\ me'[p].resume = "dispatching" /\ me'[p].goal = me[p].goal
        /\ me'[p].base = me[p].base
    BY <1>4 DEF Saving, SessionInv, TypeOK, Record
  <2>7. FencingOff(p)'
    <3>1. Renewing(p)'
      BY <1>1, <1>2, <2>6, InHand, StoreAssumption DEF Renewing, HasSession,
         Record, Goals
    <3>2. IF s.status = "uncertain" THEN since = s.started /\ n = s.attempts + 1 ELSE n = 1
      OBVIOUS
    <3> HIDE DEF since, n
    <3>3. /\ disk' = disk /\ now' = now
          /\ me'[p].draft.session = [s EXCEPT !.status = "uncertain", !.started = since, !.attempts = n]
      BY <1>1, <2>3, <2>6, AloneTypes
    <3>4. \E i \in 0..now', k \in 1..MaxAttempts :
              /\ me'[p].draft.session = [s EXCEPT !.status = "uncertain", !.started = i, !.attempts = k]
              /\ IF s.status = "uncertain" THEN i = s.started /\ k = s.attempts + 1 ELSE k = 1
      BY <2>2, <3>2, <3>3
    <3>5. QED
      BY <2>1, <2>6, <3>1, <3>3, <3>4 DEF FencingOff
  <2>8. Drafted(p)'
    BY <2>7 DEF Drafted
  <2> HIDE DEF draft
  <2>9. Saving(p, draft, "dispatching", "none")
    BY <1>4 DEF draft
  <2>10. QED
    BY <1>1, <1>2, <2>5, <2>8, <2>9, AloneTypes, SavingInv
<1>5. QED
  BY <1>2, <1>3, <1>4 DEF Fence

\* invalid_grant drafts a session that needs a new login.
LEMMA RefusedInv ==
    ASSUME SessionInv, NEW p \in Procs, Refused(p) PROVE SessionInv'
<1> DEFINE s == disk.session
           draft == [revision |-> disk.revision + 1,
                     session |-> [s EXCEPT !.status = "reauth", !.started = 0, !.attempts = 0]]
<1>1. /\ At(p, "asking") /\ me[p].pc \in WithSession /\ UNCHANGED <<disk, holder, world>>
  BY DEF Refused, WithSession, At
<1>2. /\ me[p].pc \in Inside \ Saves /\ me[p].outcome # "confirmed" /\ me[p] \in Record
      /\ me[p].cur = disk /\ s \in Session /\ me[p].goal \notin {"login", "forget"}
      /\ me[p].goal \in {"logout", "forget"} => LoginOn(me[p].picked) = LoginOn(disk)
      /\ HasSession /\ disk \in Snapshot /\ now \in Nat /\ s.status = "uncertain"
  BY <1>1, InHand DEF At, SessionInv, Hand, AtPlace, Stage
<1>3. Saving(p, draft, "releasing", "failed")
  BY <1>2 DEF Refused
<1>4. draft \in Snapshot /\ "releasing" \in Inside /\ "failed" \in Outcomes
  <2>1. "reauth" \in Statuses /\ 0 \in Nat /\ 0 \in 0..MaxAttempts
    BY StoreAssumption DEF Statuses
  <2>2. draft.session \in Session
    BY <1>2, <2>1, SessionWith
  <2>3. QED
    BY <1>2, <2>2, SnapshotOf DEF Inside, Outcomes
<1>5. /\ me'[p].draft = draft /\ me'[p].resume = "releasing" /\ me'[p].goal = me[p].goal
      /\ me'[p].base = me[p].base
  BY <1>3 DEF Saving, SessionInv, TypeOK, Record
<1>6. Renewing(p)'
  BY <1>1, <1>2, <1>5, InHand, StoreAssumption DEF Renewing, HasSession,
     Record, Goals
<1>7. Rejecting(p)'
  BY <1>1, <1>2, <1>5, <1>6 DEF Rejecting
<1>8. Drafted(p)'
  BY <1>7 DEF Drafted
<1> HIDE DEF draft
<1>9. QED
  BY <1>1, <1>2, <1>3, <1>4, <1>8, AloneTypes, SavingInv

\* The answers that change nothing on disk: no answer, an unclear one, the
\* end of a wait, 401 in a logout.
LEMMA AnswersInv ==
    ASSUME SessionInv, NEW p \in Procs, Unclear(p) \/ NotNow(p) \/ Wake(p) \/ Unauthorized(p)
    PROVE  SessionInv'
<1>1. /\ me[p].pc \in {"asking", "sleeping", "verifyingPending", "verifyingHeld"}
      /\ me[p].pc \in WithSession /\ UNCHANGED <<disk, holder, world>>
  BY DEF Unclear, NotNow, Wake, Unauthorized, At, WithSession
<1>2. /\ me[p].pc \in Inside \ Saves /\ me[p].outcome # "confirmed"
      /\ me[p].goal # "login"
  BY <1>1, InHand
<1>3. Stage(p)
  BY DEF SessionInv, Hand, AtPlace
<1>4. CASE Unavailable(p)
  BY <1>1, <1>2, <1>4, AloneTypes, UnavailableInv
<1>5. ASSUME NEW place \in {"sleeping", "fencing", "revokingDead"}, Goto(p, place),
             place = "revokingDead" => me[p].goal = "logout",
             place \in {"sleeping", "fencing"} => disk.session.status = "uncertain"
      PROVE  SessionInv'
  <2>1. me'[p].pc = place
    BY <1>5 DEF Goto, SessionInv, TypeOK
  <2>2. Stage(p)' /\ place \in Inside
    BY <1>1, <1>5, <2>1 DEF Stage, At, Inside
  <2>3. QED
    BY <1>1, <1>2, <1>5, <2>2, AloneTypes, GotoInv DEF Saves
<1>6. \/ Unavailable(p)
      \/ disk.session.status = "uncertain" /\ Goto(p, "sleeping")
      \/ disk.session.status = "uncertain" /\ Goto(p, "fencing")
      \/ me[p].goal = "logout" /\ Goto(p, "revokingDead")
  BY <1>3 DEF Unclear, NotNow, Wake, Unauthorized, Stage, At
<1>7. QED
  BY <1>4, <1>5, <1>6

\* After the verified session is on disk.
LEMMA SettleInv ==
    ASSUME SessionInv, NEW p \in Procs, Settle(p) PROVE SessionInv'
<1>1. /\ me[p].pc \in WithSession /\ UNCHANGED <<disk, holder, world>>
  BY DEF Settle, At, WithSession
<1>2. me[p].pc \in Inside \ Saves
  BY <1>1, InHand
<1>3. CASE Leave(p, "signedIn")
  <2>1. "signedIn" \in Outcomes \ {"confirmed"}
    BY DEF Outcomes
  <2>2. QED
    BY <1>1, <1>2, <1>3, <2>1, AloneTypes, LeaveInv
<1>4. CASE me[p].goal # "login" /\ Unavailable(p)
  BY <1>1, <1>4, AloneTypes, UnavailableInv
<1>5. CASE me[p].goal # "login" /\ Resolved(p)
  BY <1>1, <1>5, AloneTypes, ResolvedInv
<1>6. QED
  BY <1>3, <1>4, <1>5 DEF Settle

\* A process that enters, or looks again, takes the session there is.
LEMMA TakeInv ==
    ASSUME SessionInv, NEW p \in Procs, NEW place \in {"resolving", "revoking"}, HasSession,
           \/ me' = [me EXCEPT ![p].cur = disk, ![p].base = disk.session, ![p].pc = place]
           \/ me[p].base # NoSession /\ me' = [me EXCEPT ![p].cur = disk, ![p].pc = place],
           me[p].pc \in Inside \ Saves, me[p].outcome # "confirmed",
           me[p].goal \in {"resolve", "logout"},
           place = "revoking" => me[p].goal = "logout",
           me[p].goal = "logout" => StillSelected(p),
           UNCHANGED <<disk, holder, world>>
    PROVE  SessionInv'
<1>1. me \in [Procs -> Record] /\ AtPlace(p) /\ disk \in Snapshot /\ FileSound
  BY DEF SessionInv, TypeOK, Hand
<1>2. disk.session \in Session /\ disk.session.token \in 1..MaxTokens
  BY <1>1 DEF Snapshot, HasSession, FileSound
<1>3. PICK base \in Session :
         /\ base.token \in 1..MaxTokens
         /\ me' = [me EXCEPT ![p] = [me[p] EXCEPT !.cur = disk, !.base = base, !.pc = place]]
  <2>1. CASE me' = [me EXCEPT ![p].cur = disk, ![p].base = disk.session, ![p].pc = place]
    BY <1>1, <1>2, <2>1
  <2>2. CASE me' = [me EXCEPT ![p].cur = disk, ![p].pc = place] /\ me[p].base # NoSession
    <3>1. me[p].base \in Session /\ me[p].base.token \in 1..MaxTokens
      BY <1>1, <2>2 DEF Record, AtPlace, BaseSound
    <3>2. [me[p] EXCEPT !.cur = disk, !.base = me[p].base, !.pc = place]
            = [me[p] EXCEPT !.cur = disk, !.pc = place]
      BY <1>1 DEF Record
    <3>3. me' = [me EXCEPT ![p] = [me[p] EXCEPT !.cur = disk, !.pc = place]]
      BY <1>1, <2>2
    <3>4. QED
      BY <3>1, <3>2, <3>3
  <2>3. QED
    BY <2>1, <2>2
<1> DEFINE r == [me[p] EXCEPT !.cur = disk, !.base = base, !.pc = place]
<1>4. place \in Inside /\ me[p] \in Record
  BY <1>1 DEF Inside
<1>5. r \in Record
  BY <1>1, <1>4 DEF Record
<1>6. /\ me'[p] = r /\ r.pc = place /\ r.outcome = me[p].outcome /\ r.base = base
      /\ r.picked = me[p].picked /\ r.cur = disk /\ r.goal = me[p].goal
  BY <1>1, <1>3, <1>4 DEF Record
<1> HIDE DEF r
<1>7. base # NoSession /\ place \in WithSession \ {"settling"}
  BY StoreAssumption DEF WithSession
<1>8. AtPlace(p)'
  <2>1. Working(p)'
    BY <1>6, <1>7 DEF Working, HasSession
  <2>2. Stage(p)' /\ Unmoved(p)' /\ Drafted(p)'
    BY <1>6 DEF Stage, At, Unmoved, Drafted, Saves
  <2>3. Chosen(p)' /\ BaseSound(p)' /\ Confirming(p)'
    BY <1>3, <1>6 DEF Chosen, BaseSound, Confirming, StillSelected, LoginOn
  <2>4. QED
    BY <2>1, <2>2, <2>3 DEF AtPlace
<1>9. ~ Fresh(p)' /\ r.pc \in Inside
  BY <1>4, <1>6 DEF Fresh, Saves
<1>10. QED
  BY <1>3, <1>5, <1>6, <1>8, <1>9, AloneTypes, Walk DEF r

\* A resolution or an online logout enters the lock.
LEMMA EnterSessionInv ==
    ASSUME SessionInv, NEW p \in Procs, EnterResolve(p) \/ EnterLogout(p)
    PROVE  SessionInv'
<1>1. /\ At(p, "entered") /\ me[p].goal \in {"resolve", "logout"}
      /\ UNCHANGED <<disk, holder, world>>
  BY DEF EnterResolve, EnterLogout
<1>2. me[p].pc \in Inside \ Saves /\ me[p].outcome # "confirmed"
  BY <1>1 DEF SessionInv, Hand, AtPlace, Confirming, At, Inside, Saves
<1>3. CASE Fail(p)
  <2>1. "failed" \in Outcomes \ {"confirmed"} /\ Leave(p, "failed")
    BY <1>3 DEF Outcomes, Fail
  <2>2. QED
    BY <1>1, <1>2, <2>1, AloneTypes, LeaveInv
<1>4. CASE /\ HasSession /\ (me[p].goal = "logout" => StillSelected(p))
           /\ me' = [me EXCEPT ![p].cur = disk, ![p].base = disk.session, ![p].pc = "resolving"]
  BY <1>1, <1>2, <1>4, TakeInv
<1>5. QED
  BY <1>1, <1>3, <1>4 DEF EnterResolve, EnterLogout, HasSession, StillSelected

\* completeCliLogin compares the file with what it was at the beginning.
LEMMA EnterLoginInv ==
    ASSUME SessionInv, NEW p \in Procs, EnterLogin(p) PROVE SessionInv'
<1>1. /\ At(p, "entered") /\ me[p].goal = "login" /\ UNCHANGED <<disk, holder, world>>
  BY DEF EnterLogin
<1>2. me[p].pc \in Inside \ Saves /\ me[p].outcome # "confirmed"
  BY <1>1 DEF SessionInv, Hand, AtPlace, Confirming, At, Inside, Saves
<1>3. CASE Fail(p)
  <2>1. "failed" \in Outcomes \ {"confirmed"} /\ Leave(p, "failed")
    BY <1>3 DEF Outcomes, Fail
  <2>2. QED
    BY <1>1, <1>2, <2>1, AloneTypes, LeaveInv
<1>4. CASE disk = me[p].picked /\ Goto(p, "verifyingLogin")
  <2>1. "verifyingLogin" \in Inside \ (Saves \cup WithSession)
    BY DEF Inside, Saves, WithSession
  <2>2. QED
    BY <1>1, <1>2, <1>4, <2>1, AloneTypes, GotoInv DEF At, WithSession
<1>5. QED
  BY <1>3, <1>4 DEF EnterLogin

\* A tombstone is drafted by a process that selected the session.
LEMMA EndingInv ==
    ASSUME SessionInv, NEW p \in Procs, NEW outcome \in {"forgotten", "confirmed"},
           Saving(p, Tombstone(disk), "releasing", outcome), HasSession,
           me[p].pc \in Inside \ Saves, me[p].goal \in {"logout", "forget"},
           LoginOn(me[p].picked) = LoginOn(disk),
           outcome = "confirmed" => LoginOn(me[p].picked) \subseteq revoked',
           UNCHANGED <<disk, holder, now, issued, sent, spent>>,
           vouched \subseteq vouched', vouched' \subseteq Tokens,
           revoked \subseteq revoked', revoked' \subseteq Logins
    PROVE  SessionInv'
<1>1. Tombstone(disk) \in Snapshot /\ Tombstone(disk).session = NoSession
  BY SnapshotOf DEF Tombstone, SessionInv, TypeOK
<1>2. outcome \in Outcomes /\ "releasing" \in Inside
  BY DEF Outcomes, Inside
<1>3. /\ me'[p].draft = Tombstone(disk) /\ me'[p].resume = "releasing" /\ me'[p].goal = me[p].goal
  BY DEF Saving, SessionInv, TypeOK, Record
<1>4. Drafted(p)'
  BY <1>3 DEF Drafted, Ending, HasSession, Tombstone
<1>5. QED
  BY <1>1, <1>2, <1>4, SavingInv

\* A local logout enters the lock.
LEMMA EnterForgetInv ==
    ASSUME SessionInv, NEW p \in Procs, EnterForget(p) PROVE SessionInv'
<1>1. /\ At(p, "entered") /\ me[p].goal = "forget" /\ UNCHANGED <<disk, holder, world>>
  BY DEF EnterForget
<1>2. me[p].pc \in Inside \ Saves
  BY <1>1 DEF At, Inside, Saves
<1>3. CASE Fail(p)
  <2>1. "failed" \in Outcomes \ {"confirmed"} /\ Leave(p, "failed")
    BY <1>3 DEF Outcomes, Fail
  <2>2. QED
    BY <1>1, <1>2, <2>1, AloneTypes, LeaveInv
<1>4. CASE StillSelected(p) /\ Saving(p, Tombstone(disk), "releasing", "forgotten")
  BY <1>1, <1>2, <1>4, AloneTypes, EndingInv DEF StillSelected, HasSession
<1>5. QED
  BY <1>3, <1>4 DEF EnterForget

\* A logout looks at the file again.
LEMMA RereadInv ==
    ASSUME SessionInv, NEW p \in Procs, Reread(p) PROVE SessionInv'
<1>1. /\ me[p].pc \in {"rereading", "rereadingDead"} /\ me[p].pc \in WithSession
      /\ UNCHANGED <<disk, holder, world>>
  BY DEF Reread, WithSession
<1>2. /\ me[p].pc \in Inside \ Saves /\ me[p].outcome # "confirmed" /\ me[p].goal = "logout"
      /\ LoginOn(me[p].picked) = LoginOn(disk) /\ me[p].base # NoSession
  BY <1>1, InHand, StoreAssumption DEF SessionInv, Hand, AtPlace, Working
<1>3. CASE Fail(p)
  <2>1. "failed" \in Outcomes \ {"confirmed"} /\ Leave(p, "failed")
    BY <1>3 DEF Outcomes, Fail
  <2>2. QED
    BY <1>1, <1>2, <2>1, AloneTypes, LeaveInv
<1>4. CASE StillSelected(p) /\ me' = [me EXCEPT ![p].cur = disk, ![p].pc = "revoking"]
  BY <1>1, <1>2, <1>4, TakeInv DEF StillSelected, HasSession
<1>5. CASE /\ At(p, "rereadingDead") /\ StillSelected(p)
           /\ Saving(p, Tombstone(disk), "releasing", "confirmed")
  <2>1. LoginOn(me[p].picked) \subseteq revoked'
    BY <1>1, <1>5, AloneTypes DEF SessionInv, Hand, AtPlace, Stage
  <2>2. QED
    BY <1>1, <1>2, <1>5, <2>1, AloneTypes, EndingInv DEF StillSelected,
       HasSession
<1>6. QED
  BY <1>1, <1>3, <1>4, <1>5 DEF Reread, At

\* Whatever is drafted may be saved: under the lock the generation cannot
\* move, and every draft is a transition validateTransition allows.
LEMMA DraftAcceptable ==
    ASSUME SessionInv, NEW p \in Procs, me[p].pc \in Saves
    PROVE  Acceptable(p)
<1>1. Drafted(p) /\ TypeOK /\ (SigningIn(p) => FreshUnseen(p)) /\ (me[p].goal = "login" => Fresh(p))
  BY DEF SessionInv, Hand, AtPlace, Fresh
<1>2. disk \in Snapshot
  BY <1>1 DEF TypeOK
<1>3. CASE Ending(p)
  BY <1>3 DEF Ending, Acceptable, Tombstone
<1>4. CASE SigningIn(p)
  BY <1>1, <1>4 DEF SigningIn, Acceptable, FreshUnseen, TransitionAllowed
<1>5. CASE FencingOff(p)
  BY <1>2, <1>5 DEF FencingOff, Renewing, Acceptable, TransitionAllowed,
     HasSession, Snapshot, Session
<1>6. CASE Rotating(p)
  BY <1>2, <1>6 DEF Rotating, Renewing, Acceptable, TransitionAllowed,
     HasSession, Snapshot, Session
<1>7. CASE Rejecting(p)
  BY <1>2, <1>7 DEF Rejecting, Renewing, Acceptable, TransitionAllowed,
     HasSession, Snapshot, Session
<1>8. CASE Vouching(p)
  BY <1>2, <1>8 DEF Vouching, Renewing, Acceptable, TransitionAllowed,
     HasSession, Snapshot, Session
<1>9. QED
  BY <1>1, <1>3, <1>4, <1>5, <1>6, <1>7, <1>8 DEF Drafted

\* The comparison before the rename succeeds.
LEMMA CheckSaveInv ==
    ASSUME SessionInv, NEW p \in Procs, CheckSave(p), UNCHANGED world PROVE SessionInv'
<1> DEFINE r == [me[p] EXCEPT !.pc = "renaming"]
<1>1. /\ me[p].pc = "checking" /\ me[p].pc \in Saves /\ UNCHANGED <<disk, holder, world>>
      /\ "renaming" \in Inside /\ me[p].pc \in Inside
  BY DEF CheckSave, Saves, Inside
<1>2. me \in [Procs -> Record] /\ me[p] \in Record /\ AtPlace(p)
  BY DEF SessionInv, TypeOK, Hand
<1>3. me' = [me EXCEPT ![p] = r]
  BY <1>1, <1>2, DraftAcceptable DEF CheckSave
<1>4. r \in Record
  BY <1>1, <1>2 DEF Record
<1>5. /\ me'[p] = r /\ r.pc = "renaming" /\ r.outcome = me[p].outcome /\ r.base = me[p].base
      /\ r.picked = me[p].picked /\ r.cur = me[p].cur /\ r.goal = me[p].goal
      /\ r.draft = me[p].draft /\ r.resume = me[p].resume
  BY <1>2, <1>3 DEF Record
<1> HIDE DEF r
<1>6. /\ disk' = disk /\ now' = now /\ vouched \subseteq vouched' /\ revoked' = revoked
  BY <1>1, AloneTypes
<1>7. Drafted(p) => Drafted(p)'
  BY <1>1, <1>5, <1>6, DraftStays DEF Drafted
<1>8. Rotating(p) => Rotating(p)'
  BY <1>5, <1>6, DraftStays
<1>9. AtPlace(p)'
  <2>1. Working(p)' /\ Stage(p)' /\ Unmoved(p)'
    BY <1>5 DEF Working, Stage, Unmoved, At, WithSession
  <2>2. Chosen(p)' /\ BaseSound(p)' /\ Confirming(p)'
    BY <1>1, <1>2, <1>5, <1>6 DEF AtPlace, Chosen, BaseSound, Confirming,
       LoginOn, Saves
  <2>3. Drafted(p)'
    BY <1>2, <1>7 DEF AtPlace
  <2>4. QED
    BY <2>1, <2>2, <2>3 DEF AtPlace
<1>10. (Fresh(p)' => Fresh(p)) /\ r.pc \in Saves
  BY <1>1, <1>5 DEF Fresh, Saves
<1>11. QED
  BY <1>1, <1>3, <1>4, <1>5, <1>8, <1>9, <1>10, AloneTypes, Walk

\* The registry accepts the access token; what that leads to is drafted.
LEMMA VerifiedInv ==
    ASSUME SessionInv, NEW p \in Procs, Verified(p) PROVE SessionInv'
<1>1. /\ me[p].pc \in {"verifyingLogin", "verifyingPending", "verifyingHeld"}
      /\ UNCHANGED <<disk, holder, now, issued, sent, revoked, spent>>
      /\ vouched' = vouched \cup {TokenOf(Verifying(p))}
  BY DEF Verified
<1>2. /\ me[p] \in Record /\ AtPlace(p) /\ FreshUnseen(p) /\ disk \in Snapshot
      /\ vouched \subseteq Tokens /\ revoked \subseteq Logins
  BY DEF SessionInv, Hand, TypeOK
<1>3. /\ Verifying(p) \in Session /\ TokenOf(Verifying(p)) \in Tokens
      /\ me[p].pc = "verifyingLogin" => Fresh(p) /\ Verifying(p) = me[p].cur.session
  <2>1. CASE me[p].pc = "verifyingLogin"
    <3>1. Fresh(p)
      BY <1>2, <2>1 DEF AtPlace, Unmoved, At, Fresh
    <3>2. me[p].cur.session \in Session /\ me[p].cur.session.token = 1
      BY <1>2, <3>1 DEF FreshUnseen, Record, Snapshot
    <3>3. QED
      BY <2>1, <3>1, <3>2, SessionAssumption DEF Verifying, At, TokenOf,
         Tokens, Session
  <2>2. CASE me[p].pc = "verifyingPending"
    BY <2>2, InHand DEF Verifying, At, TokenOf, Tokens, Session, WithSession
  <2>3. CASE me[p].pc = "verifyingHeld"
    <3>1. me[p].goal \in {"resolve", "logout"} /\ me[p].base \in Session
      BY <1>2, <2>3, InHand DEF AtPlace, Working, WithSession
    <3>2. me[p].base.token \in 1..MaxTokens
      BY <1>2, <3>1, StoreAssumption DEF AtPlace, BaseSound
    <3>3. QED
      BY <2>3, <3>1, <3>2 DEF Verifying, At, TokenOf, Tokens, Session
  <2>4. QED
    BY <1>1, <2>1, <2>2, <2>3
<1>4. /\ vouched \subseteq vouched' /\ vouched' \subseteq Tokens
      /\ revoked \subseteq revoked' /\ revoked' \subseteq Logins
  BY <1>1, <1>2, <1>3
<1>5. me[p].pc \in Inside \ Saves
  BY <1>1 DEF Inside, Saves
<1>6. CASE At(p, "verifyingLogin")
  <2> DEFINE draft == [revision |-> me[p].picked.revision + 1, session |-> me[p].cur.session]
  <2>1. /\ Saving(p, draft, "settling", "none")
        /\ me[p].cur.session \in Session /\ Fresh(p) /\ disk = me[p].picked
    BY <1>2, <1>3, <1>6 DEF Verified, At, AtPlace, Unmoved
  <2>2. draft \in Snapshot /\ "settling" \in Inside /\ "none" \in Outcomes
    BY <1>2, <2>1, SnapshotOf DEF Inside, Outcomes
  <2>3. /\ me'[p].draft = draft /\ me'[p].resume = "settling" /\ me'[p].goal = me[p].goal
        /\ me'[p].cur = me[p].cur /\ me'[p].picked = me[p].picked
    BY <2>1 DEF Saving, SessionInv, TypeOK, Record
  <2>4. SigningIn(p)'
    BY <1>1, <1>3, <1>6, <2>1, <2>3 DEF SigningIn, Fresh, At, TokenOf
  <2>5. Drafted(p)'
    BY <2>4 DEF Drafted
  <2>6. me[p].goal = "login"
    BY <2>1 DEF Fresh
  <2> HIDE DEF draft
  <2>7. QED
    BY <1>1, <1>4, <1>5, <1>6, <2>1, <2>2, <2>5, <2>6, SavingInv DEF At
<1>7. CASE ~ At(p, "verifyingLogin")
  <2>0. me[p].pc \in WithSession \ {"settling"}
    BY <1>1, <1>7 DEF At, WithSession
  <2>1. /\ me[p].cur = disk /\ HasSession /\ disk.session \in Session /\ me[p].goal # "login"
        /\ me[p].goal # "forget"
        /\ me[p].goal \in {"logout", "forget"} => LoginOn(me[p].picked) = LoginOn(disk)
        /\ me[p].base # NoSession /\ me[p].goal \in {"resolve", "logout"}
    BY <1>2, <2>0, InHand DEF AtPlace, Working
  <2>2. CASE Unavailable(p)
    BY <1>1, <1>4, <2>0, <2>1, <2>2, UnavailableInv
  <2>3. CASE Resolved(p)
    BY <1>1, <1>4, <2>0, <2>1, <2>3, ResolvedInv
  <2>4. CASE Fail(p)
    <3>1. "failed" \in Outcomes \ {"confirmed"} /\ Leave(p, "failed")
      BY <2>4 DEF Outcomes, Fail
    <3>2. QED
      BY <1>1, <1>4, <1>5, <3>1, LeaveInv
  <2> DEFINE draft == [revision |-> disk.revision + 1,
                       session |-> [disk.session EXCEPT !.status = "ready"]]
  <2>5. CASE At(p, "verifyingPending") /\ Saving(p, draft, "settling", "none")
    <3>1. /\ "ready" \in Statuses /\ "settling" \in Inside /\ "none" \in Outcomes
      BY DEF Statuses, Inside, Outcomes
    <3>2. [disk.session EXCEPT !.status = "ready"] \in Session
      BY <2>1, <3>1 DEF Session
    <3>3. draft \in Snapshot
      BY <1>2, <3>2, SnapshotOf
    <3>4. /\ me'[p].draft = draft /\ me'[p].resume = "settling" /\ me'[p].goal = me[p].goal
          /\ me'[p].base = me[p].base
      BY <2>5 DEF Saving, SessionInv, TypeOK, Record
    <3>5. disk.session.status = "pending" /\ TokenOf(disk.session) \in vouched'
      BY <1>1, <1>2, <2>1, <2>5 DEF AtPlace, Stage, Verifying, At
    <3>6. Renewing(p)'
      BY <1>1, <2>1, <3>4 DEF Renewing, HasSession
    <3>7. Vouching(p)'
      BY <1>1, <3>4, <3>5, <3>6 DEF Vouching, TokenOf
    <3>8. Drafted(p)'
      BY <3>7 DEF Drafted
    <3> HIDE DEF draft
    <3>9. QED
      BY <1>1, <1>4, <1>5, <2>1, <2>5, <3>1, <3>3, <3>8, SavingInv
  <2>6. \/ Unavailable(p) \/ Resolved(p) \/ Fail(p)
        \/ At(p, "verifyingPending") /\ Saving(p, draft, "settling", "none")
    <3>1. CASE At(p, "verifyingPending")
      BY <1>7, <2>1, <3>1 DEF Verified, At, Verifying
    <3>2. CASE ~ At(p, "verifyingPending")
      BY <1>7, <3>2 DEF Verified
    <3>3. QED
      BY <3>1, <3>2
  <2>7. QED
    BY <2>2, <2>3, <2>4, <2>5, <2>6
<1>8. QED
  BY <1>6, <1>7

\* The registry revokes; the answer is heard or lost.
LEMMA RevokedInv ==
    ASSUME SessionInv, NEW p \in Procs, Revoked(p) \/ RevokedUnheard(p) PROVE SessionInv'
<1>1. /\ me[p].pc \in {"revoking", "revokingDead"} /\ me[p].pc \in WithSession
      /\ UNCHANGED <<disk, holder, now, issued, sent, vouched, spent>>
      /\ revoked' = revoked \cup LoginOn(me[p].cur)
  BY DEF Revoked, RevokedUnheard, WithSession
<1>2. /\ me[p].pc \in Inside \ Saves /\ me[p].cur = disk /\ HasSession /\ disk.session \in Session
      /\ me[p].outcome # "confirmed" /\ me[p].goal = "logout"
      /\ LoginOn(me[p].picked) = LoginOn(disk)
  BY <1>1, InHand DEF SessionInv, Hand, AtPlace, Working
<1>3. /\ vouched \subseteq vouched' /\ vouched' \subseteq Tokens
      /\ revoked \subseteq revoked' /\ revoked' \subseteq Logins
      /\ LoginOn(me[p].picked) \subseteq revoked'
  BY <1>1, <1>2 DEF SessionInv, TypeOK, LoginOn, Session
<1>4. CASE Fail(p)
  <2>1. "failed" \in Outcomes \ {"confirmed"} /\ Leave(p, "failed")
    BY <1>4 DEF Outcomes, Fail
  <2>2. QED
    BY <1>1, <1>2, <1>3, <2>1, LeaveInv
<1>5. CASE Goto(p, "rereadingDead")
  <2>1. me'[p].pc = "rereadingDead" /\ me'[p].picked = me[p].picked
    BY <1>5 DEF Goto, SessionInv, TypeOK, Record
  <2>2. Stage(p)' /\ "rereadingDead" \in Inside
    BY <1>3, <2>1 DEF Stage, At, Inside, LoginOn
  <2>3. QED
    BY <1>1, <1>2, <1>3, <1>5, <2>2, GotoInv DEF Saves
<1>6. CASE Saving(p, Tombstone(disk), "releasing", "confirmed")
  BY <1>1, <1>2, <1>3, <1>6, EndingInv
<1>7. QED
  BY <1>2, <1>4, <1>5, <1>6 DEF Revoked, RevokedUnheard

\* A step outside the lock changes nobody's claims.
LEMMA OutsideInv ==
    ASSUME SessionInv, NEW p \in Procs, NEW r \in Record,
           me[p].pc \in Outside, r.pc \in Outside, me' = [me EXCEPT ![p] = r],
           r.outcome # "confirmed", r.base \in {NoSession, me[p].base},
           r.picked \in {me[p].picked, disk},
           r.pc = "locking" => me[p].goal # "login",
           r.goal = me[p].goal,
           UNCHANGED <<disk, holder, world>>
    PROVE  SessionInv'
<1>1. me \in [Procs -> Record] /\ BaseSound(p)
  BY DEF SessionInv, TypeOK, Hand, AtPlace
<1>2. me'[p] = r /\ BaseSound(p)'
  BY <1>1 DEF BaseSound
<1>3. AtPlace(p)' /\ ~ Fresh(p)'
  BY <1>2, Nowhere DEF Fresh, Saves, Outside
<1>4. r.pc \notin Inside /\ me[p].pc \notin Inside /\ me[p].pc \notin Saves
  BY DEF Outside, Inside, Saves
<1>5. QED
  BY <1>3, <1>4, AloneTypes, Walk

\* Selecting a session, fetching the configuration, beginning a login.
LEMMA WalksInv ==
    ASSUME SessionInv, NEW p \in Procs,
           Choose(p) \/ Configure(p) \/ TakeSnapshot(p)
    PROVE  SessionInv'
<1>1. me \in [Procs -> Record] /\ me[p] \in Record /\ disk \in Snapshot /\ Confirming(p)
  BY DEF SessionInv, TypeOK, Hand, AtPlace
<1>2. /\ me[p].pc \in Outside \ {"idle"} /\ me[p].outcome # "confirmed"
      /\ UNCHANGED <<disk, holder, world>>
  BY <1>1 DEF Choose, Configure, TakeSnapshot, At, Outside, Confirming, Saves
<1>3. CASE Choose(p)
  <2>1. CASE disk.session = NoSession
    <3> DEFINE r == [me[p] EXCEPT !.pc = "idle", !.outcome = "absent"]
    <3>1. r \in Record /\ me' = [me EXCEPT ![p] = r]
      BY <1>1, <1>3, <2>1 DEF Choose, Record, Outside, Outcomes
    <3>2. r.pc = "idle" /\ r.outcome = "absent" /\ r.base = me[p].base /\ r.picked = me[p].picked
          /\ r.goal = me[p].goal /\ "idle" \in Outside
      BY <1>1 DEF Record, Outside
    <3> HIDE DEF r
    <3>3. QED
      BY <1>2, <3>1, <3>2, OutsideInv
  <2>2. CASE disk.session # NoSession
    <3> DEFINE place == IF me[p].goal = "forget" THEN "locking" ELSE "configuring"
               r == [me[p] EXCEPT !.picked = disk, !.pc = place]
    <3>1. place \in Outside /\ (place = "locking" => me[p].goal # "login")
      BY DEF Outside
    <3>2. me' = [me EXCEPT ![p] = r]
      BY <1>1, <1>3, <2>2 DEF Choose
    <3> HIDE DEF place
    <3>3. r \in Record
      BY <1>1, <3>1 DEF Record
    <3>4. r.pc = place /\ r.outcome = me[p].outcome /\ r.base = me[p].base /\ r.picked = disk
          /\ r.goal = me[p].goal
      BY <1>1 DEF Record
    <3> HIDE DEF r
    <3>5. QED
      BY <1>2, <3>1, <3>2, <3>3, <3>4, OutsideInv
  <2>3. QED
    BY <2>1, <2>2
<1>4. CASE Configure(p)
  <2> DEFINE place == IF me[p].goal = "login" THEN "snapshotting" ELSE "locking"
             r == [me[p] EXCEPT !.pc = place]
  <2>1. place \in Outside /\ (place = "locking" => me[p].goal # "login")
    BY DEF Outside
  <2>2. me' = [me EXCEPT ![p] = r]
    BY <1>1, <1>4 DEF Configure, Goto
  <2> HIDE DEF place
  <2>3. r \in Record
    BY <1>1, <2>1 DEF Record
  <2>4. r.pc = place /\ r.outcome = me[p].outcome /\ r.base = me[p].base /\ r.picked = me[p].picked
        /\ r.goal = me[p].goal
    BY <1>1 DEF Record
  <2> HIDE DEF r
  <2>5. QED
    BY <1>2, <2>1, <2>2, <2>3, <2>4, OutsideInv
<1>5. CASE TakeSnapshot(p)
  <2> DEFINE r == [me[p] EXCEPT !.picked = disk, !.pc = "authorizing"]
  <2>1. r \in Record /\ me' = [me EXCEPT ![p] = r]
    BY <1>1, <1>5 DEF TakeSnapshot, Record, Outside
  <2>2. r.pc = "authorizing" /\ r.outcome = me[p].outcome /\ r.base = me[p].base /\ r.picked = disk
        /\ r.goal = me[p].goal /\ "authorizing" \in Outside
    BY <1>1 DEF Record, Outside
  <2> HIDE DEF r
  <2>3. QED
    BY <1>2, <2>1, <2>2, OutsideInv
<1>6. QED
  BY <1>3, <1>4, <1>5

\* An operation fails before it has the lock.
LEMMA FailsOutsideInv ==
    ASSUME SessionInv, NEW p \in Procs, me[p].pc \in Outside,
           me' = [me EXCEPT ![p].pc = "idle", ![p].outcome = "failed"],
           UNCHANGED <<disk, holder, world>>
    PROVE  SessionInv'
<1> DEFINE r == [me[p] EXCEPT !.pc = "idle", !.outcome = "failed"]
<1>1. me \in [Procs -> Record] /\ me[p] \in Record
  BY DEF SessionInv, TypeOK
<1>2. r \in Record /\ me' = [me EXCEPT ![p] = r]
  BY <1>1 DEF Record, Outside, Outcomes
<1>3. r.pc = "idle" /\ r.outcome = "failed" /\ r.base = me[p].base /\ r.picked = me[p].picked
      /\ r.goal = me[p].goal /\ "idle" \in Outside
  BY <1>1 DEF Record, Outside
<1> HIDE DEF r
<1>4. QED
  BY <1>2, <1>3, OutsideInv

\* An operation fails wherever it awaits, cancellation included.
LEMMA GiveUpInv ==
    ASSUME SessionInv, NEW p \in Procs, GiveUp(p) PROVE SessionInv'
<1>1. UNCHANGED <<disk, holder, world>>
  BY DEF GiveUp
<1>2. CASE me[p].pc \in Inside \ {"checking", "renaming", "releasing"} /\ Fail(p)
  <2>1. "failed" \in Outcomes \ {"confirmed"} /\ Leave(p, "failed") /\ me[p].pc \notin Saves
    BY <1>2 DEF Outcomes, Fail, Saves
  <2>2. QED
    BY <1>1, <1>2, <2>1, AloneTypes, LeaveInv
<1>3. CASE /\ me[p].pc \in Outside \ {"idle"}
           /\ me' = [me EXCEPT ![p].pc = "idle", ![p].outcome = "failed"]
  BY <1>1, <1>3, FailsOutsideInv
<1>4. QED
  BY <1>2, <1>3 DEF GiveUp

\* The lock stays busy until the deadline.
LEMMA LockTimeoutInv ==
    ASSUME SessionInv, NEW p \in Procs, LockTimeout(p), UNCHANGED world PROVE SessionInv'
BY FailsOutsideInv DEF LockTimeout, Outside

\* BEGIN IMMEDIATE succeeds.
LEMMA LockInv ==
    ASSUME SessionInv, NEW p \in Procs, Lock(p), UNCHANGED world PROVE SessionInv'
<1> DEFINE r == [me[p] EXCEPT !.pc = "entered"]
<1>1. me \in [Procs -> Record] /\ me[p] \in Record /\ AtPlace(p) /\ LockHeld
  BY DEF SessionInv, TypeOK, Hand
<1>2. r \in Record /\ me' = [me EXCEPT ![p] = r]
  BY <1>1 DEF Lock, Record, Inside
<1>3. /\ me'[p] = r /\ me' \in [Procs -> Record] /\ \A q \in Procs \ {p} : me'[q] = me[q]
      /\ r.pc = "entered" /\ r.outcome = me[p].outcome /\ r.base = me[p].base
      /\ r.picked = me[p].picked /\ r.cur = me[p].cur /\ r.goal = me[p].goal
  BY <1>1, <1>2 DEF Record
<1> HIDE DEF r
<1>4. LockHeld' /\ holder' \in Procs \cup {Nobody}
  <2>1. /\ holder = Nobody /\ holder' = p /\ r.pc \in Inside
    BY <1>3 DEF Lock, Inside
  <2>2. QED
    BY <1>1, <1>3, <2>1, StoreAssumption DEF LockHeld
<1>5. AtPlace(p)'
  <2>1. me[p].outcome # "confirmed" /\ BaseSound(p)'
    BY <1>1, <1>3 DEF Lock, AtPlace, Confirming, Saves, BaseSound
  <2>2. QED
    BY <1>3, <2>1, Nowhere
<1>6. (Fresh(p)' => Fresh(p)) /\ me[p].pc \notin Saves
  BY <1>3 DEF Lock, Fresh, Saves
<1>7. /\ LoginOn(me[p].picked)' \subseteq LoginOn(me[p].picked) \cup LoginOn(disk)
      /\ UNCHANGED <<disk, now, issued, sent>>
      /\ spent' \in [ops : Nat, crashes : Nat, faults : Nat] /\ (Faultless' => Faultless)
  BY <1>3, AloneTypes DEF LoginOn, Faultless, Lock, SessionInv, TypeOK
<1>8. QED
  BY <1>3, <1>4, <1>5, <1>6, <1>7, AloneTypes, Frame

\* COMMIT succeeds, or its failure replaces the outcome.
LEMMA ReleaseInv ==
    ASSUME SessionInv, NEW p \in Procs, Release(p), UNCHANGED world PROVE SessionInv'
<1>1. me \in [Procs -> Record] /\ me[p] \in Record /\ AtPlace(p) /\ LockHeld
  BY DEF SessionInv, TypeOK, Hand
<1>2. PICK outcome \in {me[p].outcome, "failed"} :
        me' = [me EXCEPT ![p] = [me[p] EXCEPT !.pc = "idle", !.outcome = outcome]]
  <2>1. CASE me' = [me EXCEPT ![p].pc = "idle"]
    <3>1. [me[p] EXCEPT !.pc = "idle", !.outcome = me[p].outcome] = [me[p] EXCEPT !.pc = "idle"]
      BY <1>1 DEF Record
    <3>2. me' = [me EXCEPT ![p] = [me[p] EXCEPT !.pc = "idle"]]
      BY <1>1, <2>1
    <3>3. QED
      BY <3>1, <3>2
  <2>2. CASE me' = [me EXCEPT ![p].pc = "idle", ![p].outcome = "failed"]
    BY <1>1, <2>2
  <2>3. QED
    BY <2>1, <2>2 DEF Release
<1> DEFINE r == [me[p] EXCEPT !.pc = "idle", !.outcome = outcome]
<1>3. "idle" \in Outside /\ outcome \in Outcomes
  BY <1>1, <1>2 DEF Outside, Outcomes, Record
<1>4. r \in Record
  BY <1>1, <1>3 DEF Record
<1>5. /\ me'[p] = r /\ me' \in [Procs -> Record] /\ \A q \in Procs \ {p} : me'[q] = me[q]
      /\ r.pc = "idle" /\ r.outcome = outcome /\ r.base = me[p].base
      /\ r.picked = me[p].picked /\ r.cur = me[p].cur /\ r.goal = me[p].goal
  BY <1>1, <1>2, <1>4 DEF Record
<1> HIDE DEF r
<1>6. LockHeld' /\ holder' \in Procs \cup {Nobody}
  <2>1. /\ holder = p /\ holder' = Nobody /\ r.pc \notin Inside /\ me[p].pc = "releasing"
    BY <1>1, <1>5 DEF Release, Inside, LockHeld
  <2>2. QED
    BY <1>1, <1>5, <2>1, StoreAssumption DEF LockHeld
<1>7. UNCHANGED <<disk, now, issued, sent, revoked>> /\ me[p].pc = "releasing"
  BY AloneTypes DEF Release
<1>8. AtPlace(p)'
  <2>1. Working(p)' /\ Stage(p)' /\ Chosen(p)' /\ Drafted(p)' /\ Unmoved(p)'
    BY <1>5 DEF Working, Stage, Chosen, Drafted, Unmoved, At, WithSession, Saves
  <2>2. BaseSound(p)' /\ Confirming(p)'
    BY <1>1, <1>2, <1>5, <1>7 DEF AtPlace, BaseSound, Confirming, LoginOn, Saves
  <2>3. QED
    BY <2>1, <2>2 DEF AtPlace
<1>9. ~ Fresh(p)' /\ me[p].pc \notin Saves
  BY <1>5, <1>7 DEF Fresh, Saves
<1>10. /\ LoginOn(me[p].picked)' \subseteq LoginOn(me[p].picked) \cup LoginOn(disk)
       /\ spent' \in [ops : Nat, crashes : Nat, faults : Nat] /\ (Faultless' => Faultless)
  BY <1>5, AloneTypes DEF LoginOn, Faultless, SessionInv, TypeOK
<1>11. QED
  BY <1>5, <1>6, <1>7, <1>8, <1>9, <1>10, AloneTypes, Frame

\* A command that begins, or whose process died, has nothing in hand.
LEMMA AfreshInv ==
    ASSUME SessionInv, NEW p \in Procs, NEW r \in Record, me' = [me EXCEPT ![p] = r],
           r.pc \in {"idle", "configuring", "choosing"}, r.outcome = "none", r.base = NoSession,
           r.picked = Nothing,
           UNCHANGED <<disk, now, issued, sent, vouched, revoked>>,
           holder' \in Procs \cup {Nobody}, LockHeld',
           spent' \in [ops : Nat, crashes : Nat, faults : Nat],
           Faultless' => Faultless /\ me[p].pc \notin Saves
    PROVE  SessionInv'
<1>1. me \in [Procs -> Record] /\ vouched \subseteq Tokens /\ revoked \subseteq Logins
  BY DEF SessionInv, TypeOK
<1>2. /\ me'[p] = r /\ me' \in [Procs -> Record] /\ \A q \in Procs \ {p} : me'[q] = me[q]
  BY <1>1
<1>3. AtPlace(p)' /\ ~ Fresh(p)'
  BY <1>2, Nowhere DEF BaseSound, Fresh, Saves, Outside
<1>4. LoginOn(me[p].picked)' = {}
  BY <1>2 DEF LoginOn, Nothing
<1>5. QED
  BY <1>1, <1>2, <1>3, <1>4, Frame

\* An idle process, and one that has just started, are records.
LEMMA IdleRecord == Idle \in Record /\ \A goal \in Goals, pc \in {"configuring", "choosing"} :
                      [Idle EXCEPT !.goal = goal, !.pc = pc] \in Record
BY DEF Idle, Record, Nothing, Snapshot, Outside, Inside, Goals, Outcomes

\* A command starts.
LEMMA StartInv ==
    ASSUME SessionInv, NEW p \in Procs, NEW goal \in Goals, Start(p, goal) PROVE SessionInv'
<1> DEFINE place == IF goal = "login" THEN "configuring" ELSE "choosing"
           r == [Idle EXCEPT !.goal = goal, !.pc = place]
<1>1. /\ me \in [Procs -> Record] /\ LockHeld /\ holder \in Procs \cup {Nobody}
      /\ spent \in [ops : Nat, crashes : Nat, faults : Nat]
  BY DEF SessionInv, TypeOK
<1>2. place \in {"configuring", "choosing"} /\ me' = [me EXCEPT ![p] = r]
  BY DEF Start
<1> HIDE DEF place
<1>3. r \in Record
  BY <1>2, IdleRecord
<1>4. r.pc = place /\ r.outcome = "none" /\ r.base = NoSession /\ r.picked = Nothing
  BY DEF Idle
<1> HIDE DEF r
<1>5. me[p].pc = "idle" /\ me[p].pc \notin Inside /\ r.pc \notin Inside /\ me[p].pc \notin Saves
  BY <1>2, <1>4 DEF Start, At, Inside, Saves
<1>6. UNCHANGED <<disk, holder, now, issued, sent, vouched, revoked>>
  BY DEF Start
<1>7. LockHeld'
  BY <1>1, <1>2, <1>5, <1>6 DEF LockHeld
<1>8. spent' \in [ops : Nat, crashes : Nat, faults : Nat] /\ (Faultless' => Faultless)
  BY <1>1 DEF Start, Faultless
<1>9. QED
  BY <1>1, <1>2, <1>3, <1>4, <1>5, <1>6, <1>7, <1>8, AfreshInv

\* A process dies under the lock or outside it.
LEMMA CrashInv ==
    ASSUME SessionInv, NEW p \in Procs, Crash(p) PROVE SessionInv'
<1>1. /\ me \in [Procs -> Record] /\ LockHeld /\ holder \in Procs \cup {Nobody}
      /\ spent \in [ops : Nat, crashes : Nat, faults : Nat]
  BY DEF SessionInv, TypeOK
<1>2. /\ me' = [me EXCEPT ![p] = Idle] /\ holder' = IF holder = p THEN Nobody ELSE holder
      /\ UNCHANGED <<disk, now, issued, sent, vouched, revoked>>
  BY DEF Crash
<1>3. Idle \in Record /\ Idle.pc = "idle" /\ Idle.outcome = "none" /\ Idle.base = NoSession
      /\ Idle.picked = Nothing /\ Idle.pc \notin Inside
  BY IdleRecord DEF Idle, Inside
<1>4. LockHeld' /\ holder' \in Procs \cup {Nobody}
  BY <1>1, <1>2, <1>3, StoreAssumption DEF LockHeld
<1>5. spent' \in [ops : Nat, crashes : Nat, faults : Nat] /\ ~ Faultless'
  BY <1>1 DEF Crash, Faultless
<1>6. QED
  BY <1>2, <1>3, <1>4, <1>5, AfreshInv

\* Reading the file or writing the temporary one fails.
LEMMA SaveFaultInv ==
    ASSUME SessionInv, NEW p \in Procs, SaveFault(p) PROVE SessionInv'
<1> DEFINE r == [me[p] EXCEPT !.pc = "releasing", !.outcome = "failed"]
<1>1. /\ me \in [Procs -> Record] /\ me[p] \in Record /\ BaseSound(p) /\ LockHeld
      /\ holder \in Procs \cup {Nobody} /\ spent \in [ops : Nat, crashes : Nat, faults : Nat]
      /\ vouched \subseteq Tokens /\ revoked \subseteq Logins
  BY DEF SessionInv, TypeOK, Hand, AtPlace
<1>2. r \in Record /\ me' = [me EXCEPT ![p] = r]
  BY <1>1 DEF SaveFault, SaveFails, Record, Inside, Outcomes
<1>3. /\ me'[p] = r /\ me' \in [Procs -> Record] /\ \A q \in Procs \ {p} : me'[q] = me[q]
      /\ r.pc = "releasing" /\ r.outcome = "failed" /\ r.base = me[p].base
      /\ r.picked = me[p].picked
  BY <1>1, <1>2 DEF Record
<1> HIDE DEF r
<1>4. AtPlace(p)' /\ ~ Fresh(p)'
  BY <1>1, <1>3, Nowhere DEF BaseSound, Fresh, Saves
<1>5. /\ LoginOn(me[p].picked)' \subseteq LoginOn(me[p].picked) \cup LoginOn(disk)
      /\ UNCHANGED <<disk, holder, now, issued, sent, vouched, revoked>>
  BY <1>3 DEF LoginOn, SaveFault, SaveFails
<1>6. LockHeld'
  <2>1. r.pc \in Inside /\ me[p].pc \in Inside
    BY <1>3 DEF Inside, SaveFault, SaveFails
  <2>2. QED
    BY <1>1, <1>3, <1>5, <2>1 DEF LockHeld
<1>7. spent' \in [ops : Nat, crashes : Nat, faults : Nat] /\ ~ Faultless'
  BY <1>1 DEF SaveFault, Faultless
<1>8. QED
  BY <1>1, <1>3, <1>4, <1>5, <1>6, <1>7, Frame

\* Time passes for everybody, or nothing happens.
LEMMA TickInv ==
    ASSUME SessionInv, now' \in {now, now + 1},
           UNCHANGED <<disk, holder, me, issued, sent, vouched, revoked, spent>>
    PROVE  SessionInv'
<1>1. /\ now' \in {now, now + 1} /\ now \in Nat
      /\ UNCHANGED <<disk, holder, me, issued, sent, vouched, revoked, spent>>
  BY DEF SessionInv, TypeOK
<1>2. TypeOK' /\ LockHeld'
  BY <1>1 DEF SessionInv, TypeOK, LockHeld
<1>3. FileSound'
  <2>1. HasSession => disk.session.started \in Nat
    BY DEF SessionInv, TypeOK, Snapshot, Session, HasSession
  <2>2. QED
    BY <1>1, <2>1 DEF SessionInv, FileSound, HasSession
<1>4. SentRecorded' /\ SentIsFenced' /\ ReplaysCounted' /\ ReadyIsVouched'
  BY <1>1 DEF SessionInv, SentRecorded, SentIsFenced, ReplaysCounted,
     ReadyIsVouched, HasSession, TokenOf
<1>5. TokensKept'
  <2>1. \A q \in Procs : Rotating(q) => Rotating(q)'
    BY <1>1 DEF Rotating, Renewing, HasSession
  <2>2. QED
    BY <1>1, <2>1 DEF SessionInv, TokensKept, Faultless, HasSession
<1>6. ASSUME NEW q \in Procs PROVE Hand(q)'
  <2>1. Hand(q)
    BY DEF SessionInv
  <2>2. FreshUnseen(q)' /\ PickedIssued(q)'
    BY <1>1, <2>1 DEF Hand, FreshUnseen, Fresh, PickedIssued, LoginOn
  <2>3. Working(q)' /\ Stage(q)' /\ Chosen(q)' /\ Unmoved(q)' /\ BaseSound(q)' /\ Confirming(q)'
    BY <1>1, <2>1 DEF Hand, AtPlace, Working, Stage, Chosen, Unmoved,
       BaseSound, Confirming,
       HasSession, At, LoginOn, TokenOf
  <2>4. /\ Ending(q) => Ending(q)'
        /\ SigningIn(q) => SigningIn(q)'
        /\ Renewing(q) => Renewing(q)'
    BY <1>1 DEF Ending, SigningIn, Renewing, HasSession, Tombstone, TokenOf
  <2>5. FencingOff(q) => FencingOff(q)'
    <3> SUFFICES ASSUME FencingOff(q) PROVE FencingOff(q)'
      OBVIOUS
    <3>1. PICK since \in 0..now, n \in 1..MaxAttempts :
            /\ me[q].draft.session = [disk.session EXCEPT !.status = "uncertain",
                                         !.started = since, !.attempts = n]
            /\ IF disk.session.status = "uncertain"
               THEN since = disk.session.started /\ n = disk.session.attempts + 1
               ELSE n = 1
      BY DEF FencingOff
    <3>2. since \in 0..now'
      BY <1>1, <3>1
    <3>3. \E i \in 0..now', k \in 1..MaxAttempts :
            /\ me[q].draft.session = [disk.session EXCEPT !.status = "uncertain",
                                         !.started = i, !.attempts = k]
            /\ IF disk.session.status = "uncertain"
               THEN i = disk.session.started /\ k = disk.session.attempts + 1
               ELSE k = 1
      BY <3>1, <3>2
    <3>4. \E i \in 0..now', k \in 1..MaxAttempts :
            /\ me'[q].draft.session = [disk'.session EXCEPT !.status = "uncertain",
                                         !.started = i, !.attempts = k]
            /\ IF disk'.session.status = "uncertain"
               THEN i = disk'.session.started /\ k = disk'.session.attempts + 1
               ELSE k = 1
      BY <1>1, <3>3
    <3>5. Renewing(q)' /\ (me[q].resume = "dispatching")' /\ (disk.session.status # "reauth")'
      BY <1>1, <2>4 DEF FencingOff
    <3>6. QED
      BY <3>4, <3>5 DEF FencingOff
  <2>6. /\ Rotating(q) => Rotating(q)'
        /\ Rejecting(q) => Rejecting(q)'
        /\ Vouching(q) => Vouching(q)'
    BY <1>1, <2>4 DEF Rotating, Rejecting, Vouching, TokenOf
  <2>7. Drafted(q)'
    BY <1>1, <2>1, <2>4, <2>5, <2>6 DEF Hand, AtPlace, Drafted
  <2>8. QED
    BY <2>2, <2>3, <2>7 DEF Hand, AtPlace
<1>7. QED
  BY <1>2, <1>3, <1>4, <1>5, <1>6 DEF SessionInv

\* Who is under the lock is there alone.
LEMMA OthersOutside ==
    ASSUME SessionInv, NEW p \in Procs, me[p].pc \in Inside, NEW q \in Procs \ {p}
    PROVE  me[q].pc \in Outside
BY DEF SessionInv, LockHeld, TypeOK, Record

\* A process outside the lock keeps its claims whatever happens to the file,
\* as long as no session it has ended comes back.
LEMMA OutsideAtPlace ==
    ASSUME SessionInv, NEW q \in Procs, me[q].pc \in Outside, me'[q] = me[q], revoked \subseteq revoked',
           LoginOn(me[q].picked) \cap LoginOn(disk)' \subseteq LoginOn(disk)
    PROVE  AtPlace(q)'
<1>1. AtPlace(q)
  BY DEF SessionInv, Hand
<1>2. Working(q)' /\ Stage(q)' /\ Chosen(q)' /\ Drafted(q)' /\ Unmoved(q)'
  BY DEF Working, Stage, Chosen, Drafted, Unmoved, At, WithSession, Saves,
     Outside
<1>3. BaseSound(q)' /\ Confirming(q)'
  BY <1>1 DEF AtPlace, BaseSound, Confirming, LoginOn, Saves, Outside
<1>4. QED
  BY <1>2, <1>3 DEF AtPlace

\* A browser login is completed: nobody has seen this login before.
LEMMA ApproveInv ==
    ASSUME SessionInv, NEW p \in Procs, Approve(p) PROVE SessionInv'
<1>1. PICK l \in Logins :
        /\ issued[l] = 0 /\ issued' = [issued EXCEPT ![l] = 1]
        /\ me' = [me EXCEPT ![p].pc = "locking",
                      ![p].cur = [revision |-> me[p].picked.revision,
                                  session |-> NewSession(l, 1, "ready")]]
  BY DEF Approve
<1>2. /\ me[p].pc = "authorizing" /\ UNCHANGED <<disk, holder, now, sent, vouched, revoked, spent>>
  BY DEF Approve, At
<1>3. /\ me \in [Procs -> Record] /\ me[p] \in Record /\ issued \in [Logins -> 0..MaxTokens] /\ LockHeld
      /\ now \in Nat /\ disk \in Snapshot /\ AtPlace(p) /\ FileSound
  BY DEF SessionInv, TypeOK, Hand
<1> DEFINE s == NewSession(l, 1, "ready")
           cur == [revision |-> me[p].picked.revision, session |-> s]
           r == [me[p] EXCEPT !.pc = "locking", !.cur = cur]
<1>4. s \in Session /\ s # NoSession /\ s.login = l /\ s.status = "ready" /\ s.token = 1 /\ s.started = 0
  BY <1>3, StoreAssumption, SessionAssumption DEF NewSession, Session, Statuses
<1>5. cur \in Snapshot /\ "locking" \in Outside
  BY <1>3, <1>4 DEF Record, Snapshot, Outside
<1> HIDE DEF s
<1>6. r \in Record
  BY <1>3, <1>5 DEF Record
<1>7. /\ me'[p] = r /\ me' \in [Procs -> Record] /\ \A q \in Procs \ {p} : me'[q] = me[q]
      /\ r.pc = "locking" /\ r.cur = cur /\ r.outcome = me[p].outcome /\ r.base = me[p].base
      /\ r.picked = me[p].picked /\ cur.session = s
  BY <1>1, <1>3, <1>6 DEF Record, s
<1> HIDE DEF r, cur
<1>8. /\ issued' \in [Logins -> 0..MaxTokens] /\ issued'[l] = 1
      /\ \A k \in Logins \ {l} : issued'[k] = issued[k]
      /\ \A k \in Logins : issued[k] >= 1 => issued'[k] = issued[k]
  BY <1>1, <1>3, SessionAssumption
<1>9. l \notin LoginOn(disk)
  BY <1>1, <1>3 DEF FileSound, LoginOn, HasSession
<1>10. TypeOK' /\ LockHeld'
  <2>1. me[p].pc \notin Inside /\ r.pc \notin Inside
    BY <1>2, <1>7 DEF Inside
  <2>2. QED
    BY <1>2, <1>3, <1>7, <1>8, <2>1 DEF SessionInv, TypeOK, LockHeld
<1>11. FileSound'
  BY <1>2, <1>3, <1>8 DEF FileSound, HasSession, Snapshot, Session
<1>12. SentRecorded' /\ SentIsFenced' /\ ReplaysCounted' /\ ReadyIsVouched'
  BY <1>2, <1>8 DEF SessionInv, SentRecorded, SentIsFenced, ReplaysCounted,
     ReadyIsVouched,
     HasSession, TokenOf, Tokens
<1>13. \A q \in Procs \ {p} : Rotating(q) => Rotating(q)'
  BY <1>2, <1>7, DraftStays
<1>14. TokensKept'
  <2> SUFFICES ASSUME Faultless', HasSession' PROVE TokensKept'
    BY DEF TokensKept
  <2>1. Faultless /\ HasSession
    BY <1>2 DEF HasSession, Faultless
  <2>2. issued'[disk.session.login] = issued[disk.session.login]
    BY <1>3, <1>8, <2>1 DEF FileSound, HasSession, Snapshot, Session
  <2>3. CASE disk.session.token >= issued[disk.session.login]
    BY <1>2, <2>2, <2>3 DEF TokensKept
  <2>4. ASSUME NEW q \in Procs, me[q].pc \in Saves, Rotating(q),
               me[q].draft.session.token = issued[disk.session.login]
        PROVE  TokensKept'
    <3>1. q # p
      BY <1>2, <2>4 DEF Saves
    <3>2. me'[q] = me[q] /\ Rotating(q)'
      BY <1>7, <1>13, <2>4, <3>1
    <3>3. QED
      BY <1>2, <2>2, <2>4, <3>2 DEF TokensKept
  <2>5. QED
    BY <2>1, <2>3, <2>4 DEF SessionInv, TokensKept
<1>15. ASSUME NEW q \in Procs PROVE PickedIssued(q)' /\ me'[q].picked = me[q].picked
  <2>1. me'[q].picked = me[q].picked /\ me[q].picked \in Snapshot /\ PickedIssued(q)
    BY <1>3, <1>7 DEF SessionInv, Hand, Record
  <2>2. LoginOn(me[q].picked) \subseteq Logins
    BY <2>1 DEF LoginOn, Snapshot, Session
  <2>3. QED
    BY <1>8, <2>1, <2>2 DEF PickedIssued, LoginOn
<1>16. ASSUME NEW q \in Procs, Fresh(q)' PROVE FreshUnseen(q)'
  <2>1. \A k \in 1..MaxTokens : sent[<<l, k>>].times = 0
    BY <1>1 DEF SessionInv, SentRecorded, TypeOK, Tokens
  <2>2. \A i \in Procs : l \notin LoginOn(me[i].picked)
    BY <1>1 DEF SessionInv, Hand, PickedIssued
  <2>3. ASSUME NEW i \in Procs \ {p}, Fresh(i)
        PROVE  me[i].cur.session.login \in Logins \ {l}
    <3>1. me[i].cur.session \in Session /\ issued[me[i].cur.session.login] = 1
      BY <1>3, <2>3 DEF SessionInv, Hand, FreshUnseen, Record, Snapshot
    <3>2. QED
      BY <1>1, <3>1 DEF Session
  <2>4. \A i \in Procs \ {p} : me'[i] = me[i] /\ (Fresh(i)' => Fresh(i))
    BY <1>7 DEF Fresh
  <2>5. CASE q = p
    <3>1. \A i \in Procs \ {p} : Fresh(i)' => me'[i].cur.session.login # l
      BY <2>3, <2>4
    <3>2. \A i \in Procs : l \notin LoginOn(me[i].picked)'
      BY <1>15, <2>2 DEF LoginOn
    <3>3. me'[p].cur.session = s /\ disk' = disk /\ sent' = sent
      BY <1>2, <1>7
    <3>4. QED
      BY <1>4, <1>8, <1>9, <2>1, <2>5, <3>1, <3>2, <3>3 DEF FreshUnseen, LoginOn
  <2>6. CASE q # p
    <3> DEFINE old == me[q].cur.session
    <3>1. Fresh(q) /\ me'[q] = me[q] /\ old.login \in Logins \ {l}
      BY <1>16, <2>3, <2>4, <2>6
    <3>2. /\ old # NoSession
          /\ old.status = "ready" /\ old.token = 1 /\ old.started = 0
          /\ issued[old.login] = 1
          /\ old.login \notin LoginOn(disk)
          /\ \A k \in 1..MaxTokens : sent[<<old.login, k>>].times = 0
          /\ \A i \in Procs : old.login \notin LoginOn(me[i].picked)
          /\ \A i \in Procs \ {q} : Fresh(i) => me[i].cur.session.login # old.login
      BY <3>1 DEF SessionInv, Hand, FreshUnseen
    <3>3. \A i \in Procs : old.login \notin LoginOn(me[i].picked)'
      BY <1>15, <3>2 DEF LoginOn
    <3>4. \A i \in Procs \ {q} : Fresh(i)' => me'[i].cur.session.login # old.login
      BY <1>4, <1>7, <2>4, <3>1, <3>2
    <3>5. QED
      BY <1>2, <1>8, <3>1, <3>2, <3>3, <3>4 DEF FreshUnseen, LoginOn
  <2>7. QED
    BY <2>5, <2>6
<1>17. ASSUME NEW q \in Procs PROVE AtPlace(q)'
  <2>1. CASE q = p
    <3>1. me[p].outcome # "confirmed" /\ BaseSound(p)'
      BY <1>2, <1>3, <1>7 DEF AtPlace, Confirming, Saves, BaseSound
    <3>2. QED
      BY <1>5, <1>7, <2>1, <3>1, Nowhere
  <2>2. CASE q # p
    <3>1. AtPlace(q) /\ me'[q] = me[q]
      BY <1>7, <2>2 DEF SessionInv, Hand
    <3>2. Working(q)' /\ Stage(q)' /\ Chosen(q)' /\ Unmoved(q)' /\ BaseSound(q)' /\ Confirming(q)'
      BY <1>2, <3>1 DEF AtPlace, Working, Stage, Chosen, Unmoved, BaseSound,
         Confirming,
         HasSession, At, LoginOn, TokenOf
    <3>3. Drafted(q)'
      BY <1>2, <3>1, DraftStays DEF AtPlace, Drafted
    <3>4. QED
      BY <3>2, <3>3 DEF AtPlace
  <2>3. QED
    BY <2>1, <2>2
<1>18. QED
  BY <1>10, <1>11, <1>12, <1>14, <1>15, <1>16, <1>17 DEF SessionInv, Hand,
     FreshUnseen

\* While one process works on the file under the lock, the others keep their
\* claims; a login that appears in the file is the one of that process.
LEMMA OthersKept ==
    ASSUME SessionInv, NEW p \in Procs, me[p].pc \in Inside,
           \A q \in Procs \ {p} : me'[q] = me[q],
           me'[p].picked = me[p].picked, ~ Fresh(p)', revoked' = revoked,
           \A l \in LoginOn(disk)' \ LoginOn(disk) : Fresh(p) /\ me[p].cur.session.login = l,
           LoginOn(disk)' \subseteq Logins,
           \A l \in Logins : issued[l] >= 1 => issued'[l] >= 1,
           \A l \in Logins \ LoginOn(disk) :
               /\ issued'[l] = issued[l]
               /\ \A k \in 1..MaxTokens : sent'[<<l, k>>] = sent[<<l, k>>]
    PROVE  /\ \A q \in Procs \ {p} : Hand(q)'
           /\ FreshUnseen(p)' /\ PickedIssued(p)'
<1>1. ASSUME NEW q \in Procs
      PROVE  /\ me[q] \in Record /\ PickedIssued(q) /\ FreshUnseen(q)
             /\ LoginOn(me[q].picked) \subseteq Logins
             /\ me'[q].picked = me[q].picked
  <2>1. me[q] \in Record /\ PickedIssued(q) /\ FreshUnseen(q)
    BY DEF SessionInv, TypeOK, Hand
  <2>2. LoginOn(me[q].picked) \subseteq Logins
    BY <2>1 DEF LoginOn, Record, Snapshot, Session
  <2>3. QED
    BY <2>1, <2>2
<1>2. ASSUME NEW q \in Procs PROVE PickedIssued(q)'
  BY <1>1 DEF PickedIssued, LoginOn
<1>3. ASSUME NEW q \in Procs \ {p} PROVE AtPlace(q)'
  <2>1. me[q].pc \in Outside
    BY OthersOutside
  <2>2. LoginOn(me[q].picked) \cap LoginOn(disk)' \subseteq LoginOn(disk)
    BY <1>1 DEF FreshUnseen
  <2>3. QED
    BY <2>1, <2>2, OutsideAtPlace
<1>4. ASSUME NEW q \in Procs, Fresh(q)' PROVE FreshUnseen(q)'
  <2>1. q # p /\ me'[q] = me[q] /\ Fresh(q)
    BY <1>4 DEF Fresh
  <2> DEFINE s == me[q].cur.session
  <2>2. /\ s # NoSession
        /\ s.status = "ready" /\ s.token = 1 /\ s.started = 0
        /\ issued[s.login] = 1
        /\ s.login \notin LoginOn(disk)
        /\ \A k \in 1..MaxTokens : sent[<<s.login, k>>].times = 0
        /\ \A i \in Procs : s.login \notin LoginOn(me[i].picked)
        /\ \A i \in Procs \ {q} : Fresh(i) => me[i].cur.session.login # s.login
    BY <1>1, <2>1 DEF FreshUnseen
  <2>3. s.login \in Logins \ LoginOn(disk)
    BY <1>1, <2>2 DEF Record, Snapshot, Session
  <2>4. s.login \notin LoginOn(disk)'
    BY <2>1, <2>2
  <2>5. \A i \in Procs : s.login \notin LoginOn(me[i].picked)'
    BY <1>1, <2>2 DEF LoginOn
  <2>6. \A i \in Procs \ {q} : Fresh(i)' => me'[i].cur.session.login # s.login
    <3> SUFFICES ASSUME NEW i \in Procs \ {q}, Fresh(i)' PROVE me'[i].cur.session.login # s.login
      OBVIOUS
    <3>1. i # p /\ me'[i] = me[i] /\ Fresh(i)
      BY DEF Fresh
    <3>2. QED
      BY <2>2, <3>1
  <2>7. issued'[s.login] = 1 /\ \A k \in 1..MaxTokens : sent'[<<s.login, k>>].times = 0
    BY <2>2, <2>3
  <2>8. me'[q].cur.session = s
    BY <2>1
  <2> HIDE DEF s
  <2>9. QED
    BY <2>2, <2>4, <2>5, <2>6, <2>7, <2>8 DEF FreshUnseen
<1>5. \A q \in Procs : FreshUnseen(q)'
  BY <1>4 DEF FreshUnseen
<1>6. QED
  BY <1>2, <1>3, <1>5 DEF Hand

\* Without faults the file has the latest tokens, unless the one process
\* under the lock is saving them.
LEMMA LatestOnDisk ==
    ASSUME SessionInv, NEW p \in Procs, me[p].pc \in Inside, Faultless, HasSession
    PROVE  \/ disk.session.token >= issued[disk.session.login]
           \/ /\ me[p].pc \in Saves /\ Rotating(p)
              /\ me[p].draft.session.token = issued[disk.session.login]
<1>1. ASSUME NEW q \in Procs, me[q].pc \in Saves PROVE q = p
  <2>1. me[q].pc \notin Outside
    BY <1>1 DEF Saves, Outside
  <2>2. QED
    BY <2>1, OthersOutside
<1>2. QED
  BY <1>1 DEF SessionInv, TokensKept

\* The request is sent: its record is already on disk, so that the count
\* there is never below the number of requests.
LEMMA DispatchInv ==
    ASSUME SessionInv, NEW p \in Procs, Dispatch(p) PROVE SessionInv'
<1> DEFINE s == disk.session
           t == TokenOf(disk.session)
           r == [me[p] EXCEPT !.pc = "asking"]
<1>1. /\ At(p, "dispatching") /\ me[p].pc \in WithSession /\ me[p].pc \in Inside
      /\ UNCHANGED <<disk, holder, now, issued, vouched, revoked, spent>>
  BY DEF Dispatch, WithSession, At, Inside
<1>2. /\ me[p] \in Record /\ now \in Nat /\ me[p].cur = disk /\ HasSession /\ s \in Session
      /\ s.token \in 1..MaxTokens /\ me[p].pc \in Inside \ Saves /\ me[p].outcome # "confirmed"
      /\ me[p].goal \in {"logout", "forget"} => LoginOn(me[p].picked) = LoginOn(disk)
      /\ me[p].goal # "forget" /\ me[p].goal # "login"
      /\ me[p].goal \in {"resolve", "logout"} => me[p].base \in Session
  BY <1>1, InHand DEF At
<1>3. /\ me \in [Procs -> Record] /\ sent \in [Tokens -> [times : Nat, first : Nat]]
      /\ vouched' \subseteq Tokens /\ revoked' \subseteq Logins /\ Working(p) /\ Stage(p) /\ Chosen(p) /\ BaseSound(p)
      /\ vouched \subseteq vouched' /\ revoked \subseteq revoked'
  BY <1>1 DEF SessionInv, TypeOK, Hand, AtPlace
<1>4. CASE UNCHANGED sent /\ Fail(p)
  <2>1. "failed" \in Outcomes \ {"confirmed"} /\ Leave(p, "failed")
    BY <1>4 DEF Outcomes, Fail
  <2>2. QED
    BY <1>1, <1>2, <1>3, <1>4, <2>1, LeaveInv
<1>5. CASE /\ sent' = [sent EXCEPT ![t] =
                  [times |-> @.times + 1,
                   first |-> IF @.times = 0 THEN now ELSE @.first]]
           /\ Goto(p, "asking")
  <2>1. r \in Record /\ me' = [me EXCEPT ![p] = r]
    BY <1>2, <1>3, <1>5 DEF Record, Goto, Inside
  <2>2. /\ me' \in [Procs -> Record] /\ me'[p] = r /\ \A q \in Procs \ {p} : me'[q] = me[q]
        /\ r.pc = "asking" /\ r.picked = me[p].picked /\ r.cur = me[p].cur /\ r.goal = me[p].goal
        /\ r.base = me[p].base /\ r.outcome = me[p].outcome
    BY <1>2, <1>3, <2>1 DEF Record
  <2> HIDE DEF r
  <2>3. t \in Tokens /\ s.login \in Logins /\ t = <<s.login, s.token>>
    BY <1>2 DEF Tokens, TokenOf, Session
  <2>4. /\ sent' \in [Tokens -> [times : Nat, first : Nat]]
        /\ sent'[t].times = sent[t].times + 1
        /\ sent'[t].first = IF sent[t].times = 0 THEN now ELSE sent[t].first
        /\ \A i \in Tokens \ {t} : sent'[i] = sent[i]
    <3> DEFINE e == [times |-> sent[t].times + 1,
                     first |-> IF sent[t].times = 0 THEN now ELSE sent[t].first]
    <3>1. sent[t] \in [times : Nat, first : Nat]
      BY <1>3, <2>3
    <3>2. e \in [times : Nat, first : Nat] /\ e.times = sent[t].times + 1
          /\ e.first = IF sent[t].times = 0 THEN now ELSE sent[t].first
      BY <1>2, <3>1
    <3>3. sent' = [sent EXCEPT ![t] = e]
      BY <1>5
    <3> HIDE DEF e
    <3>4. QED
      BY <1>3, <2>3, <3>2, <3>3
  <2>5. s.status = "uncertain" /\ sent[t].times < s.attempts /\ s.attempts \in 0..MaxAttempts
    BY <1>1, <1>2, <1>3 DEF Stage, At, Session
  <2>6. /\ s.started <= now /\ s.started \in Nat /\ issued[s.login] >= 1
    BY <1>2 DEF SessionInv, FileSound, Session
  <2>7. sent[t].times \in Nat /\ sent[t].first \in Nat
    BY <1>3, <2>3
  <2>8. sent'[t].times <= s.attempts /\ s.started <= sent'[t].first
    <3>1. sent[t].times > 0 => s.started <= sent[t].first
      BY <1>2, <2>3, <2>5 DEF SessionInv, SentRecorded
    <3>2. QED
      BY <1>2, <2>4, <2>5, <2>6, <2>7, <3>1
  <2>9. TypeOK' /\ LockHeld' /\ FileSound' /\ ReadyIsVouched'
    <3>1. r.pc \in Inside
      BY <2>2 DEF Inside
    <3>2. QED
      BY <1>1, <1>2, <2>2, <2>4, <3>1 DEF SessionInv, TypeOK, LockHeld,
         FileSound, ReadyIsVouched, HasSession, TokenOf
  <2>10. SentRecorded'
    <3> SUFFICES ASSUME NEW i \in Tokens, sent'[i].times > 0
                 PROVE  /\ issued'[i[1]] >= 1
                        /\ HasSession' /\ disk'.session.login = i[1] => i[2] <= disk'.session.token
                        /\ HasSession' /\ TokenOf(disk'.session) = i /\ disk'.session.status = "uncertain"
                           => /\ sent'[i].times <= disk'.session.attempts
                              /\ disk'.session.started <= sent'[i].first
      BY DEF SentRecorded, TokenOf
    <3>1. CASE i = t
      <4>1. i[1] = s.login /\ i[2] = s.token
        BY <2>3, <3>1
      <4>2. QED
        BY <1>1, <1>2, <2>6, <2>8, <3>1, <4>1
    <3>2. CASE i # t
      BY <1>1, <2>4, <3>2 DEF SessionInv, SentRecorded, HasSession
    <3>3. QED
      BY <3>1, <3>2
  <2>11. SentIsFenced' /\ ReplaysCounted'
    <3>1. SentIsFenced'
      <4> SUFFICES ASSUME NEW i \in Tokens, sent'[i].times > 0, TokenOf(disk.session) = i
                   PROVE  disk.session.status \in {"uncertain", "reauth"}
        BY <1>1 DEF SentIsFenced, TokenOf
      <4>1. QED
        BY <2>5
    <3>2. MaxAttempts \in Nat
      BY StoreAssumption
    <3>3. ReplaysCounted'
      BY <2>3, <2>4, <2>5, <2>7, <2>8, <3>2 DEF SessionInv, ReplaysCounted
    <3>4. QED
      BY <3>1, <3>3
  <2>12. TokensKept'
    <3> SUFFICES ASSUME Faultless' PROVE disk.session.token >= issued[disk.session.login]
      BY <1>1 DEF TokensKept
    <3>1. Faultless
      BY <1>1 DEF Faultless
    <3>2. QED
      BY <1>1, <1>2, <3>1, LatestOnDisk
  <2>13. AtPlace(p)'
    <3>1. Working(p)'
      BY <1>1, <1>2, <1>3, <2>2 DEF Working, HasSession, At, WithSession
    <3>2. Stage(p)'
      BY <1>1, <2>2, <2>5 DEF Stage, At
    <3>3. Chosen(p)' /\ Drafted(p)' /\ Unmoved(p)' /\ BaseSound(p)' /\ Confirming(p)'
      BY <1>1, <1>2, <1>3, <2>2 DEF Chosen, Drafted, Unmoved, BaseSound,
         Confirming, LoginOn, At, Saves
    <3>4. QED
      BY <3>1, <3>2, <3>3 DEF AtPlace
  <2>14. \A l \in Logins \ LoginOn(disk) : \A k \in 1..MaxTokens : sent'[<<l, k>>] = sent[<<l, k>>]
    <3> SUFFICES ASSUME NEW l \in Logins \ LoginOn(disk), NEW k \in 1..MaxTokens
                 PROVE  sent'[<<l, k>>] = sent[<<l, k>>]
      OBVIOUS
    <3>1. <<l, k>> \in Tokens /\ l # s.login
      BY <1>2 DEF Tokens, LoginOn, HasSession
    <3>2. <<l, k>> # t
      BY <2>3, <3>1
    <3>3. QED
      BY <2>4, <3>1, <3>2
  <2>15. LoginOn(disk)' = LoginOn(disk) /\ LoginOn(disk) \subseteq Logins
    BY <1>1, <1>2 DEF LoginOn, Session
  <2>16. ~ Fresh(p)' /\ me'[p].picked = me[p].picked
    BY <2>2 DEF Fresh, Saves
  <2>17. (\A q \in Procs \ {p} : Hand(q)') /\ FreshUnseen(p)' /\ PickedIssued(p)'
    BY <1>1, <2>2, <2>14, <2>15, <2>16, OthersKept
  <2>18. QED
    BY <2>9, <2>10, <2>11, <2>12, <2>13, <2>17 DEF SessionInv, Hand
<1>6. QED
  BY <1>2, <1>4, <1>5 DEF Dispatch

\* The session of rotated tokens, written as a change of the old one.
LEMMA SessionRenewed ==
    ASSUME NEW s \in Session, NEW token, NEW expires
    PROVE  [s EXCEPT !.status = "pending", !.started = 0, !.attempts = 0, !.token = token,
                     !.expires = expires]
           = [login |-> s.login, token |-> token, expires |-> expires, status |-> "pending",
              started |-> 0, attempts |-> 0]
<1> DEFINE a == [s EXCEPT !.status = "pending", !.started = 0, !.attempts = 0, !.token = token,
                          !.expires = expires]
           b == [login |-> s.login, token |-> token, expires |-> expires, status |-> "pending",
                 started |-> 0, attempts |-> 0]
           R == [login : {s.login}, token : {token}, expires : {expires}, status : {"pending"},
                 started : {0}, attempts : {0}]
<1>1. a \in R
  BY DEF Session
<1>2. b \in R
  OBVIOUS
<1>3. \A x, y \in R : x = y
  OBVIOUS
<1> HIDE DEF a, b, R
<1>4. a = b
  BY <1>1, <1>2, <1>3
<1>5. QED
  BY <1>4 DEF a, b

\* New tokens arrive and are drafted as pending.
LEMMA RotatedInv ==
    ASSUME SessionInv, NEW p \in Procs, Rotated(p) PROVE SessionInv'
<1> DEFINE s == disk.session
           n == NewSession(s.login, s.token + 1, "pending")
           draft == [revision |-> disk.revision + 1, session |-> n]
           r == [me[p] EXCEPT !.pc = "checking", !.draft = draft,
                              !.resume = "verifyingPending", !.outcome = "none"]
<1>1. /\ At(p, "asking") /\ me[p].pc \in WithSession /\ me[p].pc \in Inside
      /\ UNCHANGED <<disk, holder, now, sent, vouched, revoked, spent>>
  BY DEF Rotated, WithSession, At, Inside
<1>2. /\ me[p] \in Record /\ now \in Nat /\ me[p].cur = disk /\ HasSession /\ s \in Session
      /\ disk \in Snapshot
      /\ s.token \in 1..MaxTokens /\ me[p].pc \in Inside \ Saves /\ me[p].outcome # "confirmed"
      /\ me[p].goal \in {"logout", "forget"} => LoginOn(me[p].picked) = LoginOn(disk)
      /\ me[p].goal \in {"resolve", "logout"} /\ me[p].base \in Session
  <2>1. me[p] \in Record /\ me[p].goal \notin {"forget", "login"}
    BY <1>1, InHand DEF At
  <2>2. me[p].goal \in {"resolve", "logout"}
    BY <2>1 DEF Record, Goals
  <2>3. QED
    BY <1>1, <2>2, InHand
<1>3. /\ me \in [Procs -> Record] /\ issued \in [Logins -> 0..MaxTokens] /\ MaxTokens \in Nat
      /\ vouched' \subseteq Tokens /\ revoked' \subseteq Logins /\ Stage(p) /\ BaseSound(p) /\ FileSound
      /\ s.login \in Logins
  BY <1>1, <1>2, SessionAssumption DEF SessionInv, TypeOK, Hand, AtPlace,
     Session
<1>4. /\ s.token < MaxTokens /\ s.status = "uncertain"
      /\ issued' = [issued EXCEPT ![s.login] = IF @ > s.token THEN @ ELSE s.token + 1]
      /\ me' = [me EXCEPT ![p] = r]
  BY <1>1, <1>2, <1>3 DEF Rotated, Saving, Stage, At
<1>5. /\ n \in Session /\ n # NoSession
      /\ n = [s EXCEPT !.status = "pending", !.started = 0, !.attempts = 0, !.token = s.token + 1,
                       !.expires = n.expires]
  <2>1. n \in Session
    BY <1>2, <1>3, StoreAssumption, SessionAssumption DEF NewSession, Session,
       Statuses
  <2>2. n = [s EXCEPT !.status = "pending", !.started = 0, !.attempts = 0, !.token = s.token + 1,
                       !.expires = n.expires]
    <3>1. n.expires = now + Lifetime
      BY DEF NewSession
    <3>2. n = [login |-> s.login, token |-> s.token + 1, expires |-> n.expires,
               status |-> "pending", started |-> 0, attempts |-> 0]
      BY <3>1 DEF NewSession
    <3> HIDE DEF n
    <3>3. s \in Session
      BY <1>2
    <3> DEFINE k == s.token + 1
               e == n.expires
    <3> HIDE DEF s, k, e
    <3>4. [s EXCEPT !.status = "pending", !.started = 0, !.attempts = 0, !.token = k, !.expires = e]
          = [login |-> s.login, token |-> k, expires |-> e,
             status |-> "pending", started |-> 0, attempts |-> 0]
      BY <3>3, SessionRenewed
    <3>5. QED
      BY <3>2, <3>4 DEF k, e
  <2>3. QED
    BY <2>1, <2>2, StoreAssumption
<1> HIDE DEF n
<1>6. /\ draft \in Snapshot /\ draft.session = n /\ draft.revision = disk.revision + 1
      /\ "checking" \in Inside /\ "verifyingPending" \in Inside /\ "none" \in Outcomes
  BY <1>2, <1>5, SnapshotOf DEF Inside, Outcomes
<1> HIDE DEF draft
<1>7. r \in Record
  BY <1>2, <1>6 DEF Record
<1>8. /\ me' \in [Procs -> Record] /\ me'[p] = r /\ \A q \in Procs \ {p} : me'[q] = me[q]
      /\ r.pc = "checking" /\ r.picked = me[p].picked /\ r.cur = me[p].cur /\ r.goal = me[p].goal
      /\ r.base = me[p].base /\ r.outcome = "none" /\ r.draft = draft /\ r.resume = "verifyingPending"
  BY <1>2, <1>3, <1>4, <1>7 DEF Record
<1> HIDE DEF r
<1>9. /\ issued' \in [Logins -> 0..MaxTokens]
      /\ issued'[s.login] = IF issued[s.login] > s.token THEN issued[s.login] ELSE s.token + 1
      /\ \A l \in Logins \ {s.login} : issued'[l] = issued[l]
      /\ \A l \in Logins : issued[l] >= 1 => issued'[l] >= 1
  <2>1. s.token + 1 \in 0..MaxTokens /\ issued[s.login] \in 0..MaxTokens
    BY <1>2, <1>3, <1>4
  <2>2. QED
    BY <1>2, <1>3, <1>4, <2>1
<1>10. TypeOK' /\ LockHeld' /\ ReadyIsVouched' /\ SentIsFenced' /\ ReplaysCounted'
  <2>1. r.pc \in Inside
    BY <1>8 DEF Inside
  <2>2. QED
    BY <1>1, <1>8, <1>9, <2>1 DEF SessionInv, TypeOK, LockHeld,
       ReadyIsVouched, HasSession, TokenOf,
       SentIsFenced, ReplaysCounted
<1>11. FileSound'
  BY <1>1, <1>2, <1>3, <1>9 DEF FileSound, HasSession
<1>12. SentRecorded'
  <2>1. \A t \in Tokens : t[1] \in Logins
    BY DEF Tokens
  <2>2. QED
    BY <1>1, <1>9, <2>1 DEF SessionInv, SentRecorded, HasSession
<1>13. Rotating(p)'
  <2>1. /\ me'[p].draft.session # NoSession
        /\ me'[p].draft.session = [disk'.session EXCEPT !.status = "pending", !.started = 0,
             !.attempts = 0, !.token = disk'.session.token + 1, !.expires = me'[p].draft.session.expires]
    BY <1>1, <1>5, <1>6, <1>8
  <2>2. Renewing(p)'
    BY <1>1, <1>2, <1>6, <1>8, StoreAssumption DEF Renewing, HasSession
  <2>3. /\ me'[p].resume = "verifyingPending" /\ disk'.session.status = "uncertain"
        /\ disk'.session.token < MaxTokens
    BY <1>1, <1>4, <1>8
  <2>4. QED
    BY <2>1, <2>2, <2>3 DEF Rotating
<1>14. TokensKept'
  <2> SUFFICES ASSUME Faultless'
               PROVE  me'[p].pc \in Saves /\ Rotating(p)' /\ me'[p].draft.session.token = issued'[disk'.session.login]
    BY DEF TokensKept
  <2>1. s.token >= issued[s.login]
    BY <1>1, <1>2, LatestOnDisk DEF Faultless
  <2>2. issued'[s.login] = s.token + 1
    BY <1>2, <1>3, <1>9, <2>1
  <2>3. n.token = s.token + 1
    BY <1>2, <1>5 DEF Session
  <2>4. QED
    BY <1>1, <1>6, <1>8, <1>13, <2>2, <2>3 DEF Saves
<1>15. AtPlace(p)'
  <2>1. Working(p)' /\ Stage(p)' /\ Unmoved(p)' /\ Drafted(p)'
    BY <1>8, <1>13 DEF Working, Stage, Unmoved, At, WithSession, Drafted
  <2>2. Chosen(p)' /\ BaseSound(p)' /\ Confirming(p)'
    BY <1>1, <1>2, <1>3, <1>8 DEF Chosen, BaseSound, Confirming, LoginOn
  <2>3. QED
    BY <2>1, <2>2 DEF AtPlace
<1>16. LoginOn(disk)' = LoginOn(disk) /\ LoginOn(disk) = {s.login}
  BY <1>1, <1>2 DEF LoginOn, HasSession
<1>17. ~ Fresh(p)' /\ me'[p].picked = me[p].picked
  BY <1>2, <1>8 DEF Fresh
<1>18. (\A q \in Procs \ {p} : Hand(q)') /\ FreshUnseen(p)' /\ PickedIssued(p)'
  BY <1>1, <1>3, <1>8, <1>9, <1>16, <1>17, OthersKept
<1>19. QED
  BY <1>10, <1>11, <1>12, <1>14, <1>15, <1>18 DEF SessionInv, Hand

(* A draft that keeps the login.                                            *)
KeepsLogin(p) ==
    LET s == disk.session
        n == me[p].draft.session
    IN
    /\ HasSession /\ n \in Session /\ n.login = s.login
    /\ me[p].goal \in {"resolve", "logout"} /\ me[p].base # NoSession
    /\ n.token \in 1..MaxTokens /\ n.token >= s.token
    /\ n.started <= now
    /\ \/ /\ me[p].resume = "dispatching" /\ n.status = "uncertain" /\ n.token = s.token
          /\ s.status # "reauth"
          /\ n.attempts > 0
          /\ s.status = "uncertain" => n.started = s.started /\ n.attempts = s.attempts + 1
       \/ /\ me[p].resume = "verifyingPending" /\ n.status = "pending" /\ n.token = s.token + 1
       \/ /\ me[p].resume = "releasing" /\ n.status = "reauth" /\ n.token = s.token
       \/ /\ me[p].resume = "settling" /\ n.status = "ready" /\ n.token = s.token
          /\ s.status = "pending" /\ TokenOf(s) \in vouched

\* The draft of a process about to rename is a tombstone, a login, or a
\* session of the same login with the same or the next token.
LEMMA DraftFields ==
    ASSUME SessionInv, NEW p \in Procs, me[p].pc \in Saves
    PROVE  \/ Ending(p)
           \/ /\ SigningIn(p) /\ me[p].draft.session \in Session
              /\ Fresh(p) /\ FreshUnseen(p)
           \/ KeepsLogin(p)
<1>1. /\ Drafted(p) /\ me[p] \in Record /\ disk \in Snapshot /\ FileSound /\ FreshUnseen(p) /\ now \in Nat
      /\ issued \in [Logins -> 0..MaxTokens]
  BY DEF SessionInv, TypeOK, Hand, AtPlace
<1>2. CASE SigningIn(p)
  <2>1. Fresh(p) /\ me[p].draft.session = me[p].cur.session
    BY <1>2 DEF SigningIn, Fresh
  <2>2. me[p].cur.session \in Session
    BY <1>1, <2>1 DEF FreshUnseen, Record, Snapshot
  <2>3. QED
    BY <1>1, <1>2, <2>1, <2>2
<1>3. ASSUME Renewing(p)
      PROVE  /\ disk.session \in Session /\ HasSession /\ disk.session.token \in 1..MaxTokens
             /\ disk.session.started <= now /\ me[p].draft.session \in Session \cup {NoSession}
             /\ me[p].goal \in {"resolve", "logout"} /\ me[p].base # NoSession
  BY <1>1, <1>3 DEF Renewing, HasSession, Snapshot, FileSound, Record
<1> DEFINE s == disk.session
           n == me[p].draft.session
<1>4. CASE FencingOff(p)
  <2>1. Renewing(p) /\ me[p].resume = "dispatching" /\ s.status # "reauth"
    BY <1>4 DEF FencingOff
  <2>2. s \in Session /\ now \in Nat /\ MaxAttempts \in Nat
    BY <1>1, <1>3, <2>1, StoreAssumption
  <2>3. PICK since \in 0..now, k \in 1..MaxAttempts :
          /\ n = [s EXCEPT !.status = "uncertain", !.started = since, !.attempts = k]
          /\ IF s.status = "uncertain" THEN since = s.started /\ k = s.attempts + 1 ELSE k = 1
    BY <1>4 DEF FencingOff
  <2>4. n \in Session
    <3>1. "uncertain" \in Statuses /\ since \in Nat /\ k \in 0..MaxAttempts
      BY <2>2 DEF Statuses
    <3>2. QED
      BY <2>2, <2>3, <3>1 DEF Session
  <2>5. /\ n.login = s.login /\ n.token = s.token /\ n.status = "uncertain" /\ n.started = since
        /\ n.attempts = k
    BY <2>2, <2>3 DEF Session
  <2>6. /\ HasSession /\ me[p].goal \in {"resolve", "logout"} /\ me[p].base # NoSession
        /\ s.token \in 1..MaxTokens
    BY <1>3, <2>1
  <2>8. s.token \in Nat /\ k > 0 /\ since <= now
    BY <2>2, <2>3 DEF Session
  <2> HIDE DEF n, s
  <2>9. /\ n.token \in 1..MaxTokens /\ n.token >= s.token /\ n.started <= now /\ n.attempts > 0
        /\ s.status = "uncertain" => n.started = s.started /\ n.attempts = s.attempts + 1
    BY <2>3, <2>5, <2>6, <2>8
  <2>10. KeepsLogin(p)
    BY <2>1, <2>4, <2>5, <2>6, <2>9 DEF KeepsLogin, n, s
  <2>7. QED
    BY <2>10
<1>5. CASE Rotating(p)
  <2>1. /\ Renewing(p) /\ me[p].resume = "verifyingPending" /\ s.token < MaxTokens
        /\ n # NoSession
        /\ n = [s EXCEPT !.status = "pending", !.started = 0, !.attempts = 0,
                  !.token = s.token + 1, !.expires = n.expires]
    BY <1>5 DEF Rotating
  <2>2. s \in Session /\ n \in Session
    BY <1>3, <2>1
  <2>3. n.login = s.login /\ n.token = s.token + 1 /\ n.status = "pending" /\ n.started = 0
    BY <2>1, <2>2 DEF Session
  <2>4. n.token \in 1..MaxTokens /\ n.token >= s.token /\ n.started <= now
    BY <1>1, <1>3, <2>1, <2>3, SessionAssumption
  <2>5. QED
    BY <1>3, <2>1, <2>2, <2>3, <2>4 DEF KeepsLogin
<1>6. CASE Rejecting(p)
  <2>1. /\ Renewing(p) /\ me[p].resume = "releasing"
        /\ n = [s EXCEPT !.status = "reauth", !.started = 0, !.attempts = 0]
    BY <1>6 DEF Rejecting
  <2>2. s \in Session
    BY <1>3, <2>1
  <2>3. "reauth" \in Statuses /\ 0 \in Nat /\ 0 \in 0..MaxAttempts
    BY StoreAssumption DEF Statuses
  <2>4. n \in Session
    BY <2>1, <2>2, <2>3 DEF Session
  <2>5. n.login = s.login /\ n.token = s.token /\ n.status = "reauth" /\ n.started = 0
    BY <2>1, <2>2 DEF Session
  <2>6. QED
    BY <1>1, <1>3, <2>1, <2>4, <2>5 DEF KeepsLogin
<1>7. CASE Vouching(p)
  <2>1. /\ Renewing(p) /\ me[p].resume = "settling" /\ s.status = "pending" /\ TokenOf(s) \in vouched
        /\ n = [s EXCEPT !.status = "ready"]
    BY <1>7 DEF Vouching
  <2>2. s \in Session
    BY <1>3, <2>1
  <2>3. n \in Session
    BY <2>1, <2>2 DEF Session, Statuses
  <2>4. n.login = s.login /\ n.token = s.token /\ n.status = "ready" /\ n.started = s.started
    BY <2>1, <2>2 DEF Session
  <2>5. QED
    BY <1>3, <2>1, <2>3, <2>4 DEF KeepsLogin
<1>8. Ending(p) \/ SigningIn(p) \/ FencingOff(p) \/ Rotating(p) \/ Rejecting(p) \/ Vouching(p)
  BY <1>1 DEF Drafted
<1> HIDE DEF s, n
<1>9. QED
  BY <1>2, <1>4, <1>5, <1>6, <1>7, <1>8

\* The file after the rename: sent tokens stay fenced, the count of requests
\* carries over, ready tokens are vouched for.
LEMMA RenamedFile ==
    ASSUME SessionInv, NEW p \in Procs, me[p].pc \in Saves, me[p].pc \in Inside,
           disk' = me[p].draft, UNCHANGED <<now, issued, sent, vouched>>
    PROVE  FileSound' /\ SentRecorded' /\ SentIsFenced' /\ ReplaysCounted' /\ ReadyIsVouched'
<1> DEFINE s == disk.session
           n == me[p].draft.session
<1>1. /\ FileSound /\ SentRecorded /\ SentIsFenced /\ ReplaysCounted /\ ReadyIsVouched
      /\ sent \in [Tokens -> [times : Nat, first : Nat]] /\ now \in Nat /\ disk \in Snapshot
      /\ disk'.session = n
  BY DEF SessionInv, TypeOK
<1>2. ReplaysCounted'
  BY <1>1 DEF ReplaysCounted
<1>3. CASE Ending(p)
  <2>1. n = NoSession
    BY <1>3 DEF Ending, Tombstone
  <2>2. QED
    BY <1>1, <1>2, <2>1 DEF FileSound, SentRecorded, SentIsFenced,
       ReadyIsVouched, HasSession
<1>4. CASE SigningIn(p) /\ n \in Session /\ Fresh(p) /\ FreshUnseen(p)
  <2>1. /\ n = me[p].cur.session /\ TokenOf(n) \in vouched
        /\ n.status = "ready" /\ n.token = 1 /\ n.started = 0 /\ issued[n.login] = 1
        /\ \A k \in 1..MaxTokens : sent[<<n.login, k>>].times = 0
    BY <1>4 DEF SigningIn, FreshUnseen
  <2>2. \A t \in Tokens : sent[t].times > 0 => t[1] # n.login
    BY <2>1 DEF Tokens
  <2>3. FileSound'
    BY <1>1, <2>1, SessionAssumption DEF FileSound, HasSession
  <2>4. SentRecorded'
    BY <1>1, <2>2 DEF SentRecorded, TokenOf
  <2>5. SentIsFenced'
    <3>1. TokenOf(n)[1] = n.login
      BY DEF TokenOf
    <3>2. QED
      BY <1>1, <2>2, <3>1 DEF SentIsFenced, TokenOf
  <2>6. ReadyIsVouched'
    BY <1>1, <2>1 DEF ReadyIsVouched, TokenOf
  <2>7. QED
    BY <1>2, <2>3, <2>4, <2>5, <2>6
<1>5. CASE KeepsLogin(p)
  <2>1. /\ HasSession /\ n \in Session /\ n.login = s.login /\ s \in Session
        /\ n.token \in 1..MaxTokens /\ n.token >= s.token /\ s.token \in 1..MaxTokens
        /\ n.started <= now
    BY <1>1, <1>5 DEF KeepsLogin, Snapshot, HasSession, FileSound
  <2>2. \/ /\ n.status = "uncertain" /\ n.token = s.token
           /\ s.status # "reauth"
           /\ s.status = "uncertain" => n.started = s.started /\ n.attempts = s.attempts + 1
        \/ n.status = "pending" /\ n.token = s.token + 1
        \/ n.status = "reauth"
        \/ n.status = "ready" /\ n.token = s.token /\ s.status = "pending" /\ TokenOf(s) \in vouched
    BY <1>5 DEF KeepsLogin
  <2>3. FileSound'
    BY <1>1, <2>1 DEF FileSound, HasSession
  <2>4. ReadyIsVouched'
    <3>1. n.status = "ready" => TokenOf(n) = TokenOf(s) /\ TokenOf(s) \in vouched
      BY <2>1, <2>2 DEF TokenOf
    <3>2. QED
      BY <1>1, <3>1 DEF ReadyIsVouched, TokenOf
  <2> HIDE DEF n, s
  <2>5. ASSUME NEW t \in Tokens, sent[t].times > 0
        PROVE  /\ issued[t[1]] >= 1
               /\ n.login = t[1] => t[2] <= n.token
               /\ TokenOf(n) = t /\ n.status = "uncertain"
                  => sent[t].times <= n.attempts /\ n.started <= sent[t].first
               /\ TokenOf(n) = t => n.status \in {"uncertain", "reauth"}
    <3>1. /\ issued[t[1]] >= 1
          /\ s.login = t[1] => t[2] <= s.token
          /\ TokenOf(s) = t /\ s.status = "uncertain"
                  => sent[t].times <= s.attempts /\ s.started <= sent[t].first
      BY <1>1, <2>1, <2>5 DEF SentRecorded, s, TokenOf
    <3>2. TokenOf(s) = t => s.status \in {"uncertain", "reauth"}
      BY <1>1, <2>1, <2>5 DEF SentIsFenced, s, TokenOf, HasSession
    <3>3. /\ t[2] \in 1..MaxTokens /\ s.attempts \in Nat /\ sent[t].times \in Nat
          /\ n.token \in Nat /\ s.token \in Nat /\ MaxTokens \in Nat
      BY <1>1, <2>1, SessionAssumption, StoreAssumption DEF Tokens, Session
    <3>4. n.login = t[1] => t[2] <= n.token
      BY <2>1, <3>1, <3>3
    <3>5. ASSUME TokenOf(n) = t
          PROVE  /\ n.status \in {"uncertain", "reauth"}
                 /\ n.status = "uncertain" => sent[t].times <= n.attempts /\ n.started <= sent[t].first
      <4>1. t[1] = n.login /\ t[2] = n.token
        BY <3>5 DEF TokenOf
      <4>2. n.token = s.token /\ TokenOf(s) = t
        BY <2>1, <3>1, <3>3, <3>5, <4>1 DEF TokenOf
      <4>3. s.status \in {"uncertain", "reauth"}
        BY <3>2, <4>2
      <4>4. n.status \in {"uncertain", "reauth"}
        BY <2>2, <3>3, <4>2, <4>3
      <4>5. n.status = "uncertain" => s.status = "uncertain" /\ n.started = s.started /\ n.attempts = s.attempts + 1
        BY <2>2, <4>3
      <4>6. QED
        BY <3>1, <3>3, <4>2, <4>4, <4>5
    <3>6. QED
      BY <3>1, <3>4, <3>5
  <2>6. SentRecorded' /\ SentIsFenced'
    <3>1. disk'.session = n /\ sent' = sent /\ issued' = issued
      BY <1>1 DEF n
    <3>2. QED
      BY <2>5, <3>1 DEF SentRecorded, SentIsFenced, TokenOf
  <2>7. QED
    BY <1>2, <2>3, <2>4, <2>6
<1>6. QED
  BY <1>3, <1>4, <1>5, DraftFields

\* The rename keeps the invariant, whether or not the inspection and the
\* sync after it succeed.
LEMMA RenameInv ==
    ASSUME SessionInv, NEW p \in Procs, Rename(p), UNCHANGED world PROVE SessionInv'
<1> DEFINE s == disk.session
           d == me[p].draft
           n == me[p].draft.session
<1>1. /\ me[p].pc = "renaming" /\ me[p].pc \in Saves /\ me[p].pc \in Inside
      /\ disk' = d /\ holder' = holder
      /\ UNCHANGED <<now, issued, sent, vouched, revoked, spent>>
  BY DEF Rename, Saves, Inside, world
<1>2. /\ me \in [Procs -> Record] /\ me[p] \in Record /\ disk \in Snapshot /\ d \in Snapshot
      /\ AtPlace(p) /\ LockHeld /\ FileSound
  BY DEF SessionInv, TypeOK, Hand, Record
<1> DEFINE on == [me[p] EXCEPT !.pc = me[p].resume, !.cur = d]
           off == [me[p] EXCEPT !.pc = "releasing", !.outcome = "failed"]
<1>3. \/ Ending(p)
      \/ SigningIn(p) /\ n \in Session /\ Fresh(p) /\ FreshUnseen(p)
      \/ KeepsLogin(p)
  BY <1>1, DraftFields
<1>4. me[p].resume \in {"releasing", "settling", "dispatching", "verifyingPending"}
  BY <1>3 DEF Ending, SigningIn, KeepsLogin
<1>5. on \in Record /\ off \in Record
  <2>1. on \in Record
    BY <1>2 DEF Record
  <2>2. "releasing" \in Inside /\ "failed" \in Outcomes
    BY DEF Inside, Outcomes
  <2>3. off \in Record
    BY <1>2, <2>2 DEF Record
  <2>4. QED
    BY <2>1, <2>3
<1>6. /\ on.pc = me[p].resume /\ on.cur = d /\ on.outcome = me[p].outcome
      /\ on.goal = me[p].goal /\ on.base = me[p].base /\ on.picked = me[p].picked
      /\ off.pc = "releasing" /\ off.outcome = "failed"
      /\ off.goal = me[p].goal /\ off.base = me[p].base /\ off.picked = me[p].picked
  BY <1>2 DEF Record
<1>7. me' = [me EXCEPT ![p] = on] \/ me' = [me EXCEPT ![p] = off]
  BY <1>1 DEF Rename
<1> HIDE DEF on, off
<1>8. /\ me' \in [Procs -> Record] /\ me'[p] \in {on, off} /\ \A q \in Procs \ {p} : me'[q] = me[q]
      /\ me'[p].goal = me[p].goal /\ me'[p].base = me[p].base /\ me'[p].picked = me[p].picked
      /\ me'[p].pc \in {"releasing", "settling", "dispatching", "verifyingPending"}
  BY <1>2, <1>4, <1>5, <1>6, <1>7
<1>9. TypeOK' /\ LockHeld'
  <2>1. me'[p].pc \in Inside
    BY <1>8 DEF Inside
  <2>2. LockHeld'
    BY <1>1, <1>2, <1>8, <2>1 DEF LockHeld
  <2>3. QED
    BY <1>1, <1>2, <1>8, <2>2 DEF SessionInv, TypeOK
<1>10. FileSound' /\ SentRecorded' /\ SentIsFenced' /\ ReplaysCounted' /\ ReadyIsVouched'
  BY <1>1, RenamedFile
<1>11. TokensKept'
  <2> SUFFICES ASSUME Faultless', HasSession' PROVE disk'.session.token >= issued[disk'.session.login]
    BY <1>1 DEF TokensKept
  <2>1. Faultless /\ disk'.session = n /\ n # NoSession
    BY <1>1 DEF Faultless, HasSession
  <2>2. CASE Ending(p)
    BY <2>1, <2>2 DEF Ending, Tombstone
  <2>3. CASE SigningIn(p) /\ FreshUnseen(p) /\ Fresh(p)
    BY <2>1, <2>3 DEF SigningIn, FreshUnseen
  <2>4. CASE KeepsLogin(p)
    <3>1. \/ s.token >= issued[s.login]
          \/ Rotating(p) /\ n.token = issued[s.login]
      BY <1>1, <2>1, <2>4, LatestOnDisk DEF KeepsLogin
    <3>2. n.login = s.login /\ n.token >= s.token /\ n.token \in Nat /\ s.token \in Nat
      BY <1>2, <2>4, SessionAssumption DEF KeepsLogin, FileSound
    <3>3. issued[s.login] \in Nat
      <4>1. s.login \in Logins
        BY <1>2, <2>4 DEF KeepsLogin, HasSession, Snapshot, Session
      <4>2. QED
        BY <4>1, SessionAssumption DEF SessionInv, TypeOK
    <3>4. QED
      BY <2>1, <3>1, <3>2, <3>3
  <2>5. QED
    BY <1>3, <2>2, <2>3, <2>4
<1>12. ASSUME me'[p] = off PROVE AtPlace(p)'
  <2>1. BaseSound(p)'
    BY <1>2, <1>8 DEF AtPlace, BaseSound
  <2>2. AtPlace(p)'
    BY <1>6, <1>12, <2>1, Nowhere
  <2>3. QED
    BY <2>2
<1>13. ASSUME me'[p] = on PROVE AtPlace(p)'
  <2>1. /\ me'[p].pc = me[p].resume /\ me'[p].cur = disk' /\ me'[p].outcome = me[p].outcome
    BY <1>1, <1>6, <1>13
  <2>2. CASE Ending(p)
    <3>1. disk'.session = NoSession /\ me'[p].pc = "releasing"
      BY <1>1, <2>1, <2>2 DEF Ending, Tombstone
    <3>2. Working(p)' /\ Stage(p)' /\ Chosen(p)' /\ Drafted(p)' /\ Unmoved(p)'
      BY <3>1 DEF Working, Stage, Chosen, Drafted, Unmoved, At, WithSession,
         Saves
    <3>3. BaseSound(p)' /\ Confirming(p)'
      BY <1>1, <1>2, <1>8, <2>1, <3>1 DEF AtPlace, BaseSound, Confirming,
         LoginOn, Saves
    <3>4. QED
      BY <3>2, <3>3 DEF AtPlace
  <2>3. ASSUME n # NoSession PROVE BaseSound(p)' /\ Confirming(p)' /\ HasSession'
    BY <1>1, <1>2, <1>8, <2>1, <2>3 DEF AtPlace, BaseSound, Confirming,
       HasSession
  <2>4. CASE SigningIn(p) /\ n \in Session
    <3>1. me'[p].pc = "settling" /\ me'[p].goal = "login" /\ n # NoSession
      BY <1>8, <2>1, <2>4, StoreAssumption DEF SigningIn
    <3>2. Working(p)' /\ Stage(p)' /\ Chosen(p)' /\ Drafted(p)' /\ Unmoved(p)'
      BY <2>1, <2>3, <3>1 DEF Working, Stage, Chosen, Drafted, Unmoved, At,
         Saves
    <3>3. QED
      BY <2>3, <3>1, <3>2 DEF AtPlace
  <2>5. CASE KeepsLogin(p)
    <3>1. /\ n \in Session /\ n # NoSession /\ n.login = s.login /\ s # NoSession
          /\ me'[p].goal \in {"resolve", "logout"} /\ me'[p].base # NoSession
          /\ n = disk'.session
      BY <1>1, <1>8, <2>5, StoreAssumption DEF KeepsLogin, HasSession
    <3>2. Working(p)' /\ Drafted(p)' /\ Unmoved(p)'
      BY <1>8, <2>1, <2>3, <3>1 DEF Working, Drafted, Unmoved, At, Saves
    <3>3. Chosen(p)'
      <4>1. LoginOn(disk') = LoginOn(disk)
        BY <3>1 DEF LoginOn
      <4>2. me[p].goal \in {"logout", "forget"} => LoginOn(me[p].picked) = LoginOn(disk)
        BY <1>1, <1>2 DEF AtPlace, Chosen
      <4>3. QED
        BY <1>8, <4>1, <4>2 DEF Chosen, LoginOn
    <3>4. Stage(p)'
      <4>1. /\ me'[p].pc = "verifyingPending" => n.status = "pending"
            /\ me'[p].pc = "dispatching" => n.status = "uncertain"
        BY <2>1, <2>5 DEF KeepsLogin
      <4>2. me'[p].pc = "dispatching" => sent[TokenOf(n)].times < n.attempts
        <5> SUFFICES ASSUME me'[p].pc = "dispatching" PROVE sent[TokenOf(n)].times < n.attempts
          OBVIOUS
        <5>1. /\ n.token = s.token /\ s.status # "reauth" /\ n.attempts > 0
              /\ s.status = "uncertain" => n.attempts = s.attempts + 1
          BY <2>1, <2>5 DEF KeepsLogin
        <5>2. s \in Session /\ s.attempts \in Nat /\ s.login \in Logins /\ s.token \in 1..MaxTokens
          BY <1>2, <3>1, StoreAssumption DEF Snapshot, Session, FileSound,
             HasSession
        <5>3. TokenOf(n) = TokenOf(s) /\ TokenOf(s) \in Tokens
          BY <3>1, <5>1, <5>2 DEF TokenOf, Tokens
        <5>4. sent[TokenOf(s)].times \in Nat
          BY <5>3 DEF SessionInv, TypeOK
        <5>5. sent[TokenOf(s)].times > 0 => s.status = "uncertain" /\ sent[TokenOf(s)].times <= s.attempts
          BY <3>1, <5>1, <5>3 DEF SessionInv, SentIsFenced, SentRecorded,
             HasSession
        <5>6. QED
          BY <5>1, <5>2, <5>3, <5>4, <5>5
      <4>3. QED
        BY <1>1, <1>8, <3>1, <4>1, <4>2 DEF Stage, At
    <3>5. QED
      BY <2>3, <3>1, <3>2, <3>3, <3>4 DEF AtPlace
  <2>6. QED
    BY <1>3, <2>2, <2>4, <2>5
<1>14. AtPlace(p)'
  BY <1>8, <1>12, <1>13
<1>15. (\A q \in Procs \ {p} : Hand(q)') /\ FreshUnseen(p)' /\ PickedIssued(p)'
  <2>1. ~ Fresh(p)'
    BY <1>8 DEF Fresh, Saves
  <2>2. LoginOn(disk)' \subseteq Logins
    BY <1>1, <1>2 DEF LoginOn, Snapshot, Session
  <2>3. \A l \in LoginOn(disk)' \ LoginOn(disk) : Fresh(p) /\ me[p].cur.session.login = l
    BY <1>1, <1>3 DEF LoginOn, Ending, SigningIn, KeepsLogin, Tombstone,
       HasSession
  <2>4. /\ \A l \in Logins : issued[l] >= 1 => issued'[l] >= 1
        /\ \A l \in Logins \ LoginOn(disk) :
               /\ issued'[l] = issued[l]
               /\ \A k \in 1..MaxTokens : sent'[<<l, k>>] = sent[<<l, k>>]
    BY <1>1
  <2>5. QED
    BY <1>1, <1>8, <2>1, <2>2, <2>3, <2>4, OthersKept
<1>16. QED
  BY <1>9, <1>10, <1>11, <1>14, <1>15 DEF SessionInv, Hand

\* Only a request is a sending; only a rename changes the file.
LEMMA StepsApart ==
    ASSUME [Next]_vars
    PROVE  \/ disk' = disk /\ sent' = sent
           \/ \E p \in Procs : Dispatch(p)
           \/ \E p \in Procs : Rename(p) /\ UNCHANGED world
<1>1. CASE UNCHANGED vars
  BY <1>1 DEF vars, world
<1>2. CASE Tick
  BY <1>2 DEF Tick
<1>3. ASSUME NEW p \in Procs, SaveFault(p) \/ Crash(p) \/ \E goal \in Goals : Start(p, goal)
      PROVE  disk' = disk /\ sent' = sent
  BY <1>3 DEF SaveFault, SaveFails, Crash, Start
<1>4. ASSUME NEW p \in Procs, StoreStep(p) /\ UNCHANGED world
      PROVE  (disk' = disk /\ sent' = sent) \/ (Rename(p) /\ UNCHANGED world)
  BY <1>4 DEF StoreStep, Lock, LockTimeout, CheckSave, Release, world
<1>5. ASSUME NEW p \in Procs,
             \/ Choose(p) \/ Configure(p) \/ TakeSnapshot(p) \/ Approve(p)
             \/ EnterResolve(p) \/ EnterLogin(p) \/ EnterForget(p) \/ EnterLogout(p)
             \/ Resolve(p) \/ Fence(p)
      PROVE  disk' = disk /\ sent' = sent
  BY <1>5 DEF Choose, Configure, TakeSnapshot, Approve, EnterResolve,
     EnterLogin, EnterForget,
     EnterLogout, Resolve, Fence, world
<1>6. ASSUME NEW p \in Procs,
             \/ Rotated(p) \/ Refused(p) \/ Unclear(p) \/ NotNow(p) \/ Wake(p)
             \/ Verified(p) \/ Unauthorized(p) \/ Settle(p)
             \/ Reread(p) \/ Revoked(p) \/ RevokedUnheard(p) \/ GiveUp(p)
      PROVE  disk' = disk /\ sent' = sent
  BY <1>6 DEF Rotated, Refused, Unclear, NotNow, Wake, Verified, Unauthorized,
     Settle, Reread,
     Revoked, RevokedUnheard, GiveUp, world
<1>7. QED
  BY <1>1, <1>2, <1>3, <1>4, <1>5, <1>6 DEF Next, Step

\* Every step of every process, the clock, crashes and faults keep the
\* invariant.
LEMMA NextSession == SessionInv /\ [Next]_vars => SessionInv'
<1> SUFFICES ASSUME SessionInv, [Next]_vars PROVE SessionInv'
  OBVIOUS
<1>1. CASE UNCHANGED vars
  BY <1>1, TickInv DEF vars, world
<1>2. CASE Tick
  BY <1>2, TickInv DEF Tick
<1>3. ASSUME NEW p \in Procs, NEW goal \in Goals, Start(p, goal) PROVE SessionInv'
  BY <1>3, StartInv
<1>4. ASSUME NEW p \in Procs, SaveFault(p) \/ Crash(p) PROVE SessionInv'
  BY <1>4, SaveFaultInv, CrashInv
<1>5. ASSUME NEW p \in Procs, StoreStep(p), UNCHANGED world PROVE SessionInv'
  BY <1>5, LockInv, LockTimeoutInv, CheckSaveInv, RenameInv, ReleaseInv
     DEF StoreStep
<1>6. ASSUME NEW p \in Procs, Choose(p) \/ Configure(p) \/ TakeSnapshot(p) \/ Approve(p)
      PROVE  SessionInv'
  BY <1>6, WalksInv, ApproveInv
<1>7. ASSUME NEW p \in Procs,
             \/ EnterResolve(p) \/ EnterLogin(p) \/ EnterForget(p) \/ EnterLogout(p)
             \/ Resolve(p) \/ Fence(p) \/ Dispatch(p)
      PROVE  SessionInv'
  BY <1>7, EnterSessionInv, EnterLoginInv, EnterForgetInv, ResolveInv,
     FenceInv, DispatchInv
<1>8. ASSUME NEW p \in Procs,
             \/ Rotated(p) \/ Refused(p) \/ Unclear(p) \/ NotNow(p) \/ Wake(p)
             \/ Verified(p) \/ Unauthorized(p) \/ Settle(p)
      PROVE  SessionInv'
  BY <1>8, RotatedInv, RefusedInv, AnswersInv, VerifiedInv, SettleInv
<1>9. ASSUME NEW p \in Procs, Reread(p) \/ Revoked(p) \/ RevokedUnheard(p) \/ GiveUp(p)
      PROVE  SessionInv'
  BY <1>9, RereadInv, RevokedInv, GiveUpInv
<1>10. QED
  BY <1>1, <1>2, <1>3, <1>4, <1>5, <1>6, <1>7, <1>8, <1>9 DEF Next, Step

\* The inductive invariant holds at every moment, for any number of
\* processes, logins, rotations, attempts, crashes and faults.
THEOREM SessionInvariant == Spec => []SessionInv
BY InitSession, NextSession, PTL DEF Spec

\* A refresh token that was ever sent is never on disk as if it had not been
\* (oauth-session.ts:414): the next process finds the record.
THEOREM Fencing == Spec => []SentIsFenced
<1>1. SessionInv => SentIsFenced
  BY DEF SessionInv
<1>2. QED
  BY <1>1, SessionInvariant, PTL

\* A refresh token is sent at most MAX_REFRESH_ATTEMPTS times by all processes
\* together, across crashes: the count is saved before each request.
THEOREM Counting == Spec => []ReplaysCounted
<1>1. SessionInv => ReplaysCounted
  BY DEF SessionInv
<1>2. QED
  BY <1>1, SessionInvariant, PTL

\* A session is ready only with tokens the registry has accepted
\* (oauth-store.ts:81).
THEOREM Vouched == Spec => []ReadyIsVouched
<1>1. SessionInv => ReadyIsVouched
  BY DEF SessionInv
<1>2. QED
  BY <1>1, SessionInvariant, PTL

\* Tokens received from a refresh are on disk or being saved, unless a save
\* failed or a process died; cancellation does not lose them.
THEOREM Keeping == Spec => []RotationKept
<1>1. SessionInv => RotationKept
  <2> SUFFICES ASSUME SessionInv, Faultless, HasSession
               PROVE  \/ disk.session.token >= issued[disk.session.login]
                      \/ \E p \in Procs : /\ me[p].pc \in {"checking", "renaming"}
                                          /\ LoginOn(me[p].draft) = {disk.session.login}
                                          /\ me[p].draft.session.token = issued[disk.session.login]
    BY DEF RotationKept, Faultless, HasSession
  <2>1. ASSUME NEW p \in Procs, Rotating(p) PROVE LoginOn(me[p].draft) = {disk.session.login}
    <3>1. disk.session \in Session
      BY DEF SessionInv, TypeOK, Snapshot, HasSession
    <3>2. QED
      BY <2>1, <3>1 DEF Rotating, LoginOn, Session
  <2>2. QED
    BY <2>1 DEF SessionInv, TokensKept, Saves
<1>2. QED
  BY <1>1, SessionInvariant, PTL

\* A logout that reports the session as revoked: it is revoked, and never
\* comes back to the file.
THEOREM Confirmation == Spec => []ConfirmedIsOver
<1>1. SessionInv => ConfirmedIsOver
  BY DEF SessionInv, Hand, AtPlace, Confirming, ConfirmedIsOver, At
<1>2. QED
  BY <1>1, SessionInvariant, PTL

\* No refresh token is sent again after the replay window of its first
\* sending, whichever process sent it first and however long a save took.
THEOREM Window == Spec => ReplayedInWindow
<1> DEFINE InWindow == \A t \in Tokens :
              sent'[t].times > sent[t].times /\ sent[t].times > 0
              => now < sent[t].first + ReplayWindow
<1>1. ASSUME SessionInv, [Next]_vars PROVE InWindow
  <2> USE <1>1
  <2> SUFFICES ASSUME NEW t \in Tokens, sent'[t].times > sent[t].times, sent[t].times > 0
               PROVE  now < sent[t].first + ReplayWindow
    OBVIOUS
  <2>1. sent \in [Tokens -> [times : Nat, first : Nat]] /\ sent[t].times \in Nat /\ sent[t].first \in Nat
        /\ now \in Nat /\ ReplayWindow \in Nat
    BY SessionAssumption DEF SessionInv, TypeOK
  <2>2. CASE sent' = sent
    BY <2>1, <2>2
  <2>3. ASSUME NEW p \in Procs, Dispatch(p) PROVE now < sent[t].first + ReplayWindow
    <3>1. /\ At(p, "dispatching") /\ me[p].pc \in WithSession
      BY <2>3 DEF Dispatch, WithSession, At
    <3>2. me[p].cur = disk /\ HasSession /\ disk.session \in Session
      BY <3>1, InHand
    <3>3. CASE UNCHANGED sent
      BY <2>1, <3>3
    <3>4. CASE /\ ~ (now - disk.session.started >= ReplayWindow)
               /\ sent' = [sent EXCEPT ![TokenOf(disk.session)] =
                     [times |-> @.times + 1,
                      first |-> IF @.times = 0 THEN now ELSE @.first]]
      <4>1. t = TokenOf(disk.session)
        BY <2>1, <3>4
      <4>2. disk.session.status = "uncertain"
        BY <3>1 DEF SessionInv, Hand, AtPlace, Stage, At
      <4>3. disk.session.started <= sent[t].first
        BY <3>2, <4>1, <4>2 DEF SessionInv, SentRecorded
      <4>4. disk.session.started \in Nat /\ disk.session.started <= now
        BY <3>2 DEF SessionInv, FileSound, Session
      <4>5. QED
        BY <2>1, <3>4, <4>3, <4>4
    <3>5. QED
      BY <2>3, <3>2, <3>3, <3>4 DEF Dispatch
  <2>4. ASSUME NEW p \in Procs, Rename(p), UNCHANGED world PROVE sent' = sent
    BY <2>4 DEF world
  <2>5. QED
    BY <2>2, <2>3, <2>4, StepsApart
<1>2. QED
  BY <1>1, SessionInvariant, PTL DEF Spec, ReplayedInWindow

\* A session is removed or replaced only by a process that selected that
\* very session.
THEOREM Selection == Spec => OnlySelectedReplaced
<1> DEFINE Selected == \A l \in Logins :
              l \in LoginOn(disk) /\ l \notin LoginOn(disk')
              => \E p \in Procs : /\ At(p, "renaming") /\ me'[p] # me[p]
                                  /\ LoginOn(me[p].picked) = {l}
<1>1. ASSUME SessionInv, [Next]_vars PROVE Selected
  <2> USE <1>1
  <2> SUFFICES ASSUME NEW l \in Logins, l \in LoginOn(disk), l \notin LoginOn(disk')
               PROVE  \E p \in Procs : /\ At(p, "renaming") /\ me'[p] # me[p]
                                       /\ LoginOn(me[p].picked) = {l}
    OBVIOUS
  <2>1. PICK p \in Procs : Rename(p)
    <3>1. disk' # disk
      BY DEF LoginOn
    <3>2. \A p \in Procs : Dispatch(p) => disk' = disk
      BY DEF Dispatch
    <3>3. QED
      BY <3>1, <3>2, StepsApart
  <2>2. /\ At(p, "renaming") /\ me[p].pc \in Saves /\ disk' = me[p].draft /\ me[p] \in Record
        /\ me \in [Procs -> Record]
    BY <2>1 DEF Rename, At, Saves, SessionInv, TypeOK
  <2>3. LoginOn(disk) = {l} /\ disk.session # NoSession
    BY DEF LoginOn
  <2>4. LoginOn(me[p].picked) = {l}
    <3>1. CASE Ending(p)
      BY <2>2, <2>3, <3>1 DEF Ending, SessionInv, Hand, AtPlace, Chosen
    <3>2. CASE SigningIn(p)
      BY <2>3, <3>2 DEF SigningIn
    <3>3. CASE KeepsLogin(p)
      BY <2>2, <2>3, <3>3, StoreAssumption DEF KeepsLogin, LoginOn
    <3>4. QED
      BY <2>2, <3>1, <3>2, <3>3, DraftFields
  <2>5. me'[p].pc # "renaming"
    <3>1. me[p].resume # "renaming"
      BY <2>2, DraftFields DEF Ending, SigningIn, KeepsLogin
    <3>2. QED
      BY <2>1, <2>2, <3>1 DEF Rename, Record
  <2>6. QED
    BY <2>2, <2>4, <2>5 DEF At
<1>2. QED
  BY <1>1, SessionInvariant, PTL DEF Spec, OnlySelectedReplaced

\* All operations of all processes are steps of the life of one session
\* file: the check and the rename of a save are one step to any reader.
THEOREM Implementation == Spec => ImplementsLifecycle
<1>1. Init => Lifecycle!Init
  BY DEF Init, Nothing, Lifecycle!Init
<1>2. ASSUME SessionInv, [Next]_vars PROVE [Lifecycle!Next]_disk
  <2> USE <1>2
  <2> SUFFICES ASSUME disk' # disk PROVE Lifecycle!Next
    OBVIOUS
  <2>1. PICK p \in Procs : Rename(p)
    <3>1. \A p \in Procs : Dispatch(p) => disk' = disk
      BY DEF Dispatch
    <3>2. QED
      BY <3>1, StepsApart
  <2> DEFINE s == disk.session
             n == me[p].draft.session
  <2>2. /\ me[p].pc \in Saves /\ disk' = me[p].draft /\ me[p] \in Record
        /\ disk \in Snapshot /\ Drafted(p) /\ Acceptable(p)
    BY <2>1, DraftAcceptable DEF Rename, Saves, SessionInv, TypeOK, Hand,
       AtPlace
  <2>3. disk' = [revision |-> disk.revision + 1, session |-> n] /\ disk'.session = n
    BY <2>2 DEF Acceptable, Record, Snapshot
  <2>4. CASE Ending(p)
    BY <2>2, <2>3, <2>4 DEF Ending, Tombstone, HasSession, Lifecycle!Next,
       Lifecycle!SignOut,
       Lifecycle!Held, Lifecycle!Replace
  <2>5. CASE SigningIn(p)
    <3>1. FreshUnseen(p) /\ Fresh(p) /\ n = me[p].cur.session
      BY <2>2, <2>5 DEF SigningIn, Fresh, SessionInv, Hand
    <3>2. Lifecycle!SignIn
      BY <2>3, <3>1 DEF FreshUnseen, LoginOn, Lifecycle!SignIn,
         Lifecycle!Held, Lifecycle!Remains
    <3>3. QED
      BY <3>2 DEF Lifecycle!Next
  <2>6. ASSUME Renewing(p) PROVE s \in Session /\ s # NoSession
    BY <2>2, <2>6 DEF Renewing, HasSession, Snapshot
  <2>7. CASE FencingOff(p)
    <3>1. PICK since \in 0..now, k \in 1..MaxAttempts :
            /\ n = [s EXCEPT !.status = "uncertain", !.started = since, !.attempts = k]
            /\ IF s.status = "uncertain" THEN since = s.started /\ k = s.attempts + 1 ELSE k = 1
      BY <2>7 DEF FencingOff
    <3>2. s \in Session /\ s # NoSession /\ s.status # "reauth" /\ s.status \in Statuses
      BY <2>6, <2>7 DEF FencingOff, Session
    <3>3. CASE s.status = "uncertain"
      <4>1. n = [s EXCEPT !.attempts = @ + 1]
        BY <3>1, <3>2, <3>3 DEF Session
      <4>2. s.attempts < MaxAttempts
        BY <3>1, <3>2, <3>3, StoreAssumption DEF Session
      <4>3. QED
        BY <2>3, <3>2, <3>3, <4>1, <4>2 DEF Lifecycle!Next,
           Lifecycle!RepeatRefresh, Lifecycle!Is,
           Lifecycle!Held, Lifecycle!Replace
    <3>4. CASE s.status # "uncertain"
      <4>1. n.started = since /\ k = 1 /\ n # NoSession
        <5>1. n.started = since /\ k = 1 /\ n.status = "uncertain"
          BY <3>1, <3>2, <3>4 DEF Session
        <5>2. n \in Session
          <6>1. n \in Session \cup {NoSession} /\ KeepsLogin(p)
            BY <2>2, <2>7, DraftFields DEF Record, Snapshot, FencingOff,
               Renewing, Ending, SigningIn
          <6>2. QED
            BY <6>1 DEF KeepsLogin
        <5>3. QED
          BY <5>1, <5>2, StoreAssumption
      <4>2. n = [s EXCEPT !.status = "uncertain", !.started = disk'.session.started, !.attempts = 1]
        BY <2>3, <3>1, <4>1
      <4>3. s.status \in {"ready", "pending"}
        BY <3>2, <3>4 DEF Statuses
      <4>4. QED
        BY <2>3, <3>2, <4>1, <4>2, <4>3 DEF Lifecycle!Next,
           Lifecycle!BeginRefresh, Lifecycle!Is,
           Lifecycle!Held, Lifecycle!Replace, Lifecycle!Remains
    <3>5. QED
      BY <3>3, <3>4
  <2>8. CASE Rotating(p)
    BY <2>3, <2>6, <2>8 DEF Rotating, Lifecycle!Next, Lifecycle!Rotate,
       Lifecycle!Is, Lifecycle!Held,
       Lifecycle!Replace, Lifecycle!Remains
  <2>9. CASE Rejecting(p)
    BY <2>3, <2>6, <2>9 DEF Rejecting, Lifecycle!Next, Lifecycle!Reject,
       Lifecycle!Is, Lifecycle!Held,
       Lifecycle!Replace
  <2>10. CASE Vouching(p)
    BY <2>3, <2>6, <2>10 DEF Vouching, Lifecycle!Next, Lifecycle!Vouch,
       Lifecycle!Is, Lifecycle!Held,
       Lifecycle!Replace
  <2>11. QED
    BY <2>2, <2>4, <2>5, <2>7, <2>8, <2>9, <2>10 DEF Drafted
<1>3. QED
  BY <1>1, <1>2, SessionInvariant, PTL DEF Spec, ImplementsLifecycle,
     Lifecycle!Spec
=============================================================================
