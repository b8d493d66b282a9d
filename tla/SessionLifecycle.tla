-------------------------- MODULE SessionLifecycle --------------------------
(* What the session file of an origin goes through, as a reader of it may    *)
(* rely on: it is replaced as a whole, its generation grows by one, and its  *)
(* status moves only along the arrows below.                                 *)
(*                                                                           *)
(*   absent -> ready -> uncertain(1) -> ... -> uncertain(n)                  *)
(*   uncertain -> pending -> ready          uncertain -> reauth              *)
(*   pending -> uncertain(1)                                                 *)
(*   any -> ready of a new login            any session -> absent            *)
EXTENDS Naturals

CONSTANTS Logins, NoSession, MaxAttempts

VARIABLE disk       \* the generation, and the session or its absence

Held == disk.session
Is(statuses) == Held # NoSession /\ Held.status \in statuses

Replace(session) == disk' = [revision |-> disk.revision + 1, session |-> session]

\* The file goes on holding a session.
Remains == disk'.session # NoSession

Init == disk.revision \in Nat

\* A new login, over anything.
SignIn ==
    /\ disk'.revision = disk.revision + 1
    /\ Remains
    /\ disk'.session.status = "ready"
    /\ disk'.session.token = 1
    /\ Held # NoSession => disk'.session.login # Held.login

\* The first record of a refresh.
BeginRefresh ==
    /\ Is({"ready", "pending"})
    /\ Remains
    /\ Replace([Held EXCEPT !.status = "uncertain",
                            !.started = disk'.session.started,
                            !.attempts = 1])

\* The record of one more request with the same token.
RepeatRefresh ==
    /\ Is({"uncertain"})
    /\ Held.attempts < MaxAttempts
    /\ Replace([Held EXCEPT !.attempts = @ + 1])

\* The next tokens of the same login, not yet accepted by the registry.
Rotate ==
    /\ Is({"uncertain"})
    /\ Remains
    /\ Replace([Held EXCEPT !.status = "pending", !.started = 0,
                            !.attempts = 0, !.token = @ + 1,
                            !.expires = disk'.session.expires])

Vouch ==
    /\ Is({"pending"})
    /\ Replace([Held EXCEPT !.status = "ready"])

Reject ==
    /\ Is({"uncertain"})
    /\ Replace([Held EXCEPT !.status = "reauth", !.started = 0, !.attempts = 0])

SignOut ==
    /\ Held # NoSession
    /\ Replace(NoSession)

Next == \/ SignIn \/ BeginRefresh \/ RepeatRefresh \/ Rotate \/ Vouch
        \/ Reject \/ SignOut

Spec == Init /\ [][Next]_disk
=============================================================================
