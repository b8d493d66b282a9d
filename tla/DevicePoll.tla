----------------------------- MODULE DevicePoll -----------------------------
(* Polling for a login that a person approves on another device: when the   *)
(* next request may go out, and how the loop ends.  Time is counted from the *)
(* start of the loop; the wall clock may be set while it runs.              *)
(*                                                                          *)
(* Abstracted: one answer of every class the loop distinguishes, and one    *)
(* kind of transient failure for a status, a lost connection and a timeout. *)
EXTENDS Integers

CONSTANTS
    MinPollInterval, MaxPollInterval, Lifetime, MaxPollAttempts, MaxTransients,
    RequestTimeout,
    ClockSettings,         \* by how much the wall clock may be set, once
    Horizon                \* bound on time

ASSUME PollAssumption ==
    /\ MinPollInterval \in Nat \ {0}
    /\ MaxPollInterval \in Nat /\ MaxPollInterval >= MinPollInterval
    /\ Lifetime \in Nat
    /\ MaxPollAttempts \in Nat \ {0}
    /\ MaxPollAttempts * MinPollInterval = Lifetime
    /\ RequestTimeout \in Nat \ {0} /\ MaxTransients \in Nat \ {0}
    /\ ClockSettings \subseteq Int /\ Horizon \in Nat

VARIABLES
    elapsed,   \* real time
    skew,      \* the wall clock, less real time
    poll       \* the loop

pollVars == <<elapsed, skew, poll>>

Now == elapsed + skew

Endings == {"tokens", "malformed", "cancelled", "denied", "expired", "unavailable", "limit"}

\* owed and heard are history: the interval the server has asked for, and
\* when it last answered.
StartOf(expiry, interval) ==
    [stage |-> "top", expires |-> expiry, interval |-> interval, attempts |-> 0,
     transients |-> 0, due |-> 0, owed |-> interval, heard |-> 0]

\* A challenge is accepted with an interval and a lifetime within limits.
PollInit ==
    /\ elapsed = 0 /\ skew = 0
    /\ \E expiry \in 1..Lifetime, interval \in MinPollInterval..MaxPollInterval :
          poll = StartOf(expiry, interval)

PollEnds(how) == poll' = [poll EXCEPT !.stage = how] /\ UNCHANGED <<elapsed, skew>>

Sooner(a, b) == IF a < b THEN a ELSE b

\* Fault: one attempt too few.
LimitReachedEarly ==
    /\ poll.stage = "top" /\ poll.attempts + 1 >= MaxPollAttempts
    /\ PollEnds("limit")

\* The loop has no attempt left.
LimitReached ==
    /\ poll.stage = "top" /\ poll.attempts >= MaxPollAttempts
    /\ PollEnds("limit")

Expired ==
    /\ poll.stage = "top" /\ poll.attempts < MaxPollAttempts
    /\ Now >= poll.expires
    /\ PollEnds("expired")

Cancelled ==
    /\ \/ poll.stage = "top" /\ poll.attempts < MaxPollAttempts /\ Now < poll.expires
       \/ poll.stage \in {"asleep", "asking"}
    /\ PollEnds("cancelled")

Sleep ==
    /\ poll.stage = "top" /\ poll.attempts < MaxPollAttempts
    /\ Now < poll.expires
    /\ poll' = [poll EXCEPT !.stage = "asleep",
                            !.due = elapsed + Sooner(poll.interval, poll.expires - Now)]
    /\ UNCHANGED <<elapsed, skew>>

SleepFails == poll.stage = "asleep" /\ PollEnds("unavailable")

\* Woken, perhaps late; the request may take no longer than the challenge.
Ask ==
    /\ poll.stage = "asleep" /\ elapsed >= poll.due
    /\ Now < poll.expires
    /\ poll' = [poll EXCEPT !.stage = "asking",
                            !.due = elapsed + Sooner(RequestTimeout, poll.expires - Now)]
    /\ UNCHANGED <<elapsed, skew>>

WokenTooLate ==
    /\ poll.stage = "asleep" /\ elapsed >= poll.due
    /\ Now >= poll.expires
    /\ PollEnds("expired")

\* Fault: a request to slow down is waited out once, and then forgotten.
BackoffForgotten(interval) == interval

Backoff(interval) == interval + MinPollInterval

GoesRound(interval, transients, owed) ==
    /\ poll' = [poll EXCEPT !.stage = "top", !.attempts = poll.attempts + 1,
                            !.interval = interval, !.transients = transients,
                            !.owed = owed, !.heard = elapsed]
    /\ UNCHANGED <<elapsed, skew>>

Pending == poll.stage = "asking" /\ GoesRound(poll.interval, 0, poll.owed)

\* The protocol asks for five more seconds from now on.
SlowDown ==
    /\ poll.stage = "asking"
    /\ GoesRound(Backoff(poll.interval), 0, poll.owed + MinPollInterval)

Transient ==
    /\ poll.stage = "asking"
    /\ IF poll.transients + 1 >= MaxTransients THEN PollEnds("unavailable")
       ELSE GoesRound(Backoff(poll.interval), poll.transients + 1, poll.owed)

Settled(answer) ==
    /\ poll.stage = "asking"
    /\ PollEnds(answer)

Passes ==
    /\ elapsed < Horizon
    /\ \/ poll.stage = "asleep"
       \/ poll.stage = "asking" /\ elapsed < poll.due
    /\ elapsed' = elapsed + 1
    /\ UNCHANGED <<skew, poll>>

SetClock(by) ==
    /\ skew = 0 /\ poll.stage \notin Endings
    /\ skew' = by
    /\ UNCHANGED <<elapsed, poll>>

PollNext ==
    \/ LimitReached \/ Expired \/ Cancelled
    \/ Sleep \/ SleepFails \/ Ask \/ WokenTooLate
    \/ Pending \/ SlowDown \/ Transient
    \/ \E answer \in {"tokens", "malformed", "denied", "expired", "unavailable"} : Settled(answer)
    \/ Passes
    \/ \E by \in ClockSettings : SetClock(by)

PollSpec == PollInit /\ [][PollNext]_pollVars

----------------------------------------------------------------------------
\* Running out of attempts, which is reported as an unexpected response of
\* the service, never takes the place of an expiry: it needs a wall clock that
\* was set back.
RunsOutAsExpired == poll.stage = "limit" => skew < 0

\* A request goes out no sooner after an answer than the server has asked,
\* every slow_down added up, unless the clock was set meanwhile.
KeepsInterval ==
    [][poll.stage = "asleep" /\ poll'.stage = "asking" /\ skew = 0
          => elapsed - poll.heard >= poll.owed]_pollVars
=============================================================================
