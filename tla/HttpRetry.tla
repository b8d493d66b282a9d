------------------------------ MODULE HttpRetry ------------------------------
(* One call of the registry client: the first request, its repetitions, and *)
(* the deadline that covers all of them.                                    *)
EXTENDS Naturals

CONSTANTS MaxAttempts, Method, Retryable

ASSUME RetryAssumption == MaxAttempts \in Nat \ {0} /\ Retryable \subseteq Method

VARIABLES call

callVars == <<call>>

\* attempt is the loop's counter; sent and handled are history: how many
\* requests went out, and how many of them the registry has carried out.
CallInit ==
    \E method \in Method :
        call = [stage |-> "asking", method |-> method, attempt |-> 1, aborted |-> FALSE,
                sent |-> 1, handled |-> 0, reported |-> 0]

\* The deadline passes, or the caller gives up.
Abort ==
    /\ call.stage \in {"asking", "resting"} /\ ~ call.aborted
    /\ call' = [call EXCEPT !.aborted = TRUE]

\* A response of any status is the caller's.
Respond ==
    /\ call.stage = "asking" /\ call.handled < call.sent
    /\ call' = [call EXCEPT !.stage = "answered", !.handled = call.handled + 1]

Reports(attempts, handled) ==
    call' = [call EXCEPT !.stage = "failed", !.reported = attempts, !.handled = handled]

\* No answer arrives, although the registry may have done what was asked.
Throws(handled) ==
    /\ call.stage = "asking"
    /\ handled \in {call.handled, call.handled + 1}
    /\ IF call.attempt = 1 /\ call.method \notin Retryable THEN Reports(1, handled)
       ELSE IF call.attempt >= MaxAttempts THEN Reports(MaxAttempts, handled)
       ELSE call' = [call EXCEPT !.stage = "resting", !.attempt = call.attempt + 1,
                                 !.handled = handled]

\* Fault: the attempt that was about to be made is counted.
RestAbortedCounted ==
    /\ call.stage = "resting" /\ call.aborted
    /\ Reports(call.attempt, call.handled)

\* The pause is cut short; this attempt was never made.
RestAborted ==
    /\ call.stage = "resting" /\ call.aborted
    /\ Reports(call.attempt - 1, call.handled)

Reissue ==
    /\ call.stage = "resting" /\ ~ call.aborted
    /\ call' = [call EXCEPT !.stage = "asking", !.sent = call.sent + 1]

CallNext ==
    \/ Abort \/ Respond \/ RestAborted \/ Reissue
    \/ \E handled \in 0..MaxAttempts : Throws(handled)

CallSpec == CallInit /\ [][CallNext]_callVars

----------------------------------------------------------------------------
\* A failure is reported with the number of requests that were really sent,
\* also when the deadline cuts a pause short, and the registry never carries
\* out a request twice that must not be repeated.
RetriesAccounted ==
    /\ call.stage = "failed" => call.reported = call.sent
    /\ call.method \notin Retryable => call.handled <= 1
=============================================================================
