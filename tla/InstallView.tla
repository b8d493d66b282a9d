---------------------------- MODULE InstallView ----------------------------
(* The screen of an installing command (tui/views/install/).  The run holds *)
(* the project lock and awaits a promise while a question is open, so every *)
(* way out of a question has to settle it.  Between setting a phase and the *)
(* moment the terminal shows it there is a render, and between the render   *)
(* and the moment its keys and its interrupt listener are in place there is *)
(* a flush of effects: whatever comes in between meets the older screen.    *)
EXTENDS Naturals, Sequences

CONSTANT MaxPrompts  \* bound: the questions a run may ask

ASSUME MaxPromptsAssumption == MaxPrompts \in Nat \ {0}

VARIABLES
    engine,       \* the run behind the screen
    prompts,      \* the questions it has asked, each a promise
    phase,        \* the phase last set
    choice,       \* the state of the screen component: the option selected
    shown,        \* the screen rendered last, and the option drawn on it
    listening,    \* the screen whose keys and interrupt listener are in place
    interrupted,  \* the signal of the command
    offered       \* history: the questions seen with their acceptance selected

viewVars == <<engine, prompts, phase, choice, shown, listening, interrupted, offered>>

Kind == <<"collision", "mcp-consent", "asset-takeover">>

Progress == 0
Ended == MaxPrompts + 1
Prompts == DOMAIN prompts

KindAt(ph) == IF ph \in Prompts THEN Kind[prompts[ph].kind] ELSE "none"

\* Only the takeover screen opens on its acceptance.
DefaultOf(kind) == IF kind = "asset-takeover" THEN "yes" ELSE "no"

ViewInit ==
    /\ engine = "working"
    /\ prompts = <<>>
    /\ phase = Progress
    /\ choice = "no"
    /\ shown = [phase |-> Progress, choice |-> "no"]
    /\ listening = shown
    /\ interrupted = FALSE
    /\ offered = {}

\* Fault: the promise is settled, and the phase reset, once more.
SettleAgain(i, answer) ==
    /\ prompts' = IF prompts[i].answer = "open"
                  THEN [prompts EXCEPT ![i].answer = answer] ELSE prompts
    /\ phase' = Progress

\* What the closure of question i does: it is bound to its own promise, and
\* works once.
Settle(i, answer) ==
    IF prompts[i].answer = "open"
    THEN /\ prompts' = [prompts EXCEPT ![i].answer = answer]
         /\ phase' = Progress
    ELSE UNCHANGED <<prompts, phase>>

\* Collisions are asked before consent and either at most once; takeovers are
\* asked one by one as files are written.
AskUser(k) ==
    /\ engine = "working"
    /\ Len(prompts) < MaxPrompts
    /\ \A i \in Prompts : prompts[i].kind < k \/ Kind[k] = "asset-takeover"
    /\ prompts' = Append(prompts, [kind |-> k, answer |-> "open"])
    /\ phase' = Len(prompts) + 1
    /\ engine' = "waiting"
    /\ UNCHANGED <<choice, shown, listening, interrupted, offered>>

\* The awaiting run goes on; a refusal makes it stop, with nothing more to ask.
Resume ==
    /\ engine = "waiting"
    /\ LET answer == prompts[Len(prompts)].answer IN
       /\ answer # "open"
       /\ engine' = IF answer = "yes" THEN "working" ELSE "stopping"
    /\ UNCHANGED <<prompts, phase, choice, shown, listening, interrupted, offered>>

\* It returns its result, or throws; it may also notice the signal itself.
Return ==
    /\ engine \in {"working", "stopping"}
    /\ engine' = "over"
    /\ phase' = Ended
    /\ UNCHANGED <<prompts, choice, shown, listening, interrupted, offered>>

\* Consecutive screens of one kind are one component, which keeps its state.
Render ==
    /\ shown # [phase |-> phase, choice |-> choice]
    /\ LET keeps == KindAt(phase) # "none" /\ KindAt(phase) = KindAt(shown.phase)
           drawn == IF keeps THEN choice ELSE DefaultOf(KindAt(phase))
       IN /\ shown' = [phase |-> phase, choice |-> drawn]
          /\ choice' = drawn
          /\ offered' = IF phase \in Prompts /\ drawn = "yes"
                        THEN offered \cup {phase} ELSE offered
    /\ UNCHANGED <<engine, prompts, phase, listening, interrupted>>

\* Fault: the listener is put in place without a look at the signal.
FlushUnchecked ==
    /\ listening # shown
    /\ listening' = shown
    /\ UNCHANGED <<engine, prompts, phase, choice, shown, interrupted, offered>>

\* The effects of a render.  A signal that was raised meanwhile raises no
\* event any more, so it is looked at here.
Flush ==
    /\ listening # shown
    /\ listening' = shown
    /\ IF interrupted /\ shown.phase \in Prompts
       THEN Settle(shown.phase, "no")
       ELSE UNCHANGED <<prompts, phase>>
    /\ UNCHANGED <<engine, choice, shown, interrupted, offered>>

\* An arrow or a tab.  A component that is gone has no state to change.
Toggle ==
    /\ listening.phase \in Prompts
    /\ KindAt(shown.phase) = KindAt(listening.phase)
    /\ choice' = IF choice = "yes" THEN "no" ELSE "yes"
    /\ UNCHANGED <<engine, prompts, phase, shown, listening, interrupted, offered>>

\* Fault: the answer goes to the question that is open by now.
ConfirmLatest ==
    /\ listening.phase \in Prompts
    /\ Settle(IF phase \in Prompts THEN phase ELSE listening.phase, listening.choice)
    /\ UNCHANGED <<engine, choice, shown, listening, interrupted, offered>>

\* Enter.
Confirm ==
    /\ listening.phase \in Prompts
    /\ Settle(listening.phase, listening.choice)
    /\ UNCHANGED <<engine, choice, shown, listening, interrupted, offered>>

\* Escape, or Ctrl-C, which the terminal delivers as a key while a question
\* reads it raw.
Refuse ==
    /\ listening.phase \in Prompts
    /\ Settle(listening.phase, "no")
    /\ UNCHANGED <<engine, choice, shown, listening, interrupted, offered>>

\* SIGINT: the signal is raised and its listeners are called.
Interrupt ==
    /\ ~ interrupted
    /\ engine # "over"
    /\ interrupted' = TRUE
    /\ IF listening.phase \in Prompts
       THEN Settle(listening.phase, "no")
       ELSE UNCHANGED <<prompts, phase>>
    /\ UNCHANGED <<engine, choice, shown, listening, offered>>

\* What happens without the user.
ViewStep ==
    \/ \E k \in DOMAIN Kind : AskUser(k)
    \/ Resume
    \/ Return
    \/ Render
    \/ Flush

ViewNext == ViewStep \/ Toggle \/ Confirm \/ Refuse \/ Interrupt

\* The run works on and the terminal renders; nobody has to press a key.
ViewFairness ==
    /\ WF_viewVars(Resume \/ Return)
    /\ WF_viewVars(Render)
    /\ WF_viewVars(Flush)

ViewSpec == ViewInit /\ [][ViewNext]_viewVars /\ ViewFairness

\* A question is accepted only by a user before whom it stood with the
\* acceptance selected: keys typed ahead, meant for an earlier question, never
\* answer a later one.
AcceptedWasShown ==
    \A i \in Prompts : prompts[i].answer = "yes" => i \in offered

\* An interrupt ends the run, whatever question is open, about to open or
\* just answered: the lock it holds is released.
InterruptEndsRun == interrupted ~> engine = "over"
=============================================================================
