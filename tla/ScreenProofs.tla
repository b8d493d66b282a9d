----------------------------- MODULE ScreenProofs -----------------------------
(* Theorems about the screens on which a user decides: the screen of an     *)
(* installing command and its questions, the workspace for name collisions, *)
(* and the editing of a facet.  The three share no variable; each has its   *)
(* own specification.                                                       *)
EXTENDS InstallView, CollisionWorkspace, EditSession, TLAPS

-----------------------------------------------------------------------------
(* The install screen. *)

Answers == {"open", "yes", "no"}

\* What is drawn, and what the keys go to.
Screens == [phase : {Progress, Ended} \cup Prompts, choice : {"yes", "no"}]

\* A screen on which the acceptance is drawn has been offered.
Offered(screen) ==
    screen.phase \in Prompts /\ screen.choice = "yes" => screen.phase \in offered

\* A screen shows an acceptance, or takes keys for one, only where it was drawn.
ViewInv ==
    /\ prompts \in Seq([kind : DOMAIN Kind, answer : Answers])
    /\ Len(prompts) <= MaxPrompts
    /\ phase \in {Progress, Ended} \cup Prompts
    /\ choice \in {"yes", "no"}
    /\ shown \in Screens /\ listening \in Screens
    /\ Offered(shown) /\ Offered(listening)
    /\ AcceptedWasShown

\* The screen starts with nothing asked.
LEMMA ViewInitInv == ViewInit => ViewInv
BY MaxPromptsAssumption DEF ViewInit, ViewInv, Screens, Offered, AcceptedWasShown, Prompts, Progress, Ended, Answers

\* Answering a question leaves the others as they are; a yes needs an
\* acceptance that was drawn.
LEMMA SettleInv ==
    ASSUME ViewInv, NEW i \in Prompts, NEW answer \in {"yes", "no"}, Settle(i, answer),
           answer = "yes" => i \in offered, offered \subseteq offered'
    PROVE  /\ prompts' \in Seq([kind : DOMAIN Kind, answer : Answers])
           /\ Len(prompts') = Len(prompts) /\ Prompts' = Prompts
           /\ phase' \in {Progress, Ended} \cup Prompts
           /\ AcceptedWasShown'
<1> DEFINE Prompt == [kind : DOMAIN Kind, answer : Answers]
<1>1. prompts \in Seq(Prompt) /\ i \in 1..Len(prompts) /\ Prompts = 1..Len(prompts) /\ AcceptedWasShown
  BY DEF ViewInv, Prompts
<1>2. CASE UNCHANGED <<prompts, phase>>
  BY <1>1, <1>2 DEF ViewInv, Prompts, AcceptedWasShown
<1> HIDE DEF Prompt
<1>3. CASE prompts' = [prompts EXCEPT ![i].answer = answer] /\ phase' = Progress
  <2>1. prompts[i] \in Prompt
    BY <1>1
  <2>2. [prompts[i] EXCEPT !.answer = answer] \in Prompt
    BY <2>1 DEF Answers, Prompt
  <2> DEFINE e == [prompts[i] EXCEPT !.answer = answer]
  <2>3. e.answer = answer /\ e \in Prompt
    BY <2>1, <2>2 DEF Prompt
  <2>4. prompts' = [prompts EXCEPT ![i] = e]
    BY <1>1, <1>3
  <2> HIDE DEF e
  <2>5. prompts' \in Seq(Prompt) /\ Len(prompts') = Len(prompts) /\ DOMAIN prompts' = DOMAIN prompts
    BY <1>1, <2>3, <2>4
  <2>6. \A j \in Prompts : prompts'[j] = IF j = i THEN e ELSE prompts[j]
    BY <1>1, <2>4
  <2>7. AcceptedWasShown'
    BY <1>1, <2>3, <2>5, <2>6 DEF AcceptedWasShown, Prompts
  <2>8. QED
    BY <1>3, <2>5, <2>7 DEF Prompts, Prompt
<1>4. QED
  BY <1>2, <1>3 DEF Settle

\* No step of the screen, of the run behind it or of its keys breaks the invariant.
LEMMA ViewNextInv == ViewInv /\ [ViewNext]_viewVars => ViewInv'
<1> SUFFICES ASSUME ViewInv, [ViewNext]_viewVars PROVE ViewInv'
  OBVIOUS
<1> DEFINE Prompt == [kind : DOMAIN Kind, answer : Answers]
<1>1. prompts \in Seq(Prompt) /\ Prompts = 1..Len(prompts) /\ AcceptedWasShown /\ Len(prompts) \in Nat
  BY DEF ViewInv, Prompts
<1>2. CASE UNCHANGED <<prompts, phase, choice, shown, listening, offered>>
  BY <1>2 DEF ViewInv, Prompts, AcceptedWasShown, Screens, Offered
<1>3. ASSUME NEW k \in DOMAIN Kind, AskUser(k) PROVE ViewInv'
  <2> DEFINE e == [kind |-> k, answer |-> "open"]
  <2>1. /\ prompts' = Append(prompts, e) /\ Len(prompts) < MaxPrompts /\ phase' = Len(prompts) + 1
        /\ UNCHANGED <<choice, shown, listening, offered>>
    BY <1>3 DEF AskUser
  <2>2. e \in Prompt /\ e.answer = "open"
    BY DEF Answers
  <2> HIDE DEF e, Prompt
  <2>3. /\ prompts' \in Seq(Prompt) /\ Len(prompts') = Len(prompts) + 1
        /\ \A j \in Prompts : prompts'[j] = prompts[j]
        /\ prompts'[Len(prompts) + 1] = e
    BY <1>1, <2>1, <2>2
  <2>4. Prompts' = 1..(Len(prompts) + 1) /\ Prompts \subseteq Prompts'
        /\ \A j \in Prompts' : j \in Prompts \/ j = Len(prompts) + 1
    BY <1>1, <2>3 DEF Prompts
  <2>5. ASSUME NEW screen \in Screens, Offered(screen)
        PROVE  screen \in Screens' /\ (screen.phase \in Prompts' /\ screen.choice = "yes" => screen.phase \in offered)
    <3>1. screen.phase \in Prompts' => screen.phase \in Prompts
      BY <1>1, <2>1, <2>4, MaxPromptsAssumption DEF Screens, Progress, Ended
    <3>2. screen \in Screens'
      BY <2>4 DEF Screens, Progress, Ended
    <3>3. QED
      BY <2>5, <3>1, <3>2 DEF Offered
  <2>6. Offered(shown)' /\ Offered(listening)' /\ shown' \in Screens' /\ listening' \in Screens'
    BY <2>1, <2>5 DEF ViewInv, Offered
  <2>7. AcceptedWasShown'
    BY <1>1, <2>1, <2>2, <2>3, <2>4 DEF AcceptedWasShown
  <2>8. phase' \in Prompts' /\ Len(prompts') <= MaxPrompts /\ choice' \in {"yes", "no"}
    BY <1>1, <2>1, <2>3, <2>4, MaxPromptsAssumption DEF ViewInv
  <2>9. QED
    BY <2>3, <2>6, <2>7, <2>8 DEF ViewInv, Prompt
<1>4. CASE Render
  <2> DEFINE drawn == IF KindAt(phase) # "none" /\ KindAt(phase) = KindAt(shown.phase)
                      THEN choice ELSE DefaultOf(KindAt(phase))
  <2>1. /\ shown' = [phase |-> phase, choice |-> drawn] /\ choice' = drawn
        /\ offered' = IF phase \in Prompts /\ drawn = "yes" THEN offered \cup {phase} ELSE offered
        /\ UNCHANGED <<prompts, phase, listening>>
    BY <1>4 DEF Render
  <2>2. drawn \in {"yes", "no"}
    BY DEF ViewInv, DefaultOf
  <2> HIDE DEF drawn
  <2>3. Offered(shown)' /\ shown' \in Screens'
    BY <2>1, <2>2 DEF ViewInv, Offered, Screens, Prompts
  <2>4. QED
    BY <2>1, <2>2, <2>3 DEF ViewInv, Offered, Screens, Prompts, AcceptedWasShown
<1>5. ASSUME NEW i \in Prompts, NEW answer \in {"yes", "no"}, Settle(i, answer),
             answer = "yes" => i \in offered, UNCHANGED <<choice, shown, offered>>,
             listening' \in {listening, shown}
      PROVE  ViewInv'
  <2>1. /\ prompts' \in Seq([kind : DOMAIN Kind, answer : Answers])
        /\ Len(prompts') = Len(prompts) /\ Prompts' = Prompts
        /\ phase' \in {Progress, Ended} \cup Prompts
        /\ AcceptedWasShown'
    BY <1>5, SettleInv
  <2>2. Screens' = Screens
    BY <2>1 DEF Screens, Progress, Ended
  <2>3. QED
    BY <1>5, <2>1, <2>2 DEF ViewInv, Offered, Progress, Ended
<1>6. CASE Flush
  <2>1. CASE interrupted /\ shown.phase \in Prompts
    BY <1>5, <1>6, <2>1 DEF Flush
  <2>2. CASE ~ (interrupted /\ shown.phase \in Prompts)
    BY <1>6, <2>2 DEF Flush, ViewInv, Prompts, AcceptedWasShown, Screens, Offered
  <2>3. QED
    BY <2>1, <2>2
<1>7. CASE Toggle
  BY <1>7 DEF Toggle, ViewInv, Prompts, AcceptedWasShown, Screens, Offered
<1>8. CASE Confirm
  <2>1. listening.choice \in {"yes", "no"} /\ Offered(listening)
    BY DEF ViewInv, Screens
  <2>2. QED
    BY <1>5, <1>8, <2>1 DEF Confirm, Offered
<1>9. CASE Refuse
  BY <1>5, <1>9 DEF Refuse
<1>10. CASE Interrupt
  <2>1. CASE listening.phase \in Prompts
    BY <1>5, <1>10, <2>1 DEF Interrupt
  <2>2. CASE listening.phase \notin Prompts
    BY <1>2, <1>10, <2>2 DEF Interrupt
  <2>3. QED
    BY <2>1, <2>2
<1>11. CASE Resume
  BY <1>2, <1>11 DEF Resume
<1>12. CASE Return
  BY <1>12 DEF Return, ViewInv, Prompts, AcceptedWasShown, Screens, Offered
<1>13. CASE UNCHANGED viewVars
  BY <1>2, <1>13 DEF viewVars
<1>14. QED
  BY <1>3, <1>4, <1>6, <1>7, <1>8, <1>9, <1>10, <1>11, <1>12, <1>13 DEF ViewNext, ViewStep

\* No question of an installing command is accepted unseen, for any number of
\* questions and any order of renders, effects and keys.
THEOREM Shown == ViewSpec => []AcceptedWasShown
<1>1. ViewInv => AcceptedWasShown
  BY DEF ViewInv
<1>2. QED
  BY <1>1, ViewInitInv, ViewNextInv, PTL DEF ViewSpec

-----------------------------------------------------------------------------
(* The collision workspace. *)

\* A claimant is named by a facet and an authored name.
IsClaimant(k) == k = <<k[1], k[2]>>

\* Everyone who ever contended is among the claimants, no alias is illegal, and
\* the draft differs from the request only in what was edited.
WorkspaceInv ==
    /\ request \in Requests
    /\ DOMAIN draft.over = DOMAIN request.over
    /\ \A k \in draft.claimants : IsClaimant(k)
    /\ UNION Original \subseteq draft.claimants
    /\ UNION Current \subseteq draft.claimants
    /\ InvalidAliases(request.contents, draft.over) = {}
    /\ view # Overview => view \in draft.claimants
    /\ editing => view # Overview
    /\ \A f \in DOMAIN request.over, n \in Name :
          <<f, n>> \notin draft.edited =>
              Intent(draft.over, f, n) = Intent(request.over, f, n)
    /\ reply.kind \in {"pending", "resolved", "cancelled"}
    /\ reply.kind = "pending" <=> reply = Unanswered
    /\ reply.kind = "resolved" =>
          reply.over = draft.over /\ Plannable(request.contents, reply.over)

\* A group consists of claimants.
LEMMA GroupsOfClaimants ==
    ASSUME NEW over PROVE \A k \in UNION Groups(over) : IsClaimant(k)
<1>1. \A g \in Groups(over) : \A k \in g : \E c : k = Claimant(c)
  BY DEF Groups
<1>2. \A c : IsClaimant(Claimant(c))
  BY DEF IsClaimant, Claimant
<1>3. QED
  BY <1>1, <1>2

\* A claim is the one of its facet and name.
LEMMA PlannedClaims ==
    ASSUME NEW contents, NEW over, NEW c \in Planned(contents, over)
    PROVE  /\ c.facet \in DOMAIN contents /\ c.name \in DOMAIN contents[c.facet]
           /\ c = Claim(contents, over, c.facet, c.name)
           /\ c.as = Intent(over, c.facet, c.name)
<1>1. PICK f \in DOMAIN contents : \E n \in DOMAIN contents[f] : c = Claim(contents, over, f, n)
  BY DEF Planned
<1>2. PICK n \in DOMAIN contents[f] : c = Claim(contents, over, f, n)
  BY <1>1
<1>3. c.facet = f /\ c.name = n /\ c.as = Intent(over, f, n)
  BY <1>2 DEF Claim
<1>4. QED
  BY <1>2, <1>3

\* Whoever contends is in a group with somebody else.
LEMMA ContendersAreGrouped ==
    ASSUME WorkspaceInv, NEW c \in Contested(request.contents, draft.over)
    PROVE  \E g \in Current : \E k \in g : Claimant(c) \in g /\ k # Claimant(c)
<1> DEFINE contested == Contested(request.contents, draft.over)
<1>1. PICK d \in Materialized(request.contents, draft.over) : Contend(c, d)
  BY DEF Contested
<1>2. c \in Materialized(request.contents, draft.over)
  BY DEF Contested
<1>3. c # d /\ Place(c) = Place(d) /\ (c.name \in ServerName => c.holds # d.holds)
  BY <1>1 DEF Contend
<1>4. KindOf(c.name) = KindOf(d.name)
  BY <1>3 DEF Place
<1>5. d.name \in ServerName => c.name \in ServerName
  BY <1>4 DEF KindOf
<1>6. Contend(d, c)
  BY <1>3, <1>5 DEF Contend
<1>7. d \in contested
  BY <1>2, <1>6 DEF Contested
<1>8. c \in Planned(request.contents, draft.over) /\ d \in Planned(request.contents, draft.over)
  BY <1>1, <1>2 DEF Materialized
<1>9. Claimant(c) # Claimant(d)
  <2>1. c.facet # d.facet \/ c.name # d.name
    BY <1>3, <1>8, PlannedClaims
  <2>2. QED
    BY <2>1 DEF Claimant
<1> DEFINE g == {Claimant(x) : x \in {y \in contested : Place(y) = Place(c)}}
<1>10. g \in Current
  <2>1. Place(c) \in Places(contested)
    BY DEF Places
  <2>2. InvalidAliases(request.contents, draft.over) = {}
    BY DEF WorkspaceInv
  <2>3. QED
    BY <2>1, <2>2 DEF Current, Groups
<1>11. Claimant(c) \in g /\ Claimant(d) \in g
  BY <1>3, <1>7
<1>12. QED
  BY <1>9, <1>10, <1>11

\* What blocks the confirmation is shown: the confirm row goes by the plan, the
\* rows by the groups.
LEMMA BlockersShown == WorkspaceInv => BlockersAreOnScreen
<1> SUFFICES ASSUME WorkspaceInv PROVE BlockersAreOnScreen
  OBVIOUS
<1> DEFINE contested == Contested(request.contents, draft.over)
<1>1. InvalidAliases(request.contents, draft.over) = {} /\ UNION Current \subseteq draft.claimants
  BY DEF WorkspaceInv
<1>2. ASSUME contested = {}, NEW k \in draft.claimants PROVE Status(Current, k) = "resolved"
  <2>1. Current = {}
    BY <1>2 DEF Current, Groups, Places
  <2>2. Conflicts(Current, k) = {}
    BY <2>1 DEF Conflicts
  <2>3. QED
    BY <2>2 DEF Status
<1>3. ASSUME NEW c \in contested PROVE \E k \in draft.claimants : Status(Current, k) # "resolved"
  <2>1. PICK g \in Current : \E k \in g : Claimant(c) \in g /\ k # Claimant(c)
    BY ContendersAreGrouped
  <2>2. Conflicts(Current, Claimant(c)) # {}
    BY <2>1 DEF Conflicts
  <2>3. Claimant(c) \in draft.claimants
    BY <1>1, <2>1
  <2>4. Status(Current, Claimant(c)) # "resolved"
    BY <2>2 DEF Status
  <2>5. QED
    BY <2>3, <2>4
<1>4. Plannable(request.contents, draft.over)
          <=> \A k \in draft.claimants : Status(Current, k) = "resolved"
  BY <1>1, <1>2, <1>3 DEF Plannable
<1>5. ASSUME NEW k \in draft.claimants, NEW groups PROVE k \in Together(k, groups)
  BY DEF Together
<1>6. ASSUME NEW g \in Current PROVE \E d \in DisplayGroups : g \subseteq d
  <2>1. PICK k \in g : TRUE
    <3>1. PICK pl \in Places(contested) :
            g = {Claimant(c) : c \in {d \in contested : Place(d) = pl}}
      BY <1>1 DEF Current, Groups
    <3>2. PICK c \in contested : Place(c) = pl
      BY DEF Places
    <3>3. Claimant(c) \in g
      BY <3>1, <3>2
    <3>4. QED
      BY <3>3
  <2>2. g \subseteq draft.claimants
    BY <1>1
  <2>3. g \subseteq Together(k, Original \cup Current)
    BY <2>1, <2>2 DEF Together
  <2>4. QED
    BY <2>2, <2>3 DEF DisplayGroups
<1>7. view # Overview => \E d \in DisplayGroups : view \in d
  BY <1>5 DEF DisplayGroups, WorkspaceInv
<1>8. QED
  BY <1>4, <1>6, <1>7 DEF BlockersAreOnScreen

\* The workspace opens on what the planner reported.
LEMMA WorkspaceInitInv == WorkspaceInit => WorkspaceInv
<1> SUFFICES ASSUME WorkspaceInit PROVE WorkspaceInv
  OBVIOUS
<1>1. \A k \in UNION Original : IsClaimant(k)
  BY GroupsOfClaimants DEF Original
<1>2. /\ request \in Requests /\ draft.over = request.over
      /\ draft.edited = {} /\ draft.claimants = UNION Original
      /\ view = Overview /\ editing = FALSE /\ reply = Unanswered
  BY DEF WorkspaceInit, FirstDraft
<1>3. InvalidAliases(request.contents, draft.over) = {}
  BY <1>2, RequestsAssumption
<1>4. Current = Original
  BY <1>2 DEF Current, Original
<1>5. QED
  BY <1>1, <1>2, <1>3, <1>4 DEF WorkspaceInv, Unanswered

\* The claimant is the contribution n of the facet f.
IsOf(k, f, n) == k[1] = f /\ k[2] = n

\* A choice for one claimant leaves the intent of every other as it was.
LEMMA OverrideOfOne ==
    ASSUME NEW old, NEW k, NEW decision, NEW f \in DOMAIN old, NEW n, ~ IsOf(k, f, n)
    PROVE  /\ DOMAIN WithOverride(old, k, decision) = DOMAIN old
           /\ Intent(WithOverride(old, k, decision), f, n) = Intent(old, f, n)
<1> DEFINE own == old[k[1]]
           names == IF decision = "authored" THEN DOMAIN own \ {k[2]} ELSE (DOMAIN own \ {k[2]}) \cup {k[2]}
           new == [m \in names |-> IF m = k[2] THEN decision ELSE own[m]]
<1>1. WithOverride(old, k, decision) = [old EXCEPT ![k[1]] = new]
  BY DEF WithOverride
<1> HIDE DEF new
<1>2. /\ DOMAIN WithOverride(old, k, decision) = DOMAIN old
      /\ WithOverride(old, k, decision)[f] = IF f = k[1] THEN new ELSE old[f]
  BY <1>1
<1>3. CASE f # k[1]
  BY <1>2, <1>3 DEF Intent
<1>4. CASE f = k[1]
  <2>1. n # k[2]
    BY <1>4 DEF IsOf
  <2>2. n \in DOMAIN new <=> n \in DOMAIN own
    BY <2>1 DEF new
  <2>3. n \in DOMAIN own => new[n] = own[n]
    BY <2>1 DEF new
  <2>4. QED
    BY <1>2, <1>4, <2>2, <2>3 DEF Intent
<1>5. QED
  BY <1>2, <1>3, <1>4

\* The choice is what the claimant then has, or it has its authored name.
LEMMA OverrideOfOwn ==
    ASSUME NEW old, NEW k, NEW decision, k[1] \in DOMAIN old
    PROVE  Intent(WithOverride(old, k, decision), k[1], k[2]) \in {decision, "authored"}
<1> DEFINE own == old[k[1]]
           names == IF decision = "authored" THEN DOMAIN own \ {k[2]} ELSE (DOMAIN own \ {k[2]}) \cup {k[2]}
           new == [m \in names |-> IF m = k[2] THEN decision ELSE own[m]]
<1>1. WithOverride(old, k, decision) = [old EXCEPT ![k[1]] = new]
  BY DEF WithOverride
<1>2. k[2] \in DOMAIN new => new[k[2]] = decision
  OBVIOUS
<1> HIDE DEF new
<1>3. WithOverride(old, k, decision)[k[1]] = new
  BY <1>1
<1>4. QED
  BY <1>2, <1>3 DEF Intent

\* A choice adds and removes no facet.
LEMMA OverridesOfSame ==
    ASSUME NEW over, NEW k, NEW decision PROVE DOMAIN WithOverride(over, k, decision) = DOMAIN over
BY DEF WithOverride

\* An edit with a legal choice: the claimants grow by those it brings together.
LEMMA ReviseInv ==
    ASSUME WorkspaceInv, reply = Unanswered, view # Overview,
           NEW decision, decision \notin IllegalAlias, Revise(decision)
    PROVE  WorkspaceInv'
<1> DEFINE over == WithOverride(draft.over, view, decision)
<1>1. /\ draft' = [over |-> over, edited |-> draft.edited \cup {view},
                   claimants |-> draft.claimants \cup UNION Groups(over)]
      /\ editing' = FALSE /\ UNCHANGED <<request, view, reply>>
  BY DEF Revise, Revised
<1>2. DOMAIN over = DOMAIN request.over
  BY OverridesOfSame DEF WorkspaceInv
<1>3. \A f \in DOMAIN draft.over : \A n :
        ~ IsOf(view, f, n) => Intent(over, f, n) = Intent(draft.over, f, n)
  <2>1. ASSUME NEW f \in DOMAIN draft.over, NEW n, ~ IsOf(view, f, n)
        PROVE  Intent(over, f, n) = Intent(draft.over, f, n)
    BY <2>1, OverrideOfOne
  <2>2. QED
    BY <2>1
<1>4. view[1] \in DOMAIN draft.over =>
          Intent(over, view[1], view[2]) \in {decision, "authored"}
  BY OverrideOfOwn
<1>5. ASSUME NEW f \in DOMAIN request.over, NEW n \in Name, <<f, n>> \notin draft.edited \cup {view}
      PROVE  Intent(over, f, n) = Intent(request.over, f, n)
  <2>1. Intent(draft.over, f, n) = Intent(request.over, f, n) /\ f \in DOMAIN draft.over
    BY <1>5 DEF WorkspaceInv
  <2>2. ~ IsOf(view, f, n)
    BY <1>5 DEF WorkspaceInv, IsClaimant, IsOf
  <2>3. Intent(over, f, n) = Intent(draft.over, f, n)
    BY <2>1, <2>2, <1>3
  <2>4. QED
    BY <2>1, <2>3
<1> HIDE DEF over
<1>6. \A k \in draft.claimants \cup UNION Groups(over) : IsClaimant(k)
  BY GroupsOfClaimants DEF WorkspaceInv
<1>7. InvalidAliases(request.contents, over) = {}
  <2> SUFFICES ASSUME NEW c \in Planned(request.contents, over), c.as \in IllegalAlias
               PROVE  FALSE
    BY DEF InvalidAliases
  <2> DEFINE f == c.facet
             n == c.name
  <2>1. f \in DOMAIN request.contents /\ n \in DOMAIN request.contents[f] /\ Intent(over, f, n) \in IllegalAlias
    BY PlannedClaims
  <2>2. f \in DOMAIN draft.over
    BY <2>1, RequestsAssumption DEF WorkspaceInv
  <2>3. CASE IsOf(view, f, n)
    BY <1>4, <2>1, <2>2, <2>3, NamesAssumption DEF IsOf
  <2>4. CASE ~ IsOf(view, f, n)
    <3> DEFINE d == Claim(request.contents, draft.over, f, n)
    <3>1. d \in Planned(request.contents, draft.over)
      BY <2>1 DEF Planned
    <3>2. d.as = Intent(draft.over, f, n)
      BY DEF Claim
    <3>3. d.as \in IllegalAlias
      BY <1>3, <2>1, <2>2, <2>4, <3>2
    <3>4. QED
      BY <3>1, <3>3 DEF WorkspaceInv, InvalidAliases
  <2>5. QED
    BY <2>3, <2>4
<1>8. reply.kind = "pending"
  BY DEF Unanswered
<1>9. /\ draft'.over = over /\ draft'.edited = draft.edited \cup {view}
      /\ draft'.claimants = draft.claimants \cup UNION Groups(over)
  BY <1>1
<1>10. Original' = Original /\ Current' = Groups(over)
  BY <1>1, <1>9 DEF Original, Current, Groups
<1>11. /\ UNION Original' \subseteq draft'.claimants /\ UNION Current' \subseteq draft'.claimants
       /\ view' \in draft'.claimants
  BY <1>1, <1>9, <1>10 DEF WorkspaceInv
<1>12. QED
  BY <1>1, <1>2, <1>5, <1>6, <1>7, <1>8, <1>9, <1>11 DEF WorkspaceInv

\* A step that leaves the draft alone: the cursor moves, the editor opens or
\* closes, or the workspace answers.
LEMMA SameDraftInv ==
    ASSUME WorkspaceInv, UNCHANGED <<request, draft>>,
           view' # Overview => view' \in draft.claimants, editing' => view' # Overview,
           \/ UNCHANGED reply
           \/ reply' = [kind |-> "cancelled"]
           \/ reply' = [kind |-> "resolved", over |-> draft.over] /\ Plannable(request.contents, draft.over)
    PROVE  WorkspaceInv'
<1>1. Original' = Original /\ Current' = Current
  BY DEF Original, Current, Groups
<1>2. /\ reply'.kind \in {"pending", "resolved", "cancelled"}
      /\ reply'.kind = "pending" <=> reply' = Unanswered
      /\ reply'.kind = "resolved" =>
            reply'.over = draft.over /\ Plannable(request.contents, reply'.over)
  BY DEF WorkspaceInv, Unanswered
<1>3. QED
  BY <1>1, <1>2 DEF WorkspaceInv

\* No step of the workspace breaks the invariant.
LEMMA WorkspaceNextInv == WorkspaceInv /\ [WorkspaceNext]_workspaceVars => WorkspaceInv'
<1> SUFFICES ASSUME WorkspaceInv, [WorkspaceNext]_workspaceVars PROVE WorkspaceInv'
  OBVIOUS
<1>1. CASE UNCHANGED workspaceVars
  BY <1>1, SameDraftInv DEF workspaceVars, WorkspaceInv
<1> SUFFICES ASSUME WorkspaceNext PROVE WorkspaceInv'
  BY <1>1
<1>2. reply = Unanswered
  BY DEF WorkspaceNext
<1>3. ASSUME NEW k \in draft.claimants, Open(k) \/ MoveFocus(k) PROVE WorkspaceInv'
  BY <1>3, SameDraftInv DEF Open, MoveFocus, WorkspaceInv
<1>4. CASE BackToOverview \/ OpenAlias \/ CancelAlias
  BY <1>4, SameDraftInv DEF BackToOverview, OpenAlias, CancelAlias, WorkspaceInv
<1>5. ASSUME NEW decision \in {"authored", "omitted"}, KeepOrOmit(decision) PROVE WorkspaceInv'
  <2>1. view # Overview /\ Revise(decision) /\ decision \notin IllegalAlias
    BY <1>5, NamesAssumption DEF KeepOrOmit
  <2>2. QED
    BY <1>2, <2>1, ReviseInv
<1>6. ASSUME NEW name \in Name, SubmitAlias(name) PROVE WorkspaceInv'
  <2>1. view # Overview /\ Revise(name) /\ name \notin IllegalAlias
    BY <1>6, NamesAssumption DEF SubmitAlias, WorkspaceInv
  <2>2. QED
    BY <1>2, <2>1, ReviseInv
<1>7. CASE ConfirmWorkspace
  BY <1>7, SameDraftInv DEF ConfirmWorkspace, WorkspaceInv
<1>8. CASE CancelWorkspace
  BY <1>8, SameDraftInv DEF CancelWorkspace, WorkspaceInv
<1>9. QED
  BY <1>3, <1>4, <1>5, <1>6, <1>7, <1>8 DEF WorkspaceNext

\* A confirmed answer plans and is the project's own intent but for what was
\* edited, for any project, request and number of edits.
THEOREM OwnIntent == WorkspaceSpec => []ConfirmedIntentIsOwn
<1>1. WorkspaceInv => ConfirmedIntentIsOwn
  BY DEF WorkspaceInv, ConfirmedIntentIsOwn
<1>2. QED
  BY <1>1, WorkspaceInitInv, WorkspaceNextInv, PTL DEF WorkspaceSpec

\* Nothing off the screen blocks the confirmation, for any project, request and
\* number of edits.
THEOREM Blockers == WorkspaceSpec => []BlockersAreOnScreen
BY BlockersShown, WorkspaceInitInv, WorkspaceNextInv, PTL DEF WorkspaceSpec

-----------------------------------------------------------------------------
(* The editing of a facet. *)

\* The screens of the wizard, and its two ends.
Steps == {"reconciliation", "readme", "editing", "confirmation", "applied", "ended"}

\* Every choice is one that was offered for the project as it was scanned, and
\* past the first screen every difference has one.  What an asset became is in
\* the form.
EditInv ==
    /\ step \in Steps
    /\ context \in Projects
    /\ step # "applied" => project = context
    /\ DOMAIN resolutions \subseteq Differences(context)
    /\ \A p \in DOMAIN resolutions : resolutions[p] \in Options(context, p)
    /\ step \notin {"reconciliation", "ended"} => DOMAIN resolutions = Differences(context)
    /\ DOMAIN readmes \subseteq Readme
    /\ \A r \in DOMAIN readmes : readmes[r] \in ReadmeOptions(context, r)
    /\ form \subseteq Asset
    /\ DOMAIN became = DOMAIN context.manifest.assets
    /\ \A a \in DOMAIN became : became[a] \subseteq form

\* The invariant, with what it says of a project once the batch is applied.
EditComplete == EditInv /\ LossesWereAskedFor /\ DeclaredIsOnDisk

\* A path tells what it is the file of.
LEMMA PathsApart ==
    /\ \A a : Primary(a)[1] = "asset" /\ Primary(a)[2] = a
    /\ \A s, c : /\ CompanionOf(s, c)[1] = "companion"
                 /\ CompanionOf(s, c)[2] = s /\ CompanionOf(s, c)[3] = c
    /\ \A r : AtRoot(r)[1] = "root" /\ AtRoot(r)[2] = r
BY DEF Primary, CompanionOf, AtRoot

\* What a manifest declares: its assets, the companions of its skills, its root
\* files.
LEMMA DeclaredPaths ==
    ASSUME NEW m
    PROVE  /\ \A a : Primary(a) \in Declared(m) <=> a \in DOMAIN m.assets
           /\ \A s, c : CompanionOf(s, c) \in Declared(m)
                            <=> s \in Skill \cap DOMAIN m.assets /\ c \in m.assets[s]
           /\ \A r : AtRoot(r) \in Declared(m) <=> r \in m.files
           /\ \A p \in Declared(m) :
                 \/ \E a \in DOMAIN m.assets : p = Primary(a)
                 \/ \E s \in Skill \cap DOMAIN m.assets : \E c \in m.assets[s] : p = CompanionOf(s, c)
                 \/ \E r \in m.files : p = AtRoot(r)
<1>1. \A p : p \in Declared(m) <=>
                 \/ \E a \in DOMAIN m.assets : p = Primary(a)
                 \/ \E s \in Skill \cap DOMAIN m.assets : \E c \in m.assets[s] : p = CompanionOf(s, c)
                 \/ \E r \in m.files : p = AtRoot(r)
  BY DEF Declared, FilesOf, CompanionsIn
<1>2. \A a, b : Primary(a) = Primary(b) => a = b
  BY PathsApart
<1>3. \A s, c, t, d : CompanionOf(s, c) = CompanionOf(t, d) => s = t /\ c = d
  BY PathsApart
<1>4. \A r, q : AtRoot(r) = AtRoot(q) => r = q
  BY PathsApart
<1>5. \A a, s, c, r : /\ Primary(a) # CompanionOf(s, c)
                      /\ Primary(a) # AtRoot(r) /\ CompanionOf(s, c) # AtRoot(r)
  BY PathsApart
<1>6. \A a : Primary(a) \in Declared(m) <=> a \in DOMAIN m.assets
  BY <1>1, <1>2, <1>5
<1>7. \A s, c : CompanionOf(s, c) \in Declared(m)
                            <=> s \in Skill \cap DOMAIN m.assets /\ c \in m.assets[s]
  BY <1>1, <1>3, <1>5
<1>8. \A r : AtRoot(r) \in Declared(m) <=> r \in m.files
  BY <1>1, <1>4, <1>5
<1>9. QED
  BY <1>1, <1>6, <1>7, <1>8

\* Only an undeclared file is added; only a declared one that was not seen gets a
\* template or loses its declaration.
LEMMA ResolvedAsOffered ==
    ASSUME EditInv
    PROVE  /\ \A p \in Resolved("add") : Present(context.disk, p) /\ p \notin Declared(context.manifest)
           /\ \A p \in Resolved("scaffold") \cup Resolved("remove") :
                 ~ Seen(context, p) /\ p \in Declared(context.manifest)
<1>1. \A p \in DOMAIN resolutions :
        /\ p \in Differences(context)
        /\ resolutions[p] \in Options(context, p)
  BY DEF EditInv
<1>2. \A p \in DOMAIN resolutions :
        /\ resolutions[p] = "add" => p \in Additions(context)
        /\ resolutions[p] \in {"scaffold", "remove"} => p \notin Additions(context)
  BY <1>1 DEF Options
<1>3. \A p \in Differences(context) : Seen(context, p) <=> p \notin Declared(context.manifest)
  BY DEF Differences, Seen, Present
<1>4. \A p \in Differences(context) : p \in Additions(context) <=> Seen(context, p)
  BY DEF Additions
<1>5. \A p : Seen(context, p) => Present(context.disk, p)
  BY DEF Seen
<1>6. QED
  BY <1>1, <1>2, <1>3, <1>4, <1>5 DEF Resolved

\* At the confirmation, every declared file that was not seen has been given a
\* template or lost its declaration.
LEMMA MissingWasResolved ==
    ASSUME EditInv, step = "confirmation",
           NEW p \in Scanned(context.manifest), ~ Seen(context, p),
           p \in Declared(context.manifest)
    PROVE  p \in Resolved("scaffold") \cup Resolved("remove")
<1>1. p \in Differences(context) /\ p \notin Additions(context)
  BY DEF Differences, Additions, Seen, Present
<1>2. p \in DOMAIN resolutions /\ resolutions[p] \in {"scaffold", "remove"}
  BY <1>1 DEF EditInv, Options
<1>3. QED
  BY <1>2 DEF Resolved

\* A README is adopted where it exists and gets a template where it does not.
LEMMA ReadmesAsOffered ==
    ASSUME EditInv
    PROVE  /\ \A r \in Queued({"adopt"}) : Present(context.disk, AtRoot(r))
           /\ \A r \in Queued({"scaffold"}) : ~ Present(context.disk, AtRoot(r))
           /\ \A r \in DOMAIN readmes :
                 readmes[r] \in {"adopt", "edit-and-adopt", "scaffold", "create",
                                 "edit", "remove", "remove-declaration"}
<1>1. ASSUME NEW r \in DOMAIN readmes
      PROVE  /\ readmes[r] = "adopt" => Present(context.disk, AtRoot(r))
             /\ readmes[r] = "scaffold" => ~ Present(context.disk, AtRoot(r))
             /\ readmes[r] \in {"adopt", "edit-and-adopt", "scaffold", "create",
                                "edit", "remove", "remove-declaration"}
  <2>1. readmes[r] \in ReadmeOptions(context, r)
    BY DEF EditInv
  <2>2. CASE Present(context.disk, AtRoot(r)) /\ r \in context.manifest.files
    BY <2>1, <2>2 DEF ReadmeOptions
  <2>3. CASE Present(context.disk, AtRoot(r)) /\ r \notin context.manifest.files
    BY <2>1, <2>3 DEF ReadmeOptions
  <2>4. CASE ~ Present(context.disk, AtRoot(r)) /\ r \in context.manifest.files
    BY <2>1, <2>4 DEF ReadmeOptions
  <2>5. CASE ~ Present(context.disk, AtRoot(r)) /\ r \notin context.manifest.files
    BY <2>1, <2>5 DEF ReadmeOptions
  <2>6. QED
    BY <2>2, <2>3, <2>4, <2>5
<1>2. QED
  BY <1>1 DEF Queued

\* What the batch leaves at a path: what it writes there, else nothing where it
\* deletes, else what was scanned.
LEMMA AppliedDisk ==
    ASSUME EditInv, Apply
    PROVE  /\ \A p \in Paths : WrittenAt(p) # "absent" => project'.disk[p] = WrittenAt(p)
           /\ \A p \in Paths : WrittenAt(p) = "absent" /\ p \in Deleted => project'.disk[p] = "absent"
           /\ \A p \in Paths : WrittenAt(p) = "absent" /\ p \notin Deleted
                                  => project'.disk[p] = context.disk[p]
           /\ project'.manifest = FinalManifest
<1>1. project = context
  BY DEF EditInv, Apply
<1>2. project' = [manifest |-> FinalManifest,
                  disk |-> [p \in Paths |->
                     IF WrittenAt(p) # "absent" THEN WrittenAt(p)
                     ELSE IF p \in Deleted THEN "absent" ELSE context.disk[p]]]
  BY <1>1 DEF Apply
<1>3. project'.disk = [p \in Paths |->
                     IF WrittenAt(p) # "absent" THEN WrittenAt(p)
                     ELSE IF p \in Deleted THEN "absent" ELSE context.disk[p]]
  BY <1>2
<1>4. project'.manifest = FinalManifest
  BY <1>2
<1>5. QED
  BY <1>3, <1>4

\* Why the batch writes at a path.
LEMMA WrittenFor ==
    ASSUME NEW p
    PROVE  /\ WrittenAt(p) # "absent" =>
                 \/ p \in Resolved("scaffold") \/ p \in Scaffolded
                 \/ \E r \in Queued({"edit", "edit-and-adopt", "create"}) : p = AtRoot(r)
                 \/ \E r \in Queued({"scaffold"}) : p = AtRoot(r)
           /\ \/ p \in Resolved("scaffold") \/ p \in Scaffolded
              \/ \E r \in Queued({"edit", "edit-and-adopt", "create"}) : p = AtRoot(r)
              \/ \E r \in Queued({"scaffold"}) : p = AtRoot(r)
              => WrittenAt(p) # "absent"
<1> DEFINE one == p \in Resolved("scaffold") /\ p[1] = "asset"
           two == p \in Resolved("scaffold") /\ p[1] # "asset"
           three == p \in Scaffolded
           four == p \in {AtRoot(r) : r \in Queued({"edit", "edit-and-adopt", "create"})}
           five == p \in {AtRoot(r) : r \in Queued({"scaffold"})}
<1>1. WrittenAt(p) = CASE one -> "template" [] two -> "empty" [] three -> "template"
                       [] four -> "edited" [] five -> "template" [] OTHER -> "absent"
  BY DEF WrittenAt
<1>2. one \/ two <=> p \in Resolved("scaffold")
  OBVIOUS
<1>3. four <=> \E r \in Queued({"edit", "edit-and-adopt", "create"}) : p = AtRoot(r)
  OBVIOUS
<1>4. five <=> \E r \in Queued({"scaffold"}) : p = AtRoot(r)
  OBVIOUS
<1> HIDE DEF one, two, three, four, five
<1>5. WrittenAt(p) # "absent" <=> one \/ two \/ three \/ four \/ five
  BY <1>1
<1>6. QED
  BY <1>2, <1>3, <1>4, <1>5 DEF three

\* What the batch deletes belongs to a README that was removed, or to an asset
\* that was removed or renamed.
LEMMA DeletedFor ==
    ASSUME EditInv, NEW p \in Deleted
    PROVE  p \in AskedFor \cup LeftBehind
<1>1. CASE \E r \in Queued({"remove"}) : p = AtRoot(r)
  BY <1>1 DEF AskedFor, Queued
<1>2. CASE \E a \in DOMAIN context.manifest.assets \ form : p \in FilesOf(context.manifest, a)
  <2>1. PICK a \in DOMAIN became : a \notin form /\ p \in FilesOf(context.manifest, a)
    BY <1>2 DEF EditInv
  <2>2. became[a] # {a}
    BY <2>1 DEF EditInv
  <2>3. CASE became[a] = {}
    BY <2>1, <2>3 DEF AskedFor
  <2>4. CASE became[a] # {}
    BY <2>1, <2>2, <2>4 DEF LeftBehind, Renamed
  <2> QED BY <2>3, <2>4
<1> QED BY <1>1, <1>2 DEF Deleted

\* What the batch replaces or deletes of the author's, it was asked to, but for
\* what a rename leaves behind and for what the scan does not see.
LEMMA ApplyLoses ==
    ASSUME EditInv, Apply,
           NEW p \in Paths, context.disk[p] = "theirs", project'.disk[p] # "theirs"
    PROVE  p \in AskedFor \cup LeftBehind \cup Overlooked
<1>1. Present(context.disk, p)
  BY DEF Present
<1>2. CASE WrittenAt(p) = "absent"
  <2>1. p \in Deleted
    BY <1>2, AppliedDisk
  <2>2. QED
    BY <2>1, DeletedFor
<1>3. CASE WrittenAt(p) # "absent"
  <2>1. CASE p \in Resolved("scaffold")
    <3>1. ~ Seen(context, p)
      BY <2>1, ResolvedAsOffered
    <3>2. p \in Hidden
      BY <1>1, <3>1 DEF Seen
    <3> QED BY <2>1, <3>2 DEF Overlooked
  <2>2. ASSUME p \in Scaffolded PROVE FALSE
    <3>1. PICK a \in form \ DOMAIN context.manifest.assets : p = Primary(a)
      BY <2>2 DEF Scaffolded
    <3>2. p \notin Declared(context.manifest)
      BY <3>1, DeclaredPaths
    <3>3. p \in Scanned(context.manifest)
      BY <3>1 DEF Scanned, EditInv
    <3>4. Seen(context, p)
      BY <1>1, <3>1, PathsApart DEF Seen, Hidden
    <3>5. p \in Additions(context)
      BY <3>2, <3>3, <3>4 DEF Additions, Differences, Seen, Present
    <3>6. QED
      BY <2>2, <3>5 DEF Scaffolded
  <2>3. ~ \E r \in Queued({"scaffold"}) : p = AtRoot(r)
    BY <1>1, ReadmesAsOffered
  <2>4. ~ \E r \in Queued({"create"}) : p = AtRoot(r)
    <3>1. ASSUME NEW r \in Queued({"create"}), p = AtRoot(r) PROVE FALSE
      <4>1. Present(context.disk, AtRoot(r)) /\ "create" \in ReadmeOptions(context, r)
        BY <1>1, <3>1 DEF EditInv, Queued
      <4>2. CASE r \in context.manifest.files
        BY <4>1, <4>2 DEF ReadmeOptions
      <4>3. CASE r \notin context.manifest.files
        BY <4>1, <4>3 DEF ReadmeOptions
      <4>4. QED
        BY <4>2, <4>3
    <3>2. QED
      BY <3>1
  <2>5. CASE p \notin Resolved("scaffold")
    <3>1. \E r \in Queued({"edit", "edit-and-adopt", "create"}) : p = AtRoot(r)
      BY <1>3, <2>2, <2>3, <2>5, WrittenFor
    <3> QED BY <2>4, <3>1 DEF AskedFor, Queued
  <2>6. QED
    BY <2>1, <2>5
<1>4. QED
  BY <1>2, <1>3

\* What the new manifest declares.
LEMMA FinalAssets ==
    /\ DOMAIN FinalManifest.assets = form
    /\ \A a \in form : FinalManifest.assets[a] =
          ((IF a \in DOMAIN context.manifest.assets THEN context.manifest.assets[a] ELSE {})
              \cup {c \in Companion : CompanionOf(a, c) \in Resolved("add")})
              \ {c \in Companion : CompanionOf(a, c) \in Resolved("remove")}
    /\ FinalManifest.files =
          (((context.manifest.files \cup {r \in RootFile : AtRoot(r) \in Resolved("add")})
              \ {r \in RootFile : AtRoot(r) \in Resolved("remove")})
              \cup Queued({"adopt", "edit-and-adopt", "scaffold", "create"}))
              \ Queued({"remove", "remove-declaration"})
BY DEF FinalManifest, ApplyReadmeDeltas, ApplySupplementaryDeltas, BuildManifest

\* A file that is written, or was there and is not deleted, is there afterwards.
LEMMA StaysPresent ==
    ASSUME EditInv, Apply, NEW p \in Paths,
           \/ WrittenAt(p) # "absent"
           \/ Present(context.disk, p) /\ p \notin Deleted
    PROVE  Present(project'.disk, p)
BY AppliedDisk DEF Present

\* No file of an asset in the form is deleted, and a root file only when queued.
LEMMA DeletedPaths ==
    ASSUME NEW p
    PROVE  /\ \A a \in form : p = Primary(a) => p \notin Deleted
           /\ \A a \in form : \A c : p = CompanionOf(a, c) => p \notin Deleted
           /\ \A r : p = AtRoot(r) /\ r \notin Queued({"remove"}) => p \notin Deleted
<1>1. p \in Deleted =>
        \/ \E a \in DOMAIN context.manifest.assets \ form :
              p = Primary(a) \/ \E c : p = CompanionOf(a, c)
        \/ \E r \in Queued({"remove"}) : p = AtRoot(r)
  BY DEF Deleted, FilesOf, CompanionsIn
<1>2. QED
  BY <1>1, PathsApart

\* The file of an asset in the form is there, or the author dropped it as missing.
LEMMA DeclaredPrimary ==
    ASSUME EditInv, Apply, NEW a \in form,
           ~ Present(project'.disk, Primary(a))
    PROVE  Primary(a) \in Resolved("remove")
<1>1. Primary(a) \in Paths /\ Primary(a) \in Scanned(context.manifest)
  BY DEF EditInv, Paths, Scanned
<1>2. ~ Present(context.disk, Primary(a)) /\ WrittenAt(Primary(a)) = "absent"
  BY <1>1, StaysPresent, DeletedPaths
<1>3. Primary(a) \notin Resolved("scaffold") /\ Primary(a) \notin Scaffolded
  BY <1>2, WrittenFor
<1>4. ~ Seen(context, Primary(a)) /\ a \in DOMAIN context.manifest.assets
  BY <1>2, <1>3 DEF Scaffolded, Additions, Seen
<1>5. Primary(a) \in Declared(context.manifest)
  BY <1>4, DeclaredPaths
<1>6. Primary(a) \in Resolved("scaffold") \cup Resolved("remove")
  BY <1>1, <1>4, <1>5, MissingWasResolved DEF Apply
<1>7. QED
  BY <1>3, <1>6

\* A companion the new manifest declares is there.
LEMMA DeclaredCompanion ==
    ASSUME EditInv, Apply, NEW a \in Skill \cap form, NEW c \in FinalManifest.assets[a]
    PROVE  Present(project'.disk, CompanionOf(a, c))
<1> DEFINE p == CompanionOf(a, c)
<1> SUFFICES ASSUME ~ Present(project'.disk, p) PROVE FALSE
  OBVIOUS
<1>1. /\ \/ a \in DOMAIN context.manifest.assets /\ c \in context.manifest.assets[a]
         \/ c \in Companion /\ p \in Resolved("add")
      /\ ~ (c \in Companion /\ p \in Resolved("remove"))
  BY FinalAssets
<1>2. c \in Companion
  BY <1>1, ProjectsAssumption DEF EditInv
<1>3. p \in Paths
  BY <1>2 DEF Paths
<1>4. p \notin Deleted
  BY DeletedPaths
<1>5. ~ Present(context.disk, p) /\ WrittenAt(p) = "absent"
  BY <1>3, <1>4, StaysPresent
<1>6. p \notin Resolved("scaffold") /\ p \notin Resolved("add")
  BY <1>5, WrittenFor, ResolvedAsOffered
<1>7. a \in DOMAIN context.manifest.assets /\ c \in context.manifest.assets[a]
  BY <1>1, <1>6
<1>8. p \in Declared(context.manifest) /\ p \in Scanned(context.manifest)
  BY <1>2, <1>7, DeclaredPaths DEF Scanned
<1>9. p \in Resolved("scaffold") \cup Resolved("remove")
  BY <1>5, <1>8, MissingWasResolved DEF Apply, Seen
<1>10. QED
  BY <1>1, <1>2, <1>6, <1>9

\* A root file the new manifest declares is there, or is a README left missing.
LEMMA DeclaredAtRoot ==
    ASSUME EditInv, Apply, NEW r \in FinalManifest.files
    PROVE  Present(project'.disk, AtRoot(r)) \/ r \in Readme \ DOMAIN readmes
<1> DEFINE p == AtRoot(r)
<1> SUFFICES ASSUME ~ Present(project'.disk, p), r \notin Readme \ DOMAIN readmes PROVE FALSE
  OBVIOUS
<1>1. /\ \/ /\ \/ r \in context.manifest.files
               \/ r \in RootFile /\ p \in Resolved("add")
            /\ ~ (r \in RootFile /\ p \in Resolved("remove"))
         \/ r \in Queued({"adopt", "edit-and-adopt", "scaffold", "create"})
      /\ r \notin Queued({"remove", "remove-declaration"})
  BY FinalAssets
<1>2. r \in RootFile \cup Readme
  BY <1>1, ProjectsAssumption DEF EditInv, Queued
<1>3. p \in Paths
  BY <1>2 DEF Paths
<1>4. p \notin Deleted
  BY <1>1, DeletedPaths DEF Queued
<1>5. ~ Present(context.disk, p) /\ WrittenAt(p) = "absent"
  BY <1>3, <1>4, StaysPresent
<1>6. /\ p \notin Resolved("scaffold") /\ p \notin Resolved("add")
      /\ r \notin Queued({"edit", "edit-and-adopt", "create"}) /\ r \notin Queued({"scaffold"})
  BY <1>5, WrittenFor, ResolvedAsOffered
<1>7. r \notin DOMAIN readmes
  BY <1>1, <1>5, <1>6, ReadmesAsOffered DEF Queued
<1>8. r \in RootFile /\ r \in context.manifest.files /\ p \notin Resolved("remove")
  BY <1>1, <1>2, <1>6, <1>7 DEF Queued
<1>9. p \in Declared(context.manifest) /\ p \in Scanned(context.manifest)
  BY <1>8, DeclaredPaths DEF Scanned
<1>10. p \in Resolved("scaffold") \cup Resolved("remove")
  BY <1>5, <1>9, MissingWasResolved DEF Apply, Seen
<1>11. QED
  BY <1>6, <1>8, <1>10

\* The batch brings about both promises.
LEMMA ApplyInv == ASSUME EditInv, Apply PROVE EditComplete'
<1>1. /\ step = "confirmation" /\ step' = "applied"
      /\ UNCHANGED <<context, resolutions, readmes, form, became, edits>>
  BY DEF Apply
<1>2. EditInv'
  <2>1. DOMAIN resolutions = Differences(context)
    BY <1>1 DEF EditInv
  <2>2. QED
    BY <1>1, <2>1 DEF EditInv, Steps
<1>3. LossesWereAskedFor'
  <2>1. \A p \in Paths : context.disk[p] = "theirs" /\ project'.disk[p] # "theirs" =>
           p \in AskedFor \cup LeftBehind \cup Overlooked
    BY ApplyLoses
  <2>2. UNCHANGED <<AskedFor, LeftBehind, Overlooked>>
    BY <1>1 DEF AskedFor, LeftBehind, Renamed, Overlooked, Resolved, Queued
  <2>3. QED
    BY <1>1, <2>1, <2>2 DEF LossesWereAskedFor
<1>4. DeclaredIsOnDisk'
  <2> DEFINE m == FinalManifest
  <2>1. project'.manifest = m /\ DOMAIN m.assets = form
    BY AppliedDisk, FinalAssets
  <2> HIDE DEF m
  <2>2. ASSUME NEW p \in Declared(m)
        PROVE  \/ Present(project'.disk, p)
               \/ \E r \in Readme \ DOMAIN readmes : p = AtRoot(r)
               \/ p[1] = "asset" /\ p \in Resolved("remove")
    <3>1. CASE \E a \in DOMAIN m.assets : p = Primary(a)
      BY <2>1, <3>1, DeclaredPrimary, PathsApart
    <3>2. CASE \E s \in Skill \cap DOMAIN m.assets : \E c \in m.assets[s] : p = CompanionOf(s, c)
      BY <2>1, <3>2, DeclaredCompanion DEF m
    <3>3. CASE \E r \in m.files : p = AtRoot(r)
      BY <3>3, DeclaredAtRoot DEF m
    <3>4. QED
      BY <3>1, <3>2, <3>3, DeclaredPaths
  <2>3. QED
    BY <1>1, <2>1, <2>2 DEF DeclaredIsOnDisk, Resolved
<1>5. QED
  BY <1>2, <1>3, <1>4 DEF EditComplete

\* A session starts on what it scanned, with nothing chosen.
LEMMA EditInitInv == EditInit => EditComplete
<1> SUFFICES ASSUME EditInit PROVE EditComplete
  OBVIOUS
<1>1. step \in {"reconciliation", "readme"} /\ (step # "reconciliation" => Differences(context) = {})
  BY DEF EditInit
<1>2. context \in Projects /\ project = context /\ DOMAIN resolutions = {} /\ DOMAIN readmes = {}
  BY DEF EditInit
<1>3. form \subseteq Asset /\ DOMAIN became = DOMAIN context.manifest.assets
      /\ \A a \in DOMAIN became : became[a] \subseteq form
  BY <1>2, ProjectsAssumption DEF EditInit
<1>4. EditInv
  BY <1>1, <1>2, <1>3 DEF EditInv, Steps
<1>5. QED
  BY <1>1, <1>4 DEF EditComplete, LossesWereAskedFor, DeclaredIsOnDisk, Applied

\* A choice for a difference is one of those offered.
LEMMA ResolveInv ==
    ASSUME EditInv, NEW p \in Differences(context), Resolve(p)
    PROVE  EditInv'
<1>1. PICK action \in Options(context, p) :
        resolutions' = [q \in DOMAIN resolutions \cup {p} |-> IF q = p THEN action ELSE resolutions[q]]
  BY DEF Resolve
<1>2. step = "reconciliation" /\ UNCHANGED <<project, context, step, readmes, form, became>>
  BY DEF Resolve
<1>3. DOMAIN resolutions' \subseteq Differences(context)
  BY <1>1 DEF EditInv
<1>4. \A q \in DOMAIN resolutions' : resolutions'[q] \in Options(context, q)
  BY <1>1 DEF EditInv
<1>5. QED
  BY <1>2, <1>3, <1>4 DEF EditInv

\* A choice for a README is one of those offered.
LEMMA ResolveReadmeInv ==
    ASSUME EditInv, NEW r \in Readme, ResolveReadme(r)
    PROVE  EditInv'
<1>1. PICK action \in ReadmeOptions(context, r) :
        readmes' = [q \in DOMAIN readmes \cup {r} |-> IF q = r THEN action ELSE readmes[q]]
  BY DEF ResolveReadme
<1>2. UNCHANGED <<project, context, step, resolutions, form, became>>
  BY DEF ResolveReadme
<1>3. DOMAIN readmes' \subseteq Readme
  BY <1>1 DEF EditInv
<1>4. \A q \in DOMAIN readmes' : readmes'[q] \in ReadmeOptions(context, q)
  BY <1>1 DEF EditInv
<1>5. QED
  BY <1>2, <1>3, <1>4 DEF EditInv

\* A change in the form touches nothing but the form, and what was scanned stays
\* in it unless it is removed.
LEMMA FormInv ==
    ASSUME EditInv, InForm, form' \subseteq Asset, DOMAIN became' = DOMAIN became,
           \A a \in DOMAIN became : became'[a] \subseteq form'
    PROVE  EditInv'
BY DEF EditInv, InForm

\* Nothing is promised before the batch is applied.
LEMMA NotApplied ==
    ASSUME EditInv', step' # "applied" PROVE EditComplete'
BY DEF EditComplete, LossesWereAskedFor, DeclaredIsOnDisk, Applied

\* No step of the session breaks the invariant.
LEMMA EditNextInv == EditComplete /\ [EditNext]_editVars => EditComplete'
<1> SUFFICES ASSUME EditComplete, [EditNext]_editVars PROVE EditComplete'
  OBVIOUS
<1>1. EditInv
  BY DEF EditComplete
<1>2. CASE UNCHANGED editVars
  BY <1>2 DEF editVars, EditComplete, EditInv, LossesWereAskedFor, DeclaredIsOnDisk, Applied,
              Resolved, Queued, AskedFor, LeftBehind, Renamed, Overlooked
<1> SUFFICES ASSUME EditNext PROVE EditComplete'
  BY <1>2
<1>3. ASSUME NEW p \in Differences(context), Resolve(p) PROVE EditComplete'
  BY <1>1, <1>3, ResolveInv, NotApplied DEF Resolve
<1>4. ASSUME NEW r \in Readme, ResolveReadme(r) PROVE EditComplete'
  BY <1>1, <1>4, ResolveReadmeInv, NotApplied DEF ResolveReadme
<1>5. ASSUME NEW a \in Asset, AddAsset(a) \/ RemoveAsset(a) PROVE EditComplete'
  <2>1. InForm /\ form' \subseteq Asset /\ step' # "applied"
    BY <1>1, <1>5 DEF AddAsset, RemoveAsset, InForm, EditInv
  <2>2. CASE AddAsset(a)
    BY <1>1, <2>1, <2>2, FormInv, NotApplied DEF AddAsset, EditInv
  <2>3. CASE RemoveAsset(a)
    <3>1. DOMAIN became' = DOMAIN became /\ \A x \in DOMAIN became : became'[x] \subseteq form'
      BY <1>1, <2>3 DEF RemoveAsset, EditInv
    <3> QED BY <1>1, <2>1, <3>1, FormInv, NotApplied
  <2>4. QED
    BY <1>5, <2>2, <2>3
<1>6. ASSUME NEW a \in Asset, NEW b \in Asset, RenameAsset(a, b) PROVE EditComplete'
  <2>1. InForm /\ form' \subseteq Asset /\ step' # "applied"
    BY <1>1, <1>6 DEF RenameAsset, InForm, EditInv
  <2>2. DOMAIN became' = DOMAIN became /\ \A x \in DOMAIN became : became'[x] \subseteq form'
    BY <1>1, <1>6 DEF RenameAsset, EditInv
  <2>3. QED
    BY <1>1, <2>1, <2>2, FormInv, NotApplied
<1>7. CASE LeaveReconciliation \/ LeaveReadme \/ Submit \/ Back \/ GiveUp
  <2>1. EditInv' /\ step' # "applied"
    BY <1>1, <1>7 DEF LeaveReconciliation, LeaveReadme, Submit, Back, GiveUp, EditInv, Steps
  <2>2. QED
    BY <2>1, NotApplied
<1>8. CASE Apply
  BY <1>1, <1>8, ApplyInv
<1>9. QED
  BY <1>3, <1>4, <1>5, <1>6, <1>7, <1>8 DEF EditNext

\* What an author wrote is lost only where the author asked for it, or in a file
\* a renamed asset leaves behind or a hidden companion taken for missing, for any
\* project, any resolutions and any edits of the form.
THEOREM Losses == EditSpec => []LossesWereAskedFor
<1>1. EditComplete => LossesWereAskedFor
  BY DEF EditComplete
<1>2. QED
  BY <1>1, EditInitInv, EditNextInv, PTL DEF EditSpec

\* Every file the new manifest declares exists but for those the author was
\* shown as missing and left so, for any project, resolutions and edits.
THEOREM Declarations == EditSpec => []DeclaredIsOnDisk
<1>1. EditComplete => DeclaredIsOnDisk
  BY DEF EditComplete
<1>2. QED
  BY <1>1, EditInitInv, EditNextInv, PTL DEF EditSpec
=============================================================================
