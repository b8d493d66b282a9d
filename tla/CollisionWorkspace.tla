-------------------------- MODULE CollisionWorkspace --------------------------
(* The workspace in which a user settles name collisions                     *)
(* (tui/views/install/collision/).  It edits one draft of the whole project's *)
(* intent, asks the planner about it after every edit, and shows the          *)
(* claimants in groups that merge and split as aliases come and go.           *)
(*                                                                            *)
(* A claimant is named by its facet and authored name; the order of the rows  *)
(* and the highlighted option are left out, so the cursor may go to any row   *)
(* of its group and any option may be applied there.                          *)
EXTENDS MaterializationPlan, Naturals

CONSTANTS Requests,     \* what the engine may ask: contents and overrides
          MaxRevisions  \* bound: the edits of one session

ASSUME RequestsAssumption ==
    \A r \in Requests : /\ DOMAIN r.over = DOMAIN r.contents
                        /\ InvalidAliases(r.contents, r.over) = {}
                        /\ Contested(r.contents, r.over) # {}

VARIABLES
    request,   \* what the engine asked
    draft,     \* the intent so far, the claimants edited, those ever surfaced
    view,      \* the overview, or the claimant under the cursor
    editing,   \* the alias editor is open
    reply,     \* what the engine is told
    revisions  \* counts the edits, for the bound

workspaceVars == <<request, draft, view, editing, reply, revisions>>

Overview == <<>>
Unanswered == [kind |-> "pending"]

Claimant(c) == <<c.facet, c.name>>

\* The planner's report: who contends for each contested place.
Groups(over) ==
    LET contested == Contested(request.contents, over) IN
    IF InvalidAliases(request.contents, over) # {} THEN {}
    ELSE {{Claimant(c) : c \in {d \in contested : Place(d) = pl}} : pl \in Places(contested)}

Current == Groups(draft.over)
Original == Groups(request.over)

Conflicts(groups, k) == (UNION {g \in groups : k \in g}) \ {k}

Status(groups, k) ==
    LET conflicts == Conflicts(groups, k) IN
    IF conflicts = {} THEN "resolved"
    ELSE IF draft.edited \cap (conflicts \cup {k}) # {} THEN "draft-conflict"
    ELSE "unresolved"

\* Whom a claimant is shown with: every set it is in and no group reaches out
\* of holds them too.
Together(k, groups) ==
    LET all == draft.claimants \cup UNION groups IN
    {c \in draft.claimants :
        \A S \in SUBSET all :
            k \in S /\ (\A g \in groups : g \cap S = {} \/ g \subseteq S) => c \in S}

\* Fault: claimants are shown by what brought them together at first.
AsAsked == {Together(k, Original) : k \in draft.claimants}

\* The groups shown: all that were grouped at first or contend now, and theirs.
DisplayGroups == {Together(k, Original \cup Current) : k \in draft.claimants}

GroupOf(k) == UNION {g \in DisplayGroups : k \in g}

\* Fault: the draft starts from the overrides of the facets in conflict.
DraftOfGroups ==
    LET facets == {k[1] : k \in UNION Original} IN
    [over |-> [f \in DOMAIN request.over |-> IF f \in facets THEN request.over[f] ELSE <<>>],
     edited |-> {}, claimants |-> UNION Original]

FirstDraft ==
    [over |-> request.over, edited |-> {}, claimants |-> UNION Original]

WorkspaceInit ==
    /\ request \in Requests
    /\ draft = FirstDraft
    /\ view = Overview
    /\ editing = FALSE
    /\ reply = Unanswered
    /\ revisions = 0

\* Keeping the authored name removes the override.
WithOverride(over, k, as) ==
    LET own == over[k[1]]
        rest == DOMAIN own \ {k[2]}
        names == IF as = "authored" THEN rest ELSE rest \cup {k[2]}
    IN [over EXCEPT ![k[1]] = [n \in names |-> IF n = k[2] THEN as ELSE own[n]]]

\* An alias may land on a name nothing contended for: its holder is surfaced,
\* and stays.
Revised(k, as) ==
    LET over == WithOverride(draft.over, k, as) IN
    [over |-> over,
     edited |-> draft.edited \cup {k},
     claimants |-> draft.claimants \cup UNION Groups(over)]

Revise(as) ==
    /\ revisions < MaxRevisions
    /\ revisions' = revisions + 1
    /\ draft' = Revised(view, as)
    /\ editing' = FALSE
    /\ UNCHANGED <<request, view, reply>>

Open(k) ==
    /\ view = Overview
    /\ view' = k
    /\ UNCHANGED <<request, draft, editing, reply, revisions>>

MoveFocus(k) ==
    /\ view # Overview /\ ~ editing
    /\ k \in GroupOf(view) \ {view}
    /\ view' = k
    /\ UNCHANGED <<request, draft, editing, reply, revisions>>

BackToOverview ==
    /\ view # Overview /\ ~ editing
    /\ view' = Overview
    /\ UNCHANGED <<request, draft, editing, reply, revisions>>

KeepOrOmit(as) == view # Overview /\ ~ editing /\ Revise(as)

OpenAlias ==
    /\ view # Overview /\ ~ editing
    /\ editing' = TRUE
    /\ UNCHANGED <<request, draft, view, reply, revisions>>

\* Enter is inert while the name is not a legal one.
SubmitAlias(name) ==
    /\ editing
    /\ KindOf(name) = KindOf(view[2])
    /\ Revise(name)

CancelAlias ==
    /\ editing
    /\ editing' = FALSE
    /\ UNCHANGED <<request, draft, view, reply, revisions>>

\* The confirm row answers only when the whole draft plans.
ConfirmWorkspace ==
    /\ view = Overview
    /\ Plannable(request.contents, draft.over)
    /\ reply' = [kind |-> "resolved", over |-> draft.over]
    /\ UNCHANGED <<request, draft, view, editing, revisions>>

\* Ctrl-C anywhere, the alias editor included; Escape in the overview.
CancelWorkspace ==
    /\ reply' = [kind |-> "cancelled"]
    /\ UNCHANGED <<request, draft, view, editing, revisions>>

WorkspaceNext ==
    /\ reply = Unanswered
    /\ \/ \E k \in draft.claimants : Open(k) \/ MoveFocus(k)
       \/ BackToOverview
       \/ \E as \in {"authored", "omitted"} : KeepOrOmit(as)
       \/ OpenAlias
       \/ \E name \in Name : SubmitAlias(name)
       \/ CancelAlias
       \/ ConfirmWorkspace
       \/ CancelWorkspace

WorkspaceSpec == WorkspaceInit /\ [][WorkspaceNext]_workspaceVars

\* Nothing off the screen blocks the confirmation: the planner accepts the
\* draft exactly when every row shown is resolved, a contender is always in
\* the group on which the other is shown, and the claimant under the cursor
\* is always one of the rows.
BlockersAreOnScreen ==
    LET groups == Current
        displayed == DisplayGroups
    IN /\ Plannable(request.contents, draft.over)
              <=> \A k \in draft.claimants : Status(groups, k) = "resolved"
       /\ \A g \in groups : \E d \in displayed : g \subseteq d
       /\ view # Overview => \E d \in displayed : view \in d

\* A confirmed answer plans, and it is the project's own intent but for the
\* claimants the user decided: choices the workspace never showed, and those
\* left over from other versions, come back as they went in.
ConfirmedIntentIsOwn ==
    reply.kind = "resolved" =>
        /\ Plannable(request.contents, reply.over)
        /\ \A f \in DOMAIN request.over, n \in Name :
              <<f, n>> \notin draft.edited =>
                  Intent(reply.over, f, n) = Intent(request.over, f, n)
=============================================================================
