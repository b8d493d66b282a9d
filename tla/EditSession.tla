---------------------------- MODULE EditSession -----------------------------
(* `facet edit`: the project is scanned once, the differences between its   *)
(* manifest and its files are resolved one by one, the README files are     *)
(* dealt with, the assets are edited in a form, and on confirmation one     *)
(* batch of writes and deletions is applied, all of it or none              *)
(* (edit/, fs-transaction.ts, and tui/views/edit/ of the command line).     *)
(*                                                                          *)
(* A file holds what its author wrote, an editor's result, a starter        *)
(* template, nothing at all ("empty"), or does not exist ("absent").        *)
EXTENDS FiniteSets, Naturals

CONSTANTS Skill, Agent,   \* names of assets
          Companion,      \* files a skill may have beside its primary one
          Dotfile,        \* those that are hidden, or in a hidden directory
          RootFile,       \* the common files of a project root
          Readme,         \* its README files
          Projects,       \* what a session may find: a manifest and a disk
          MaxFormEdits    \* bound: the changes made in the form

Asset == Skill \cup Agent

SameKind(a, b) == {a, b} \subseteq Skill \/ {a, b} \subseteq Agent

Primary(a) == <<"asset", a>>
CompanionOf(s, c) == <<"companion", s, c>>
AtRoot(r) == <<"root", r>>

Paths == {Primary(a) : a \in Asset}
             \cup {CompanionOf(s, c) : s \in Skill, c \in Companion}
             \cup {AtRoot(r) : r \in RootFile \cup Readme}

Hidden == {CompanionOf(s, c) : s \in Skill, c \in Dotfile}

ASSUME ProjectsAssumption ==
    \A at \in Projects :
        /\ DOMAIN at.manifest.assets \subseteq Asset
        /\ \A a \in DOMAIN at.manifest.assets : at.manifest.assets[a] \subseteq Companion
        /\ at.manifest.files \subseteq RootFile \cup Readme

VARIABLES
    project,      \* the manifest and the disk
    context,      \* the same, as scanned when the session began
    step,         \* the screen of the wizard
    resolutions,  \* the choice made for each difference
    readmes,      \* the action queued for each README
    form,         \* the names in the form
    became,       \* history: what each scanned asset is called now, {} once removed
    edits         \* counts the changes in the form, for the bound

editVars == <<project, context, step, resolutions, readmes, form, became, edits>>

Present(disk, p) == disk[p] # "absent"

CompanionsIn(manifest, s) == {CompanionOf(s, c) : c \in manifest.assets[s]}

FilesOf(manifest, a) ==
    {Primary(a)} \cup (IF a \in Skill THEN CompanionsIn(manifest, a) ELSE {})

Declared(manifest) ==
    (UNION {FilesOf(manifest, a) : a \in DOMAIN manifest.assets})
        \cup {AtRoot(r) : r \in manifest.files}

\* The scan looks for every primary, for the files of a declared skill and for
\* the common and declared root files.  READMEs have a panel of their own.
Scanned(manifest) ==
    {Primary(a) : a \in Asset}
        \cup {CompanionOf(s, c) : s \in Skill \cap DOMAIN manifest.assets, c \in Companion}
        \cup {AtRoot(r) : r \in RootFile}

\* Its glob passes hidden files over.
Seen(at, p) == Present(at.disk, p) /\ p \notin Hidden

Differences(at) ==
    {p \in Scanned(at.manifest) : Seen(at, p) # (p \in Declared(at.manifest))}

Additions(at) == {p \in Differences(at) : Seen(at, p)}

Options(at, p) ==
    IF p \in Additions(at) THEN {"add", "ignore"} ELSE {"scaffold", "remove"}

ReadmeOptions(at, r) ==
    CASE Present(at.disk, AtRoot(r)) /\ r \in at.manifest.files -> {"edit", "remove"}
      [] Present(at.disk, AtRoot(r)) /\ r \notin at.manifest.files -> {"adopt", "edit-and-adopt"}
      [] ~ Present(at.disk, AtRoot(r)) /\ r \in at.manifest.files -> {"scaffold", "remove-declaration"}
      [] OTHER -> {"create"}

EditInit ==
    /\ project \in Projects
    /\ context = project
    /\ step = IF Differences(context) # {} THEN "reconciliation" ELSE "readme"
    /\ resolutions = <<>>
    /\ readmes = <<>>
    /\ form = DOMAIN context.manifest.assets
    /\ became = [a \in form |-> {a}]
    /\ edits = 0

Resolve(p) ==
    /\ step = "reconciliation"
    /\ \E action \in Options(context, p) :
          resolutions' = [q \in DOMAIN resolutions \cup {p} |->
                             IF q = p THEN action ELSE resolutions[q]]
    /\ UNCHANGED <<project, context, step, readmes, form, became, edits>>

LeaveReconciliation ==
    /\ step = "reconciliation"
    /\ DOMAIN resolutions = Differences(context)
    /\ step' = "readme"
    /\ UNCHANGED <<project, context, resolutions, readmes, form, became, edits>>

\* An action that needs the external editor is queued when it returns with a
\* text; a cancelled editor queues nothing.
ResolveReadme(r) ==
    /\ step = "readme"
    /\ \E action \in ReadmeOptions(context, r) :
          readmes' = [q \in DOMAIN readmes \cup {r} |-> IF q = r THEN action ELSE readmes[q]]
    /\ UNCHANGED <<project, context, step, resolutions, form, became, edits>>

LeaveReadme ==
    /\ step = "readme"
    /\ step' = "editing"
    /\ UNCHANGED <<project, context, resolutions, readmes, form, became, edits>>

InForm ==
    /\ step = "editing"
    /\ edits < MaxFormEdits
    /\ edits' = edits + 1
    /\ UNCHANGED <<project, context, step, resolutions, readmes>>

AddAsset(a) ==
    /\ InForm
    /\ a \notin form
    /\ form' = form \cup {a}
    /\ UNCHANGED became

RemoveAsset(a) ==
    /\ InForm
    /\ a \in form
    /\ form' = form \ {a}
    /\ became' = [x \in DOMAIN became |-> became[x] \ {a}]

RenameAsset(a, b) ==
    /\ InForm
    /\ a \in form /\ b \notin form /\ SameKind(a, b)
    /\ form' = (form \ {a}) \cup {b}
    /\ became' = [x \in DOMAIN became |-> IF a \in became[x] THEN {b} ELSE became[x]]

Submit ==
    /\ step = "editing"
    /\ form # {}
    /\ step' = "confirmation"
    /\ UNCHANGED <<project, context, resolutions, readmes, form, became, edits>>

Back ==
    /\ step = "confirmation"
    /\ step' = "editing"
    /\ UNCHANGED <<project, context, resolutions, readmes, form, became, edits>>

Resolved(action) == {p \in DOMAIN resolutions : resolutions[p] = action}

Queued(actions) == {r \in DOMAIN readmes : readmes[r] \in actions}

\* A descriptor is looked up under the name the form ends with.
BuildManifest ==
    LET declared == context.manifest.assets IN
    [assets |-> [a \in form |-> IF a \in DOMAIN declared THEN declared[a] ELSE {}],
     files |-> context.manifest.files]

\* Fault: a declaration that was dropped in reconciliation is kept.
DeltasOfAdditions(manifest) ==
    [manifest EXCEPT
        !.assets = [a \in DOMAIN @ |->
            @[a] \cup {c \in Companion : CompanionOf(a, c) \in Resolved("add")}],
        !.files = @ \cup {r \in RootFile : AtRoot(r) \in Resolved("add")}]

\* What reconciliation changes about companions and root files.
ApplySupplementaryDeltas(manifest) ==
    LET With(a) == {c \in Companion : CompanionOf(a, c) \in Resolved("add")}
        Without(a) == {c \in Companion : CompanionOf(a, c) \in Resolved("remove")}
    IN [manifest EXCEPT
           !.assets = [a \in DOMAIN @ |-> (@[a] \cup With(a)) \ Without(a)],
           !.files = (@ \cup {r \in RootFile : AtRoot(r) \in Resolved("add")})
                         \ {r \in RootFile : AtRoot(r) \in Resolved("remove")}]

ApplyReadmeDeltas(manifest) ==
    [manifest EXCEPT !.files =
        (@ \cup Queued({"adopt", "edit-and-adopt", "scaffold", "create"}))
            \ Queued({"remove", "remove-declaration"})]

FinalManifest == ApplyReadmeDeltas(ApplySupplementaryDeltas(BuildManifest))

\* Fault: every asset the manifest did not have gets a template.
NewInTheForm == {Primary(a) : a \in form \ DOMAIN context.manifest.assets}

\* New assets get a template, but not over a file the scan has found.
Scaffolded ==
    {Primary(a) : a \in form \ DOMAIN context.manifest.assets} \ Additions(context)

\* What the batch writes at p, or "absent" where it writes nothing.
WrittenAt(p) ==
    CASE p \in Resolved("scaffold") /\ p[1] = "asset" -> "template"
      [] p \in Resolved("scaffold") /\ p[1] # "asset" -> "empty"
      [] p \in Scaffolded -> "template"
      [] p \in {AtRoot(r) : r \in Queued({"edit", "edit-and-adopt", "create"})} -> "edited"
      [] p \in {AtRoot(r) : r \in Queued({"scaffold"})} -> "template"
      [] OTHER -> "absent"

\* What is no longer in the form, removed or renamed, goes with the companions
\* declared for it.
Deleted ==
    (UNION {FilesOf(context.manifest, a) : a \in DOMAIN context.manifest.assets \ form})
        \cup {AtRoot(r) : r \in Queued({"remove"})}

\* A batch that names a path twice is refused.
Twice == {p \in Deleted : Present(project.disk, p) /\ WrittenAt(p) # "absent"}

\* One batch; a deletion of what is not there is left out of it.
Apply ==
    /\ step = "confirmation"
    /\ Twice = {}
    /\ step' = "applied"
    /\ project' =
          [manifest |-> FinalManifest,
           disk |-> [p \in Paths |->
              IF WrittenAt(p) # "absent" THEN WrittenAt(p)
              ELSE IF p \in Deleted THEN "absent" ELSE project.disk[p]]]
    /\ UNCHANGED <<context, resolutions, readmes, form, became, edits>>

\* The batch is refused, or fails and is undone, or the user gives up.
GiveUp ==
    /\ step # "applied"
    /\ step' = "ended"
    /\ UNCHANGED <<project, context, resolutions, readmes, form, became, edits>>

EditNext ==
    /\ step # "ended"
    /\ \/ \E p \in Differences(context) : Resolve(p)
       \/ LeaveReconciliation
       \/ \E r \in Readme : ResolveReadme(r)
       \/ LeaveReadme
       \/ \E a \in Asset : AddAsset(a) \/ RemoveAsset(a)
       \/ \E a, b \in Asset : RenameAsset(a, b)
       \/ Submit
       \/ Back
       \/ Apply
       \/ GiveUp

EditSpec == EditInit /\ [][EditNext]_editVars

Applied == step = "applied"

\* The author edited or removed the README, or removed the asset.
AskedFor ==
    {AtRoot(r) : r \in Queued({"edit", "edit-and-adopt", "remove"})}
        \cup UNION {FilesOf(context.manifest, a) : a \in {x \in DOMAIN became : became[x] = {}}}

Renamed == {a \in DOMAIN became : became[a] \notin {{}, {a}}}

\* The two ways of losing what nobody asked to lose: both break ContentPreserved.
LeftBehind == UNION {FilesOf(context.manifest, a) : a \in Renamed}
Overlooked == Hidden \cap Resolved("scaffold")

\* Whatever is resolved, queued, added, removed and renamed, in any order, a file
\* of the author's is lost only where the author asked for it, but for the files
\* a renamed asset leaves behind and for a hidden companion taken for missing;
\* so a file found on disk is never written over by a template, and files beside
\* a removed skill that it did not declare stay.
LossesWereAskedFor ==
    Applied =>
        \A p \in Paths :
            context.disk[p] = "theirs" /\ project.disk[p] # "theirs" =>
                p \in AskedFor \cup LeftBehind \cup Overlooked

\* What the author wrote is kept, for an asset renamed in the form under its new
\* name, and for a hidden companion of a skill that stays where it is.
\* authoring__facets/spec.md:648: "primary content SHALL be preserved verbatim
\* unless the author explicitly edits it", and supplementary files "SHALL retain
\* exact bytes unless explicitly edited".
ContentPreserved ==
    Applied =>
        /\ \A a \in Renamed : context.disk[Primary(a)] = "theirs" =>
               \A b \in became[a] : project.disk[Primary(b)] = "theirs"
        /\ \A s \in Skill \cap form, c \in Dotfile :
               context.disk[CompanionOf(s, c)] = "theirs"
                   => project.disk[CompanionOf(s, c)] = "theirs"

\* Every file the new manifest declares exists, whatever was resolved first and
\* renamed or removed later, but for what the author was shown as missing and
\* left so.
DeclaredIsOnDisk ==
    Applied =>
        \A p \in Declared(project.manifest) :
            \/ Present(project.disk, p)
            \/ \E r \in Readme \ DOMAIN readmes : p = AtRoot(r)
            \/ p[1] = "asset" /\ p \in Resolved("remove")
=============================================================================
