----------------------------- MODULE InstallRun -----------------------------
(* The commit orchestrator behind `facet install`, `add`, `remove` and      *)
(* `update`: how a command takes a project from the records it loaded under *)
(* the install lock to what is on disk and in the records when it ends.     *)
(*                                                                          *)
(* Abstracted: the lock is exclusive (InstallLock), a file transaction      *)
(* applies or undoes a batch as a whole (FileTransaction); one adapter, one *)
(* file per asset, all servers in one document; registry sources only.      *)
(* A step reads and writes a file at once: a write that finds another file  *)
(* than its plan read is refused by the transaction, and is a Stop here.    *)
EXTENDS ProjectRecords, Naturals, Sequences

CONSTANTS
    Proc, None,
    Commands,   \* what users ask for
    Answers,    \* the overrides a user may choose when contributions collide
    Pulls,      \* manifests and lockfiles that version control may put there
    Worlds,     \* projects to start from
    Releases,   \* facet -> versions that are published some day
    MaxEdits, MaxCrashes  \* bounds

Absent == "absent"
Foreign == "foreign"    \* anything no facet has put there

AllPlaces == FilePlaces \cup ServerPlaces

Payload ==
    UNION {UNION {{Declares[f][v][n] : n \in DOMAIN Declares[f][v]} :
                    v \in DOMAIN Declares[f]} : f \in Facet}

Ours(held) == held \notin {Absent, Foreign}

\* The server definitions the receipt speaks for, each at its place.
Spoken(receipt) == {<<Place(c), c.holds>> : c \in Servers(Claims(receipt))}

\* A facet declares names, and of its versions, which are finitely many, one
\* is newer than the others.
ASSUME DeclaresAssumption ==
    \A f \in Facet :
        /\ \A v \in DOMAIN Declares[f] : DOMAIN Declares[f][v] \subseteq Name
        /\ Releases[f] \subseteq DOMAIN Declares[f]
        /\ \A some \in SUBSET DOMAIN Declares[f] :
              some # {} => \E v \in some : \A w \in some : ~ IsNewerThan(w, v)

CommandKind == {"install", "frozen", "add", "remove", "update"}

ASSUME InputsAssumption ==
    /\ \A c \in Commands : c.kind \in CommandKind /\ c.facet \in Facet
    /\ \A over \in Answers : \A f \in DOMAIN over : Overriding(over[f])
    /\ \A files \in Pulls : ManifestTyped(files[1]) /\ LockfileTyped(files[2])

\* The projects to start from are ones that earlier runs have left.
ASSUME WorldsAssumption ==
    \A w \in Worlds :
        /\ ManifestTyped(w.manifest) /\ LockfileTyped(w.lockfile) /\ ReceiptTyped(w.receipt)
        /\ w.disk \in [AllPlaces -> Payload \cup {Absent, Foreign}]
        /\ w.published \in [Facet -> SUBSET UNION {DOMAIN Declares[f] : f \in Facet}]
        /\ \A f \in Facet : w.published[f] \subseteq DOMAIN Declares[f]
        /\ \A pl \in AllPlaces : Ours(w.disk[pl]) => pl \in Owned(w.receipt)
        /\ \A c \in Claims(w.receipt) : w.disk[Place(c)] = c.holds
        /\ \A c, d \in Claims(w.receipt) : ~ Contend(c, d)
        /\ \A pl \in ServerPlaces : Ours(w.disk[pl]) => <<pl, w.disk[pl]>> \in Spoken(w.receipt)

ASSUME ProcAssumption == None \notin Proc

ASSUME BoundsAssumption == MaxEdits \in Nat /\ MaxCrashes \in Nat

VARIABLES
    manifest, lockfile, receipt,
    disk,       \* what is at every place of an asset or a server
    published,  \* the registry: facet -> versions
    asked,      \* the command of every process
    holder,     \* the process that has the install lock
    step,       \* where its run is
    run,        \* what the run has loaded and decided
    todelete, towrite, prompt,  \* what it still has to do, and its question
    journal,    \* what it has changed: before and after, batch by batch
    residue,    \* what it could not undo
    approved,   \* history: the server definitions the user has agreed to
    shown,      \* history: what was in the way, as the user was shown it
    touched, before,  \* history: others' changes since the run began, and the disk without it
    stray,      \* history: places the receipt cannot be right about
    edits, crashes

records == <<manifest, lockfile, receipt>>
outside == <<published, asked, holder>>
work == <<todelete, towrite, prompt>>
undo == <<journal, residue>>
history == <<touched, before, stray>>
counters == <<edits, crashes>>
vars == <<records, disk, outside, step, run, work, undo, approved, shown, history, counters>>

Nothing == [kind |-> "nothing"]
Finished == [kind |-> "finished"]
NoRun == [op |-> Nothing]
NoPrompt == <<>>

----------------------------------------------------------------------------
(* What the run has to do, from what it has in memory.                      *)

op == run.op
saw == run.saw

Interactive == op.mode = "interactive" /\ op.kind # "frozen"

RunContents ==
    IF run.refined THEN LockedContents(saw.lockfile.facets, DOMAIN run.want)
    ELSE Contents(run.got)

Plan == Materialized(RunContents, run.over)

WantedServers == Places(Servers(Plan))

WantedFiles == Places(Assets(Plan))

OwnedServers == Owned(saw.receipt) \cap ServerPlaces

ObsoleteOfGoneFacets ==
    {Place(c) : c \in {c \in Assets(Claims(saw.receipt)) : c.facet \notin DOMAIN run.want}}
        \ WantedFiles

ObsoleteFiles == (Owned(saw.receipt) \cap FilePlaces) \ WantedFiles

\* A removal that was answered from the records leaves alone what stays.
ServersAtStake ==
    IF run.refined THEN OwnedServers \ WantedServers ELSE OwnedServers \cup WantedServers

ServerTarget(pl) == IF pl \in WantedServers THEN WantedAt(Servers(Plan), pl) ELSE Absent

\* The adapter's classification of its document, one outcome per server.
Outcome(pl) ==
    IF pl \in WantedServers
    THEN IF disk[pl] = Absent THEN "absent"
         ELSE IF disk[pl] = ServerTarget(pl) THEN "equivalent" ELSE "divergent"
    ELSE IF disk[pl] = Absent THEN "gone" ELSE "obsolete"

Outcomes == [pl \in ServersAtStake |-> Outcome(pl)]

Unapproved ==
    {<<Place(c), c.holds>> : c \in
        {c \in Servers(Plan) : /\ Place(c) \in ServersAtStake
                               /\ ~ DeclarationApproved(saw.receipt, Place(c), c.holds)}}

ServerTakeovers ==
    {pl \in ServersAtStake \ OwnedServers : run.seen[pl] \in {"equivalent", "divergent"}}

\* The places the journal can give back.
Journalled == UNION {DOMAIN journal[i].was : i \in DOMAIN journal}

ApplyUnjournalled(put) ==
    /\ disk' = [pl \in DOMAIN disk |-> IF pl \in DOMAIN put THEN put[pl] ELSE disk[pl]]
    /\ UNCHANGED journal

\* A batch: these places are to hold this now.
Apply(put) ==
    /\ disk' = [pl \in DOMAIN disk |-> IF pl \in DOMAIN put THEN put[pl] ELSE disk[pl]]
    /\ journal' = Append(journal, [was |-> [pl \in DOMAIN put |-> disk[pl]], put |-> put])

----------------------------------------------------------------------------
Init ==
    /\ \E w \in Worlds :
         /\ manifest = w.manifest /\ lockfile = w.lockfile /\ receipt = w.receipt
         /\ disk = w.disk /\ published = w.published
         /\ approved = Spoken(w.receipt)
    /\ asked = [p \in Proc |-> Nothing]
    /\ holder = None /\ step = "idle" /\ run = NoRun
    /\ todelete = {} /\ towrite = {} /\ prompt = NoPrompt
    /\ journal = <<>> /\ residue = {}
    /\ shown = {} /\ touched = {} /\ before = disk /\ stray = {}
    /\ edits = 0 /\ crashes = 0

----------------------------------------------------------------------------
(* Before the lock.                                                         *)

Waiting ==
    UNCHANGED <<records, disk, published, holder, step, run, work, undo, approved,
                shown, history, counters>>

Reviewed(c, version, source) ==
    [kind |-> "update", facet |-> c.facet, source |-> source, bare |-> FALSE,
     choice |-> c.choice, mode |-> c.mode, version |-> version,
     files |-> <<manifest, lockfile>>]

\* `facet update` plans without the lock: it needs a lockfile that agrees
\* with the manifest and a registry that answers for every facet, and offers
\* only what moves the facet forward.
Review(p, c) ==
    /\ asked[p] = Nothing /\ c.kind = "update"
    /\ c.facet \in DOMAIN manifest.facets
    /\ \A f \in DOMAIN manifest.facets :
          /\ f \in DOMAIN lockfile.facets
          /\ Satisfies(lockfile.facets[f].version, manifest.facets[f].source)
          /\ Answerable(published[f], manifest.facets[f].source)
    /\ LET source == manifest.facets[c.facet].source
           current == lockfile.facets[c.facet].version
           offer == Offer(published[c.facet], source, current, c.choice)
       IN /\ Advances(published[c.facet], source, current, c.choice)
          /\ asked' = [asked EXCEPT ![p] =
               Reviewed(c, offer, FinalManifestSource(source, c.choice, offer))]
    /\ Waiting

\* What a process may start now: a command that needs no review, or the
\* update it has reviewed.
Requests(p) ==
    IF asked[p] = Nothing THEN {c \in Commands : c.kind # "update"}
    ELSE {c \in {asked[p]} : c.kind = "update" /\ holder # p}

Refuse(p) == asked' = [asked EXCEPT ![p] = Finished] /\ Waiting

RefuseLockHeld(p) == holder # None /\ Requests(p) # {} /\ Refuse(p)

GatesWithoutReview(c) ==
    /\ manifest.existed \/ c.kind = "add"
    /\ c.kind = "frozen" => FrozenConsistent(manifest, lockfile)

\* The gates that look at nothing but what was loaded under the lock.
PassesGates(c) ==
    /\ manifest.existed \/ c.kind = "add"
    /\ c.kind = "update" => c.files = <<manifest, lockfile>>
    /\ c.kind = "frozen" => FrozenConsistent(manifest, lockfile)

RefuseAtGate(p, c) ==
    holder = None /\ c \in Requests(p) /\ ~ PassesGates(c) /\ Refuse(p)

Begin(p, c) ==
    /\ holder = None /\ c \in Requests(p)
    /\ PassesGates(c)
    /\ holder' = p
    /\ asked' = [asked EXCEPT ![p] = c]
    /\ LET want == Merged(manifest.facets, c)
           refined == c.kind = "remove" /\ Refinable(want, lockfile, receipt)
       IN /\ step' = IF refined THEN "prepare" ELSE "resolve"
          /\ run' = [op |-> c,
                     saw |-> [manifest |-> manifest, lockfile |-> lockfile,
                              receipt |-> receipt],
                     want |-> want, refined |-> refined,
                     got |-> NoFacets, over |-> Overrides(want), seen |-> <<>>]
    /\ touched' = {} /\ before' = disk
    /\ UNCHANGED <<records, disk, published, work, undo, approved, shown, stray, counters>>

----------------------------------------------------------------------------
(* The read-only half of a run.                                             *)

At(s) == step = s /\ holder # None

ReadOnly == UNCHANGED <<records, disk, outside, undo, history, counters>>

Resolve ==
    /\ At("resolve")
    /\ LET found == [f \in DOMAIN run.want |->
                       Resolution(saw.lockfile.facets, f, run.want[f].source, op, published[f])]
           got == [f \in DOMAIN run.want |-> CHOOSE v \in found[f] : TRUE]
       IN /\ \A f \in DOMAIN run.want :
                found[f] # {} /\ Reconciles(saw.lockfile, f, got[f])
          /\ run' = [op |-> op, saw |-> saw, want |-> run.want, refined |-> FALSE,
                     got |-> got, over |-> run.over, seen |-> <<>>]
    /\ step' = "compose"
    /\ UNCHANGED <<work, approved, shown>> /\ ReadOnly

\* A collision is put to the user once; the answer is planned again.
Compose ==
    /\ At("compose")
    /\ \E over \in {run.over} \cup Answers :
         /\ over # run.over =>
              /\ ~ Plannable(RunContents, run.over)
              /\ InvalidAliases(RunContents, run.over) = {}
              /\ Interactive
              /\ DOMAIN run.want \subseteq DOMAIN over
         /\ Plannable(RunContents, over)
         /\ run' = [op |-> op, saw |-> saw, want |-> run.want, refined |-> FALSE,
                    got |-> run.got, over |-> over, seen |-> <<>>]
    /\ step' = "prepare"
    /\ UNCHANGED <<work, approved, shown>> /\ ReadOnly

PrepareServers ==
    /\ At("prepare")
    /\ run' = [op |-> op, saw |-> saw, want |-> run.want, refined |-> run.refined,
               got |-> run.got, over |-> run.over, seen |-> Outcomes]
    /\ step' = "consent"
    /\ UNCHANGED <<work, approved, shown>> /\ ReadOnly

\* The user agrees to every definition this machine has not approved, and to
\* the entries of others that are in the way; or there is nothing to agree to.
Consent ==
    /\ At("consent")
    /\ \/ Unapproved = {} /\ ServerTakeovers = {}
       \/ Interactive
       \/ op.mode = "preapproved"
    /\ approved' = approved \cup Unapproved
    /\ shown' = {<<pl, run.seen[pl]>> : pl \in ServerTakeovers}
    /\ todelete' = ObsoleteFiles
    /\ towrite' = IF run.refined THEN {} ELSE Assets(Plan)
    /\ step' = "delete"
    /\ UNCHANGED <<run, prompt>> /\ ReadOnly

----------------------------------------------------------------------------
(* The half that writes, every change in the journal.                       *)

Writing == UNCHANGED <<records, outside, run, residue, approved, history, counters>>

\* Owned files that nothing wants any more, whatever they hold now.  All of
\* them go before the first file is written.
DeleteObsolete(pl) ==
    /\ At("delete") /\ pl \in todelete
    /\ todelete' = todelete \ {pl}
    /\ IF disk[pl] = Absent THEN UNCHANGED <<disk, journal>> ELSE Apply([x \in {pl} |-> Absent])
    /\ UNCHANGED <<step, towrite, prompt, shown>> /\ Writing

StartWriting ==
    /\ At("delete") /\ todelete = {}
    /\ step' = "write"
    /\ UNCHANGED <<disk, journal, work, shown>> /\ Writing

InTheWay(pl) == disk[pl] # Absent /\ pl \notin Owned(saw.receipt)

\* An occupied place that this machine does not own is shown to the user.
AskTakeover(c) ==
    /\ At("write") /\ prompt = NoPrompt /\ c \in towrite
    /\ Interactive /\ InTheWay(Place(c))
    /\ prompt' = <<c, disk[Place(c)]>>
    /\ shown' = shown \cup {<<Place(c), disk[Place(c)]>>}
    /\ UNCHANGED <<step, disk, journal, todelete, towrite>> /\ Writing

WriteWhereFree(c, found) ==
    /\ IF found # Absent THEN UNCHANGED <<disk, journal>>
       ELSE disk[Place(c)] = found /\ Apply([x \in {Place(c)} |-> c.holds])
    /\ towrite' = towrite \ {c} /\ prompt' = NoPrompt
    /\ UNCHANGED <<step, todelete, shown>> /\ Writing

\* One file, unless the plan found it there already.
Write(c, found) ==
    /\ IF found = c.holds THEN UNCHANGED <<disk, journal>>
       ELSE disk[Place(c)] = found /\ Apply([x \in {Place(c)} |-> c.holds])
    /\ towrite' = towrite \ {c} /\ prompt' = NoPrompt
    /\ UNCHANGED <<step, todelete, shown>> /\ Writing

\* The user says go ahead: the plan is the one that was made before asking.
TakeOver ==
    /\ At("write") /\ prompt # NoPrompt
    /\ Write(prompt[1], prompt[2])

WriteAsset(c) ==
    /\ At("write") /\ prompt = NoPrompt /\ c \in towrite
    /\ ~ (Interactive /\ InTheWay(Place(c)))
    /\ Write(c, disk[Place(c)])

ApplyServersAsPrepared ==
    /\ At("write") /\ towrite = {}
    /\ IF \A pl \in ServersAtStake : disk[pl] = ServerTarget(pl)
       THEN UNCHANGED <<disk, journal>>
       ELSE Apply([pl \in ServerPlaces |->
                     IF pl \in ServersAtStake THEN ServerTarget(pl) ELSE disk[pl]])
    /\ step' = "commit"
    /\ UNCHANGED <<work, shown>> /\ Writing

\* Planned again just before it is written: what the user agreed to must
\* still be what is going to happen.
ApplyServers ==
    /\ At("write") /\ towrite = {}
    /\ Outcomes = run.seen
    /\ IF \A pl \in ServersAtStake : disk[pl] = ServerTarget(pl)
       THEN UNCHANGED <<disk, journal>>
       ELSE Apply([pl \in ServerPlaces |->
                     IF pl \in ServersAtStake THEN ServerTarget(pl) ELSE disk[pl]])
    /\ step' = "commit"
    /\ UNCHANGED <<work, shown>> /\ Writing

----------------------------------------------------------------------------
(* The end of a run.                                                        *)

NewManifest ==
    [existed |-> TRUE,
     facets |-> WrittenManifest(run.want, op, run.got, run.over, RunContents)]

NewLockfile ==
    [existed |-> TRUE,
     format |-> CurrentFormat,
     facets |-> IF run.refined THEN Restrict(saw.lockfile.facets, DOMAIN run.want)
                ELSE LockEntries(run.got, run.over)]

NewReceipt ==
    [kind |-> "loaded",
     facets |-> IF run.refined
                THEN CarriedForward(saw.receipt, saw.lockfile.facets, DOMAIN run.want)
                ELSE ReceiptEntries(LockEntries(run.got, run.over))]

\* The places a run has brought to the state its receipt describes.
Reconciled ==
    ServersAtStake \cup ObsoleteFiles \cup (IF run.refined THEN {} ELSE WantedFiles)

Recorded ==
    /\ stray' = (stray \ Reconciled) \cup touched
    /\ receipt' = NewReceipt

\* Frozen: the files of the project are left alone, and a receipt that cannot
\* be written does not fail the run.
Unrecorded == stray' = stray \cup Journalled /\ UNCHANGED receipt

SameAsLoaded == manifest = saw.manifest /\ lockfile = saw.lockfile /\ receipt = saw.receipt

EndOfCommit ==
    /\ At("commit")
    /\ step' = "committed"
    /\ journal' = <<>>
    /\ UNCHANGED <<disk, outside, run, work, residue, approved, shown, touched, before, counters>>

CommitOverOthers ==
    /\ EndOfCommit /\ op.kind # "frozen"
    /\ receipt.kind # "unreadable"
    /\ manifest' = NewManifest /\ lockfile' = NewLockfile /\ Recorded

Commit ==
    /\ EndOfCommit /\ op.kind # "frozen"
    /\ SameAsLoaded /\ receipt.kind # "unreadable"
    /\ manifest' = NewManifest /\ lockfile' = NewLockfile /\ Recorded

CommitFrozen ==
    /\ EndOfCommit /\ op.kind = "frozen"
    /\ \/ receipt = saw.receipt /\ receipt.kind # "unreadable" /\ Recorded
       \/ Unrecorded
    /\ UNCHANGED <<manifest, lockfile>>

\* A step that fails, a user who declines or cancels, an interrupt.
Stop ==
    /\ step \in {"resolve", "compose", "prepare", "consent", "delete", "write", "commit"}
    /\ holder # None
    /\ step' = "undoing"
    /\ UNCHANGED <<disk, journal, work, shown>> /\ Writing

\* The journal backwards.  What is no longer as it was left is not undone,
\* and neither is what cannot be.
Undo ==
    /\ At("undoing") /\ journal # <<>>
    /\ journal' = SubSeq(journal, 1, Len(journal) - 1)
    /\ LET last == journal[Len(journal)] IN
       \/ /\ \A pl \in DOMAIN last.put : disk[pl] = last.put[pl]
          /\ disk' = [pl \in DOMAIN disk |->
                        IF pl \in DOMAIN last.was THEN last.was[pl] ELSE disk[pl]]
          /\ UNCHANGED residue
       \/ residue' = residue \cup DOMAIN last.put /\ UNCHANGED disk
    /\ UNCHANGED <<records, outside, step, run, work, approved, shown, history, counters>>

Undone ==
    /\ At("undoing") /\ journal = <<>>
    /\ step' = "failed"
    /\ UNCHANGED <<disk, journal, work, shown>> /\ Writing

Leave ==
    /\ holder' = None /\ step' = "idle" /\ run' = NoRun
    /\ asked' = [asked EXCEPT ![holder] = Finished]
    /\ todelete' = {} /\ towrite' = {} /\ prompt' = NoPrompt
    /\ journal' = <<>> /\ residue' = {} /\ shown' = {}
    /\ touched' = {} /\ before' = disk
    /\ UNCHANGED <<disk, published, approved>>

Release ==
    /\ At("failed") \/ At("committed")
    /\ stray' = stray \cup residue
    /\ Leave /\ UNCHANGED <<records, counters>>

\* The process dies, in the middle of the commit perhaps; the next run takes
\* the stale lock over.
Crash ==
    /\ holder # None /\ crashes < MaxCrashes
    /\ crashes' = crashes + 1
    /\ stray' = stray \cup Journalled \cup residue
    /\ \/ UNCHANGED <<manifest, lockfile>>
       \/ /\ At("commit") /\ op.kind # "frozen"
          /\ SameAsLoaded /\ receipt.kind # "unreadable"
          /\ manifest' = NewManifest
          /\ lockfile' \in {lockfile, NewLockfile}
    /\ Leave /\ UNCHANGED <<receipt, edits>>

----------------------------------------------------------------------------
(* The surroundings.                                                        *)

Elsewhere ==
    /\ edits < MaxEdits /\ edits' = edits + 1
    /\ UNCHANGED <<outside, step, run, work, undo, approved, shown, crashes>>

\* A place is emptied or filled by hand, or by the tool that reads it.
EditPlace(pl, what) ==
    /\ disk[pl] # what
    /\ disk' = [disk EXCEPT ![pl] = what]
    /\ before' = [before EXCEPT ![pl] = what]
    /\ touched' = IF holder = None THEN {} ELSE touched \cup {pl}
    /\ stray' = stray \cup {pl}
    /\ UNCHANGED records /\ Elsewhere

Pull(files) ==
    /\ files # <<manifest, lockfile>>
    /\ manifest' = files[1] /\ lockfile' = files[2]
    /\ UNCHANGED <<receipt, disk, history>> /\ Elsewhere

\* The receipts directory is cleared, or its file can no longer be read.
LoseReceipt(kind) ==
    /\ receipt.kind \in {"loaded", "assets-only"}
    /\ receipt' = [kind |-> kind, facets |-> NoFacets]
    /\ stray' = stray \cup Owned(receipt)
    /\ UNCHANGED <<manifest, lockfile, disk, touched, before>> /\ Elsewhere

\* One record of it no longer validates, or two contradict each other.
SpoilRecord(f, n) ==
    /\ receipt' = WithoutRecord(receipt, f, n)
    /\ stray' = stray \cup (Owned(receipt) \ Owned(receipt'))
    /\ UNCHANGED <<manifest, lockfile, disk, touched, before>> /\ Elsewhere

Publish(f) ==
    /\ published[f] # Releases[f]
    /\ published' = [published EXCEPT ![f] = Releases[f]]
    /\ UNCHANGED <<records, disk, asked, holder, step, run, work, undo, approved, shown,
                   history, counters>>

----------------------------------------------------------------------------
Starting ==
    \E p \in Proc :
        \/ \E c \in Commands : Review(p, c)
        \/ \E c \in Requests(p) : RefuseAtGate(p, c) \/ Begin(p, c)
        \/ RefuseLockHeld(p)

Running ==
    \/ Resolve \/ Compose \/ PrepareServers \/ Consent
    \/ \E pl \in todelete : DeleteObsolete(pl)
    \/ StartWriting
    \/ \E c \in towrite : AskTakeover(c) \/ WriteAsset(c)
    \/ TakeOver \/ ApplyServers
    \/ Commit \/ CommitFrozen
    \/ Stop \/ Undo \/ Undone \/ Release

Surroundings ==
    \/ \E pl \in AllPlaces, what \in {Absent, Foreign} : EditPlace(pl, what)
    \/ \E files \in Pulls : Pull(files)
    \/ \E kind \in {"missing", "unreadable"} : LoseReceipt(kind)
    \/ \E f \in DOMAIN receipt.facets :
          \E n \in DOMAIN receipt.facets[f].as : SpoilRecord(f, n)
    \/ \E f \in Facet : Publish(f)

Next == Starting \/ Running \/ Crash \/ Surroundings

Spec == Init /\ [][Next]_vars

----------------------------------------------------------------------------
(* Properties.                                                              *)

Steps == {"idle", "resolve", "compose", "prepare", "consent", "delete", "write",
          "commit", "committed", "undoing", "failed"}

\* The types of the records, of the disk and of the run; and a run has
\* something to undo only while it writes or undoes.
TypeOK ==
    /\ ManifestTyped(manifest) /\ LockfileTyped(lockfile) /\ ReceiptTyped(receipt)
    /\ disk \in [AllPlaces -> Payload \cup {Absent, Foreign}]
    /\ holder \in Proc \cup {None}
    /\ step \in Steps /\ (step = "idle" <=> holder = None)
    /\ stray \subseteq AllPlaces /\ residue \subseteq AllPlaces
    /\ approved \subseteq ServerPlaces \X Payload
    /\ journal # <<>> => step \in {"delete", "write", "commit", "undoing"}

AtRest == step = "idle"

\* Between runs the receipt is true of this machine: whatever it says was
\* placed is there, unless somebody else has changed that very place, or a
\* run died or could not undo a step there.  Everything that is deleted later
\* is deleted on the receipt's word.
ReceiptIsTrue ==
    AtRest => \A c \in Claims(receipt) : disk[Place(c)] = c.holds \/ Place(c) \in stray

\* And it is complete: nothing a facet has brought stays behind unclaimed,
\* where no later run would remove it.
NothingStranded ==
    AtRest => \A pl \in AllPlaces : Ours(disk[pl]) => pl \in Owned(receipt) \cup stray

\* When a run fails, every place is as the run found it or as others have
\* made it since, but for the places it reports as not restored.
FailedRunLeavesProject ==
    step = "failed" => \A pl \in AllPlaces \ residue : disk[pl] = before[pl]

\* No server is ever in the tool's configuration that the user of this
\* machine has not agreed to, in that very definition under that very name:
\* not by a teammate's lockfile, an update, an alias or a rollback.
OnlyApprovedRuns ==
    \A pl \in ServerPlaces : Ours(disk[pl]) => <<pl, disk[pl]>> \in approved

\* Something at a place this machine does not own is replaced only after it
\* was shown to the user (with a terminal), and only if it is still what was
\* shown.
TakeoversDisclosed ==
    [][step = "write" /\ edits' = edits /\ crashes' = crashes =>
          \A pl \in AllPlaces : disk'[pl] # disk[pl] /\ InTheWay(pl) =>
              IF pl \in ServerPlaces THEN <<pl, "divergent">> \in shown
              ELSE Interactive => <<pl, disk[pl]>> \in shown]_vars

\* An update that commits installs the version that was reviewed, and moves
\* the facet forward from what is locked at that moment.
UpdateAppliesReviewed ==
    [][step = "commit" /\ step' = "committed" /\ op.kind = "update" =>
          /\ lockfile'.facets[op.facet].version = op.version
          /\ IsNewerThan(op.version, lockfile.facets[op.facet].version)]_vars

\* The three records change together, from what the run loaded to records
\* that agree with each other; a crash can leave them torn in one way only.
State == INSTANCE ProjectState WITH
    writer <- IF step = "committed" THEN None ELSE holder,
    loaded <- IF step \in {"idle", "committed"} THEN <<>>
              ELSE <<run.saw.manifest, run.saw.lockfile, run.saw.receipt>>

ImplementsProjectState == State!Spec
=============================================================================
