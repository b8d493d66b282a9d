------------------------- MODULE InstallRunInvariant -------------------------
(* What is true between any two steps of InstallRun, and strong enough to   *)
(* be kept by each of them.  Places that others have changed since the run  *)
(* began (`touched`) are excused where a run may act on what it saw before. *)
EXTENDS InstallRun

Held == Payload \cup {Absent, Foreign}

\* A batch of the journal: for some places, before and after.
Batch == UNION {[was : [S -> Held], put : [S -> Held]] : S \in SUBSET AllPlaces}

StateTyped ==
    /\ TypeOK
    /\ before \in [AllPlaces -> Held]
    /\ \A f \in Facet : published[f] \subseteq DOMAIN Declares[f]
    /\ published = [f \in Facet |-> published[f]]
    /\ asked = [p \in Proc |-> asked[p]]
    /\ journal \in Seq(Batch)
    /\ touched \subseteq AllPlaces
    /\ edits \in Nat /\ crashes \in Nat

\* What a run has loaded, and what it wants.
RunTyped ==
    holder # None =>
        /\ ManifestTyped(saw.manifest) /\ LockfileTyped(saw.lockfile) /\ ReceiptTyped(saw.receipt)
        /\ run.refined \in BOOLEAN
        /\ DOMAIN run.want \subseteq Facet
        /\ DOMAIN run.want \subseteq DOMAIN run.over
        /\ \A f \in DOMAIN run.over : Overriding(run.over[f])

----------------------------------------------------------------------------
(* What the decisions of a run rest on.                                     *)

\* An update moves its facet forward from the lockfile it was reviewed with.
ReviewSound(c) ==
    /\ c.facet \in DOMAIN c.files[2].facets
    /\ c.version \in DOMAIN Declares[c.facet]
    /\ IsNewerThan(c.version, c.files[2].facets[c.facet].version)
    /\ Satisfies(c.version, c.source)

AskedSound ==
    /\ \A p \in Proc :
          /\ asked[p] \notin {Nothing, Finished} => asked[p].facet \in Facet
          /\ asked[p].kind = "update" => ReviewSound(asked[p])
    /\ holder # None => asked[holder] = op /\ op \notin {Nothing, Finished}

\* The gates the run has passed.
GatesPassed ==
    holder # None =>
        /\ run.want = Merged(saw.manifest.facets, op)
        /\ op.kind = "update" => op.files = <<saw.manifest, saw.lockfile>>
        /\ op.kind = "frozen" => FrozenConsistent(saw.manifest, saw.lockfile)
        /\ op.kind = "frozen" \/ run.refined => run.over = Overrides(run.want)
        /\ run.refined => /\ op.kind = "remove"
                          /\ Refinable(run.want, saw.lockfile, saw.receipt)
                          /\ step # "compose"

\* The versions are ones the facets' sources allow and the lockfile pins.
VersionsSound ==
    step \in {"compose", "prepare", "consent", "delete", "write", "commit"} /\ ~ run.refined =>
        /\ DOMAIN run.got = DOMAIN run.want
        /\ \A f \in DOMAIN run.want :
              /\ run.got[f] \in DOMAIN Declares[f]
              /\ Satisfies(run.got[f], run.want[f].source)
              /\ Reconciles(saw.lockfile, f, run.got[f])
              /\ Anchored(saw.lockfile.facets, f, run.want[f].source, ResolutionIntent(op, f))
                    => run.got[f] = saw.lockfile.facets[f].version
        /\ op.kind = "update" => run.got[op.facet] = op.version

Decided == step \in {"prepare", "consent", "delete", "write", "commit"}

Doing == step \in {"delete", "write", "commit"}

PlanSound == Decided => Plannable(RunContents, run.over)

----------------------------------------------------------------------------
(* What the user has agreed to, and was shown.                              *)

Agreed(pl, held) == Ours(held) => <<pl, held>> \in approved

ApprovalsCover ==
    /\ \A pl \in ServerPlaces : Agreed(pl, disk[pl])
    /\ \A i \in DOMAIN journal : \A pl \in ServerPlaces \cap DOMAIN journal[i].was :
          Agreed(pl, journal[i].was[pl])
    /\ Spoken(receipt) \subseteq approved
    /\ holder # None => Spoken(saw.receipt) \subseteq approved
    /\ Doing /\ ~ run.refined =>
          \A c \in Servers(Plan) : <<Place(c), c.holds>> \in approved

DisclosureKept ==
    /\ Doing => \A pl \in ServerTakeovers : <<pl, run.seen[pl]>> \in shown
    /\ Doing /\ prompt # NoPrompt =>
          /\ prompt[1] \in towrite
          /\ <<Place(prompt[1]), prompt[2]>> \in shown
          /\ disk[Place(prompt[1])] = prompt[2] \/ Place(prompt[1]) \in touched

----------------------------------------------------------------------------
(* How far a run has come.                                                  *)

WorkLeft ==
    Doing =>
        /\ todelete \subseteq ObsoleteFiles
        /\ towrite \subseteq (IF run.refined THEN {} ELSE Assets(Plan))
        /\ step # "delete" => todelete = {}
        /\ step = "commit" => towrite = {}

WorkDone ==
    Doing =>
        /\ \A pl \in ObsoleteFiles \ todelete : disk[pl] = Absent \/ pl \in touched
        /\ ~ run.refined =>
              \A c \in Assets(Plan) \ towrite :
                  disk[Place(c)] = c.holds \/ Place(c) \in touched
        /\ step = "commit" =>
              \A pl \in ServersAtStake : disk[pl] = ServerTarget(pl) \/ pl \in touched
        /\ \A pl \in AllPlaces \ (Reconciled \cup touched) : disk[pl] = before[pl]

----------------------------------------------------------------------------
(* The journal leads back to the disk without the run.                      *)

Changes(i, pl) == pl \in DOMAIN journal[i].put

\* t is what was at pl after each of the batches from m to n.
Leads(t, pl, m, n) ==
    \A i \in (m + 1)..n :
        IF Changes(i, pl)
        THEN journal[i].was[pl] = t[i - 1] /\ journal[i].put[pl] = t[i]
        ELSE t[i] = t[i - 1]

\* The batches after m lead from what is to be at pl to what is there.
TrailFrom(pl, m) ==
    \E t \in [m..Len(journal) -> Held] :
        /\ Leads(t, pl, m, Len(journal))
        /\ \A i \in m..Len(journal) :
              (\A j \in (m + 1)..i : ~ Changes(j, pl)) => t[i] = before[pl]
        /\ t[Len(journal)] = disk[pl]

\* The batches up to m left something else there: they will not be undone.
EditedAfter(pl, m) ==
    \E t \in [0..m -> Held] : Leads(t, pl, 0, m) /\ t[m] # before[pl]

\* With more than one edit, one that is taken back looks like none.
Followed(pl) == pl \notin touched \/ MaxEdits <= 1

Retraceable ==
    step # "committed" =>
        \A pl \in AllPlaces \ residue : Followed(pl) =>
            \E m \in 0..Len(journal) :
                /\ pl \notin touched => m = 0
                /\ TrailFrom(pl, m)
                /\ EditedAfter(pl, m)

Calm ==
    /\ step \in {"idle", "resolve", "compose", "prepare", "consent", "committed", "failed"}
          => journal = <<>>
    /\ step \notin {"write", "undoing", "failed"} => prompt = NoPrompt
    /\ step \notin {"undoing", "failed"} => residue = {}
    /\ step = "idle" => touched = {} /\ before = disk
    /\ edits = 0 => touched = {}
    /\ edits <= MaxEdits \/ edits = 0

----------------------------------------------------------------------------
(* The receipt speaks of the disk as it is when the run is undone, or done. *)

Base == IF step = "committed" THEN disk ELSE before

ReceiptSound ==
    /\ touched \subseteq stray
    /\ \A c \in Claims(receipt) : Base[Place(c)] = c.holds \/ Place(c) \in stray
    /\ \A pl \in AllPlaces : Ours(Base[pl]) => pl \in Owned(receipt) \cup stray

\* No two claims of a receipt contend for one place, so each place has at
\* most one owner to answer for it.
ReceiptUncontested == \A c, d \in Claims(receipt) : ~ Contend(c, d)
=============================================================================
