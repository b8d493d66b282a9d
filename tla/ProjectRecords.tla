--------------------------- MODULE ProjectRecords ---------------------------
(* The three records of a project and what the commands compute from them:  *)
(*   - facets.json, the manifest: for each facet a source and overrides;    *)
(*   - facets.lock: for each facet the version in use, what that version    *)
(*     holds, and the disposition of every name of it;                      *)
(*   - the receipt, kept outside the project: what this machine has placed. *)
(* Sources are registry specifiers.  A version fixes its contents, so it    *)
(* stands for the integrity hash as well.  Lockfiles and receipts of older  *)
(* formats are read and never written.                                      *)
EXTENDS MaterializationPlan, VersionSpecs, Functions

CONSTANT Declares  \* facet -> version -> authored name -> payload

NoOverrides == <<>>

NoFacets == <<>>

Overrides(facets) == [f \in DOMAIN facets |-> facets[f].over]

CurrentFormat == "0.4"

\* Only the current lockfile format lists the servers of a version.
Lists(lockfile, n) == n \in ServerName => lockfile.format = CurrentFormat

\* And the first one has nowhere to put what is done with a file.
Represents(lockfile, n) ==
    IF n \in ServerName THEN lockfile.format = CurrentFormat
    ELSE lockfile.format # "0.2"

\* What the schemas of the three files let through.
Overriding(over) == \A n \in DOMAIN over : over[n] \in Disposition(n)

ManifestTyped(m) ==
    /\ m.existed \in BOOLEAN
    /\ DOMAIN m.facets \subseteq Facet
    /\ \A f \in DOMAIN m.facets : Overriding(m.facets[f].over)

LockfileTyped(l) ==
    /\ l.existed \in BOOLEAN
    /\ ~ l.existed => DOMAIN l.facets = {}
    /\ DOMAIN l.facets \subseteq Facet
    /\ \A f \in DOMAIN l.facets :
          /\ l.facets[f].version \in DOMAIN Declares[f]
          /\ DOMAIN l.facets[f].as = DOMAIN l.facets[f].holds
          /\ DOMAIN l.facets[f].holds \subseteq Name

ReceiptKind == {"loaded", "assets-only", "missing", "unreadable"}

\* Only names that were placed are recorded, and names of that version.
ReceiptTyped(r) ==
    /\ r.kind \in ReceiptKind
    /\ DOMAIN r.facets \subseteq Facet
    /\ \A f \in DOMAIN r.facets :
          /\ r.facets[f].version \in DOMAIN Declares[f]
          /\ DOMAIN r.facets[f].as \subseteq DOMAIN Declares[f][r.facets[f].version]
          /\ \A n \in DOMAIN r.facets[f].as :
                r.facets[f].as[n] \in Disposition(n) \ ({"omitted"} \cup IllegalAlias)

----------------------------------------------------------------------------
(* The manifest a command asks for.                                         *)

Sourced(facets, f, source) ==
    [g \in DOMAIN facets \cup {f} |->
        [source |-> IF g = f THEN source ELSE facets[g].source,
         over |-> IF g \in DOMAIN facets THEN facets[g].over ELSE NoOverrides]]

Merged(facets, op) ==
    CASE op.kind \in {"add", "update"} -> Sourced(facets, op.facet, op.source)
      [] op.kind = "remove" -> Restrict(facets, DOMAIN facets \ {op.facet})
      [] OTHER -> facets

\* How far the lockfile may answer for a facet: not at all for a reviewed
\* update, only for a pin when the user has just asked for it again.
ResolutionIntent(op, f) ==
    CASE op.kind = "update" /\ op.facet = f -> "prepared"
      [] op.kind = "add" /\ op.facet = f -> "refresh"
      [] OTHER -> "manifest"

Anchored(locked, f, source, intent) ==
    /\ f \in DOMAIN locked
    /\ intent # "prepared"
    /\ intent = "refresh" => source.kind = "exact"
    /\ Satisfies(locked[f].version, source)

\* The versions a facet can resolve to: none when the registry cannot say.
Resolution(locked, f, source, op, releases) ==
    LET intent == ResolutionIntent(op, f) IN
    IF intent = "prepared" THEN {op.version}
    ELSE IF Anchored(locked, f, source, intent) THEN {locked[f].version}
    ELSE IF source.kind = "exact" THEN {source.at} \cap releases
    ELSE IF Admitted(releases, source) = {} THEN {}
    ELSE {Newest(Admitted(releases, source))}

\* A locked entry of the version in use must list what that version holds.
Reconciles(lockfile, f, version) ==
    LET holds == Declares[f][version] IN
    f \in DOMAIN lockfile.facets /\ lockfile.facets[f].version = version
        => lockfile.facets[f].holds = Restrict(holds, {n \in DOMAIN holds : Lists(lockfile, n)})

Contents(got) == [f \in DOMAIN got |-> Declares[f][got[f]]]

----------------------------------------------------------------------------
(* What a finished run leaves in the three records.                         *)

LockEntries(got, over) ==
    [f \in DOMAIN got |->
        [version |-> got[f],
         holds |-> Declares[f][got[f]],
         as |-> [n \in DOMAIN Declares[f][got[f]] |-> Intent(over, f, n)]]]

OmittedIn(entry) == {n \in DOMAIN entry.as : entry.as[n] = "omitted"}

\* The receipt's account of a locked entry: the names that were placed.
ReceiptEntry(entry) ==
    [version |-> entry.version,
     as |-> Restrict(entry.as, DOMAIN entry.as \ OmittedIn(entry))]

ReceiptEntries(locked) == [f \in DOMAIN locked |-> ReceiptEntry(locked[f])]

\* An addition without a version is pinned to the one it resolved to.
WrittenSource(source, op, f, got) ==
    IF op.kind = "add" /\ op.facet = f /\ op.bare THEN Exactly(got[f]) ELSE source

\* The accepted overrides without those that name nothing.
Pruned(over, contents, f) ==
    LET chosen == IF f \in DOMAIN over THEN over[f] ELSE NoOverrides
    IN Restrict(chosen, DOMAIN chosen \cap DOMAIN contents[f])

WrittenManifest(want, op, got, over, contents) ==
    [f \in DOMAIN want |->
        [source |-> WrittenSource(want[f].source, op, f, got),
         over |-> Pruned(over, contents, f)]]

----------------------------------------------------------------------------
(* May a frozen install reproduce the lockfile?                             *)

Drift(manifest, lockfile) ==
    LET m == manifest.facets  l == lockfile.facets IN
    {f \in DOMAIN m : \/ ~ lockfile.existed
                      \/ f \notin DOMAIN l
                      \/ f \in DOMAIN l /\ ~ Satisfies(l[f].version, m[f].source)}
    \cup {f \in DOMAIN l : lockfile.existed /\ f \notin DOMAIN m}

LockedContents(locked, names) == [f \in names |-> locked[f].holds]

\* The disposition the manifest asks for is the one that is locked.
IntentRecorded(locked, over, names) ==
    \A f \in names : \A n \in DOMAIN locked[f].holds :
        Intent(over, f, n) = locked[f].as[n]

FrozenConsistent(manifest, lockfile) ==
    /\ Drift(manifest, lockfile) = {}
    /\ LET names == DOMAIN manifest.facets
           over == Overrides(manifest.facets)
           contents == LockedContents(lockfile.facets, names)
       IN /\ \A f \in names : \A n \in DOMAIN over[f] : Represents(lockfile, n)
          /\ Plannable(contents, over)
          /\ StaleOverrides(contents, over) = {}
          /\ IntentRecorded(lockfile.facets, over, names)

----------------------------------------------------------------------------
(* What the receipt proves.  One that is missing, corrupt or another        *)
(* project's ("missing") proves nothing, and neither does one that cannot   *)
(* be read, which cannot be replaced either.  One of an older format        *)
(* ("assets-only") proves what was placed and nothing of servers.           *)

Authority(receipt) ==
    CASE receipt.kind = "loaded" -> AssetName \cup ServerName
      [] receipt.kind = "assets-only" -> AssetName
      [] OTHER -> {}

Claims(receipt) ==
    UNION {{[facet |-> f, name |-> n, as |-> receipt.facets[f].as[n],
             holds |-> Declares[f][receipt.facets[f].version][n]] :
            n \in DOMAIN receipt.facets[f].as \cap Authority(receipt)} :
           f \in DOMAIN receipt.facets}

\* A record that does not validate is left out; the others still count.
WithoutRecord(receipt, f, n) ==
    [kind |-> receipt.kind,
     facets |-> [g \in DOMAIN receipt.facets |->
        LET recorded == receipt.facets[g] IN
        [version |-> recorded.version,
         as |-> IF g = f THEN Restrict(recorded.as, DOMAIN recorded.as \ {n}) ELSE recorded.as]]]

Owned(receipt) == Places(Claims(receipt))

ApprovedByName(receipt, pl, definition) ==
    \E c \in Servers(Claims(receipt)) : Place(c) = pl

\* This machine has approved this definition at this place.
DeclarationApproved(receipt, pl, definition) ==
    \E c \in Servers(Claims(receipt)) : Place(c) = pl /\ c.holds = definition

----------------------------------------------------------------------------
(* May a removal be answered from the records alone, nothing resolved?      *)

Witnessed(f, recorded, entry) ==
    /\ recorded.version = entry.version
    /\ LET placed == DOMAIN entry.as \ OmittedIn(entry) IN
       /\ placed \subseteq DOMAIN recorded.as
       /\ \A n \in placed : recorded.as[n] = entry.as[n]
       /\ DOMAIN recorded.as \cap ServerName \subseteq placed
    /\ \A n \in DOMAIN recorded.as \cap ServerName :
          entry.holds[n] = Declares[f][recorded.version][n]

\* A place that stays was nobody else's.
KeptUncontested(kept, claims) ==
    \A c \in kept, d \in claims : Place(c) = Place(d) =>
        IF c.name \in AssetName THEN c.facet = d.facet
        ELSE c.holds = d.holds

Refinable(want, lockfile, receipt) ==
    LET names == DOMAIN want
        locked == lockfile.facets
        contents == LockedContents(locked, names)
        over == Overrides(want)
    IN /\ lockfile.existed /\ receipt.kind = "loaded"
       /\ names # {} => lockfile.format = CurrentFormat
       /\ names \subseteq DOMAIN locked
       /\ \A f \in names : Satisfies(locked[f].version, want[f].source)
       /\ Plannable(contents, over)
       /\ IntentRecorded(locked, over, names)
       /\ names \subseteq DOMAIN receipt.facets
       /\ \A f \in names : Witnessed(f, receipt.facets[f], locked[f])
       /\ KeptUncontested(Materialized(contents, over), Claims(receipt))

\* The receipt's own account of what stays: a file the lockfile no longer
\* lists is dropped, the server claims are kept as they are.
CarriedForward(receipt, locked, names) ==
    [f \in names |->
        LET recorded == receipt.facets[f] IN
        [version |-> recorded.version,
         as |-> Restrict(recorded.as,
                   {n \in DOMAIN recorded.as :
                      n \in ServerName \cup (DOMAIN locked[f].as \ OmittedIn(locked[f]))})]]
=============================================================================
