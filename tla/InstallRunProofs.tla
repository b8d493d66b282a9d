-------------------------- MODULE InstallRunProofs ---------------------------
(* What InstallRun promises of decisions, approvals and disclosure, for any *)
(* facets, commands and bounds: the invariant Sound, and what follows.      *)
EXTENDS InstallRunInvariant, SequenceTheorems, TLAPS

----------------------------------------------------------------------------
(* What the definitions say.                                                *)

(* What a run has to do depends on the run alone.                           *)
LEMMA RunFrame ==
    ASSUME run' = run
    PROVE  Plan' = Plan /\ ObsoleteFiles' = ObsoleteFiles
           /\ ServersAtStake' = ServersAtStake /\ WantedServers' = WantedServers
           /\ WantedFiles' = WantedFiles
           /\ ServerTakeovers' = ServerTakeovers /\ Reconciled' = Reconciled
<1> op' = op /\ saw' = saw
  BY DEF op, saw
<1>1. RunContents' = RunContents
  BY DEF RunContents, op, saw
<1>2. Plan' = Plan
  BY <1>1 DEF Plan
<1>3. WantedServers' = WantedServers /\ WantedFiles' = WantedFiles
  BY <1>2 DEF WantedServers, WantedFiles
<1>4. OwnedServers' = OwnedServers
  BY DEF OwnedServers, saw
<1>5. ObsoleteFiles' = ObsoleteFiles
  BY <1>3 DEF ObsoleteFiles, saw
<1>6. ServersAtStake' = ServersAtStake
  BY <1>3, <1>4 DEF ServersAtStake
<1>7. ServerTakeovers' = ServerTakeovers
  BY <1>4, <1>6 DEF ServerTakeovers
<1>8. Reconciled' = Reconciled
  BY <1>3, <1>5, <1>6 DEF Reconciled
<1>9. QED
  BY <1>2, <1>3, <1>5, <1>6, <1>7, <1>8

(* What a receipt claims of one name of a facet.                            *)
ClaimOf(r, f, n) ==
    [facet |-> f, name |-> n, as |-> r.facets[f].as[n], holds |-> Declares[f][r.facets[f].version][n]]

(* The claims of a receipt, one by one.                                     *)
LEMMA ClaimsAre ==
    ASSUME NEW r, NEW c
    PROVE  c \in Claims(r) <=>
             \E f \in DOMAIN r.facets : \E n \in DOMAIN r.facets[f].as \cap Authority(r) :
                c = ClaimOf(r, f, n)
BY DEF Claims, ClaimOf

(* The claims of a plan, one by one.                                        *)
LEMMA MaterializedAre ==
    ASSUME NEW contents, NEW over, NEW c
    PROVE  c \in Materialized(contents, over) <=>
             \E f \in DOMAIN contents : \E n \in DOMAIN contents[f] :
                c = Claim(contents, over, f, n) /\ c.as # "omitted"
BY DEF Materialized, Planned

(* A name that is placed under a disposition of its kind lands at a place   *)
(* of its kind.                                                             *)
LEMMA ClaimTyped ==
    ASSUME NEW n \in Name, NEW as \in Disposition(n) \ ({"omitted"} \cup IllegalAlias), NEW f, NEW h
    PROVE  LET c == [facet |-> f, name |-> n, as |-> as, holds |-> h] IN
           /\ n \in AssetName => Place(c) \in FilePlaces
           /\ n \in ServerName => Place(c) \in ServerPlaces
           /\ Place(c) \in AllPlaces
BY NamesAssumption DEF Place, KindOf, ServerPlaces, FilePlaces, AllPlaces, Disposition, EffectiveName, Name

(* A receipt claims places of the right kind, and payloads some facet has   *)
(* brought.                                                                 *)
LEMMA ClaimsTyped ==
    ASSUME NEW r, ReceiptTyped(r), NEW c \in Claims(r)
    PROVE  /\ c.name \in Name
           /\ c.name \in AssetName => Place(c) \in FilePlaces
           /\ c.name \in ServerName => Place(c) \in ServerPlaces
           /\ Place(c) \in AllPlaces
           /\ c.holds \in Payload
<1>1. PICK f \in DOMAIN r.facets : \E n \in DOMAIN r.facets[f].as \cap Authority(r) : c = ClaimOf(r, f, n)
  BY ClaimsAre
<1>2. PICK n \in DOMAIN r.facets[f].as \cap Authority(r) : c = ClaimOf(r, f, n)
  BY <1>1
<1>3. /\ f \in Facet /\ r.facets[f].version \in DOMAIN Declares[f]
      /\ n \in DOMAIN Declares[f][r.facets[f].version]
      /\ r.facets[f].as[n] \in Disposition(n) \ ({"omitted"} \cup IllegalAlias)
  BY <1>2 DEF ReceiptTyped
<1>4. n \in Name
  BY <1>3, DeclaresAssumption
<1>5. c.holds \in Payload
  <2> DEFINE OfVersion(g, v) == {Declares[g][v][m] : m \in DOMAIN Declares[g][v]}
             OfFacet(g) == UNION {OfVersion(g, v) : v \in DOMAIN Declares[g]}
  <2>1. c.holds \in OfVersion(f, r.facets[f].version)
    BY <1>2, <1>3 DEF ClaimOf
  <2>2. Payload = UNION {OfFacet(g) : g \in Facet}
    BY DEF Payload
  <2> HIDE DEF OfVersion
  <2>3. c.holds \in OfFacet(f)
    BY <1>3, <2>1
  <2> HIDE DEF OfFacet
  <2>4. QED
    BY <1>3, <2>2, <2>3
<1>6. QED
  BY <1>2, <1>3, <1>4, <1>5, ClaimTyped DEF ClaimOf

----------------------------------------------------------------------------
(* The steps.                                                               *)

(* The steps of a run and of its surroundings, one by one.                  *)
LEMMA Cases ==
    ASSUME [Next]_vars
    PROVE  \/ UNCHANGED vars
           \/ \E p \in Proc : \E c \in Commands : Review(p, c)
           \/ \E p \in Proc : Requests(p) # {} /\ Refuse(p)
           \/ \E p \in Proc : \E c \in Requests(p) : Begin(p, c)
           \/ Resolve \/ Compose \/ PrepareServers \/ Consent
           \/ \E pl \in todelete : DeleteObsolete(pl)
           \/ StartWriting
           \/ \E c \in towrite : AskTakeover(c)
           \/ \E c \in towrite : WriteAsset(c)
           \/ TakeOver \/ ApplyServers
           \/ Commit \/ CommitFrozen
           \/ Stop \/ Undo \/ Undone \/ Release \/ Crash
           \/ \E pl \in AllPlaces, what \in {Absent, Foreign} : EditPlace(pl, what)
           \/ \E files \in Pulls : Pull(files)
           \/ \E kind \in {"missing", "unreadable"} : LoseReceipt(kind)
           \/ \E f \in DOMAIN receipt.facets :
                 \E n \in DOMAIN receipt.facets[f].as : SpoilRecord(f, n)
           \/ \E f \in Facet : Publish(f)
BY DEF Next, Starting, Running, Surroundings, RefuseAtGate, RefuseLockHeld

(* A step that leaves the run alone leaves it typed.                        *)
LEMMA RunKept ==
    ASSUME RunTyped, run' = run, holder' = holder
    PROVE  RunTyped'
BY DEF RunTyped, saw

(* A request is of a facet; one to update was reviewed.                     *)
LEMMA Asks ==
    ASSUME AskedSound, NEW p \in Proc, NEW c \in Requests(p)
    PROVE  /\ c.facet \in Facet
           /\ c.kind = "update" => c = asked[p] /\ ReviewSound(c)
           /\ p # holder \/ holder = None
           /\ c \notin {Nothing, Finished}
<1>1. CASE asked[p] = Nothing
  BY <1>1, InputsAssumption DEF AskedSound, Requests, Nothing, Finished, CommandKind
<1>2. CASE asked[p] # Nothing
  BY <1>2 DEF AskedSound, Requests, Nothing, Finished
<1>3. QED
  BY <1>1, <1>2

(* No overrides at all are overrides.                                       *)
LEMMA NothingOverridden == Overriding(NoOverrides)
BY DEF Overriding, NoOverrides

(* The manifest a command asks for is one the schema lets through.          *)
LEMMA MergedTyped ==
    ASSUME NEW m, ManifestTyped(m), NEW c, c.facet \in Facet
    PROVE  LET want == Merged(m.facets, c) IN
           /\ DOMAIN want \subseteq Facet
           /\ DOMAIN Overrides(want) = DOMAIN want
           /\ \A f \in DOMAIN want : Overriding(Overrides(want)[f])
BY NothingOverridden DEF Merged, Sourced, Overrides, ManifestTyped, Restrict

(* A run stays typed.                                                       *)
LEMMA RunTypedKept ==
    ASSUME RunTyped, TypeOK, AskedSound, [Next]_vars
    PROVE  RunTyped'
<1>1. CASE \E p \in Proc : \E c \in Requests(p) : Begin(p, c)
  <2>1. PICK p \in Proc : \E c \in Requests(p) : Begin(p, c)
    BY <1>1
  <2>2. PICK c \in Requests(p) : Begin(p, c)
    BY <2>1
  <2>3. c.facet \in Facet
    BY <2>2, Asks
  <2> DEFINE want == Merged(manifest.facets, c)
  <2>4. /\ DOMAIN want \subseteq Facet
        /\ DOMAIN Overrides(want) = DOMAIN want
        /\ \A f \in DOMAIN want : Overriding(Overrides(want)[f])
    BY <2>3, MergedTyped DEF TypeOK
  <2>5. /\ run'.want = want /\ run'.over = Overrides(want)
        /\ run'.refined \in BOOLEAN
        /\ run'.saw = [manifest |-> manifest, lockfile |-> lockfile, receipt |-> receipt]
    BY <2>2 DEF Begin
  <2> HIDE DEF want
  <2>6. QED
    BY <2>4, <2>5 DEF RunTyped, TypeOK, saw
<1>2. CASE Resolve \/ PrepareServers
  <2>1. /\ run'.saw = saw /\ run'.want = run.want /\ run'.over = run.over
        /\ run'.refined \in {run.refined, FALSE}
        /\ holder' = holder
    <3>1. CASE PrepareServers
      BY <3>1 DEF PrepareServers, ReadOnly, outside
    <3>2. CASE Resolve
      <4>1. /\ \E got : run' = [op |-> op, saw |-> saw, want |-> run.want, refined |-> FALSE,
                              got |-> got, over |-> run.over, seen |-> <<>>]
            /\ ReadOnly
        BY <3>2, Zenon DEF Resolve
      <4>2. QED
        BY <4>1 DEF ReadOnly, outside
    <3>3. QED
      BY <1>2, <3>1, <3>2
  <2>2. QED
    BY <2>1 DEF RunTyped, saw
<1>3. CASE Compose
  <2>1. PICK over \in {run.over} \cup Answers :
            /\ over # run.over => DOMAIN run.want \subseteq DOMAIN over
            /\ run' = [op |-> op, saw |-> saw, want |-> run.want, refined |-> FALSE,
                       got |-> run.got, over |-> over, seen |-> <<>>]
    BY <1>3 DEF Compose
  <2>2. RunTyped => /\ DOMAIN run.want \subseteq DOMAIN over
                    /\ \A f \in DOMAIN over : holder # None => Overriding(over[f])
    BY <2>1, InputsAssumption, <1>3 DEF RunTyped, Compose, At
  <2>3. QED
    BY <2>1, <2>2, <1>3 DEF Compose, At, RunTyped, saw, ReadOnly, outside
<1>4. CASE Release \/ Crash
  BY <1>4 DEF Release, Crash, Leave, RunTyped
<1>5. CASE run' = run /\ holder' = holder
  BY <1>5, RunKept
<1>6. QED
  BY <1>1, <1>2, <1>3, <1>4, <1>5, Cases
     DEF vars, work, Review, Waiting, Refuse, Consent, ReadOnly, outside, DeleteObsolete, Writing, StartWriting,
         AskTakeover, WriteAsset, Write, TakeOver, ApplyServers, Commit, CommitFrozen, EndOfCommit, Stop,
         Undo, Undone, EditPlace, Elsewhere, Pull, LoseReceipt, SpoilRecord, Publish

----------------------------------------------------------------------------
(* The decisions of a run.                                                  *)

(* The steps that decide, and what they leave alone.                        *)
LEMMA Deciding ==
    ASSUME Resolve \/ Compose \/ PrepareServers
    PROVE  /\ run'.op = op /\ run'.saw = saw /\ run'.want = run.want
           /\ ~ Compose /\ ~ PrepareServers => run'.over = run.over
           /\ holder # None /\ ReadOnly /\ UNCHANGED <<work, approved, shown>>
           /\ step \in {"resolve", "compose", "prepare"}
           /\ step' \in {"compose", "prepare", "consent"}
<1>1. CASE PrepareServers
  BY <1>1 DEF PrepareServers, At
<1>2. CASE Resolve
  <2>1. /\ \E got : run' = [op |-> op, saw |-> saw, want |-> run.want, refined |-> FALSE,
                            got |-> got, over |-> run.over, seen |-> <<>>]
        /\ ReadOnly /\ UNCHANGED <<work, approved, shown>>
        /\ step = "resolve" /\ holder # None /\ step' = "compose"
    BY <1>2, Zenon DEF Resolve, At
  <2>2. QED
    BY <2>1
<1>3. CASE Compose
  <2>1. /\ \E over : run' = [op |-> op, saw |-> saw, want |-> run.want, refined |-> FALSE,
                            got |-> run.got, over |-> over, seen |-> <<>>]
        /\ ReadOnly /\ UNCHANGED <<work, approved, shown>>
        /\ step = "compose" /\ holder # None /\ step' = "prepare"
    BY <1>3, Zenon DEF Compose, At
  <2>2. QED
    BY <1>3, <2>1
<1>4. QED
  BY <1>1, <1>2, <1>3

(* What a plan without conflicts materializes is a legal name of a facet,   *)
(* at a place of its kind.                                                  *)
LEMMA PlannedAre ==
    ASSUME NEW contents, NEW over, Plannable(contents, over),
           \A f \in DOMAIN contents :
              /\ Overriding(over[f])
              /\ DOMAIN contents[f] \subseteq Name,
           NEW c \in Materialized(contents, over)
    PROVE  /\ c.facet \in DOMAIN contents
           /\ c.name \in DOMAIN contents[c.facet]
           /\ c.holds = contents[c.facet][c.name]
           /\ c.as = Intent(over, c.facet, c.name) /\ c.as # "omitted"
           /\ c.name \in Name
           /\ c.as \in Disposition(c.name) \ ({"omitted"} \cup IllegalAlias)
           /\ c.name \in AssetName => Place(c) \in FilePlaces
           /\ c.name \in ServerName => Place(c) \in ServerPlaces
           /\ Place(c) \in AllPlaces
<1>1. PICK f \in DOMAIN contents : \E n \in DOMAIN contents[f] :
                c = Claim(contents, over, f, n) /\ c.as # "omitted"
  BY MaterializedAre
<1>2. PICK n \in DOMAIN contents[f] : c = Claim(contents, over, f, n) /\ c.as # "omitted"
  BY <1>1
<1>3. c.as \notin IllegalAlias
  BY <1>2 DEF Plannable, InvalidAliases, Materialized
<1>4. Intent(over, f, n) \in Disposition(n)
  BY DEF Intent, Overriding, Disposition
<1>5. c.as \in Disposition(n) \ ({"omitted"} \cup IllegalAlias) /\ n \in Name
  BY <1>2, <1>3, <1>4 DEF Claim
<1>6. c = [facet |-> f, name |-> n, as |-> c.as, holds |-> contents[f][n]]
  BY <1>2 DEF Claim
<1>7. c.facet = f /\ c.name = n /\ c.holds = contents[f][n] /\ c.as = Intent(over, f, n)
  BY <1>2 DEF Claim
<1>8. /\ c.name \in AssetName => Place(c) \in FilePlaces
      /\ c.name \in ServerName => Place(c) \in ServerPlaces
      /\ Place(c) \in AllPlaces
  BY <1>5, <1>6, ClaimTyped
<1>9. QED
  BY <1>2, <1>5, <1>7, <1>8

(* The contents a run plans with are those of the versions it wants.        *)
LEMMA RunContentsTyped ==
    ASSUME RunTyped, VersionsSound, GatesPassed, Decided, holder # None
    PROVE  /\ DOMAIN RunContents = DOMAIN run.want
           /\ \A f \in DOMAIN RunContents :
              /\ Overriding(run.over[f])
              /\ DOMAIN RunContents[f] \subseteq Name
           /\ ~ run.refined =>
                \A f \in DOMAIN RunContents : /\ run.got[f] \in DOMAIN Declares[f]
                                              /\ RunContents[f] = Declares[f][run.got[f]]
           /\ run.refined =>
                \A f \in DOMAIN RunContents : RunContents[f] = saw.lockfile.facets[f].holds
<1>1. CASE run.refined
  <2>1. RunContents = [f \in DOMAIN run.want |-> saw.lockfile.facets[f].holds]
    BY <1>1 DEF RunContents, LockedContents
  <2>2. DOMAIN run.want \subseteq DOMAIN saw.lockfile.facets
    BY <1>1 DEF GatesPassed, Refinable
  <2>3. QED
    BY <1>1, <2>1, <2>2 DEF RunTyped, LockfileTyped
<1>2. CASE ~ run.refined
  <2>1. /\ DOMAIN run.got = DOMAIN run.want
        /\ \A f \in DOMAIN run.want : run.got[f] \in DOMAIN Declares[f]
    BY <1>2 DEF VersionsSound, Decided
  <2>2. RunContents = [f \in DOMAIN run.want |-> Declares[f][run.got[f]]]
    BY <1>2, <2>1 DEF RunContents, Contents
  <2>3. QED
    BY <1>2, <2>1, <2>2, DeclaresAssumption DEF RunTyped
<1>3. QED
  BY <1>1, <1>2

(* The same of the plan of a run.                                           *)
LEMMA PlanAre ==
    ASSUME RunTyped, VersionsSound, GatesPassed, PlanSound, Decided, holder # None, NEW c \in Plan
    PROVE  /\ c.facet \in DOMAIN run.want
           /\ c.name \in DOMAIN RunContents[c.facet]
           /\ c.holds = RunContents[c.facet][c.name]
           /\ c.as = Intent(run.over, c.facet, c.name) /\ c.as # "omitted"
           /\ c.name \in Name
           /\ c.as \in Disposition(c.name) \ ({"omitted"} \cup IllegalAlias)
           /\ c.name \in AssetName => Place(c) \in FilePlaces
           /\ c.name \in ServerName => Place(c) \in ServerPlaces
           /\ Place(c) \in AllPlaces
           /\ ~ run.refined => c.holds \in Payload
<1>1. /\ DOMAIN RunContents = DOMAIN run.want
      /\ \A f \in DOMAIN RunContents :
              /\ Overriding(run.over[f])
              /\ DOMAIN RunContents[f] \subseteq Name
  BY RunContentsTyped
<1>2. Plannable(RunContents, run.over) /\ c \in Materialized(RunContents, run.over)
  BY DEF PlanSound, Plan
<1>3. /\ c.facet \in DOMAIN RunContents
      /\ c.name \in DOMAIN RunContents[c.facet]
      /\ c.holds = RunContents[c.facet][c.name]
      /\ c.as = Intent(run.over, c.facet, c.name) /\ c.as # "omitted"
      /\ c.name \in Name
      /\ c.as \in Disposition(c.name) \ ({"omitted"} \cup IllegalAlias)
      /\ c.name \in AssetName => Place(c) \in FilePlaces
      /\ c.name \in ServerName => Place(c) \in ServerPlaces
      /\ Place(c) \in AllPlaces
  BY <1>1, <1>2, PlannedAre
<1>4. ~ run.refined => c.holds \in Payload
  BY <1>3, RunContentsTyped DEF RunTyped, Payload
<1>5. QED
  BY <1>1, <1>3, <1>4

(* What a run wants, deletes and reconciles are places.                     *)
LEMMA WantedHolds ==
    ASSUME RunTyped, VersionsSound, GatesPassed, PlanSound, Decided, holder # None
    PROVE  /\ WantedFiles \subseteq FilePlaces /\ WantedServers \subseteq ServerPlaces
           /\ ObsoleteFiles \subseteq FilePlaces
           /\ ServersAtStake \subseteq ServerPlaces
           /\ Reconciled \subseteq AllPlaces
           /\ \A pl \in ServersAtStake : ServerTarget(pl) \in Payload \cup {Absent}
<1>1. WantedFiles \subseteq FilePlaces /\ WantedServers \subseteq ServerPlaces
  BY PlanAre DEF WantedFiles, WantedServers, Places, Assets, Servers
<1>2. ObsoleteFiles \subseteq FilePlaces
  BY DEF ObsoleteFiles
<1>3. OwnedServers \subseteq ServerPlaces
  BY DEF OwnedServers
<1>4. \A pl \in ServersAtStake : ServerTarget(pl) \in Payload \cup {Absent}
  <2> TAKE pl \in ServersAtStake
  <2>1. CASE pl \notin WantedServers
    BY <2>1 DEF ServerTarget
  <2>2. CASE pl \in WantedServers
    <3>1. ~ run.refined
      BY <2>2 DEF ServersAtStake
    <3>2. \E c \in Servers(Plan) : Place(c) = pl
      BY <2>2 DEF WantedServers, Places
    <3>3. (CHOOSE c \in Servers(Plan) : Place(c) = pl) \in Plan
      BY <3>2 DEF Servers
    <3>4. QED
      BY <2>2, <3>1, <3>3, PlanAre DEF ServerTarget, WantedAt
  <2>3. QED
    BY <2>1, <2>2
<1>5. QED
  BY <1>1, <1>2, <1>3, <1>4 DEF ServersAtStake, Reconciled, AllPlaces

----------------------------------------------------------------------------
(* The types.                                                               *)

(* A command that is reviewed or refused leaves the project alone.          *)
LEMMA Aside ==
    ASSUME NEW p \in Proc, (\E c \in Commands : Review(p, c)) \/ Refuse(p)
    PROVE  Waiting
BY DEF Review, Refuse

(* The records a run writes are ones the schemas let through.               *)
LEMMA NewRecordsTyped ==
    ASSUME RunTyped, VersionsSound, GatesPassed, PlanSound, Decided, holder # None
    PROVE  /\ ManifestTyped(NewManifest)
           /\ LockfileTyped(NewLockfile)
           /\ ReceiptTyped(NewReceipt)
<1>1. /\ DOMAIN RunContents = DOMAIN run.want
      /\ \A f \in DOMAIN RunContents :
              /\ Overriding(run.over[f])
              /\ DOMAIN RunContents[f] \subseteq Name
      /\ DOMAIN run.want \subseteq Facet
  BY RunContentsTyped DEF RunTyped
<1>2. ManifestTyped(NewManifest)
  <2>1. \A f \in DOMAIN run.want : Overriding(Pruned(run.over, RunContents, f))
    BY <1>1, NothingOverridden DEF Pruned, Overriding, Restrict
  <2>2. QED
    BY <1>1, <2>1 DEF NewManifest, ManifestTyped, WrittenManifest
<1>3. CASE run.refined
  <2>1. /\ DOMAIN run.want \subseteq DOMAIN saw.lockfile.facets
        /\ DOMAIN run.want \subseteq DOMAIN saw.receipt.facets
    BY <1>3 DEF GatesPassed, Refinable
  <2>2. NewLockfile = [existed |-> TRUE, format |-> CurrentFormat,
                       facets |-> [f \in DOMAIN run.want |-> saw.lockfile.facets[f]]]
    BY <1>3, <2>1 DEF NewLockfile, Restrict
  <2>3. LockfileTyped(NewLockfile)
    BY <1>1, <2>1, <2>2 DEF LockfileTyped, RunTyped
  <2>4. /\ NewReceipt.kind = "loaded" /\ DOMAIN NewReceipt.facets = DOMAIN run.want
        /\ \A f \in DOMAIN run.want :
              /\ NewReceipt.facets[f].version = saw.receipt.facets[f].version
              /\ DOMAIN NewReceipt.facets[f].as \subseteq DOMAIN saw.receipt.facets[f].as
              /\ \A n \in DOMAIN NewReceipt.facets[f].as :
                    NewReceipt.facets[f].as[n] = saw.receipt.facets[f].as[n]
    BY <1>3 DEF NewReceipt, CarriedForward, Restrict
  <2>5. ReceiptTyped(saw.receipt)
    BY DEF RunTyped
  <2>6. ReceiptTyped(NewReceipt)
    BY <1>1, <2>1, <2>4, <2>5 DEF ReceiptTyped, ReceiptKind
  <2>7. QED
    BY <1>2, <2>3, <2>6
<1>4. CASE ~ run.refined
  <2>1. /\ DOMAIN run.got = DOMAIN run.want
        /\ \A f \in DOMAIN run.want : run.got[f] \in DOMAIN Declares[f]
    BY <1>4 DEF VersionsSound, Decided
  <2> DEFINE entries == LockEntries(run.got, run.over)
  <2>2. /\ DOMAIN entries = DOMAIN run.want
        /\ \A f \in DOMAIN run.want :
              /\ entries[f].version = run.got[f]
              /\ entries[f].holds = Declares[f][run.got[f]]
              /\ DOMAIN entries[f].as = DOMAIN Declares[f][run.got[f]]
              /\ \A n \in DOMAIN entries[f].as : entries[f].as[n] = Intent(run.over, f, n)
    BY <2>1 DEF LockEntries
  <2>3. NewLockfile.existed = TRUE /\ NewLockfile.facets = entries /\ NewReceipt.facets = ReceiptEntries(entries)
        /\ NewReceipt.kind = "loaded"
    BY <1>4 DEF NewLockfile, NewReceipt
  <2> HIDE DEF entries
  <2>4. LockfileTyped(NewLockfile)
    <3>1. \A f \in DOMAIN run.want : DOMAIN Declares[f][run.got[f]] \subseteq Name
      BY <1>1, <2>1, DeclaresAssumption
    <3>2. NewLockfile.existed \in BOOLEAN
      BY <2>3
    <3>3. \A f \in DOMAIN NewLockfile.facets :
              /\ NewLockfile.facets[f].version \in DOMAIN Declares[f]
              /\ DOMAIN NewLockfile.facets[f].as = DOMAIN NewLockfile.facets[f].holds
              /\ DOMAIN NewLockfile.facets[f].holds \subseteq Name
      BY <2>1, <2>2, <2>3, <3>1
    <3>4. QED
      BY <1>1, <2>2, <2>3, <3>2, <3>3 DEF LockfileTyped
  <2>5. \A f \in DOMAIN run.want :
           /\ ReceiptEntries(entries)[f].version = run.got[f]
           /\ DOMAIN ReceiptEntries(entries)[f].as \subseteq DOMAIN Declares[f][run.got[f]]
           /\ \A n \in DOMAIN ReceiptEntries(entries)[f].as :
                ReceiptEntries(entries)[f].as[n] = Intent(run.over, f, n)
                /\ Intent(run.over, f, n) # "omitted"
    BY <2>2 DEF ReceiptEntries, ReceiptEntry, Restrict, OmittedIn
  <2>6. \A f \in DOMAIN run.want : \A n \in DOMAIN Declares[f][run.got[f]] :
           Intent(run.over, f, n) \in Disposition(n) \ IllegalAlias
    <3> TAKE f \in DOMAIN run.want
    <3> TAKE n \in DOMAIN Declares[f][run.got[f]]
    <3>1. Intent(run.over, f, n) \in Disposition(n)
      BY <1>1 DEF Intent, Overriding, Disposition
    <3>2. RunContents[f] = Declares[f][run.got[f]]
      BY <1>1, <1>4, RunContentsTyped
    <3>3. Claim(RunContents, run.over, f, n) \in Planned(RunContents, run.over)
      BY <1>1, <3>2 DEF Planned
    <3>4. InvalidAliases(RunContents, run.over) = {}
      BY DEF PlanSound, Plannable
    <3>5. Intent(run.over, f, n) \notin IllegalAlias
      BY <3>3, <3>4 DEF InvalidAliases, Claim
    <3>6. QED
      BY <3>1, <3>5
  <2>7. DOMAIN ReceiptEntries(entries) = DOMAIN run.want
    BY <2>2 DEF ReceiptEntries
  <2>8. ReceiptTyped(NewReceipt)
    BY <1>1, <2>1, <2>3, <2>5, <2>6, <2>7 DEF ReceiptTyped, ReceiptKind
  <2>9. QED
    BY <1>2, <2>4, <2>8
<1>5. QED
  BY <1>3, <1>4

(* A receipt that lost a record is still one.                               *)
LEMMA WithoutRecordTyped ==
    ASSUME NEW r, ReceiptTyped(r), NEW f, NEW n
    PROVE  ReceiptTyped(WithoutRecord(r, f, n))
BY DEF ReceiptTyped, WithoutRecord, Restrict

(* A batch keeps the disk and the journal typed.                            *)
LEMMA ApplyTyped ==
    ASSUME disk \in [AllPlaces -> Held], journal \in Seq(Batch),
           NEW put, DOMAIN put \subseteq AllPlaces, put = [pl \in DOMAIN put |-> put[pl]],
           \A pl \in DOMAIN put : put[pl] \in Held, Apply(put)
    PROVE  disk' \in [AllPlaces -> Held] /\ journal' \in Seq(Batch)
<1>1. disk' \in [AllPlaces -> Held]
  BY DEF Apply
<1> DEFINE b == [was |-> [pl \in DOMAIN put |-> disk[pl]], put |-> put]
<1>2. b.was \in [DOMAIN put -> Held] /\ put \in [DOMAIN put -> Held]
  OBVIOUS
<1>3. b \in [was : [DOMAIN put -> Held], put : [DOMAIN put -> Held]]
  BY <1>2
<1>4. b \in Batch
  BY <1>3 DEF Batch
<1>5. QED
  BY <1>1, <1>4 DEF Apply

(* The batch of the servers is one.                                         *)
LEMMA TargetsTyped ==
    ASSUME StateTyped, RunTyped, VersionsSound, GatesPassed, PlanSound, Decided
    PROVE  LET put == [pl \in ServerPlaces |->
                        IF pl \in ServersAtStake THEN ServerTarget(pl) ELSE disk[pl]] IN
           /\ DOMAIN put \subseteq AllPlaces /\ put = [pl \in DOMAIN put |-> put[pl]]
           /\ \A pl \in DOMAIN put : put[pl] \in Held
<1>1. holder # None
  BY DEF Decided, StateTyped, TypeOK
<1>2. \A pl \in ServersAtStake : ServerTarget(pl) \in Held
  BY <1>1, WantedHolds DEF Held
<1>3. \A pl \in ServerPlaces : disk[pl] \in Held /\ pl \in AllPlaces
  BY DEF StateTyped, TypeOK, Held, AllPlaces
<1>4. QED
  BY <1>2, <1>3

(* So is that of an asset.                                                  *)
LEMMA WriteTyped ==
    ASSUME StateTyped, RunTyped, VersionsSound, GatesPassed, PlanSound, WorkLeft, step = "write",
           NEW c \in towrite, NEW found, Write(c, found)
    PROVE  /\ disk' \in [AllPlaces -> Held] /\ journal' \in Seq(Batch)
           /\ c \in Assets(Plan) /\ ~ run.refined /\ c.holds \in Payload /\ Place(c) \in FilePlaces
<1>1. c \in Assets(Plan) /\ ~ run.refined /\ holder # None /\ Decided
  BY DEF WorkLeft, Doing, StateTyped, TypeOK, Decided
<1>2. c.holds \in Payload /\ Place(c) \in FilePlaces /\ Place(c) \in AllPlaces
  BY <1>1, PlanAre DEF Assets
<1>3. disk \in [AllPlaces -> Held] /\ journal \in Seq(Batch)
  BY DEF StateTyped, TypeOK, Held
<1>4. CASE UNCHANGED <<disk, journal>>
  BY <1>1, <1>2, <1>3, <1>4
<1>5. CASE Apply([x \in {Place(c)} |-> c.holds])
  BY <1>1, <1>2, <1>3, <1>5, ApplyTyped DEF Held
<1>6. QED
  BY <1>4, <1>5 DEF Write

(* What a commit changes, of either kind.                                   *)
LEMMA Commits ==
    ASSUME Commit \/ CommitFrozen
    PROVE  /\ step = "commit" /\ holder # None /\ step' = "committed" /\ journal' = <<>>
           /\ UNCHANGED <<disk, outside, run, work, residue, approved, shown, touched, before, counters>>
           /\ manifest' \in {manifest, NewManifest} /\ lockfile' \in {lockfile, NewLockfile}
           /\ receipt' \in {receipt, NewReceipt}
           /\ stray' \in {(stray \ Reconciled) \cup touched, stray \cup Journalled}
           /\ \/ receipt' = NewReceipt /\ stray' = (stray \ Reconciled) \cup touched
              \/ receipt' = receipt /\ stray' = stray \cup Journalled
<1>1. /\ step = "commit" /\ holder # None /\ step' = "committed" /\ journal' = <<>>
      /\ UNCHANGED <<disk, outside, run, work, residue, approved, shown, touched, before, counters>>
  BY DEF Commit, CommitFrozen, EndOfCommit, At
<1>2. \/ receipt' = NewReceipt /\ stray' = (stray \ Reconciled) \cup touched
      \/ receipt' = receipt /\ stray' = stray \cup Journalled
  <2>1. CASE Recorded
    BY <2>1 DEF Recorded
  <2>2. CASE Unrecorded
    BY <2>2 DEF Unrecorded
  <2>3. QED
    BY <2>1, <2>2, Zenon DEF Commit, CommitFrozen
<1>3. manifest' \in {manifest, NewManifest} /\ lockfile' \in {lockfile, NewLockfile}
  BY DEF Commit, CommitFrozen
<1>4. QED
  BY <1>1, <1>2, <1>3

(* What the end of a run changes, of either kind.                           *)
LEMMA Ends ==
    ASSUME Release \/ Crash
    PROVE  /\ holder # None
           /\ Leave /\ receipt' = receipt /\ edits' = edits /\ crashes' \in {crashes, crashes + 1}
           /\ \/ manifest' = manifest /\ lockfile' = lockfile
              \/ At("commit") /\ manifest' = NewManifest /\ lockfile' \in {lockfile, NewLockfile}
           /\ stray' \in {stray \cup residue, stray \cup Journalled \cup residue}
<1>1. CASE Release
  BY <1>1 DEF Release, At, records, counters
<1>2. CASE Crash
  <2>1. holder # None /\ Leave /\ receipt' = receipt /\ edits' = edits /\ crashes' = crashes + 1
        /\ stray' = stray \cup Journalled \cup residue
    BY <1>2 DEF Crash
  <2>2. \/ manifest' = manifest /\ lockfile' = lockfile
        \/ At("commit") /\ manifest' = NewManifest /\ lockfile' \in {lockfile, NewLockfile}
    BY <1>2 DEF Crash
  <2>3. QED
    BY <2>1, <2>2
<1>3. QED
  BY <1>1, <1>2

(* Every variable keeps its type.                                           *)
LEMMA StateTypedKept ==
    ASSUME StateTyped, RunTyped, AskedSound, VersionsSound, GatesPassed, PlanSound, WorkLeft,
           DisclosureKept, [Next]_vars
    PROVE  StateTyped'
<1> USE DEF Held
<1>1. CASE UNCHANGED vars
  BY <1>1 DEF StateTyped, TypeOK, vars, records, outside, work, undo, history, counters
<1>2. CASE \E p \in Proc : (\E c \in Commands : Review(p, c)) \/ Refuse(p)
  <2>1. Waiting
    BY <1>2, Aside
  <2>2. asked' = [p \in Proc |-> asked'[p]]
    BY <1>2 DEF Review, Refuse, StateTyped
  <2>3. QED
    BY <2>1, <2>2 DEF StateTyped, TypeOK, Waiting, records, work, undo, history, counters
<1>3. CASE \E p \in Proc : \E c \in Requests(p) : Begin(p, c)
  <2>1. PICK p \in Proc : \E c \in Requests(p) : Begin(p, c)
    BY <1>3
  <2>2. PICK c \in Requests(p) : Begin(p, c)
    BY <2>1
  <2>3. /\ holder = None /\ holder' = p /\ asked' = [asked EXCEPT ![p] = c]
        /\ step' \in {"prepare", "resolve"} /\ touched' = {} /\ before' = disk
        /\ UNCHANGED <<records, disk, published, work, undo, approved, shown, stray, counters>>
    BY <2>2 DEF Begin
  <2>4. journal = <<>>
    BY <2>3 DEF StateTyped, TypeOK
  <2>5. QED
    BY <2>3, <2>4, ProcAssumption DEF StateTyped, TypeOK, records, work, undo, counters, Steps
<1>4. CASE Resolve \/ Compose \/ PrepareServers
  <2>1. /\ holder # None /\ ReadOnly /\ UNCHANGED <<work, approved, shown>>
        /\ step \in {"resolve", "compose", "prepare"}
        /\ step' \in {"compose", "prepare", "consent"}
    BY <1>4, Deciding
  <2>2. QED
    BY <2>1 DEF StateTyped, TypeOK, ReadOnly, records, outside, work, undo, history, counters, Steps
<1>5. CASE Consent
  <2>1. holder # None /\ Decided
    BY <1>5 DEF Consent, At, Decided
  <2>2. Unapproved \subseteq ServerPlaces \X Payload
    <3>1. SUFFICES ASSUME NEW c \in Servers(Plan), Place(c) \in ServersAtStake
                   PROVE  <<Place(c), c.holds>> \in ServerPlaces \X Payload
      BY DEF Unapproved
    <3>2. ~ run.refined
      BY <3>1 DEF ServersAtStake, WantedServers, Places
    <3>3. QED
      BY <2>1, <3>1, <3>2, PlanAre DEF Servers
  <2>3. QED
    BY <1>5, <2>1, <2>2 DEF Consent, At, StateTyped, TypeOK, ReadOnly, records, outside, work, undo, history, counters, Steps
<1>6. CASE \E pl \in todelete : DeleteObsolete(pl)
  <2>1. PICK pl \in todelete : DeleteObsolete(pl)
    BY <1>6
  <2>2. holder # None /\ step = "delete" /\ Decided /\ Doing
    BY <2>1 DEF DeleteObsolete, At, Decided, Doing
  <2>3. pl \in AllPlaces
    BY <2>2 DEF WorkLeft, ObsoleteFiles, AllPlaces
  <2>4. disk' \in [AllPlaces -> Held] /\ journal' \in Seq(Batch)
    <3>1. CASE UNCHANGED <<disk, journal>>
      BY <3>1 DEF StateTyped, TypeOK
    <3>2. CASE Apply([x \in {pl} |-> Absent])
      BY <3>2, <2>3, ApplyTyped DEF StateTyped, TypeOK
    <3>3. QED
      BY <2>1, <3>1, <3>2 DEF DeleteObsolete
  <2>5. QED
    BY <2>1, <2>2, <2>4 DEF DeleteObsolete, Writing, StateTyped, TypeOK, records, outside, work, undo, history, counters, Steps
<1>7. CASE StartWriting \/ (\E c \in towrite : AskTakeover(c)) \/ Stop \/ Undone
  BY <1>7 DEF StartWriting, AskTakeover, Stop, Undone, At, Writing, StateTyped, TypeOK, records, outside, work, undo, history, counters, Steps
<1>8. CASE (\E c \in towrite : WriteAsset(c)) \/ TakeOver
  <2>1. PICK c \in towrite : \E found : Write(c, found)
    BY <1>8 DEF WriteAsset, TakeOver, DisclosureKept, Doing, At
  <2>2. step = "write" /\ holder # None
    BY <1>8 DEF WriteAsset, TakeOver, At
  <2>3. PICK found : Write(c, found)
    BY <2>1
  <2>4. disk' \in [AllPlaces -> Held] /\ journal' \in Seq(Batch)
    BY <2>2, <2>3, WriteTyped
  <2>5. QED
    BY <2>2, <2>3, <2>4 DEF Write, Writing, StateTyped, TypeOK, records, outside, work, undo, history, counters, Steps
<1>9. CASE ApplyServers
  <2>1. step = "write" /\ holder # None /\ Decided
    BY <1>9 DEF ApplyServers, At, Decided
  <2> DEFINE put == [pl \in ServerPlaces |->
                        IF pl \in ServersAtStake THEN ServerTarget(pl) ELSE disk[pl]]
  <2>2. /\ DOMAIN put \subseteq AllPlaces /\ put = [pl \in DOMAIN put |-> put[pl]]
        /\ \A pl \in DOMAIN put : put[pl] \in Held
    BY <2>1, TargetsTyped
  <2>3. disk' \in [AllPlaces -> Held] /\ journal' \in Seq(Batch)
    <3>1. CASE UNCHANGED <<disk, journal>>
      BY <3>1 DEF StateTyped, TypeOK
    <3>2. CASE Apply(put)
      <4> HIDE DEF put
      <4> QED
        BY <3>2, <2>2, ApplyTyped DEF StateTyped, TypeOK
    <3>3. QED
      BY <1>9, <3>1, <3>2 DEF ApplyServers
  <2> HIDE DEF put
  <2>4. step' = "commit" /\ UNCHANGED <<work, shown>> /\ Writing
    BY <1>9 DEF ApplyServers
  <2>5. QED
    BY <2>1, <2>3, <2>4 DEF Writing, StateTyped, TypeOK, records, outside, work, undo, history, counters, Steps
<1>10. CASE Commit \/ CommitFrozen
  <2>1. /\ step = "commit" /\ holder # None /\ Decided
        /\ step' = "committed" /\ journal' = <<>>
        /\ UNCHANGED <<disk, outside, run, work, residue, approved, shown, touched, before, counters>>
    BY <1>10, Commits DEF Decided
  <2>2. ManifestTyped(manifest') /\ LockfileTyped(lockfile') /\ ReceiptTyped(receipt')
    <3>1. /\ manifest' \in {manifest, NewManifest} /\ lockfile' \in {lockfile, NewLockfile}
          /\ receipt' \in {receipt, NewReceipt}
      BY <1>10, Commits
    <3>2. ManifestTyped(manifest) /\ LockfileTyped(lockfile) /\ ReceiptTyped(receipt)
      BY DEF StateTyped, TypeOK
    <3>3. ManifestTyped(NewManifest) /\ LockfileTyped(NewLockfile) /\ ReceiptTyped(NewReceipt)
      BY <2>1, NewRecordsTyped
    <3>4. QED
      BY <3>1, <3>2, <3>3
  <2>3. Journalled \subseteq AllPlaces
    BY DEF Journalled, StateTyped, Batch
  <2>4. stray' \subseteq AllPlaces
    <3>1. stray' \in {(stray \ Reconciled) \cup touched, stray \cup Journalled}
      BY <1>10, Commits
    <3>2. QED
      BY <2>3, <3>1 DEF StateTyped, TypeOK
  <2>5. QED
    BY <2>1, <2>2, <2>4 DEF StateTyped, TypeOK, outside, work, counters, Steps
<1>11. CASE Undo
  <2>1. /\ step = "undoing" /\ holder # None /\ journal # <<>>
        /\ journal' = SubSeq(journal, 1, Len(journal) - 1)
        /\ UNCHANGED <<records, outside, step, run, work, approved, shown, history, counters>>
    BY <1>11 DEF Undo, At
  <2>2. journal' \in Seq(Batch) /\ journal[Len(journal)] \in Batch
    BY <2>1 DEF StateTyped
  <2>3. /\ disk' \in [AllPlaces -> Held] /\ residue' \subseteq AllPlaces
    <3> DEFINE last == journal[Len(journal)]
    <3>1. PICK S \in SUBSET AllPlaces : last \in [was : [S -> Held], put : [S -> Held]]
      BY <2>2 DEF Batch
    <3>2. DOMAIN last.was = S /\ DOMAIN last.put = S /\ \A pl \in S : last.was[pl] \in Held
      BY <3>1
    <3>3. \/ disk' = [pl \in DOMAIN disk |-> IF pl \in DOMAIN last.was THEN last.was[pl] ELSE disk[pl]]
             /\ UNCHANGED residue
          \/ residue' = residue \cup DOMAIN last.put /\ UNCHANGED disk
      BY <1>11 DEF Undo
    <3> HIDE DEF last
    <3>4. QED
      BY <3>2, <3>3 DEF StateTyped, TypeOK
  <2>4. QED
    BY <2>1, <2>2, <2>3 DEF StateTyped, TypeOK, records, outside, work, history, counters
<1>12. CASE Release \/ Crash
  <2>1. Leave /\ crashes' \in Nat /\ edits' = edits /\ holder # None
    BY <1>12, Ends DEF StateTyped
  <2>2. Journalled \subseteq AllPlaces
    BY DEF Journalled, StateTyped, Batch
  <2>3. stray' \subseteq AllPlaces
    BY <1>12, <2>2, Ends DEF StateTyped, TypeOK
  <2>4. ManifestTyped(manifest') /\ LockfileTyped(lockfile') /\ ReceiptTyped(receipt')
    <3>1. /\ receipt' = receipt
          /\ \/ manifest' = manifest /\ lockfile' = lockfile
             \/ At("commit") /\ manifest' = NewManifest /\ lockfile' \in {lockfile, NewLockfile}
      BY <1>12, Ends
    <3>2. ManifestTyped(manifest) /\ LockfileTyped(lockfile) /\ ReceiptTyped(receipt)
      BY DEF StateTyped, TypeOK
    <3>3. At("commit") => ManifestTyped(NewManifest) /\ LockfileTyped(NewLockfile)
      BY NewRecordsTyped DEF At, Decided
    <3>4. QED
      BY <3>1, <3>2, <3>3
  <2>5. QED
    <3>1. /\ holder' = None /\ step' = "idle" /\ journal' = <<>> /\ residue' = {}
          /\ touched' = {} /\ before' = disk
          /\ disk' = disk /\ published' = published /\ approved' = approved
      BY <2>1 DEF Leave
    <3>2. asked' = [p \in Proc |-> asked'[p]]
      BY <2>1 DEF Leave, StateTyped
    <3>3. QED
      BY <2>1, <2>3, <2>4, <3>1, <3>2 DEF StateTyped, TypeOK, Steps
<1>13. CASE \E pl \in AllPlaces, what \in {Absent, Foreign} : EditPlace(pl, what)
  BY <1>13 DEF EditPlace, Elsewhere, StateTyped, TypeOK, records, outside, work, undo, history, counters
<1>14. CASE \E files \in Pulls : Pull(files)
  BY <1>14, InputsAssumption DEF Pull, Elsewhere, StateTyped, TypeOK, records, outside, work, undo, history, counters
<1>15. CASE \E kind \in {"missing", "unreadable"} : LoseReceipt(kind)
  <2>1. PICK kind \in {"missing", "unreadable"} : LoseReceipt(kind)
    BY <1>15
  <2>2. receipt' = [kind |-> kind, facets |-> NoFacets]
    BY <2>1 DEF LoseReceipt
  <2>3. ReceiptTyped(receipt')
    BY <2>2 DEF ReceiptTyped, ReceiptKind, NoFacets
  <2>4. Owned(receipt) \subseteq AllPlaces
    BY ClaimsTyped DEF Owned, Places, StateTyped, TypeOK
  <2>5. QED
    BY <2>1, <2>3, <2>4 DEF LoseReceipt, Elsewhere, StateTyped, TypeOK, records, outside, work, undo, history, counters
<1>16. CASE \E f \in DOMAIN receipt.facets : \E n \in DOMAIN receipt.facets[f].as : SpoilRecord(f, n)
  <2>1. PICK f \in DOMAIN receipt.facets : \E n \in DOMAIN receipt.facets[f].as : SpoilRecord(f, n)
    BY <1>16
  <2>2. PICK n \in DOMAIN receipt.facets[f].as : SpoilRecord(f, n)
    BY <2>1
  <2>3. ReceiptTyped(receipt')
    BY <2>2, WithoutRecordTyped DEF SpoilRecord, StateTyped, TypeOK
  <2>4. Owned(receipt) \subseteq AllPlaces
    BY ClaimsTyped DEF Owned, Places, StateTyped, TypeOK
  <2>5. QED
    BY <2>2, <2>3, <2>4 DEF SpoilRecord, Elsewhere, StateTyped, TypeOK, records, outside, work, undo, history, counters
<1>17. CASE \E f \in Facet : Publish(f)
  <2>1. PICK f \in Facet : Publish(f)
    BY <1>17
  <2>2. /\ published' = [published EXCEPT ![f] = Releases[f]]
        /\ UNCHANGED <<records, disk, asked, holder, step, run, work, undo, approved, shown,
                       history, counters>>
    BY <2>1 DEF Publish
  <2>3. Releases[f] \subseteq DOMAIN Declares[f]
    BY DeclaresAssumption
  <2>4. /\ \A g \in Facet : published'[g] \subseteq DOMAIN Declares[g]
        /\ published' = [g \in Facet |-> published'[g]]
    BY <2>2, <2>3 DEF StateTyped
  <2>5. QED
    BY <2>2, <2>4 DEF StateTyped, TypeOK, records, work, undo, history, counters
<1>18. QED
  BY <1>1, <1>2, <1>3, <1>4, <1>5, <1>6, <1>7, <1>8, <1>9, <1>10, <1>11, <1>12, <1>13, <1>14,
     <1>15, <1>16, <1>17, Cases

----------------------------------------------------------------------------
(* What a run was asked, and the gates it passed.                           *)

(* Where a step may lead that goes on with the same run.                    *)
Moves ==
    \/ step' = step
    \/ step' \in {"undoing", "failed"}
    \/ step = "consent" /\ step' = "delete" /\ Consent
    \/ step = "delete" /\ step' = "write"
    \/ step = "write" /\ step' = "commit"
    \/ step = "commit" /\ step' = "committed"

(* A step begins a run, decides, ends it, goes on with it, or is none of    *)
(* its own.                                                                 *)
LEMMA Shape ==
    ASSUME [Next]_vars, DisclosureKept
    PROVE  \/ \E p \in Proc : \E c \in Requests(p) : Begin(p, c)
           \/ Resolve \/ Compose \/ PrepareServers
           \/ Leave /\ holder # None
           \/ \E p \in Proc : (\E c \in Commands : Review(p, c)) \/ (Requests(p) # {} /\ Refuse(p))
           \/ run' = run /\ holder' = holder /\ asked' = asked /\ Moves
<1>1. CASE Release \/ Crash
  BY <1>1, Ends
<1>2. CASE Commit \/ CommitFrozen
  BY <1>2, Commits DEF Moves, outside
<1>3. CASE Consent
  BY <1>3 DEF Consent, At, ReadOnly, outside, Moves
<1>4. CASE \/ \E pl \in todelete : DeleteObsolete(pl)
           \/ StartWriting
           \/ \E c \in towrite : AskTakeover(c)
           \/ \E c \in towrite : WriteAsset(c)
           \/ TakeOver \/ ApplyServers \/ Stop \/ Undone
  BY <1>4 DEF DeleteObsolete, StartWriting, AskTakeover, WriteAsset, TakeOver, Write, ApplyServers, Stop,
       Undone, Writing, outside, Moves, At
<1>5. CASE \/ \E pl \in AllPlaces, what \in {Absent, Foreign} : EditPlace(pl, what)
           \/ \E files \in Pulls : Pull(files)
           \/ \E kind \in {"missing", "unreadable"} : LoseReceipt(kind)
           \/ \E f \in DOMAIN receipt.facets :
                 \E n \in DOMAIN receipt.facets[f].as : SpoilRecord(f, n)
  BY <1>5 DEF EditPlace, Pull, LoseReceipt, SpoilRecord, Elsewhere, outside, Moves
<1>6. CASE (\E f \in Facet : Publish(f)) \/ UNCHANGED vars \/ Undo
  BY <1>6 DEF Publish, Undo, vars, outside, Moves
<1>7. QED
  BY <1>1, <1>2, <1>3, <1>4, <1>5, <1>6, Cases

(* The newest of some versions of a facet is one of them.                   *)
LEMMA NewestIn ==
    ASSUME NEW f \in Facet, NEW some \in SUBSET DOMAIN Declares[f], some # {}
    PROVE  Newest(some) \in some
<1>1. \E v \in some : \A w \in some : ~ IsNewerThan(w, v)
  BY DeclaresAssumption
<1>2. QED
  BY <1>1 DEF Newest

(* A review offers a newer version, which the new source admits.            *)
LEMMA ReviewIsSound ==
    ASSUME StateTyped, NEW p \in Proc, NEW c \in Commands, Review(p, c)
    PROVE  ReviewSound(asked'[p]) /\ asked'[p].facet \in Facet
<1> DEFINE source == manifest.facets[c.facet].source
           current == lockfile.facets[c.facet].version
           releases == published[c.facet]
           offer == Offer(releases, source, current, c.choice)
           final == FinalManifestSource(source, c.choice, offer)
<1>1. /\ c.facet \in DOMAIN manifest.facets /\ c.facet \in DOMAIN lockfile.facets
      /\ Satisfies(current, source) /\ Answerable(releases, source)
      /\ Advances(releases, source, current, c.choice)
      /\ asked' = [asked EXCEPT ![p] = Reviewed(c, offer, final)]
  BY DEF Review
<1>2. /\ c.facet \in Facet /\ current \in DOMAIN Declares[c.facet]
      /\ releases \subseteq DOMAIN Declares[c.facet]
  BY <1>1 DEF StateTyped, TypeOK, ManifestTyped, LockfileTyped
<1>3. asked'[p] = Reviewed(c, offer, final)
  BY <1>1 DEF StateTyped
<1>4. Newest(releases) \in releases
  BY <1>1, <1>2, NewestIn DEF Answerable
<1>5. source.kind # "exact" => Newest(Admitted(releases, source)) \in Admitted(releases, source)
  BY <1>1, <1>2, NewestIn DEF Answerable, Admitted
<1>6. offer \in DOMAIN Declares[c.facet]
  BY <1>2, <1>4, <1>5 DEF Offer, Target, Admitted
<1>7. c.choice # "latest" => Satisfies(offer, source)
  BY <1>1, <1>5 DEF Offer, Target, Admitted
<1>8. Satisfies(offer, final)
  <2>1. CASE final = source /\ c.choice # "latest"
    BY <1>7, <2>1
  <2>2. CASE final = source /\ source.kind \in {"wildcard", "latest"}
    BY <2>2 DEF Satisfies
  <2>3. CASE final = [kind |-> source.kind, at |-> offer]
    BY <2>3 DEF Satisfies
  <2>4. QED
    BY <2>1, <2>2, <2>3 DEF FinalManifestSource
<1>9. IsNewerThan(offer, current)
  BY <1>1 DEF Advances
<1> HIDE DEF offer, final, current, releases, source
<1>10. QED
  BY <1>1, <1>2, <1>3, <1>6, <1>8, <1>9 DEF Reviewed, ReviewSound, current

(* Whatever was reviewed stays so until it is run.                          *)
LEMMA AskedSoundKept ==
    ASSUME StateTyped, AskedSound, DisclosureKept, [Next]_vars
    PROVE  AskedSound'
<1>1. CASE \E p \in Proc : \E c \in Requests(p) : Begin(p, c)
  <2>1. PICK p \in Proc : \E c \in Requests(p) : Begin(p, c)
    BY <1>1
  <2>2. PICK c \in Requests(p) : Begin(p, c)
    BY <2>1
  <2>3. c.facet \in Facet /\ (c.kind = "update" => ReviewSound(c)) /\ c \notin {Nothing, Finished}
    BY Asks
  <2>4. asked' = [asked EXCEPT ![p] = c] /\ holder' = p /\ run'.op = c
    BY <2>2 DEF Begin
  <2>5. asked'[p] = c /\ \A q \in Proc \ {p} : asked'[q] = asked[q]
    BY <2>4 DEF StateTyped
  <2>6. QED
    BY <2>3, <2>4, <2>5 DEF AskedSound, op
<1>2. CASE Resolve \/ Compose \/ PrepareServers
  <2>1. asked' = asked /\ holder' = holder /\ run'.op = op
    BY <1>2, Deciding DEF ReadOnly, outside
  <2>2. QED
    BY <2>1 DEF AskedSound, op
<1>3. CASE Leave /\ holder # None
  <2>1. holder' = None /\ asked' = [asked EXCEPT ![holder] = Finished] /\ holder \in Proc
    BY <1>3 DEF Leave, StateTyped, TypeOK
  <2>2. asked'[holder] = Finished /\ \A q \in Proc \ {holder} : asked'[q] = asked[q]
    BY <2>1 DEF StateTyped
  <2>3. Finished.kind # "update"
    BY DEF Finished
  <2>4. QED
    BY <2>1, <2>2, <2>3 DEF AskedSound
<1>4. CASE \E p \in Proc : \E c \in Commands : Review(p, c)
  <2>1. PICK p \in Proc, c \in Commands : Review(p, c)
    BY <1>4
  <2>2. ReviewSound(asked'[p]) /\ asked'[p].facet \in Facet
    BY <2>1, ReviewIsSound
  <2>3. \A q \in Proc \ {p} : asked'[q] = asked[q]
    BY <2>1 DEF Review, StateTyped
  <2>4. p # holder \/ holder = None
    BY <2>1 DEF Review, AskedSound
  <2>5. holder' = holder /\ run' = run
    BY <2>1 DEF Review, Waiting
  <2>6. holder # None => holder \in Proc
    BY DEF StateTyped, TypeOK
  <2>7. QED
    BY <2>2, <2>3, <2>4, <2>5, <2>6 DEF AskedSound, op
<1>5. CASE \E p \in Proc : Requests(p) # {} /\ Refuse(p)
  <2>1. PICK p \in Proc : Requests(p) # {} /\ Refuse(p)
    BY <1>5
  <2>2. p # holder \/ holder = None
    BY <2>1, Asks
  <2>3. asked'[p] = Finished /\ \A q \in Proc \ {p} : asked'[q] = asked[q]
    BY <2>1 DEF Refuse, StateTyped
  <2>4. holder' = holder /\ run' = run
    BY <2>1 DEF Refuse, Waiting
  <2>5. holder # None => holder \in Proc
    BY DEF StateTyped, TypeOK
  <2>6. Finished.kind # "update"
    BY DEF Finished
  <2>7. QED
    BY <2>2, <2>3, <2>4, <2>5, <2>6 DEF AskedSound, op
<1>6. CASE run' = run /\ holder' = holder /\ asked' = asked
  BY <1>6 DEF AskedSound, op
<1>7. QED
  BY <1>1, <1>2, <1>3, <1>4, <1>5, <1>6, Shape

(* A facet resolves to a version its source admits, and to the locked one   *)
(* where the lockfile answers.                                              *)
LEMMA ResolutionSound ==
    ASSUME NEW locked, NEW f \in Facet, NEW source, NEW c, NEW releases,
           releases \subseteq DOMAIN Declares[f],
           f \in DOMAIN locked => locked[f].version \in DOMAIN Declares[f],
           ResolutionIntent(c, f) = "prepared" =>
              c.version \in DOMAIN Declares[f] /\ Satisfies(c.version, source),
           NEW v \in Resolution(locked, f, source, c, releases)
    PROVE  /\ v \in DOMAIN Declares[f]
           /\ Satisfies(v, source)
           /\ Anchored(locked, f, source, ResolutionIntent(c, f)) => v = locked[f].version
           /\ ResolutionIntent(c, f) = "prepared" => v = c.version
<1> DEFINE intent == ResolutionIntent(c, f)
<1>1. CASE intent = "prepared"
  <2>1. v = c.version
    BY <1>1 DEF Resolution
  <2>2. ~ Anchored(locked, f, source, intent)
    BY <1>1 DEF Anchored
  <2>3. QED
    BY <1>1, <2>1, <2>2
<1>2. CASE intent # "prepared" /\ Anchored(locked, f, source, intent)
  <2>1. v = locked[f].version
    BY <1>2 DEF Resolution
  <2>2. QED
    BY <1>2, <2>1 DEF Anchored
<1>3. CASE intent # "prepared" /\ ~ Anchored(locked, f, source, intent)
  <2>1. CASE source.kind = "exact"
    <3>1. v \in {source.at} \cap releases
      BY <1>3, <2>1 DEF Resolution
    <3>2. QED
      BY <1>3, <2>1, <3>1 DEF Satisfies
  <2>2. CASE source.kind # "exact"
    <3>1. Admitted(releases, source) # {} /\ v = Newest(Admitted(releases, source))
      BY <1>3, <2>2 DEF Resolution
    <3>2. v \in Admitted(releases, source)
      BY <3>1, NewestIn DEF Admitted
    <3>3. QED
      BY <1>3, <3>2 DEF Admitted
  <2>3. QED
    BY <2>1, <2>2
<1>4. QED
  BY <1>1, <1>2, <1>3

(* An update asks for its facet under the source that was reviewed.         *)
LEMMA Wanted ==
    ASSUME NEW facets, NEW c, c.kind = "update"
    PROVE  /\ c.facet \in DOMAIN Merged(facets, c)
           /\ Merged(facets, c)[c.facet].source = c.source
BY DEF Merged, Sourced

(* What a gate has let through stays true for the run.                      *)
LEMMA GatesPassedKept ==
    ASSUME StateTyped, AskedSound, GatesPassed, DisclosureKept, [Next]_vars
    PROVE  GatesPassed'
<1>1. CASE \E p \in Proc : \E c \in Requests(p) : Begin(p, c)
  <2>1. PICK p \in Proc : \E c \in Requests(p) : Begin(p, c)
    BY <1>1
  <2>2. PICK c \in Requests(p) : Begin(p, c)
    BY <2>1
  <2> DEFINE want == Merged(manifest.facets, c)
  <2>3. /\ PassesGates(c)
        /\ run'.op = c /\ run'.want = want /\ run'.over = Overrides(want)
        /\ run'.saw = [manifest |-> manifest, lockfile |-> lockfile, receipt |-> receipt]
        /\ run'.refined = (c.kind = "remove" /\ Refinable(want, lockfile, receipt))
        /\ step' \in {"prepare", "resolve"}
    BY <2>2 DEF Begin
  <2>4. run'.refined => c.kind = "remove" /\ Refinable(want, lockfile, receipt)
    BY <2>3
  <2>5. /\ c.kind = "update" => c.files = <<manifest, lockfile>>
        /\ c.kind = "frozen" => FrozenConsistent(manifest, lockfile)
    BY <2>3 DEF PassesGates
  <2>6. /\ run'.saw.manifest = manifest /\ run'.saw.lockfile = lockfile /\ run'.saw.receipt = receipt
    BY <2>3
  <2> HIDE DEF want
  <2>7. QED
    BY <2>3, <2>4, <2>5, <2>6 DEF GatesPassed, op, saw, want
<1>2. CASE Resolve
  <2>1. /\ run'.op = op /\ run'.saw = saw /\ run'.want = run.want /\ run'.over = run.over
        /\ holder' = holder /\ holder # None
    BY <1>2, Deciding DEF ReadOnly, outside, Resolve, Compose, PrepareServers, At
  <2>2. ~ run'.refined
    <3>1. \E got : run' = [op |-> op, saw |-> saw, want |-> run.want, refined |-> FALSE,
                            got |-> got, over |-> run.over, seen |-> <<>>]
      BY <1>2, Zenon DEF Resolve
    <3>2. QED
      BY <3>1
  <2>3. QED
    BY <2>1, <2>2 DEF GatesPassed, op, saw
<1>3. CASE Compose
  <2>1. PICK over \in {run.over} \cup Answers :
            /\ over # run.over => Interactive
            /\ run' = [op |-> op, saw |-> saw, want |-> run.want, refined |-> FALSE,
                       got |-> run.got, over |-> over, seen |-> <<>>]
    BY <1>3 DEF Compose
  <2>2. /\ run'.op = op /\ run'.saw = saw /\ run'.want = run.want /\ ~ run'.refined
        /\ run'.over = over /\ holder' = holder /\ holder # None
    BY <1>3, <2>1 DEF Compose, At, ReadOnly, outside
  <2>3. op.kind = "frozen" => over = run.over
    BY <2>1 DEF Interactive
  <2>4. QED
    BY <2>2, <2>3 DEF GatesPassed, op, saw
<1>4. CASE PrepareServers
  <2>1. /\ run'.op = op /\ run'.saw = saw /\ run'.want = run.want /\ run'.over = run.over
        /\ run'.refined = run.refined /\ step' # "compose"
        /\ holder' = holder /\ holder # None
    BY <1>4 DEF ReadOnly, outside, PrepareServers, At
  <2>3. QED
    BY <2>1 DEF GatesPassed, op, saw
<1>5. CASE Leave /\ holder # None
  BY <1>5 DEF Leave, GatesPassed
<1>6. CASE \E p \in Proc : (\E c \in Commands : Review(p, c)) \/ (Requests(p) # {} /\ Refuse(p))
  BY <1>6, Aside DEF Waiting, GatesPassed, op, saw
<1>7. CASE run' = run /\ holder' = holder /\ Moves
  BY <1>7 DEF GatesPassed, op, saw, Moves
<1>8. QED
  BY <1>1, <1>2, <1>3, <1>4, <1>5, <1>6, <1>7, Shape

(* The versions a run resolved stay those its sources admit.                *)
LEMMA VersionsSoundKept ==
    ASSUME StateTyped, RunTyped, AskedSound, GatesPassed, VersionsSound, DisclosureKept, [Next]_vars
    PROVE  VersionsSound'
<1>1. CASE \E p \in Proc : \E c \in Requests(p) : Begin(p, c)
  <2>1. PICK p \in Proc : \E c \in Requests(p) : Begin(p, c)
    BY <1>1
  <2>2. PICK c \in Requests(p) : Begin(p, c)
    BY <2>1
  <2>3. step' = IF run'.refined THEN "prepare" ELSE "resolve"
    BY <2>2 DEF Begin
  <2>4. QED
    BY <2>3 DEF VersionsSound
<1>2. CASE Resolve
  <2> DEFINE found == [f \in DOMAIN run.want |->
                         Resolution(saw.lockfile.facets, f, run.want[f].source, op, published[f])]
             got == [f \in DOMAIN run.want |-> CHOOSE v \in found[f] : TRUE]
  <2>1. /\ \A f \in DOMAIN run.want : found[f] # {} /\ Reconciles(saw.lockfile, f, got[f])
        /\ run'.op = op /\ run'.saw = saw /\ run'.want = run.want /\ run'.got = got
        /\ holder # None /\ step = "resolve"
    BY <1>2 DEF Resolve, At
  <2>2. holder \in Proc
    BY <2>1 DEF StateTyped, TypeOK
  <2>3. op.kind = "update" =>
          /\ op.facet \in DOMAIN run.want
          /\ run.want[op.facet].source = op.source
          /\ op.version \in DOMAIN Declares[op.facet] /\ Satisfies(op.version, op.source)
    BY <2>1, <2>2, Wanted DEF AskedSound, GatesPassed, ReviewSound
  <2>4. ASSUME NEW f \in DOMAIN run.want
        PROVE  /\ got[f] \in DOMAIN Declares[f]
               /\ Satisfies(got[f], run.want[f].source)
               /\ Anchored(saw.lockfile.facets, f, run.want[f].source, ResolutionIntent(op, f))
                     => got[f] = saw.lockfile.facets[f].version
               /\ ResolutionIntent(op, f) = "prepared" => got[f] = op.version
    <3>1. f \in Facet /\ published[f] \subseteq DOMAIN Declares[f]
      BY <2>1 DEF RunTyped, StateTyped
    <3>2. got[f] \in Resolution(saw.lockfile.facets, f, run.want[f].source, op, published[f])
      BY <2>1
    <3>3. f \in DOMAIN saw.lockfile.facets => saw.lockfile.facets[f].version \in DOMAIN Declares[f]
      BY <2>1 DEF RunTyped, LockfileTyped
    <3>4. ResolutionIntent(op, f) = "prepared" =>
              op.version \in DOMAIN Declares[f] /\ Satisfies(op.version, run.want[f].source)
      BY <2>3 DEF ResolutionIntent
    <3> HIDE DEF got, found
    <3>5. QED
      BY <3>1, <3>2, <3>3, <3>4, ResolutionSound
  <2>5. DOMAIN got = DOMAIN run.want
    OBVIOUS
  <2>6. op.kind = "update" => got[op.facet] = op.version
    BY <2>3, <2>4 DEF ResolutionIntent
  <2> HIDE DEF got, found
  <2>7. QED
    BY <2>1, <2>4, <2>5, <2>6 DEF VersionsSound, op, saw
<1>3. CASE Compose
  <2>1. /\ run'.op = op /\ run'.saw = saw /\ run'.want = run.want /\ run'.got = run.got
        /\ step = "compose" /\ holder # None
    BY <1>3 DEF Compose, At
  <2>2. ~ run.refined
    BY <2>1 DEF GatesPassed
  <2>3. QED
    BY <2>1, <2>2 DEF VersionsSound, op, saw
<1>4. CASE PrepareServers
  <2>1. /\ run'.op = op /\ run'.saw = saw /\ run'.want = run.want /\ run'.got = run.got
        /\ step = "prepare" /\ run'.refined = run.refined
    BY <1>4 DEF PrepareServers, At
  <2>3. QED
    BY <2>1 DEF VersionsSound, op, saw
<1>5. CASE Leave /\ holder # None
  BY <1>5 DEF Leave, VersionsSound
<1>6. CASE \E p \in Proc : (\E c \in Commands : Review(p, c)) \/ (Requests(p) # {} /\ Refuse(p))
  BY <1>6, Aside DEF Waiting, VersionsSound, op, saw
<1>7. CASE run' = run /\ Moves
  BY <1>7 DEF VersionsSound, op, saw, Moves
<1>8. QED
  BY <1>1, <1>2, <1>3, <1>4, <1>5, <1>6, <1>7, Shape

(* A plan that was accepted stays free of conflicts.                        *)
LEMMA PlanSoundKept ==
    ASSUME StateTyped, GatesPassed, PlanSound, DisclosureKept, [Next]_vars
    PROVE  PlanSound'
<1>1. CASE \E p \in Proc : \E c \in Requests(p) : Begin(p, c)
  <2>1. PICK p \in Proc : \E c \in Requests(p) : Begin(p, c)
    BY <1>1
  <2>2. PICK c \in Requests(p) : Begin(p, c)
    BY <2>1
  <2> DEFINE want == Merged(manifest.facets, c)
  <2>3. /\ run'.want = want /\ run'.over = Overrides(want)
        /\ run'.saw.lockfile = lockfile
        /\ run'.refined = (c.kind = "remove" /\ Refinable(want, lockfile, receipt))
        /\ step' = IF run'.refined THEN "prepare" ELSE "resolve"
    BY <2>2 DEF Begin
  <2> HIDE DEF want
  <2>4. CASE ~ run'.refined
    BY <2>3, <2>4 DEF PlanSound, Decided
  <2>5. CASE run'.refined
    <3>1. Refinable(want, lockfile, receipt)
      BY <2>3, <2>5
    <3>2. Plannable(LockedContents(lockfile.facets, DOMAIN want), Overrides(want))
      BY <3>1 DEF Refinable
    <3>3. RunContents' = LockedContents(lockfile.facets, DOMAIN want)
      BY <2>3, <2>5 DEF RunContents, saw
    <3>4. QED
      BY <2>3, <3>2, <3>3 DEF PlanSound
  <2>6. QED
    BY <2>4, <2>5
<1>2. CASE Resolve
  BY <1>2, Zenon DEF Resolve, PlanSound, Decided
<1>3. CASE Compose
  <2>1. PICK over \in {run.over} \cup Answers :
            /\ Plannable(RunContents, over)
            /\ run' = [op |-> op, saw |-> saw, want |-> run.want, refined |-> FALSE,
                       got |-> run.got, over |-> over, seen |-> <<>>]
    BY <1>3 DEF Compose
  <2>2. ~ run.refined
    BY <1>3 DEF Compose, At, GatesPassed
  <2>3. RunContents' = RunContents
    BY <2>1, <2>2 DEF RunContents, saw
  <2>4. QED
    BY <2>1, <2>3 DEF PlanSound
<1>4. CASE PrepareServers
  <2>1. /\ run'.saw = saw /\ run'.want = run.want /\ run'.got = run.got
        /\ step = "prepare" /\ run'.refined = run.refined /\ run'.over = run.over
    BY <1>4 DEF PrepareServers, At
  <2>2. RunContents' = RunContents
    BY <2>1 DEF RunContents, saw
  <2>3. QED
    BY <2>1, <2>2 DEF PlanSound, Decided
<1>5. CASE Leave /\ holder # None
  BY <1>5 DEF Leave, PlanSound, Decided
<1>6. CASE \E p \in Proc : (\E c \in Commands : Review(p, c)) \/ (Requests(p) # {} /\ Refuse(p))
  BY <1>6, Aside DEF Waiting, PlanSound, Decided, RunContents, saw
<1>7. CASE run' = run /\ Moves
  BY <1>7 DEF PlanSound, Decided, Moves, RunContents, saw
<1>8. QED
  BY <1>1, <1>2, <1>3, <1>4, <1>5, <1>6, <1>7, Shape

----------------------------------------------------------------------------
(* The writing half.                                                        *)

(* What a run knows of itself and has agreed with the user: the part of the *)
(* invariant that does not speak of what the disk was.                      *)
Sound ==
    /\ StateTyped /\ RunTyped /\ AskedSound /\ GatesPassed /\ VersionsSound /\ PlanSound
    /\ WorkLeft /\ DisclosureKept /\ ApprovalsCover /\ Calm

(* The steps of the writing half.                                           *)
WriteStep ==
    \/ \E pl \in todelete : DeleteObsolete(pl)
    \/ StartWriting
    \/ \E c \in towrite : AskTakeover(c)
    \/ \E c \in towrite : WriteAsset(c)
    \/ TakeOver \/ ApplyServers

(* A batch of a run: only places the run reconciles change, and what it     *)
(* puts at a server's place the user has agreed to.                         *)
Written(put) ==
    /\ Apply(put)
    /\ put = [pl \in DOMAIN put |-> put[pl]]
    /\ DOMAIN put \subseteq AllPlaces
    /\ \A pl \in DOMAIN put : put[pl] \in Held
    /\ \A pl \in DOMAIN put : pl \in Reconciled \/ put[pl] = disk[pl]
    /\ \A pl \in DOMAIN put : pl \in ServerPlaces => Agreed(pl, put[pl])

(* A place is of a file or of a server.                                     *)
LEMMA Disjoint == FilePlaces \cap ServerPlaces = {}
BY DEF FilePlaces, ServerPlaces

(* The user has agreed to what a run puts at a server's place.              *)
LEMMA TargetsAgreed ==
    ASSUME Sound, Doing, NEW pl \in ServersAtStake
    PROVE  Agreed(pl, ServerTarget(pl))
<1>1. CASE pl \in WantedServers
  <2>1. ~ run.refined
    BY <1>1 DEF ServersAtStake
  <2>2. \E c \in Servers(Plan) : Place(c) = pl
    BY <1>1 DEF WantedServers, Places
  <2> DEFINE d == CHOOSE c \in Servers(Plan) : Place(c) = pl
  <2>3. d \in Servers(Plan) /\ Place(d) = pl
    BY <2>2
  <2>4. <<Place(d), d.holds>> \in approved
    BY <2>1, <2>3 DEF Sound, ApprovalsCover
  <2>5. ServerTarget(pl) = d.holds
    BY <1>1 DEF ServerTarget, WantedAt
  <2>6. QED
    BY <2>3, <2>4, <2>5 DEF Agreed
<1>2. CASE pl \notin WantedServers
  BY <1>2 DEF ServerTarget, Agreed, Ours
<1>3. QED
  BY <1>1, <1>2

(* A step of the writing half changes nothing or is such a batch, and goes  *)
(* on with the run.                                                         *)
LEMMA Writes ==
    ASSUME Sound, WriteStep
    PROVE  /\ Doing /\ holder # None /\ Writing
           /\ step' \in {"delete", "write", "commit"}
           /\ step = "write" => step' \in {"write", "commit"}
           /\ UNCHANGED <<disk, journal>> \/ \E put : Written(put)
<1>1. CASE \E pl \in todelete : DeleteObsolete(pl)
  <2>1. PICK pl \in todelete : DeleteObsolete(pl)
    BY <1>1
  <2>2. /\ Doing /\ holder # None /\ Writing /\ step' = step /\ step = "delete"
        /\ UNCHANGED <<disk, journal>> \/ Apply([x \in {pl} |-> Absent])
    BY <2>1 DEF DeleteObsolete, At, Doing
  <2>3. pl \in ObsoleteFiles
    BY <2>2 DEF Sound, WorkLeft
  <2>4. pl \in FilePlaces /\ pl \in AllPlaces /\ pl \in Reconciled /\ pl \notin ServerPlaces
    BY <2>3, Disjoint DEF ObsoleteFiles, AllPlaces, Reconciled
  <2>5. Apply([x \in {pl} |-> Absent]) => Written([x \in {pl} |-> Absent])
    BY <2>4 DEF Written, Held
  <2>6. QED
    BY <2>2, <2>5
<1>2. CASE StartWriting \/ \E c \in towrite : AskTakeover(c)
  BY <1>2 DEF StartWriting, AskTakeover, At, Doing
<1>3. CASE (\E c \in towrite : WriteAsset(c)) \/ TakeOver
  <2>1. /\ step = "write" /\ Doing /\ holder # None /\ Decided
    BY <1>3 DEF WriteAsset, TakeOver, At, Doing, Decided
  <2>2. PICK c \in towrite : \E found : Write(c, found)
    BY <1>3, <2>1 DEF WriteAsset, TakeOver, Sound, DisclosureKept
  <2>3. PICK found : Write(c, found)
    BY <2>2
  <2>4. /\ Writing /\ step' = step
        /\ UNCHANGED <<disk, journal>> \/ Apply([x \in {Place(c)} |-> c.holds])
    BY <2>3 DEF Write
  <2>5. c \in Assets(Plan) /\ ~ run.refined
    BY <2>1 DEF Sound, WorkLeft
  <2>6. c.holds \in Payload /\ Place(c) \in FilePlaces
    BY <2>1, <2>5, PlanAre DEF Assets, Sound
  <2>7. Place(c) \in AllPlaces /\ Place(c) \in Reconciled /\ Place(c) \notin ServerPlaces
    BY <2>5, <2>6, Disjoint DEF AllPlaces, Reconciled, WantedFiles, Places
  <2>8. Apply([x \in {Place(c)} |-> c.holds]) => Written([x \in {Place(c)} |-> c.holds])
    BY <2>6, <2>7 DEF Written, Held
  <2>9. QED
    BY <2>1, <2>4, <2>8
<1>4. CASE ApplyServers
  <2> DEFINE put == [pl \in ServerPlaces |->
                        IF pl \in ServersAtStake THEN ServerTarget(pl) ELSE disk[pl]]
  <2>1. /\ step = "write" /\ Doing /\ holder # None /\ Decided /\ Writing /\ step' = "commit"
        /\ UNCHANGED <<disk, journal>> \/ Apply(put)
    BY <1>4 DEF ApplyServers, At, Doing, Decided
  <2>2. /\ DOMAIN put \subseteq AllPlaces /\ put = [pl \in DOMAIN put |-> put[pl]]
        /\ \A pl \in DOMAIN put : put[pl] \in Held
    BY <2>1, TargetsTyped DEF Sound
  <2>3. \A pl \in DOMAIN put : pl \in Reconciled \/ put[pl] = disk[pl]
    BY DEF Reconciled
  <2>4. \A pl \in ServerPlaces : Agreed(pl, put[pl])
    BY <2>1, TargetsAgreed DEF Sound, ApprovalsCover
  <2> HIDE DEF put
  <2>5. Apply(put) => Written(put)
    BY <2>2, <2>3, <2>4 DEF Written
  <2>6. QED
    BY <2>1, <2>5
<1>5. QED
  BY <1>1, <1>2, <1>3, <1>4 DEF WriteStep

(* The steps that are none of the run.                                      *)
AroundStep ==
    \/ UNCHANGED vars
    \/ \E p \in Proc : (\E c \in Commands : Review(p, c)) \/ (Requests(p) # {} /\ Refuse(p))
    \/ \E pl \in AllPlaces, what \in {Absent, Foreign} : EditPlace(pl, what)
    \/ \E files \in Pulls : Pull(files)
    \/ \E kind \in {"missing", "unreadable"} : LoseReceipt(kind)
    \/ \E f \in DOMAIN receipt.facets :
          \E n \in DOMAIN receipt.facets[f].as : SpoilRecord(f, n)
    \/ \E f \in Facet : Publish(f)

(* A receipt that lost a record claims nothing new.                         *)
LEMMA SpoiledClaims ==
    ASSUME NEW r, NEW f, NEW n
    PROVE  Claims(WithoutRecord(r, f, n)) \subseteq Claims(r)
<1>1. SUFFICES ASSUME NEW c \in Claims(WithoutRecord(r, f, n)) PROVE c \in Claims(r)
  OBVIOUS
<1> DEFINE w == WithoutRecord(r, f, n)
<1>2. /\ w.kind = r.kind /\ DOMAIN w.facets = DOMAIN r.facets
      /\ \A g \in DOMAIN r.facets :
            /\ w.facets[g].version = r.facets[g].version
            /\ DOMAIN w.facets[g].as \subseteq DOMAIN r.facets[g].as
            /\ \A m \in DOMAIN w.facets[g].as : w.facets[g].as[m] = r.facets[g].as[m]
  BY DEF WithoutRecord, Restrict
<1>3. Authority(w) = Authority(r)
  BY <1>2 DEF Authority
<1> HIDE DEF w
<1>4. PICK g \in DOMAIN w.facets : \E m \in DOMAIN w.facets[g].as \cap Authority(w) : c = ClaimOf(w, g, m)
  BY <1>1, ClaimsAre DEF w
<1>5. PICK m \in DOMAIN w.facets[g].as \cap Authority(w) : c = ClaimOf(w, g, m)
  BY <1>4
<1>6. c = ClaimOf(r, g, m) /\ g \in DOMAIN r.facets /\ m \in DOMAIN r.facets[g].as \cap Authority(r)
  BY <1>2, <1>3, <1>5 DEF ClaimOf
<1>7. QED
  BY <1>6, ClaimsAre

(* An empty receipt claims nothing.                                         *)
LEMMA NoClaims == \A r : r.facets = NoFacets => Claims(r) = {}
BY DEF Claims, NoFacets

(* What the surroundings leave alone.                                       *)
LEMMA Around ==
    ASSUME AroundStep
    PROVE  /\ UNCHANGED <<holder, step, run, work, journal, residue, approved, shown, crashes>>
           /\ receipt' = receipt \/ Claims(receipt') \subseteq Claims(receipt)
           /\ \/ UNCHANGED <<disk, touched, before>>
              \/ \E pl \in AllPlaces, what \in {Absent, Foreign} : EditPlace(pl, what)
<1>1. CASE UNCHANGED vars
  BY <1>1 DEF vars, records, outside, work, undo, history, counters
<1>2. CASE \E p \in Proc : (\E c \in Commands : Review(p, c)) \/ (Requests(p) # {} /\ Refuse(p))
  BY <1>2, Aside DEF Waiting, records, work, undo, history, counters
<1>3. CASE \E pl \in AllPlaces, what \in {Absent, Foreign} : EditPlace(pl, what)
  BY <1>3 DEF EditPlace, Elsewhere, records, outside, work, undo
<1>4. CASE \E files \in Pulls : Pull(files)
  BY <1>4 DEF Pull, Elsewhere, outside, work, undo, history
<1>5. CASE \E kind \in {"missing", "unreadable"} : LoseReceipt(kind)
  BY <1>5, NoClaims DEF LoseReceipt, Elsewhere, outside, work, undo
<1>6. CASE \E f \in DOMAIN receipt.facets : \E n \in DOMAIN receipt.facets[f].as : SpoilRecord(f, n)
  BY <1>6, SpoiledClaims DEF SpoilRecord, Elsewhere, outside, work, undo
<1>7. CASE \E f \in Facet : Publish(f)
  BY <1>7 DEF Publish, records, work, undo, history, counters
<1>8. QED
  BY <1>1, <1>2, <1>3, <1>4, <1>5, <1>6, <1>7 DEF AroundStep

(* The steps by kind.                                                       *)
LEMMA Kinds ==
    ASSUME [Next]_vars
    PROVE  \/ AroundStep \/ WriteStep
           \/ \E p \in Proc : \E c \in Requests(p) : Begin(p, c)
           \/ Resolve \/ Compose \/ PrepareServers \/ Consent
           \/ Commit \/ CommitFrozen
           \/ Stop \/ Undo \/ Undone \/ Release \/ Crash
BY Cases DEF AroundStep, WriteStep

----------------------------------------------------------------------------
(* What a new receipt claims.                                               *)

(* The receipt of a run that resolved its facets claims what the run has    *)
(* planned.                                                                 *)
LEMMA NewReceiptClaims ==
    ASSUME RunTyped, VersionsSound, GatesPassed, PlanSound, Decided, holder # None, ~ run.refined
    PROVE  Claims(NewReceipt) = Plan
<1>1. /\ DOMAIN RunContents = DOMAIN run.want
      /\ \A f \in DOMAIN RunContents : /\ DOMAIN RunContents[f] \subseteq Name
                                       /\ RunContents[f] = Declares[f][run.got[f]]
  BY RunContentsTyped
<1>2. DOMAIN run.got = DOMAIN run.want
  BY DEF VersionsSound, Decided
<1> DEFINE entries == LockEntries(run.got, run.over)
<1>3. /\ DOMAIN entries = DOMAIN run.want
      /\ \A f \in DOMAIN run.want :
              /\ entries[f].version = run.got[f]
              /\ DOMAIN entries[f].as = DOMAIN RunContents[f]
              /\ \A n \in DOMAIN RunContents[f] : entries[f].as[n] = Intent(run.over, f, n)
  BY <1>1, <1>2 DEF LockEntries
<1>4. NewReceipt = [kind |-> "loaded", facets |-> ReceiptEntries(entries)]
  BY DEF NewReceipt
<1> HIDE DEF entries
<1> DEFINE r == NewReceipt
<1>5. /\ DOMAIN r.facets = DOMAIN run.want
      /\ \A f \in DOMAIN run.want :
              /\ r.facets[f].version = run.got[f]
              /\ DOMAIN r.facets[f].as = {n \in DOMAIN RunContents[f] : Intent(run.over, f, n) # "omitted"}
              /\ \A n \in DOMAIN r.facets[f].as : r.facets[f].as[n] = Intent(run.over, f, n)
  BY <1>3, <1>4 DEF ReceiptEntries, ReceiptEntry, OmittedIn, Restrict
<1>6. Authority(r) = Name
  BY <1>4 DEF Authority, Name
<1> HIDE DEF r
<1>7. ASSUME NEW f \in DOMAIN run.want, NEW n \in DOMAIN r.facets[f].as
      PROVE  ClaimOf(r, f, n) = Claim(RunContents, run.over, f, n)
  BY <1>1, <1>5, <1>7 DEF ClaimOf, Claim
<1>8. ASSUME NEW c \in Claims(r)
      PROVE  c \in Plan
  <2>1. PICK f \in DOMAIN r.facets : \E n \in DOMAIN r.facets[f].as \cap Authority(r) : c = ClaimOf(r, f, n)
    BY <1>8, ClaimsAre
  <2>2. PICK n \in DOMAIN r.facets[f].as : c = ClaimOf(r, f, n)
    BY <2>1
  <2>3. c = Claim(RunContents, run.over, f, n) /\ n \in DOMAIN RunContents[f] /\ f \in DOMAIN RunContents
    BY <1>1, <1>5, <1>7, <2>2
  <2>4. c.as # "omitted"
    BY <1>5, <2>2, <2>3 DEF Claim
  <2>5. QED
    BY <2>3, <2>4, MaterializedAre DEF Plan
<1>9. ASSUME NEW c \in Plan
      PROVE  c \in Claims(r)
  <2>1. PICK f \in DOMAIN RunContents : \E n \in DOMAIN RunContents[f] :
                c = Claim(RunContents, run.over, f, n) /\ c.as # "omitted"
    BY <1>9, MaterializedAre DEF Plan
  <2>2. PICK n \in DOMAIN RunContents[f] : c = Claim(RunContents, run.over, f, n) /\ c.as # "omitted"
    BY <2>1
  <2>3. Intent(run.over, f, n) # "omitted"
    BY <2>2 DEF Claim
  <2>4. n \in DOMAIN r.facets[f].as \cap Authority(r) /\ f \in DOMAIN r.facets
    BY <1>1, <1>5, <1>6, <2>3
  <2>5. c = ClaimOf(r, f, n)
    BY <1>1, <1>7, <2>2, <2>4
  <2>6. QED
    BY <2>4, <2>5, ClaimsAre
<1>10. Claims(r) = Plan
  BY <1>8, <1>9
<1>11. QED
  BY <1>10 DEF r

(* The receipt of a removal that was answered from the records claims what  *)
(* the old one did of the facets that stay.                                 *)
LEMMA CarriedClaims ==
    ASSUME RunTyped, GatesPassed, holder # None, run.refined
    PROVE  Claims(NewReceipt) =
             {c \in Claims(saw.receipt) :
                 /\ c.facet \in DOMAIN run.want
                 /\ c.name \in ServerName \cup (DOMAIN saw.lockfile.facets[c.facet].as
                                                 \ OmittedIn(saw.lockfile.facets[c.facet]))}
<1> DEFINE r == NewReceipt
           keep(f) == ServerName \cup (DOMAIN saw.lockfile.facets[f].as
                                         \ OmittedIn(saw.lockfile.facets[f]))
<1>1. DOMAIN run.want \subseteq DOMAIN saw.receipt.facets /\ saw.receipt.kind = "loaded"
  BY DEF GatesPassed, Refinable
<1>2. r = [kind |-> "loaded", facets |-> CarriedForward(saw.receipt, saw.lockfile.facets, DOMAIN run.want)]
  BY DEF NewReceipt
<1>3. /\ DOMAIN r.facets = DOMAIN run.want
      /\ \A f \in DOMAIN run.want :
              /\ r.facets[f].version = saw.receipt.facets[f].version
              /\ DOMAIN r.facets[f].as = {n \in DOMAIN saw.receipt.facets[f].as : n \in keep(f)}
              /\ \A n \in DOMAIN r.facets[f].as : r.facets[f].as[n] = saw.receipt.facets[f].as[n]
  BY <1>2 DEF CarriedForward, Restrict
<1>4. Authority(r) = Authority(saw.receipt)
  BY <1>1, <1>2 DEF Authority
<1> HIDE DEF r, keep
<1>5. ASSUME NEW f \in DOMAIN run.want, NEW n \in DOMAIN r.facets[f].as
      PROVE  ClaimOf(r, f, n) = ClaimOf(saw.receipt, f, n)
  BY <1>3, <1>5 DEF ClaimOf
<1>6. ASSUME NEW c \in Claims(r)
      PROVE  c \in Claims(saw.receipt) /\ c.facet \in DOMAIN run.want /\ c.name \in keep(c.facet)
  <2>1. PICK f \in DOMAIN r.facets : \E n \in DOMAIN r.facets[f].as \cap Authority(r) : c = ClaimOf(r, f, n)
    BY <1>6, ClaimsAre
  <2>2. PICK n \in DOMAIN r.facets[f].as \cap Authority(r) : c = ClaimOf(r, f, n)
    BY <2>1
  <2>3. c = ClaimOf(saw.receipt, f, n) /\ f \in DOMAIN saw.receipt.facets
        /\ n \in DOMAIN saw.receipt.facets[f].as \cap Authority(saw.receipt)
    BY <1>1, <1>3, <1>4, <1>5, <2>2
  <2>4. c \in Claims(saw.receipt)
    BY <2>3, ClaimsAre
  <2>5. c.facet = f /\ c.name = n
    BY <2>2 DEF ClaimOf
  <2>6. QED
    BY <1>3, <2>2, <2>4, <2>5
<1>7. ASSUME NEW c \in Claims(saw.receipt), c.facet \in DOMAIN run.want, c.name \in keep(c.facet)
      PROVE  c \in Claims(r)
  <2>1. PICK f \in DOMAIN saw.receipt.facets :
           \E n \in DOMAIN saw.receipt.facets[f].as \cap Authority(saw.receipt) : c = ClaimOf(saw.receipt, f, n)
    BY <1>7, ClaimsAre
  <2>2. PICK n \in DOMAIN saw.receipt.facets[f].as \cap Authority(saw.receipt) : c = ClaimOf(saw.receipt, f, n)
    BY <2>1
  <2>3. c.facet = f /\ c.name = n
    BY <2>2 DEF ClaimOf
  <2>4. f \in DOMAIN r.facets /\ n \in DOMAIN r.facets[f].as \cap Authority(r)
    BY <1>3, <1>4, <1>7, <2>2, <2>3
  <2>5. c = ClaimOf(r, f, n)
    BY <1>3, <1>5, <2>2, <2>4
  <2>6. QED
    BY <2>4, <2>5, ClaimsAre
<1>8. Claims(r) = {c \in Claims(saw.receipt) : c.facet \in DOMAIN run.want /\ c.name \in keep(c.facet)}
  BY <1>6, <1>7
<1>9. QED
  BY <1>8 DEF r, keep

(* Fewer claims speak for fewer servers.                                    *)
LEMMA SpokenShrinks ==
    ASSUME NEW r, NEW s, Claims(r) \subseteq Claims(s)
    PROVE  Spoken(r) \subseteq Spoken(s)
BY DEF Spoken, Servers

(* A new receipt speaks for no server the user has not agreed to.           *)
LEMMA NewSpoken ==
    ASSUME Sound, Doing, holder # None
    PROVE  Spoken(NewReceipt) \subseteq approved
<1>0. Decided
  BY DEF Doing, Decided
<1>1. CASE run.refined
  <2>1. Claims(NewReceipt) \subseteq Claims(saw.receipt)
    BY <1>1, CarriedClaims DEF Sound
  <2>2. QED
    BY <2>1, SpokenShrinks DEF Sound, ApprovalsCover
<1>2. CASE ~ run.refined
  <2>1. Claims(NewReceipt) = Plan
    BY <1>0, <1>2, NewReceiptClaims DEF Sound
  <2>2. QED
    BY <1>2, <2>1 DEF Sound, ApprovalsCover, Spoken
<1>3. QED
  BY <1>1, <1>2

----------------------------------------------------------------------------
(* What the user has agreed to, and was shown.                              *)

(* The journal after a batch.                                               *)
LEMMA Appended ==
    ASSUME journal \in Seq(Batch), NEW put, Apply(put)
    PROVE  /\ Len(journal) \in Nat /\ DOMAIN journal = 1..Len(journal)
           /\ Len(journal') = Len(journal) + 1
           /\ DOMAIN journal' = 1..(Len(journal) + 1)
           /\ \A i \in 1..Len(journal) : journal'[i] = journal[i]
           /\ journal'[Len(journal) + 1].put = put
           /\ journal'[Len(journal) + 1].was = [pl \in DOMAIN put |-> disk[pl]]
<1> DEFINE b == [was |-> [pl \in DOMAIN put |-> disk[pl]], put |-> put]
<1>1. journal' = Append(journal, b)
  BY DEF Apply
<1>2. b.put = put /\ b.was = [pl \in DOMAIN put |-> disk[pl]]
  OBVIOUS
<1> HIDE DEF b
<1>3. QED
  BY <1>1, <1>2

(* The journal after one is undone.                                         *)
LEMMA Popped ==
    ASSUME journal \in Seq(Batch), journal # <<>>, journal' = SubSeq(journal, 1, Len(journal) - 1)
    PROVE  /\ Len(journal) \in Nat \ {0} /\ DOMAIN journal = 1..Len(journal)
           /\ Len(journal') = Len(journal) - 1
           /\ DOMAIN journal' = 1..(Len(journal) - 1)
           /\ \A i \in 1..(Len(journal) - 1) : journal'[i] = journal[i]
<1>1. Len(journal) \in Nat /\ DOMAIN journal = 1..Len(journal)
  OBVIOUS
<1>2. Len(journal) # 0
  <2>1. SUFFICES ASSUME Len(journal) = 0 PROVE FALSE
    OBVIOUS
  <2>2. QED
    BY <2>1, EmptySeq
<1>3. /\ Len(journal') = Len(journal) - 1
      /\ \A i \in 1..(Len(journal) - 1) : journal'[i] = journal[i]
  BY <1>1, <1>2
<1>4. QED
  BY <1>1, <1>2, <1>3

(* What the step of consent changes.                                        *)
LEMMA Decides ==
    ASSUME Consent
    PROVE  /\ holder # None /\ step = "consent" /\ step' = "delete" /\ Decided
           /\ approved' = approved \cup Unapproved
           /\ shown' = {<<pl, run.seen[pl]>> : pl \in ServerTakeovers}
           /\ todelete' = ObsoleteFiles
           /\ towrite' = IF run.refined THEN {} ELSE Assets(Plan)
           /\ run' = run /\ prompt' = prompt
           /\ UNCHANGED <<manifest, lockfile, receipt, disk, published, asked, holder,
                          journal, residue, touched, before, stray, edits, crashes>>
BY DEF Consent, At, Decided, ReadOnly, records, outside, undo, history, counters

(* Every server definition on disk, in the journal, in a receipt or in an   *)
(* accepted plan stays one the user has agreed to.                          *)
LEMMA ApprovalsCoverKept ==
    ASSUME Sound, [Next]_vars
    PROVE  ApprovalsCover'
<1>1. CASE AroundStep
  <2>1. /\ UNCHANGED <<holder, step, run, journal, approved>>
        /\ receipt' = receipt \/ Claims(receipt') \subseteq Claims(receipt)
        /\ \/ UNCHANGED disk
           \/ \E pl \in AllPlaces, what \in {Absent, Foreign} : EditPlace(pl, what)
    BY <1>1, Around
  <2>2. Spoken(receipt') \subseteq approved
    <3>1. CASE receipt' = receipt
      BY <3>1 DEF Sound, ApprovalsCover
    <3>2. CASE Claims(receipt') \subseteq Claims(receipt)
      BY <3>2, SpokenShrinks DEF Sound, ApprovalsCover
    <3>3. QED
      BY <2>1, <3>1, <3>2
  <2>3. \A pl \in ServerPlaces : Agreed(pl, disk'[pl])
    <3>1. \A pl \in ServerPlaces : Agreed(pl, disk[pl])
      BY DEF Sound, ApprovalsCover
    <3>2. ASSUME NEW x \in AllPlaces, NEW what \in {Absent, Foreign}, EditPlace(x, what)
          PROVE  \A pl \in ServerPlaces : Agreed(pl, disk'[pl])
      <4>1. disk' = [disk EXCEPT ![x] = what] /\ disk \in [AllPlaces -> Held]
        BY <3>2 DEF EditPlace, Sound, StateTyped, TypeOK, Held
      <4>2. \A pl \in AllPlaces : disk'[pl] = disk[pl] \/ disk'[pl] \in {Absent, Foreign}
        BY <4>1
      <4>3. QED
        BY <3>1, <4>2 DEF Agreed, Ours, AllPlaces
    <3>3. QED
      BY <2>1, <3>1, <3>2
  <2>4. Plan' = Plan /\ saw' = saw
    BY <2>1, RunFrame DEF saw
  <2>5. QED
    BY <2>1, <2>2, <2>3, <2>4 DEF Sound, ApprovalsCover, Agreed, Doing
<1>2. CASE WriteStep
  <2>1. /\ Doing /\ holder # None /\ Writing
        /\ UNCHANGED <<disk, journal>> \/ \E put : Written(put)
    BY <1>2, Writes
  <2>2. UNCHANGED <<run, holder, approved, receipt>>
    BY <2>1 DEF Writing, records, outside
  <2>3. Plan' = Plan /\ saw' = saw
    BY <2>2, RunFrame DEF saw
  <2>4. CASE UNCHANGED <<disk, journal>>
    BY <2>1, <2>2, <2>3, <2>4 DEF Sound, ApprovalsCover, Agreed
  <2>5. CASE \E put : Written(put)
    <3>1. PICK put : Written(put)
      BY <2>5
    <3>2. /\ Len(journal) \in Nat /\ DOMAIN journal = 1..Len(journal)
          /\ DOMAIN journal' = 1..(Len(journal) + 1)
          /\ \A i \in 1..Len(journal) : journal'[i] = journal[i]
          /\ journal'[Len(journal) + 1].was = [pl \in DOMAIN put |-> disk[pl]]
      BY <3>1, Appended DEF Written, Sound, StateTyped
    <3>3. disk' = [pl \in DOMAIN disk |-> IF pl \in DOMAIN put THEN put[pl] ELSE disk[pl]]
          /\ DOMAIN disk = AllPlaces
      BY <3>1 DEF Written, Apply, Sound, StateTyped, TypeOK
    <3>4. \A pl \in ServerPlaces : Agreed(pl, disk'[pl])
      BY <3>1, <3>3 DEF Written, Sound, ApprovalsCover, AllPlaces
    <3>5. \A i \in DOMAIN journal' : \A pl \in ServerPlaces \cap DOMAIN journal'[i].was :
            Agreed(pl, journal'[i].was[pl])
      <4> TAKE i \in DOMAIN journal'
      <4>1. CASE i \in 1..Len(journal)
        BY <3>2, <4>1 DEF Sound, ApprovalsCover
      <4>2. CASE i = Len(journal) + 1
        BY <3>2, <4>2 DEF Sound, ApprovalsCover
      <4>3. QED
        BY <3>2, <4>1, <4>2
    <3>6. QED
      BY <2>1, <2>2, <2>3, <3>4, <3>5 DEF Sound, ApprovalsCover, Agreed
  <2>6. QED
    BY <2>1, <2>4, <2>5
<1>3. CASE \E p \in Proc : \E c \in Requests(p) : Begin(p, c)
  <2>1. PICK p \in Proc : \E c \in Requests(p) : Begin(p, c)
    BY <1>3
  <2>2. PICK c \in Requests(p) : Begin(p, c)
    BY <2>1
  <2>3. /\ run'.saw.receipt = receipt /\ step' \in {"prepare", "resolve"}
        /\ receipt' = receipt /\ disk' = disk /\ journal' = journal /\ approved' = approved
    BY <2>2 DEF Begin, records, undo
  <2>4. QED
    BY <2>3 DEF Sound, ApprovalsCover, Agreed, saw, Doing
<1>4. CASE Resolve \/ Compose \/ PrepareServers
  <2>1. /\ run'.saw = saw /\ step' \in {"compose", "prepare", "consent"} /\ holder # None
        /\ receipt' = receipt /\ disk' = disk /\ journal' = journal /\ approved' = approved
    BY <1>4, Deciding DEF ReadOnly, records, undo
  <2>2. QED
    BY <2>1 DEF Sound, ApprovalsCover, Agreed, saw, Doing
<1>5. CASE Consent
  <2>1. /\ approved' = approved \cup Unapproved /\ Decided /\ holder # None
        /\ UNCHANGED <<run, holder, receipt, disk, journal>>
    BY <1>5, Decides
  <2>2. Plan' = Plan /\ saw' = saw
    BY <2>1, RunFrame DEF saw
  <2>3. ASSUME ~ run.refined, NEW c \in Servers(Plan)
        PROVE  <<Place(c), c.holds>> \in approved'
    <3>1. Place(c) \in ServersAtStake
      BY <2>3 DEF ServersAtStake, WantedServers, Places
    <3>2. CASE DeclarationApproved(saw.receipt, Place(c), c.holds)
      <4>1. PICK d \in Servers(Claims(saw.receipt)) : Place(d) = Place(c) /\ d.holds = c.holds
        BY <3>2 DEF DeclarationApproved
      <4>2. <<Place(c), c.holds>> \in Spoken(saw.receipt)
        BY <4>1 DEF Spoken
      <4>3. QED
        BY <2>1, <4>2 DEF Sound, ApprovalsCover
    <3>3. CASE ~ DeclarationApproved(saw.receipt, Place(c), c.holds)
      <4>1. <<Place(c), c.holds>> \in Unapproved
        BY <3>1, <3>3 DEF Unapproved
      <4>2. QED
        BY <2>1, <4>1
    <3>4. QED
      BY <3>2, <3>3
  <2>4. QED
    BY <2>1, <2>2, <2>3 DEF Sound, ApprovalsCover, Agreed
<1>6. CASE Commit \/ CommitFrozen
  <2>1. /\ step = "commit" /\ holder # None /\ step' = "committed" /\ journal' = <<>>
        /\ UNCHANGED <<disk, holder, run, approved>>
        /\ receipt' \in {receipt, NewReceipt}
    BY <1>6, Commits DEF outside
  <2>2. Spoken(receipt') \subseteq approved
    BY <2>1, NewSpoken DEF Sound, ApprovalsCover, Doing
  <2>3. DOMAIN journal' = {}
    BY <2>1
  <2>4. QED
    BY <2>1, <2>2, <2>3 DEF Sound, ApprovalsCover, Agreed, Doing, saw
<1>7. CASE Stop \/ Undone
  <2>1. /\ step' \in {"undoing", "failed"} /\ UNCHANGED <<disk, journal, holder, run, receipt, approved>>
    BY <1>7 DEF Stop, Undone, Writing, records, outside
  <2>2. QED
    BY <2>1 DEF Sound, ApprovalsCover, Agreed, Doing, saw
<1>8. CASE Undo
  <2> DEFINE last == journal[Len(journal)]
  <2>1. /\ step' = "undoing" /\ UNCHANGED <<holder, run, receipt, approved>>
        /\ journal # <<>> /\ journal' = SubSeq(journal, 1, Len(journal) - 1)
        /\ \/ disk' = disk
           \/ disk' = [pl \in DOMAIN disk |-> IF pl \in DOMAIN last.was THEN last.was[pl] ELSE disk[pl]]
    BY <1>8 DEF Undo, At, records, outside
  <2>2. /\ Len(journal) \in Nat \ {0} /\ DOMAIN journal = 1..Len(journal)
        /\ DOMAIN journal' = 1..(Len(journal) - 1)
        /\ \A i \in 1..(Len(journal) - 1) : journal'[i] = journal[i]
    BY <2>1, Popped DEF Sound, StateTyped
  <2>3. \A pl \in ServerPlaces \cap DOMAIN last.was : Agreed(pl, last.was[pl])
    BY <2>2 DEF Sound, ApprovalsCover
  <2> HIDE DEF last
  <2>4. \A pl \in ServerPlaces : Agreed(pl, disk'[pl])
    <3>1. DOMAIN disk = AllPlaces
      BY DEF Sound, StateTyped, TypeOK
    <3>2. QED
      BY <2>1, <2>3, <3>1 DEF Sound, ApprovalsCover, AllPlaces
  <2>5. \A i \in DOMAIN journal' : i \in DOMAIN journal /\ journal'[i] = journal[i]
    BY <2>2
  <2>6. \A i \in DOMAIN journal' : \A pl \in ServerPlaces \cap DOMAIN journal'[i].was :
            Agreed(pl, journal'[i].was[pl])
    BY <2>5 DEF Sound, ApprovalsCover
  <2>7. QED
    BY <2>1, <2>4, <2>6 DEF Sound, ApprovalsCover, Agreed, Doing, saw
<1>9. CASE Release \/ Crash
  <2>1. holder' = None /\ step' = "idle" /\ journal' = <<>> /\ UNCHANGED <<disk, approved, receipt>>
    BY <1>9, Ends DEF Leave
  <2>2. DOMAIN journal' = {}
    BY <2>1
  <2>3. QED
    BY <2>1, <2>2 DEF Sound, ApprovalsCover, Agreed, Doing
<1>10. QED
  BY <1>1, <1>2, <1>3, <1>4, <1>5, <1>6, <1>7, <1>8, <1>9, Kinds

(* What is left to do stays part of what the run is to do.                  *)
LEMMA WorkLeftKept ==
    ASSUME Sound, [Next]_vars
    PROVE  WorkLeft'
<1>1. CASE AroundStep
  <2>1. UNCHANGED <<step, run, todelete, towrite>>
    BY <1>1, Around DEF work
  <2>2. ObsoleteFiles' = ObsoleteFiles /\ Plan' = Plan
    BY <2>1, RunFrame
  <2>3. QED
    BY <2>1, <2>2 DEF Sound, WorkLeft, Doing
<1>2. CASE WriteStep
  <2>1. Doing /\ run' = run
    BY <1>2, Writes DEF Writing
  <2>2. ObsoleteFiles' = ObsoleteFiles /\ Plan' = Plan
    BY <2>1, RunFrame
  <2>3. /\ todelete' \subseteq todelete /\ towrite' \subseteq towrite
        /\ step' # "delete" => todelete' = {}
        /\ step' = "commit" => towrite' = {}
    BY <1>2, <2>1 DEF WriteStep, DeleteObsolete, StartWriting, AskTakeover, WriteAsset, TakeOver, Write,
           ApplyServers, At, work, Sound, WorkLeft
  <2>4. QED
    BY <2>1, <2>2, <2>3 DEF Sound, WorkLeft, Doing
<1>3. CASE \E p \in Proc : \E c \in Requests(p) : Begin(p, c)
  <2>1. step' \in {"prepare", "resolve"}
    BY <1>3 DEF Begin
  <2>2. QED
    BY <2>1 DEF WorkLeft, Doing
<1>4. CASE Resolve \/ Compose \/ PrepareServers
  BY <1>4, Deciding DEF WorkLeft, Doing
<1>5. CASE Consent
  <2>1. /\ todelete' = ObsoleteFiles /\ step' = "delete" /\ run' = run
        /\ towrite' = IF run.refined THEN {} ELSE Assets(Plan)
    BY <1>5, Decides
  <2>2. ObsoleteFiles' = ObsoleteFiles /\ Plan' = Plan
    BY <2>1, RunFrame
  <2>3. QED
    BY <2>1, <2>2 DEF WorkLeft
<1>6. CASE Commit \/ CommitFrozen
  BY <1>6, Commits DEF WorkLeft, Doing
<1>7. CASE Stop \/ Undone \/ Undo
  <2>1. step' \in {"undoing", "failed"}
    BY <1>7 DEF Stop, Undone, Undo, At
  <2>2. QED
    BY <2>1 DEF WorkLeft, Doing
<1>8. CASE Release \/ Crash
  BY <1>8, Ends DEF Leave, WorkLeft, Doing
<1>9. QED
  BY <1>1, <1>2, <1>3, <1>4, <1>5, <1>6, <1>7, <1>8, Kinds

(* What was in the way stays disclosed.                                     *)
LEMMA DisclosureKeptKept ==
    ASSUME Sound, [Next]_vars
    PROVE  DisclosureKept'
<1>1. CASE AroundStep
  <2>1. /\ UNCHANGED <<holder, step, run, towrite, prompt, shown>>
        /\ \/ UNCHANGED <<disk, touched>>
           \/ \E pl \in AllPlaces, what \in {Absent, Foreign} : EditPlace(pl, what)
    BY <1>1, Around DEF work
  <2>2. ServerTakeovers' = ServerTakeovers
    BY <2>1, RunFrame
  <2>3. CASE UNCHANGED <<disk, touched>>
    BY <2>1, <2>2, <2>3 DEF Sound, DisclosureKept, Doing
  <2>4. CASE \E pl \in AllPlaces, what \in {Absent, Foreign} : EditPlace(pl, what)
    <3>1. PICK pl \in AllPlaces, what \in {Absent, Foreign} : EditPlace(pl, what)
      BY <2>4
    <3>2. disk' = [disk EXCEPT ![pl] = what] /\ (holder # None => touched' = touched \cup {pl})
      BY <3>1 DEF EditPlace
    <3>3. disk \in [AllPlaces -> Held] /\ (Doing => holder # None)
      BY DEF Sound, StateTyped, TypeOK, Held, Doing
    <3>4. \A x : disk'[x] = disk[x] \/ x = pl
      BY <3>2, <3>3
    <3>5. QED
      BY <2>1, <2>2, <3>2, <3>3, <3>4 DEF Sound, DisclosureKept, Doing
  <2>5. QED
    BY <2>1, <2>3, <2>4
<1>2. CASE StartWriting \/ \E pl \in todelete : DeleteObsolete(pl)
  <2>1. step = "delete" /\ run' = run /\ prompt' = prompt /\ shown' = shown /\ Doing
    BY <1>2 DEF StartWriting, DeleteObsolete, At, Writing, work, Doing
  <2>2. ServerTakeovers' = ServerTakeovers
    BY <2>1, RunFrame
  <2>3. prompt = NoPrompt
    BY <2>1 DEF Sound, Calm
  <2>4. QED
    BY <2>1, <2>2, <2>3 DEF Sound, DisclosureKept
<1>3. CASE \E c \in towrite : AskTakeover(c)
  <2>1. PICK c \in towrite : AskTakeover(c)
    BY <1>3
  <2>2. /\ step = "write" /\ Doing /\ step' = step /\ run' = run
        /\ prompt' = <<c, disk[Place(c)]>>
        /\ shown' = shown \cup {<<Place(c), disk[Place(c)]>>}
        /\ towrite' = towrite /\ disk' = disk
    BY <2>1 DEF AskTakeover, At, Writing, Doing
  <2>3. ServerTakeovers' = ServerTakeovers
    BY <2>2, RunFrame
  <2>4. QED
    BY <2>2, <2>3 DEF Sound, DisclosureKept
<1>4. CASE (\E c \in towrite : WriteAsset(c)) \/ TakeOver
  <2>1. prompt' = NoPrompt /\ run' = run /\ shown' = shown /\ Doing
    BY <1>4 DEF WriteAsset, TakeOver, Write, At, Writing, Doing
  <2>2. ServerTakeovers' = ServerTakeovers
    BY <2>1, RunFrame
  <2>3. QED
    BY <2>1, <2>2 DEF Sound, DisclosureKept
<1>5. CASE ApplyServers
  <2>1. step = "write" /\ run' = run /\ prompt' = prompt /\ shown' = shown /\ Doing /\ towrite = {}
    BY <1>5 DEF ApplyServers, At, Writing, work, Doing
  <2>2. ServerTakeovers' = ServerTakeovers
    BY <2>1, RunFrame
  <2>3. prompt = NoPrompt
    BY <2>1 DEF Sound, DisclosureKept
  <2>4. QED
    BY <2>1, <2>2, <2>3 DEF Sound, DisclosureKept
<1>6. CASE \E p \in Proc : \E c \in Requests(p) : Begin(p, c)
  <2>1. step' \in {"prepare", "resolve"}
    BY <1>6 DEF Begin
  <2>2. QED
    BY <2>1 DEF DisclosureKept, Doing
<1>7. CASE Resolve \/ Compose \/ PrepareServers
  BY <1>7, Deciding DEF DisclosureKept, Doing
<1>8. CASE Consent
  <2>1. /\ step = "consent" /\ run' = run /\ prompt' = prompt
        /\ shown' = {<<pl, run.seen[pl]>> : pl \in ServerTakeovers}
    BY <1>8, Decides
  <2>2. ServerTakeovers' = ServerTakeovers
    BY <2>1, RunFrame
  <2>3. prompt = NoPrompt
    BY <2>1 DEF Sound, Calm
  <2>4. QED
    BY <2>1, <2>2, <2>3 DEF DisclosureKept
<1>9. CASE Commit \/ CommitFrozen
  BY <1>9, Commits DEF DisclosureKept, Doing
<1>10. CASE Stop \/ Undone \/ Undo
  <2>1. step' \in {"undoing", "failed"}
    BY <1>10 DEF Stop, Undone, Undo, At
  <2>2. QED
    BY <2>1 DEF DisclosureKept, Doing
<1>11. CASE Release \/ Crash
  BY <1>11, Ends DEF Leave, DisclosureKept, Doing
<1>12. QED
  BY <1>1, <1>2, <1>3, <1>4, <1>5, <1>6, <1>7, <1>8, <1>9, <1>10, <1>11, Kinds DEF WriteStep

(* A run has something to undo or to ask only while it writes or undoes.    *)
LEMMA CalmKept ==
    ASSUME Sound, [Next]_vars
    PROVE  Calm'
<1>1. CASE AroundStep
  <2>1. UNCHANGED <<holder, step, prompt, journal, residue>>
    BY <1>1, Around DEF work
  <2>2. CASE \E pl \in AllPlaces, what \in {Absent, Foreign} : EditPlace(pl, what)
    <3>1. PICK pl \in AllPlaces, what \in {Absent, Foreign} : EditPlace(pl, what)
      BY <2>2
    <3>2. /\ disk' = [disk EXCEPT ![pl] = what] /\ before' = [before EXCEPT ![pl] = what]
          /\ touched' = IF holder = None THEN {} ELSE touched \cup {pl}
          /\ edits < MaxEdits /\ edits' = edits + 1
      BY <3>1 DEF EditPlace, Elsewhere
    <3>3. step = "idle" => touched' = {} /\ before' = disk'
      BY <3>2 DEF Sound, Calm, StateTyped, TypeOK
    <3>4. edits' # 0 /\ edits' <= MaxEdits
      BY <3>2, BoundsAssumption DEF Sound, StateTyped
    <3>5. QED
      BY <2>1, <3>3, <3>4 DEF Sound, Calm
  <2>3. CASE UNCHANGED <<disk, touched, before>>
    <3>1. edits' = edits \/ (edits < MaxEdits /\ edits' = edits + 1)
      BY <1>1 DEF AroundStep, vars, counters, Review, Refuse, Waiting, EditPlace, Pull, LoseReceipt, SpoilRecord, Elsewhere, Publish
    <3>2. /\ edits' <= MaxEdits \/ edits' = 0
          /\ edits' = 0 => edits = 0
      BY <3>1, BoundsAssumption DEF Sound, StateTyped, Calm
    <3>3. QED
      BY <2>1, <2>3, <3>2 DEF Sound, Calm
  <2>4. QED
    BY <1>1, <2>2, <2>3, Around
<1>2. CASE WriteStep
  <2>1. /\ step' \in {"delete", "write", "commit"} /\ residue' = residue /\ touched' = touched
        /\ edits' = edits /\ Doing
    BY <1>2, Writes DEF Writing, history, counters
  <2>2. step' # "write" => prompt' = NoPrompt
    BY <1>2 DEF WriteStep, DeleteObsolete, StartWriting, AskTakeover, WriteAsset, TakeOver, Write,
           ApplyServers, At, work, Sound, Calm, DisclosureKept, Doing
  <2>3. QED
    BY <2>1, <2>2 DEF Sound, Calm, Doing
<1>3. CASE \E p \in Proc : \E c \in Requests(p) : Begin(p, c)
  <2>1. /\ step' \in {"prepare", "resolve"} /\ holder = None
        /\ UNCHANGED <<prompt, journal, residue, edits>> /\ touched' = {}
    BY <1>3 DEF Begin, work, undo, counters
  <2>2. step = "idle"
    BY <2>1 DEF Sound, StateTyped, TypeOK
  <2>3. QED
    BY <2>1, <2>2 DEF Sound, Calm
<1>4. CASE Resolve \/ Compose \/ PrepareServers
  <2>1. /\ step \in {"resolve", "compose", "prepare"} /\ step' \in {"compose", "prepare", "consent"}
        /\ UNCHANGED <<prompt, journal, residue, edits, touched>>
    BY <1>4, Deciding DEF ReadOnly, work, undo, counters, history
  <2>2. QED
    BY <2>1 DEF Sound, Calm
<1>5. CASE Consent
  BY <1>5, Decides DEF Sound, Calm
<1>6. CASE Commit \/ CommitFrozen
  <2>1. /\ step = "commit" /\ step' = "committed" /\ journal' = <<>>
        /\ UNCHANGED <<prompt, residue, edits, touched>>
    BY <1>6, Commits DEF work, counters
  <2>2. QED
    BY <2>1 DEF Sound, Calm
<1>7. CASE Stop \/ Undone \/ Undo
  <2>1. /\ step' \in {"undoing", "failed"} /\ UNCHANGED <<edits, touched>>
        /\ step' = "failed" => journal' = <<>>
    BY <1>7 DEF Stop, Undone, Undo, At, Writing, history, counters
  <2>2. QED
    BY <2>1 DEF Sound, Calm
<1>8. CASE Release \/ Crash
  BY <1>8, Ends DEF Leave, Sound, Calm
<1>9. QED
  BY <1>1, <1>2, <1>3, <1>4, <1>5, <1>6, <1>7, <1>8, Kinds

----------------------------------------------------------------------------
(* The theorems.                                                            *)

(* A receipt speaks of servers.                                             *)
LEMMA SpokenTyped ==
    ASSUME NEW r, ReceiptTyped(r)
    PROVE  Spoken(r) \subseteq ServerPlaces \X Payload
BY ClaimsTyped DEF Spoken, Servers

(* A project no run has touched is sound.                                   *)
LEMMA InitSound == Init => Sound
<1> SUFFICES ASSUME Init PROVE Sound
  OBVIOUS
<1>1. PICK w \in Worlds :
         /\ manifest = w.manifest /\ lockfile = w.lockfile /\ receipt = w.receipt
         /\ disk = w.disk /\ published = w.published
         /\ approved = Spoken(w.receipt)
  BY DEF Init
<1>2. /\ asked = [p \in Proc |-> Nothing]
      /\ holder = None /\ step = "idle" /\ run = NoRun
      /\ todelete = {} /\ towrite = {} /\ prompt = NoPrompt
      /\ journal = <<>> /\ residue = {}
      /\ shown = {} /\ touched = {} /\ before = disk /\ stray = {}
      /\ edits = 0 /\ crashes = 0
  BY DEF Init
<1>3. /\ ManifestTyped(w.manifest) /\ LockfileTyped(w.lockfile) /\ ReceiptTyped(w.receipt)
      /\ w.disk \in [AllPlaces -> Payload \cup {Absent, Foreign}]
      /\ w.published = [f \in Facet |-> w.published[f]]
      /\ \A f \in Facet : w.published[f] \subseteq DOMAIN Declares[f]
      /\ \A pl \in ServerPlaces : Ours(w.disk[pl]) => <<pl, w.disk[pl]>> \in Spoken(w.receipt)
  BY WorldsAssumption
<1>4. Spoken(w.receipt) \subseteq ServerPlaces \X Payload
  BY <1>3, SpokenTyped
<1>5. StateTyped
  <2>1. journal \in Seq(Batch)
    BY <1>2, EmptySeq
  <2>2. TypeOK
    BY <1>1, <1>2, <1>3, <1>4 DEF TypeOK, Steps
  <2>3. QED
    BY <1>1, <1>2, <1>3, <2>1, <2>2 DEF StateTyped, Held
<1>6. RunTyped /\ GatesPassed /\ VersionsSound /\ PlanSound /\ WorkLeft /\ DisclosureKept
  BY <1>2 DEF RunTyped, GatesPassed, VersionsSound, PlanSound, Decided, WorkLeft, DisclosureKept, Doing
<1>7. AskedSound
  BY <1>2 DEF AskedSound, Nothing
<1>8. ApprovalsCover
  <2>1. DOMAIN journal = {}
    BY <1>2
  <2>2. QED
    BY <1>1, <1>2, <1>3, <2>1 DEF ApprovalsCover, Agreed, Doing
<1>9. Calm
  BY <1>2 DEF Calm
<1>10. QED
  BY <1>5, <1>6, <1>7, <1>8, <1>9 DEF Sound

(* Every step keeps it so.                                                  *)
LEMMA SoundKept == Sound /\ [Next]_vars => Sound'
<1> SUFFICES ASSUME Sound, [Next]_vars PROVE Sound'
  OBVIOUS
<1>1. StateTyped'
  BY StateTypedKept DEF Sound
<1>2. RunTyped'
  BY RunTypedKept DEF Sound, StateTyped
<1>3. AskedSound'
  BY AskedSoundKept DEF Sound
<1>4. GatesPassed'
  BY GatesPassedKept DEF Sound
<1>5. VersionsSound'
  BY VersionsSoundKept DEF Sound
<1>6. PlanSound'
  BY PlanSoundKept DEF Sound
<1>7. WorkLeft' /\ DisclosureKept' /\ ApprovalsCover' /\ Calm'
  BY WorkLeftKept, DisclosureKeptKept, ApprovalsCoverKept, CalmKept
<1>8. QED
  BY <1>1, <1>2, <1>3, <1>4, <1>5, <1>6, <1>7 DEF Sound

(* Whatever runs, edits, crashes and releases come in whatever order, the   *)
(* state stays sound.                                                       *)
THEOREM Soundness == Spec => []Sound
BY InitSound, SoundKept, PTL DEF Spec

(* Every variable keeps its type: the records are ones the schemas let      *)
(* through, and a run has a journal only while it writes or undoes.         *)
THEOREM Typing == Spec => []TypeOK
<1>1. Sound => TypeOK
  BY DEF Sound, StateTyped
<1>2. QED
  BY <1>1, Soundness, PTL

(* No server is ever configured that the user of this machine has not       *)
(* agreed to, by a run, an undo or a crash (consent and the approvals of    *)
(* the receipt, engine/src/install).                                        *)
THEOREM Approval == Spec => []OnlyApprovedRuns
<1>1. Sound => OnlyApprovedRuns
  BY DEF Sound, ApprovalsCover, Agreed, OnlyApprovedRuns
<1>2. QED
  BY <1>1, Soundness, PTL

(* What a step of the writing half may do to what is not this machine's.    *)
DisclosedStep ==
    step = "write" /\ edits' = edits /\ crashes' = crashes =>
        \A pl \in AllPlaces : disk'[pl] # disk[pl] /\ InTheWay(pl) =>
            IF pl \in ServerPlaces THEN <<pl, "divergent">> \in shown
            ELSE Interactive => <<pl, disk[pl]>> \in shown

(* It was shown to the user, as it still is.                                *)
LEMMA WritesDisclosed ==
    ASSUME Sound, WriteStep, step = "write",
           NEW pl \in AllPlaces, disk'[pl] # disk[pl], InTheWay(pl)
    PROVE  IF pl \in ServerPlaces THEN <<pl, "divergent">> \in shown
           ELSE Interactive => <<pl, disk[pl]>> \in shown
<1>0. /\ DOMAIN disk = AllPlaces /\ Doing /\ Decided /\ holder # None
  BY DEF Sound, StateTyped, TypeOK, Doing, Decided
<1>1. CASE (\E x \in todelete : DeleteObsolete(x)) \/ StartWriting \/ \E c \in towrite : AskTakeover(c)
  BY <1>1 DEF DeleteObsolete, StartWriting, AskTakeover, At
<1>2. ASSUME NEW c \in towrite, NEW found, Write(c, found)
      PROVE  pl = Place(c) /\ pl \notin ServerPlaces /\ disk[pl] = found
  <2>1. disk[Place(c)] = found /\ Apply([x \in {Place(c)} |-> c.holds])
    BY <1>2 DEF Write
  <2>2. disk' = [x \in DOMAIN disk |-> IF x \in {Place(c)} THEN c.holds ELSE disk[x]]
    BY <2>1 DEF Apply
  <2>3. c \in Assets(Plan)
    BY <1>0 DEF Sound, WorkLeft
  <2>4. Place(c) \in FilePlaces
    BY <1>0, <2>3, PlanAre DEF Assets, Sound
  <2>5. QED
    BY <1>0, <2>1, <2>2, <2>4, Disjoint
<1>3. CASE \E c \in towrite : WriteAsset(c)
  <2>1. PICK c \in towrite : WriteAsset(c)
    BY <1>3
  <2>2. Write(c, disk[Place(c)]) /\ ~ (Interactive /\ InTheWay(Place(c)))
    BY <2>1 DEF WriteAsset
  <2>3. QED
    BY <1>2, <2>2
<1>4. CASE TakeOver
  <2>1. prompt # NoPrompt /\ Write(prompt[1], prompt[2])
    BY <1>4 DEF TakeOver
  <2>2. prompt[1] \in towrite /\ <<Place(prompt[1]), prompt[2]>> \in shown
    BY <1>0, <2>1 DEF Sound, DisclosureKept
  <2>3. QED
    BY <1>2, <2>1, <2>2
<1>5. CASE ApplyServers
  <2> DEFINE put == [x \in ServerPlaces |->
                        IF x \in ServersAtStake THEN ServerTarget(x) ELSE disk[x]]
  <2>1. Outcomes = run.seen /\ (UNCHANGED <<disk, journal>> \/ Apply(put))
    BY <1>5 DEF ApplyServers
  <2>2. disk' = [x \in DOMAIN disk |-> IF x \in ServerPlaces THEN put[x] ELSE disk[x]]
    BY <2>1 DEF Apply
  <2>3. pl \in ServersAtStake /\ pl \in ServerPlaces /\ ServerTarget(pl) # disk[pl]
    BY <1>0, <2>2
  <2>4. pl \notin OwnedServers /\ disk[pl] # Absent
    BY DEF InTheWay, OwnedServers
  <2>5. pl \in WantedServers
    BY <2>3, <2>4 DEF ServersAtStake
  <2>6. Outcome(pl) = "divergent"
    BY <2>3, <2>4, <2>5 DEF Outcome
  <2>7. run.seen[pl] = "divergent"
    BY <2>1, <2>3, <2>6 DEF Outcomes
  <2>8. <<pl, "divergent">> \in shown
    BY <1>0, <2>3, <2>4, <2>7 DEF Sound, DisclosureKept, ServerTakeovers
  <2>9. QED
    BY <2>3, <2>8
<1>6. QED
  BY <1>1, <1>3, <1>4, <1>5 DEF WriteStep

(* Nothing of others is replaced that was not shown to the user as it is    *)
(* (the takeover prompts, engine/src/install).                              *)
THEOREM Disclosure == Spec => TakeoversDisclosed
<1>1. Sound /\ [Next]_vars => [DisclosedStep]_vars
  <2> SUFFICES ASSUME Sound, [Next]_vars, step = "write", edits' = edits, crashes' = crashes,
                      NEW pl \in AllPlaces, disk'[pl] # disk[pl], InTheWay(pl)
               PROVE  IF pl \in ServerPlaces THEN <<pl, "divergent">> \in shown
                      ELSE Interactive => <<pl, disk[pl]>> \in shown
    BY DEF DisclosedStep
  <2>1. ~ AroundStep
    <3> SUFFICES ASSUME AroundStep PROVE FALSE
      OBVIOUS
    <3>1. UNCHANGED disk \/ \E x \in AllPlaces, what \in {Absent, Foreign} : EditPlace(x, what)
      BY Around
    <3>2. ASSUME NEW x \in AllPlaces, NEW what, EditPlace(x, what)
          PROVE  FALSE
      BY <3>2 DEF EditPlace, Elsewhere, Sound, StateTyped
    <3>3. QED
      BY <3>1, <3>2
  <2>2. WriteStep
    <3>1. ~ \E p \in Proc : \E c \in Requests(p) : Begin(p, c)
      BY DEF Begin
    <3>2. ~ (Resolve \/ Compose \/ PrepareServers)
      BY Deciding
    <3>3. ~ (Consent \/ Commit \/ CommitFrozen)
      BY Decides, Commits
    <3>4. ~ (Stop \/ Undo \/ Undone)
      BY DEF Stop, Undo, Undone, At
    <3>5. ~ (Release \/ Crash)
      BY Ends DEF Leave
    <3>6. QED
      BY <2>1, <3>1, <3>2, <3>3, <3>4, <3>5, Kinds
  <2>3. QED
    BY <2>2, WritesDisclosed
<1>2. TakeoversDisclosed <=> [][DisclosedStep]_vars
  BY DEF TakeoversDisclosed, DisclosedStep
<1>3. QED
  BY <1>1, <1>2, Soundness, PTL DEF Spec

(* What the commit of an update does.                                       *)
UpdateStep ==
    step = "commit" /\ step' = "committed" /\ op.kind = "update" =>
          /\ lockfile'.facets[op.facet].version = op.version
          /\ IsNewerThan(op.version, lockfile.facets[op.facet].version)

(* An update commits the version that was reviewed, and moves forward from  *)
(* the lockfile of that moment (the review of an update and its prepared    *)
(* resolution, engine/src/install/update).                                  *)
THEOREM Reviewing == Spec => UpdateAppliesReviewed
<1>1. Sound /\ [Next]_vars => [UpdateStep]_vars
  <2> SUFFICES ASSUME Sound, [Next]_vars, step = "commit", step' = "committed", op.kind = "update"
               PROVE  /\ lockfile'.facets[op.facet].version = op.version
                      /\ IsNewerThan(op.version, lockfile.facets[op.facet].version)
    BY DEF UpdateStep
  <2>1. Commit
    <3>1. ~ AroundStep
      BY Around
    <3>2. ~ WriteStep
      BY Writes
    <3>3. ~ \E p \in Proc : \E c \in Requests(p) : Begin(p, c)
      BY DEF Begin
    <3>4. ~ (Resolve \/ Compose \/ PrepareServers \/ Consent)
      BY Deciding, Decides
    <3>5. ~ (Stop \/ Undo \/ Undone)
      BY DEF Stop, Undo, Undone, At
    <3>6. ~ (Release \/ Crash)
      BY Ends DEF Leave
    <3>7. ~ CommitFrozen
      BY DEF CommitFrozen
    <3>8. QED
      BY <3>1, <3>2, <3>3, <3>4, <3>5, <3>6, <3>7, Kinds
  <2>2. /\ lockfile = saw.lockfile /\ lockfile' = NewLockfile /\ holder # None /\ holder \in Proc
    BY <2>1 DEF Commit, SameAsLoaded, EndOfCommit, At, Sound, StateTyped, TypeOK
  <2>3. /\ ~ run.refined
        /\ run.want = Merged(saw.manifest.facets, op)
        /\ op.files = <<saw.manifest, saw.lockfile>>
    BY <2>2 DEF Sound, GatesPassed
  <2>4. op.facet \in DOMAIN run.want
    BY <2>3, Wanted
  <2>5. DOMAIN run.got = DOMAIN run.want /\ run.got[op.facet] = op.version
    BY <2>3 DEF Sound, VersionsSound
  <2>6. NewLockfile.facets = LockEntries(run.got, run.over)
    BY <2>3 DEF NewLockfile
  <2>7. lockfile'.facets[op.facet].version = op.version
    BY <2>2, <2>4, <2>5, <2>6 DEF LockEntries
  <2>8. ReviewSound(op)
    BY <2>2 DEF Sound, AskedSound
  <2>9. IsNewerThan(op.version, lockfile.facets[op.facet].version)
    BY <2>2, <2>3, <2>8 DEF ReviewSound
  <2>10. QED
    BY <2>7, <2>9
<1>2. UpdateAppliesReviewed <=> [][UpdateStep]_vars
  BY DEF UpdateAppliesReviewed, UpdateStep
<1>3. QED
  BY <1>1, <1>2, Soundness, PTL DEF Spec

=============================================================================
