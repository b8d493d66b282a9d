---------------------------- MODULE MachineProofs ----------------------------
(* Theorems about the services outside the project: the facet cache, the    *)
(* installed adapters, the polling of a login and the retries of a request. *)
(* The four share no variable; each has its own specification.              *)
EXTENDS FacetCache, AdapterPlacement, DevicePoll, HttpRetry, TLAPS

-----------------------------------------------------------------------------
(* The facet cache: ServesAnchored, for any number of processes and of      *)
(* disturbances.                                                            *)

FetchStages == {"idle", "metadata", "auditing", "evicting", "removing", "downloading",
           "putting", "renaming", "loading", "hashing", "bundling", "served", "failed",
           "dead"}

Readings == {"unread", "original", "altered"}

Fetches ==
    [stage : FetchStages, locked : BOOLEAN, hit : BOOLEAN, known : BOOLEAN,
     content : SlotStates, text : Readings, files : Readings, companions : Readings,
     disturbed : BOOLEAN]

FetchTypes == slot \in SlotStates /\ fetch \in [Fetcher -> Fetches]

\* From the moment a fetch has seen that nothing bad is at the slot, and until
\* somebody disturbs it, nothing bad is there.
PastTheAudit(f) ==
    \/ f.stage = "metadata" /\ ~ f.hit
    \/ f.stage \in {"downloading", "putting", "renaming", "loading", "hashing", "bundling"}

\* What was read so far is the original's.
ReadSoFar(f) ==
    /\ f.stage \in {"hashing", "bundling", "served"} => f.text = "original"
    /\ f.stage \in {"bundling", "served"} => f.files = "original"
    /\ f.stage = "served" => f.companions = "original"

\* What a fetch nobody has disturbed relies on, with c at the slot.
Relies(f, c) == ~ f.disturbed => (PastTheAudit(f) => c \notin Bad) /\ ReadSoFar(f)

\* Only what has passed every check waits to be put.
PutsOriginal(f) == f.stage \in {"putting", "renaming"} => f.content = "original"

CacheInv ==
    /\ FetchTypes
    /\ \A p \in Fetcher : PutsOriginal(fetch[p]) /\ Relies(fetch[p], slot)

-----------------------------------------------------------------------------
LEMMA InitCacheInv == CacheInit => CacheInv
BY DEF CacheInit, CacheInv, FetchTypes, Fetches, PutsOriginal, Relies, PastTheAudit, ReadSoFar,
       Fetching, SlotStates, Directories, Bad, FetchStages, Readings

\* A step that changes the record of one fetch, and brings nothing bad to the
\* slot, keeps the invariant if the new record does.
LEMMA OneFetchInv ==
    ASSUME CacheInv, NEW p \in Fetcher, NEW f \in Fetches,
           fetch' = [fetch EXCEPT ![p] = f],
           slot' \in SlotStates, slot' \in Bad => slot \in Bad,
           PutsOriginal(f), Relies(f, slot')
    PROVE  CacheInv'
<1>1. FetchTypes'
  BY DEF CacheInv, FetchTypes
<1>2. fetch'[p] = f /\ \A q \in Fetcher \ {p} : fetch'[q] = fetch[q]
  BY DEF CacheInv, FetchTypes
<1>3. \A q \in Fetcher : Relies(fetch[q], slot) => Relies(fetch[q], slot')
  BY DEF Relies
<1>4. \A q \in Fetcher : PutsOriginal(fetch'[q]) /\ Relies(fetch'[q], slot')
  BY <1>2, <1>3 DEF CacheInv
<1> QED BY <1>1, <1>4 DEF CacheInv

\* A record of a fetch that starts.
LEMMA FreshRecord ==
    ASSUME NEW stage \in FetchStages, NEW locked \in BOOLEAN, NEW hit \in BOOLEAN,
           NEW known \in BOOLEAN
    PROVE  /\ Fetching(stage, locked, hit, known) \in Fetches
           /\ Fetching(stage, locked, hit, known).stage = stage
           /\ Fetching(stage, locked, hit, known).hit = hit
BY DEF Fetching, Fetches, SlotStates, Readings

\* A fetch that ends, with or without success, relies on nothing.
LEMMA EndsInv ==
    ASSUME CacheInv, NEW p \in Fetcher, NEW stage \in {"idle", "failed", "dead"},
           FetchEnds(p, stage), UNCHANGED slot
    PROVE  CacheInv'
<1> DEFINE f == Fetching(stage, TRUE, FALSE, FALSE)
<1>1. f \in Fetches /\ f.stage = stage
  BY DEF Fetching, Fetches, SlotStates, Readings, FetchStages
<1>2. fetch' = [fetch EXCEPT ![p] = f]
  BY DEF FetchEnds
<1> HIDE DEF f
<1>3. PutsOriginal(f) /\ Relies(f, slot')
  BY <1>1 DEF PutsOriginal, Relies, PastTheAudit, ReadSoFar
<1> QED BY <1>1, <1>2, <1>3, OneFetchInv DEF CacheInv, FetchTypes

\* A stage that has nothing to put, reached where nothing has been read.
LEMMA MovesInv ==
    ASSUME CacheInv, NEW p \in Fetcher, NEW stage \in {"auditing", "evicting", "removing"},
           FetchMoves(p, stage), slot' \in SlotStates, slot' \in Bad => slot \in Bad
    PROVE  CacheInv'
<1> DEFINE f == [fetch[p] EXCEPT !.stage = stage]
<1>1. fetch[p] \in Fetches
  BY DEF CacheInv, FetchTypes
<1>2. f \in Fetches /\ f.stage = stage
  BY <1>1 DEF Fetches, FetchStages
<1>3. fetch' = [fetch EXCEPT ![p] = f]
  BY DEF FetchMoves
<1> HIDE DEF f
<1>4. PutsOriginal(f) /\ Relies(f, slot')
  BY <1>2 DEF PutsOriginal, Relies, PastTheAudit, ReadSoFar
<1> QED BY <1>2, <1>3, <1>4, OneFetchInv

\* A slot that is taken for good holds nothing bad, or somebody disturbed it.
LEMMA LoadsInv ==
    ASSUME CacheInv, NEW p \in Fetcher, FetchLoads(p), slot' = slot \/ slot' = "original",
           slot' \notin Bad \/ fetch[p].disturbed
    PROVE  CacheInv'
<1> DEFINE fresh == Fetching("loading", fetch[p].locked, FALSE, FALSE)
           f == [fresh EXCEPT !.disturbed = fetch[p].disturbed]
<1>1. fetch[p] \in Fetches /\ slot' \in SlotStates /\ (slot' \in Bad => slot \in Bad)
  BY DEF CacheInv, FetchTypes, SlotStates, Directories, Bad
<1>2. fetch[p].locked \in BOOLEAN
  BY <1>1 DEF Fetches
<1>3. fresh \in Fetches /\ fresh.stage = "loading"
  BY <1>2 DEF Fetching, Fetches, SlotStates, Readings, FetchStages
<1>4. fetch' = [fetch EXCEPT ![p] = f]
  BY DEF FetchLoads, Loading
<1> HIDE DEF fresh
<1>5. f \in Fetches /\ f.stage = "loading" /\ f.disturbed = fetch[p].disturbed
  BY <1>1, <1>3 DEF Fetches
<1> HIDE DEF f
<1>6. PutsOriginal(f) /\ Relies(f, slot')
  BY <1>5 DEF PutsOriginal, Relies, PastTheAudit, ReadSoFar
<1> QED BY <1>1, <1>4, <1>5, <1>6, OneFetchInv

LEMMA StepCacheInv ==
    ASSUME CacheInv, NEW p \in Fetcher, FetchStep(p)
    PROVE  CacheInv'
<1>1. fetch[p] \in Fetches /\ slot \in SlotStates /\ PutsOriginal(fetch[p])
      /\ Relies(fetch[p], slot)
  BY DEF CacheInv, FetchTypes
<1>2. CASE \E locked, known \in BOOLEAN : Lookup(p, locked, known)
  <2>1. PICK locked \in BOOLEAN, known \in BOOLEAN : Lookup(p, locked, known)
    BY <1>2
  <2> DEFINE hit == slot \in Directories
             stage == IF hit /\ locked THEN "auditing" ELSE "metadata"
             f == Fetching(stage, locked, hit, known)
  <2>2. UNCHANGED slot /\ fetch' = [fetch EXCEPT ![p] = f]
    BY <2>1 DEF Lookup
  <2>3. hit \in BOOLEAN /\ stage \in {"auditing", "metadata"}
        /\ (~ hit => slot \notin Bad)
    BY DEF Directories
  <2> HIDE DEF hit, stage
  <2>4. f \in Fetches /\ f.stage = stage /\ f.hit = hit
    BY <2>3, FreshRecord DEF FetchStages
  <2> HIDE DEF f
  <2>5. PutsOriginal(f) /\ Relies(f, slot')
    BY <2>2, <2>3, <2>4 DEF PutsOriginal, Relies, PastTheAudit, ReadSoFar
  <2> QED BY <1>1, <2>2, <2>4, <2>5, OneFetchInv
<1>3. CASE EnsureMeta(p)
  <2>1. CASE FetchEnds(p, "failed")
    BY <1>3, <2>1, EndsInv DEF EnsureMeta
  <2>2. CASE ~ FetchEnds(p, "failed")
    <3> DEFINE stage == IF fetch[p].hit THEN "auditing" ELSE "downloading"
               f == [fetch[p] EXCEPT !.stage = stage, !.known = TRUE]
    <3>1. fetch[p].stage = "metadata" /\ UNCHANGED slot
          /\ fetch' = [fetch EXCEPT ![p].stage = stage, ![p].known = TRUE]
      BY <1>3, <2>2 DEF EnsureMeta
    <3>2. fetch' = [fetch EXCEPT ![p] = f]
      BY <1>1, <3>1 DEF CacheInv, FetchTypes
    <3>3. f \in Fetches
      BY <1>1 DEF Fetches, FetchStages
    <3>4. f.stage = stage /\ f.disturbed = fetch[p].disturbed
      BY <1>1 DEF Fetches
    <3>5. stage \in {"auditing", "downloading"} /\ (stage = "downloading" => ~ fetch[p].hit)
      OBVIOUS
    <3> HIDE DEF f, stage
    <3>6. PutsOriginal(f) /\ Relies(f, slot')
      BY <1>1, <3>1, <3>4, <3>5 DEF PutsOriginal, Relies, PastTheAudit, ReadSoFar
    <3> QED BY <1>1, <3>1, <3>2, <3>3, <3>6, OneFetchInv
  <2> QED BY <2>1, <2>2
<1>4. CASE AuditHit(p)
  <2>1. UNCHANGED slot
    BY <1>4 DEF AuditHit
  <2>2. CASE ~ AuditPasses(slot)
    <3>1. FetchMoves(p, "evicting")
      BY <1>4, <2>2 DEF AuditHit, AuditPasses
    <3>2. slot' = slot
      BY <2>1
    <3> QED BY <1>1, <3>1, <3>2, MovesInv
  <2>3. CASE slot = "original"
    BY <1>4, <2>1, <2>3, LoadsInv DEF AuditHit, AuditPasses, Bad
  <2>4. CASE AuditPasses(slot) /\ slot # "original"
    BY <1>4, <2>1, <2>4, EndsInv DEF AuditHit
  <2> QED BY <2>2, <2>3, <2>4
<1>5. CASE Evict(p)
  <2>1. slot' \in SlotStates /\ (slot' \in Bad => slot \in Bad)
    BY <1>1, <1>5 DEF Evict, SlotStates, Directories, Bad
  <2> QED BY <1>5, <2>1, MovesInv DEF Evict
<1>6. CASE EvictDone(p)
  <2> DEFINE f == [fetch[p] EXCEPT !.stage = "metadata", !.hit = FALSE]
  <2>1. slot' = "absent" /\ fetch' = [fetch EXCEPT ![p] = f]
    BY <1>1, <1>6 DEF EvictDone, CacheInv, FetchTypes
  <2>2. f \in Fetches
    BY <1>1 DEF Fetches, FetchStages
  <2>3. f.stage = "metadata"
    BY <1>1 DEF Fetches
  <2> HIDE DEF f
  <2>4. slot' \in SlotStates /\ slot' \notin Bad
    BY <2>1 DEF SlotStates, Bad
  <2>5. PutsOriginal(f) /\ Relies(f, slot')
    BY <2>3, <2>4 DEF PutsOriginal, Relies, PastTheAudit, ReadSoFar
  <2> QED BY <2>1, <2>2, <2>4, <2>5, OneFetchInv
<1>7. CASE \E content \in {"original", "spoilt"} : Download(p, content)
  <2>1. PICK content \in {"original", "spoilt"} : Download(p, content)
    BY <1>7
  <2>2. CASE content # "original"
    BY <2>1, <2>2, EndsInv DEF Download
  <2>3. CASE content = "original"
    <3> DEFINE f == [fetch[p] EXCEPT !.stage = "putting", !.content = "original"]
    <3>1. fetch[p].stage = "downloading" /\ UNCHANGED slot
          /\ fetch' = [fetch EXCEPT ![p] = f]
      BY <1>1, <2>1, <2>3 DEF Download, CacheInv, FetchTypes
    <3>2. f \in Fetches
      BY <1>1 DEF Fetches, FetchStages, SlotStates, Directories
    <3>3. f.stage = "putting" /\ f.content = "original" /\ f.disturbed = fetch[p].disturbed
      BY <1>1 DEF Fetches
    <3> HIDE DEF f
    <3>4. PutsOriginal(f) /\ Relies(f, slot')
      BY <1>1, <3>1, <3>3 DEF PutsOriginal, Relies, PastTheAudit, ReadSoFar
    <3> QED BY <1>1, <3>1, <3>2, <3>4, OneFetchInv
  <2> QED BY <2>2, <2>3
<1>8. CASE Put(p)
  <2>1. fetch[p].stage = "putting" /\ UNCHANGED slot
    BY <1>8 DEF Put
  <2>2. CASE slot = "absent"
    <3> DEFINE f == [fetch[p] EXCEPT !.stage = "renaming"]
    <3>1. FetchMoves(p, "renaming")
      BY <1>8, <2>2 DEF Put, Directories, Bad
    <3>2. fetch' = [fetch EXCEPT ![p] = f]
      BY <1>1, <3>1 DEF FetchMoves, CacheInv, FetchTypes
    <3>3. f \in Fetches
      BY <1>1 DEF Fetches, FetchStages
    <3>4. f.stage = "renaming" /\ f.content = fetch[p].content
          /\ f.disturbed = fetch[p].disturbed
      BY <1>1 DEF Fetches
    <3> HIDE DEF f
    <3>5. PutsOriginal(f) /\ Relies(f, slot')
      BY <1>1, <2>1, <3>4 DEF PutsOriginal, Relies, PastTheAudit, ReadSoFar
    <3> QED BY <1>1, <2>1, <3>2, <3>3, <3>5, OneFetchInv
  <2>3. CASE slot \in Directories
    <3>1. FetchLoads(p)
      BY <1>8, <2>3 DEF Put, Directories, Bad
    <3>2. slot' \notin Bad \/ fetch[p].disturbed
      BY <1>1, <2>1 DEF Relies, PastTheAudit
    <3> QED BY <2>1, <3>1, <3>2, LoadsInv DEF CacheInv, FetchTypes, Fetches
  <2>4. CASE slot = "squatter"
    <3>1. FetchEnds(p, "failed")
      BY <1>8, <2>4 DEF Put, Directories, Bad
    <3> QED BY <2>1, <3>1, EndsInv
  <2> QED BY <1>1, <2>2, <2>3, <2>4 DEF SlotStates
<1>9. CASE Rename(p)
  <2>1. fetch[p].stage = "renaming" /\ fetch[p].content = "original"
    BY <1>1, <1>9 DEF Rename, PutsOriginal
  <2>2. CASE slot = "squatter"
    BY <1>9, <2>2, EndsInv DEF Rename
  <2>3. CASE slot # "squatter"
    <3>1. FetchLoads(p) /\ (slot' = slot \/ slot' = "original")
      BY <1>9, <2>1, <2>3 DEF Rename
    <3>2. slot' \notin Bad \/ fetch[p].disturbed
      BY <1>1, <2>1, <3>1 DEF Relies, PastTheAudit, Bad
    <3> QED BY <3>1, <3>2, LoadsInv DEF CacheInv, FetchTypes, Fetches
  <2> QED BY <2>2, <2>3
<1>10. CASE ReadTexts(p) \/ HashFiles(p) \/ ReadCompanions(p)
  <2>1. UNCHANGED slot
    BY <1>10 DEF ReadTexts, HashFiles, ReadCompanions
  <2>2. CASE FetchEnds(p, "failed")
    BY <2>1, <2>2, EndsInv
  <2>3. Says \subseteq Readings /\ (slot \notin Bad => Says \subseteq {"original"})
    BY DEF Says, Readings, Bad
  <2>4. ASSUME NEW f \in Fetches, fetch' = [fetch EXCEPT ![p] = f],
               f.stage \in {"hashing", "bundling", "served"},
               ~ f.disturbed => ReadSoFar(f), ~ f.disturbed => slot \notin Bad
        PROVE  CacheInv'
    <3>1. PutsOriginal(f) /\ Relies(f, slot')
      BY <2>1, <2>4 DEF PutsOriginal, Relies
    <3> QED BY <1>1, <2>1, <2>4, <3>1, OneFetchInv
  <2>5. CASE ReadTexts(p) /\ ~ FetchEnds(p, "failed")
    <3>1. PICK said \in Says :
            fetch' = [fetch EXCEPT ![p].stage = "hashing", ![p].text = said]
      BY <2>5 DEF ReadTexts, ReadFails
    <3> DEFINE f == [fetch[p] EXCEPT !.stage = "hashing", !.text = said]
    <3>2. fetch' = [fetch EXCEPT ![p] = f]
      BY <1>1, <3>1 DEF CacheInv, FetchTypes
    <3>3. f \in Fetches
      BY <1>1, <2>3 DEF Fetches, FetchStages
    <3>4. f.stage = "hashing" /\ f.text = said /\ f.disturbed = fetch[p].disturbed
      BY <1>1 DEF Fetches
    <3>5. ~ fetch[p].disturbed => slot \notin Bad
      BY <1>1, <2>5 DEF ReadTexts, Relies, PastTheAudit
    <3> HIDE DEF f
    <3>6. ~ f.disturbed => ReadSoFar(f)
      BY <2>3, <3>4, <3>5 DEF ReadSoFar
    <3> QED BY <2>4, <3>2, <3>3, <3>4, <3>5, <3>6
  <2>6. CASE HashFiles(p) /\ ~ FetchEnds(p, "failed")
    <3>1. PICK said \in Says :
            fetch' = [fetch EXCEPT ![p].stage = "bundling", ![p].files = said]
      BY <2>6 DEF HashFiles, ReadFails
    <3> DEFINE f == [fetch[p] EXCEPT !.stage = "bundling", !.files = said]
    <3>2. fetch' = [fetch EXCEPT ![p] = f]
      BY <1>1, <3>1 DEF CacheInv, FetchTypes
    <3>3. f \in Fetches
      BY <1>1, <2>3 DEF Fetches, FetchStages
    <3>4. /\ f.stage = "bundling" /\ f.files = said /\ f.text = fetch[p].text
          /\ f.disturbed = fetch[p].disturbed
      BY <1>1 DEF Fetches
    <3>5. ~ fetch[p].disturbed => slot \notin Bad /\ fetch[p].text = "original"
      BY <1>1, <2>6 DEF HashFiles, Relies, PastTheAudit, ReadSoFar
    <3> HIDE DEF f
    <3>6. ~ f.disturbed => ReadSoFar(f)
      BY <2>3, <3>4, <3>5 DEF ReadSoFar
    <3> QED BY <2>4, <3>2, <3>3, <3>4, <3>5, <3>6
  <2>7. CASE ReadCompanions(p) /\ ~ FetchEnds(p, "failed")
    <3>1. PICK said \in Says :
            fetch' = [fetch EXCEPT ![p].stage = "served", ![p].companions = said]
      BY <2>7 DEF ReadCompanions, ReadFails
    <3> DEFINE f == [fetch[p] EXCEPT !.stage = "served", !.companions = said]
    <3>2. fetch' = [fetch EXCEPT ![p] = f]
      BY <1>1, <3>1 DEF CacheInv, FetchTypes
    <3>3. f \in Fetches
      BY <1>1, <2>3 DEF Fetches, FetchStages
    <3>4. /\ f.stage = "served" /\ f.companions = said /\ f.text = fetch[p].text
          /\ f.files = fetch[p].files /\ f.disturbed = fetch[p].disturbed
      BY <1>1 DEF Fetches
    <3>5. ~ fetch[p].disturbed =>
             slot \notin Bad /\ fetch[p].text = "original" /\ fetch[p].files = "original"
      BY <1>1, <2>7 DEF ReadCompanions, Relies, PastTheAudit, ReadSoFar
    <3> HIDE DEF f
    <3>6. ~ f.disturbed => ReadSoFar(f)
      BY <2>3, <3>4, <3>5 DEF ReadSoFar
    <3> QED BY <2>4, <3>2, <3>3, <3>4, <3>5, <3>6
  <2> QED BY <1>10, <2>2, <2>5, <2>6, <2>7
<1>11. CASE Again(p)
  BY <1>11, EndsInv DEF Again, FetchEnds
<1>12. CASE FetcherDies(p)
  BY <1>12, EndsInv DEF FetcherDies
<1> QED BY <1>2, <1>3, <1>4, <1>5, <1>6, <1>7, <1>8, <1>9, <1>10, <1>11, <1>12 DEF FetchStep

LEMMA TamperCacheInv ==
    ASSUME CacheInv, NEW content \in {"forged", "spoilt", "squatter", "absent"},
           Tamper(content)
    PROVE  CacheInv'
<1> DEFINE marked(q) == fetch[q].stage # "idle"
<1>1. FetchTypes /\ \A q \in Fetcher : PutsOriginal(fetch[q])
  BY DEF CacheInv
<1>2. slot' = content /\ content \in SlotStates
  BY DEF Tamper, SlotStates, Directories, Bad
<1>3. \A q \in Fetcher : marked(q) \in BOOLEAN
  OBVIOUS
<1>4. fetch' = [q \in Fetcher |-> [fetch[q] EXCEPT !.disturbed = marked(q)]]
  BY DEF Tamper
<1> HIDE DEF marked
<1>5. FetchTypes'
  BY <1>1, <1>2, <1>3, <1>4 DEF FetchTypes, Fetches
<1>6. \A q \in Fetcher : /\ fetch'[q].stage = fetch[q].stage
                          /\ fetch'[q].content = fetch[q].content
                          /\ fetch'[q].disturbed = marked(q)
  BY <1>1, <1>4 DEF FetchTypes, Fetches
<1>7. \A q \in Fetcher : PutsOriginal(fetch'[q])
  BY <1>1, <1>6 DEF PutsOriginal
<1>8. \A q \in Fetcher : fetch[q].stage # "idle" => marked(q)
  BY DEF marked
<1>9. \A q \in Fetcher : fetch'[q].stage # "idle" => fetch'[q].disturbed
  BY <1>6, <1>8
<1>10. \A q \in Fetcher : Relies(fetch'[q], slot')
  BY <1>9 DEF Relies, PastTheAudit, ReadSoFar
<1> QED BY <1>5, <1>7, <1>10 DEF CacheInv

\* A facet that is fetched, locked or not, is in all its parts the content the
\* lockfile or the registry vouches for, whatever any number of other processes
\* put, evict or leave half removed in the same slot between the readings.
THEOREM AnchoredAlways == CacheSpec => []ServesAnchored
<1>1. CacheInv /\ [CacheNext]_cacheVars => CacheInv'
  <2> SUFFICES ASSUME CacheInv, [CacheNext]_cacheVars PROVE CacheInv'
    OBVIOUS
  <2>1. CASE UNCHANGED cacheVars
    BY <2>1 DEF cacheVars, CacheInv, FetchTypes
  <2>2. CASE CacheNext
    BY <2>2, StepCacheInv, TamperCacheInv DEF CacheNext
  <2> QED BY <2>1, <2>2
<1>2. CacheInv => ServesAnchored
  BY DEF CacheInv, Relies, ReadSoFar, ServesAnchored
<1> QED BY InitCacheInv, <1>1, <1>2, PTL DEF CacheSpec

-----------------------------------------------------------------------------
(* The placement: what the receipt of an adapter vouches for, and what a    *)
(* reader may conclude, for any number of placers, readers, generations and *)
(* deaths.                                                                  *)

Staged == {"staging", "copying", "verifying", "activating"}

AtWork == Staged \cup {"cleaning", "placed", "failed"}

PlaceStages == AtWork \cup {"idle", "dead"}

PlacementTypes ==
    /\ stored \in [Generation -> {"none", "partial", "bundle", "unfit"}]
    /\ active \in Generation \cup {Nobody}
    /\ legacy \in BOOLEAN
    /\ place \in [Placer -> [stage : PlaceStages, gen : Generation \cup {Nobody},
                             was : Generation \cup {Nobody}]]
    /\ read \in [Reader ->
          [stage : {"idle", "looking", "listed", "inspecting", "compatible", "broken", "absent"},
           gen : Generation \cup {Nobody}]]

\* Whoever is at work has the lock, and a generation it has minted.
LockHeld ==
    \A p \in Placer : place[p].stage \in AtWork =>
        lockedBy = p /\ place[p].gen \in minted \cap Generation

\* What is staged is not active yet, and what is about to be has been loaded.
StagedApart ==
    \A p \in Placer :
        /\ place[p].stage \in Staged => place[p].gen # active
        /\ place[p].stage = "activating" => stored[place[p].gen] = "bundle"
        /\ place[p].stage = "cleaning" => place[p].gen = active
        /\ place[p].stage \in Staged \cup {"failed"} => active = place[p].was

ActiveMinted == active # Nobody => active \in minted

\* An adapter that was found stays findable.
ListedStays ==
    \A r \in Reader : read[r].stage \in {"listed", "inspecting"} => legacy \/ active # Nobody

Undisturbed ==
    removal = "none" => StagedApart /\ ActiveMinted /\ ListedStays /\ ActiveIsWhole

PlacementInv == PlacementTypes /\ LockHeld /\ Undisturbed

-----------------------------------------------------------------------------
LEMMA InitPlacementInv == PlacementInit => PlacementInv
BY PlacementAssumption
DEF PlacementInit, PlacementInv, PlacementTypes, LockHeld, Undisturbed, StagedApart,
    ActiveMinted, ListedStays, ActiveIsWhole, NoPlace, NoRead, Staged, AtWork, PlaceStages

\* Two placers are never at work together.
LEMMA OneAtWork ==
    ASSUME PlacementInv, NEW p \in Placer, NEW q \in Placer,
           place[p].stage \in AtWork, place[q].stage \in AtWork
    PROVE  p = q
BY DEF PlacementInv, LockHeld

LEMMA PlacerInv ==
    ASSUME PlacementInv, NEW p \in Placer, PlacerStep(p)
    PROVE  PlacementInv'
<1> USE PlacementAssumption
        DEF PlacementInv, PlacementTypes, LockHeld, Undisturbed, StagedApart, ActiveMinted,
            ListedStays, ActiveIsWhole, Staged, AtWork, PlaceStages, Placing
<1>1. CASE \E g \in Generation : Acquire(p, g)
  BY <1>1 DEF Acquire
<1>2. CASE Mkdir(p)
  BY <1>2 DEF Mkdir, Moves
<1>3. CASE \E bundle \in {"bundle", "unfit"} : Copy(p, bundle)
  BY <1>3 DEF Copy, Moves
<1>4. CASE Verify(p)
  BY <1>4 DEF Verify, Moves
<1>5. CASE Fails(p)
  <2>1. /\ place[p].stage \in Staged /\ place[p].gen \in Generation
        /\ \A q \in Placer : place[q].stage \in AtWork => q = p
    BY <1>5, OneAtWork DEF Fails
  <2>2. /\ place' = [place EXCEPT ![p].stage = "failed"]
        /\ UNCHANGED <<active, legacy, minted, lockedBy, read, removal>>
    BY <1>5 DEF Fails, Moves
  <2>3. /\ stored' \in [Generation -> {"none", "partial", "bundle", "unfit"}]
        /\ \A g \in Generation \ {place[p].gen} : stored'[g] = stored[g]
    BY <1>5, <2>1 DEF Fails
  <2>4. PlacementTypes' /\ LockHeld'
    BY <2>1, <2>2, <2>3
  <2>5. \A q \in Placer : place'[q].stage \in AtWork => q = p /\ place'[q].stage = "failed"
    BY <2>1, <2>2
  <2>6. Undisturbed'
    BY <2>1, <2>2, <2>3, <2>5
  <2> QED BY <2>4, <2>6
<1>6. CASE Activate(p)
  BY <1>6 DEF Activate, Moves
<1>7. CASE \E g \in Generation : Clean(p, g)
  BY <1>7 DEF Clean, Stale
<1>8. CASE CleanLegacy(p)
  <2>1. /\ place[p].stage = "cleaning" /\ place[p].gen \in Generation
        /\ place' = [place EXCEPT ![p].stage = "placed"]
        /\ legacy' \in BOOLEAN
        /\ UNCHANGED <<stored, active, minted, lockedBy, read, removal>>
    BY <1>8 DEF CleanLegacy, Moves
  <2>2. PlacementTypes' /\ LockHeld'
    BY <2>1
  <2>3. removal = "none" => active # Nobody
    BY <2>1
  <2>4. Undisturbed'
    BY <2>1, <2>3
  <2> QED BY <2>2, <2>4
<1>9. CASE Unlock(p)
  BY <1>9 DEF Unlock, NoPlace
<1>10. CASE PlacerDies(p)
  BY <1>10 DEF PlacerDies, Moves
<1> QED BY <1>1, <1>2, <1>3, <1>4, <1>5, <1>6, <1>7, <1>8, <1>9, <1>10 DEF PlacerStep

LEMMA RemovalInv ==
    ASSUME PlacementInv, StartRemoval \/ RemoveSome \/ EndRemoval
    PROVE  PlacementInv'
BY DEF StartRemoval, RemoveSome, EndRemoval, Removing, PlacementInv, PlacementTypes,
       LockHeld, Undisturbed

LEMMA ReaderInv ==
    ASSUME PlacementInv, NEW r \in Reader,
           \/ LookForReceipt(r) \/ LookForLegacy(r)
           \/ ReadReceipt(r) \/ LoadBundle(r) \/ EndRead(r)
    PROVE  PlacementInv'
<1> USE DEF PlacementInv, PlacementTypes, LockHeld, Undisturbed, StagedApart, ActiveMinted,
            ListedStays, ActiveIsWhole, Reading
<1>1. CASE LookForReceipt(r)
  BY <1>1 DEF LookForReceipt
<1>2. CASE LookForLegacy(r)
  BY <1>2 DEF LookForLegacy
<1>3. CASE ReadReceipt(r)
  BY <1>3 DEF ReadReceipt
<1>4. CASE LoadBundle(r)
  BY <1>4 DEF LoadBundle, Loadable
<1>5. CASE EndRead(r)
  BY <1>5 DEF EndRead, NoRead
<1> QED BY <1>1, <1>2, <1>3, <1>4, <1>5

LEMMA NextPlacementInv == PlacementInv /\ [PlacementNext]_placementVars => PlacementInv'
<1> SUFFICES ASSUME PlacementInv, [PlacementNext]_placementVars PROVE PlacementInv'
  OBVIOUS
<1>1. CASE UNCHANGED placementVars
  BY <1>1 DEF placementVars, PlacementInv, PlacementTypes, LockHeld, Undisturbed,
       StagedApart, ActiveMinted, ListedStays, ActiveIsWhole
<1>2. CASE PlacementNext
  BY <1>2, PlacerInv, RemovalInv, ReaderInv DEF PlacementNext
<1> QED BY <1>1, <1>2

-----------------------------------------------------------------------------
\* While nobody removes the adapter, its receipt names a generation that is
\* complete and has been loaded at its final path.
THEOREM ReceiptNamesWhole == PlacementSpec => []ActiveIsWhole
<1>1. PlacementInv => ActiveIsWhole
  BY DEF PlacementInv, Undisturbed, ActiveIsWhole
<1> QED BY InitPlacementInv, NextPlacementInv, <1>1, PTL DEF PlacementSpec

\* A placement that fails has left the receipt as it found it.
THEOREM PreviousIsKept == PlacementSpec => []FailureKeepsPrevious
<1>1. PlacementInv => FailureKeepsPrevious
  BY DEF PlacementInv, Undisturbed, StagedApart, FailureKeepsPrevious
<1> QED BY InitPlacementInv, NextPlacementInv, <1>1, PTL DEF PlacementSpec

LEMMA ReadStep ==
    ASSUME PlacementInv, PlacementNext, NEW r \in Reader,
           read[r].stage = "inspecting", read'[r].stage = "broken"
    PROVE  removal # "none" \/ active # read[r].gen
<1>1. \/ \E q \in Reader : \/ LookForReceipt(q) \/ LookForLegacy(q)
                           \/ ReadReceipt(q) \/ LoadBundle(q) \/ EndRead(q)
      \/ UNCHANGED read
  BY DEF PlacementNext, PlacerStep, Acquire, Mkdir, Copy, Verify, Fails, Activate, Clean,
         CleanLegacy, Unlock, PlacerDies, Placing, StartRemoval, RemoveSome, EndRemoval, Removing
<1>2. LoadBundle(r)
  BY <1>1 DEF LookForReceipt, LookForLegacy, ReadReceipt, LoadBundle, EndRead, NoRead,
              PlacementInv, PlacementTypes
<1>3. ~ Loadable(read[r].gen)
  BY <1>2 DEF LoadBundle, PlacementInv, PlacementTypes
<1> QED BY <1>3 DEF Loadable, PlacementInv, Undisturbed, ListedStays, ActiveIsWhole

\* A reader that calls an adapter broken went by a receipt that has been
\* replaced since, or by the lack of one.
THEOREM BrokenReportsAreStale == PlacementSpec => BrokenIsReplaced
<1>1. PlacementInv /\ [PlacementNext]_placementVars =>
        [\A r \in Reader : read[r].stage = "inspecting" /\ read'[r].stage = "broken"
            => removal # "none" \/ active # read[r].gen]_placementVars
  BY ReadStep
<1> QED BY InitPlacementInv, NextPlacementInv, <1>1, PTL DEF PlacementSpec, BrokenIsReplaced

-----------------------------------------------------------------------------
(* The polling loop keeps the interval it was told, and its limit of        *)
(* attempts never shows, for every interval, lifetime and delay.            *)

PollStages == {"top", "asleep", "asking"} \cup Endings

PollTypes ==
    /\ elapsed \in Nat /\ skew \in Int
    /\ DOMAIN poll =
          {"stage", "expires", "interval", "attempts", "transients", "due", "owed", "heard"}
    /\ poll.stage \in PollStages /\ poll.expires \in 1..Lifetime
    /\ poll.interval \in Nat /\ poll.attempts \in Nat /\ poll.transients \in Nat
    /\ poll.due \in Int /\ poll.owed \in Int /\ poll.heard \in Int
    /\ poll.interval >= MinPollInterval

\* Every attempt has taken an interval, or has ended in the expiry.
AttemptsTakeTime ==
    skew >= 0 =>
        /\ poll.stage = "top" =>
              elapsed >= poll.attempts * MinPollInterval /\ poll.attempts < MaxPollAttempts
        /\ poll.stage = "asleep" =>
              \/ poll.due >= (poll.attempts + 1) * MinPollInterval
              \/ poll.due >= poll.expires - skew
        /\ poll.stage = "asking" =>
              /\ elapsed >= (poll.attempts + 1) * MinPollInterval
              /\ poll.attempts + 1 < MaxPollAttempts
        /\ poll.stage # "limit"

\* The interval is never less than what the server has asked for.
SleepsInterval ==
    /\ poll.owed <= poll.interval /\ poll.heard <= elapsed
    /\ skew = 0 /\ poll.stage = "asleep" =>
          poll.due >= poll.heard + poll.owed \/ poll.due >= poll.expires

PollInv == PollTypes /\ AttemptsTakeTime /\ SleepsInterval

-----------------------------------------------------------------------------
LEMMA Product ==
    ASSUME NEW a \in Nat, NEW b \in Nat, NEW m \in Nat, a * m < b * m
    PROVE  a < b
<1>1. SUFFICES ASSUME a >= b PROVE FALSE
  OBVIOUS
<1>2. PICK d \in Nat : a = b + d
  BY <1>1
<1>3. a * m = b * m + d * m
  BY <1>2
<1>4. d * m >= 0 /\ d * m \in Int /\ b * m \in Int
  OBVIOUS
<1> QED BY <1>3, <1>4

\* What an attempt adds.
LEMMA OneMore ==
    ASSUME NEW a \in Nat, PollAssumption
    PROVE  /\ (a + 1) * MinPollInterval = a * MinPollInterval + MinPollInterval
           /\ a * MinPollInterval \in Nat
BY DEF PollAssumption

LEMMA InitPollInv == PollInit => PollInv
<1> SUFFICES ASSUME PollInit PROVE PollInv
  OBVIOUS
<1>1. 0 * MinPollInterval = 0
  BY PollAssumption DEF PollAssumption
<1> QED
  BY <1>1, PollAssumption
  DEF PollInit, StartOf, PollInv, PollTypes, AttemptsTakeTime, SleepsInterval, PollStages,
      Endings, PollAssumption

\* An end that is not the limit.
LEMMA EndInv ==
    ASSUME PollInv, NEW how \in Endings \ {"limit"}, PollEnds(how)
    PROVE  PollInv'
BY DEF PollEnds, PollInv, PollTypes, AttemptsTakeTime, SleepsInterval, PollStages, Endings

LEMMA SleepInv ==
    ASSUME PollInv, Sleep
    PROVE  PollInv'
<1> DEFINE wait == Sooner(poll.interval, poll.expires - Now)
<1>1. /\ wait \in Int
      /\ \/ wait = poll.interval
         \/ wait = poll.expires - elapsed - skew
      /\ poll' = [poll EXCEPT !.stage = "asleep", !.due = elapsed + wait]
      /\ UNCHANGED <<elapsed, skew>> /\ poll.stage = "top"
  BY DEF Sleep, Sooner, Now, PollInv, PollTypes
<1> HIDE DEF wait
<1>2. PollTypes'
  BY <1>1 DEF PollInv, PollTypes, PollStages
<1> DEFINE next == (poll.attempts + 1) * MinPollInterval
<1>3. AttemptsTakeTime'
  <2>1. skew >= 0 => elapsed + poll.interval >= next
    <3> DEFINE spent == poll.attempts * MinPollInterval
    <3>1. next = spent + MinPollInterval /\ spent \in Nat
      BY OneMore, PollAssumption DEF PollInv, PollTypes
    <3>2. skew >= 0 => elapsed >= spent
      BY <1>1 DEF PollInv, AttemptsTakeTime
    <3> HIDE DEF spent, next
    <3> QED BY <3>1, <3>2, PollAssumption DEF PollInv, PollTypes, PollAssumption
  <2>2. /\ poll'.stage = "asleep" /\ poll'.expires = poll.expires
        /\ poll'.due = elapsed + wait /\ poll'.attempts = poll.attempts
    BY <1>1 DEF PollInv, PollTypes
  <2>3. (poll'.attempts + 1) * MinPollInterval = next
    BY <2>2
  <2> HIDE DEF next
  <2>4. skew >= 0 => poll'.due >= next \/ poll'.due >= poll'.expires - skew
    BY <1>1, <2>1, <2>2 DEF PollInv, PollTypes
  <2> QED BY <1>1, <2>2, <2>3, <2>4 DEF AttemptsTakeTime
<1>4. SleepsInterval'
  BY <1>1 DEF PollInv, PollTypes, SleepsInterval
<1> QED BY <1>2, <1>3, <1>4 DEF PollInv

LEMMA AskInv ==
    ASSUME PollInv, Ask
    PROVE  PollInv'
<1> DEFINE wait == Sooner(RequestTimeout, poll.expires - Now)
<1>1. /\ wait \in Int
      /\ poll' = [poll EXCEPT !.stage = "asking", !.due = elapsed + wait]
      /\ UNCHANGED <<elapsed, skew>>
      /\ poll.stage = "asleep" /\ elapsed >= poll.due /\ elapsed + skew < poll.expires
  BY PollAssumption DEF Ask, Sooner, Now, PollInv, PollTypes, PollAssumption
<1> HIDE DEF wait
<1>2. PollTypes'
  BY <1>1 DEF PollInv, PollTypes, PollStages
<1>3. ASSUME skew >= 0
      PROVE  /\ elapsed >= (poll.attempts + 1) * MinPollInterval
             /\ poll.attempts + 1 < MaxPollAttempts
  <2> DEFINE next == (poll.attempts + 1) * MinPollInterval
  <2>1. elapsed >= next
    <3>1. next \in Int
      BY PollAssumption DEF PollInv, PollTypes, PollAssumption
    <3>2. poll.due >= next \/ poll.due >= poll.expires - skew
      BY <1>1, <1>3 DEF PollInv, AttemptsTakeTime
    <3> HIDE DEF next
    <3> QED BY <1>1, <3>1, <3>2 DEF PollInv, PollTypes
  <2>2. (poll.attempts + 1) * MinPollInterval < MaxPollAttempts * MinPollInterval
    BY <2>1, <1>1, <1>3, OneMore, PollAssumption DEF PollInv, PollTypes, PollAssumption
  <2> QED BY <2>1, <2>2, Product, PollAssumption DEF PollInv, PollTypes, PollAssumption
<1>4. AttemptsTakeTime'
  BY <1>1, <1>3 DEF PollInv, PollTypes, AttemptsTakeTime
<1>5. SleepsInterval'
  BY <1>1 DEF PollInv, PollTypes, SleepsInterval
<1> QED BY <1>2, <1>4, <1>5 DEF PollInv

LEMMA RoundInv ==
    ASSUME PollInv, poll.stage = "asking",
           NEW interval \in Nat, NEW transients \in Nat, NEW owed \in Int,
           interval >= MinPollInterval, owed <= interval,
           GoesRound(interval, transients, owed)
    PROVE  PollInv'
<1> DEFINE next == (poll.attempts + 1) * MinPollInterval
<1>1. /\ poll' = [poll EXCEPT !.stage = "top", !.attempts = poll.attempts + 1,
                              !.interval = interval, !.transients = transients,
                              !.owed = owed, !.heard = elapsed]
      /\ UNCHANGED <<elapsed, skew>>
  BY DEF GoesRound
<1>2. /\ poll'.stage = "top" /\ poll'.attempts = poll.attempts + 1
      /\ poll'.interval = interval /\ poll'.owed = owed /\ poll'.heard = elapsed
  BY <1>1 DEF PollInv, PollTypes
<1>3. PollTypes'
  BY <1>1, <1>2 DEF PollInv, PollTypes, PollStages
<1>4. AttemptsTakeTime'
  <2>1. poll'.attempts * MinPollInterval = next
    BY <1>2
  <2> HIDE DEF next
  <2>2. skew >= 0 => elapsed >= next /\ poll'.attempts < MaxPollAttempts
    BY <1>2 DEF PollInv, AttemptsTakeTime, next
  <2> QED BY <1>1, <1>2, <2>1, <2>2 DEF AttemptsTakeTime
<1>5. SleepsInterval'
  BY <1>1, <1>2, PollAssumption DEF PollInv, PollTypes, SleepsInterval, PollAssumption
<1> QED BY <1>3, <1>4, <1>5 DEF PollInv

LEMMA NextPollInv == PollInv /\ [PollNext]_pollVars => PollInv'
<1> SUFFICES ASSUME PollInv, [PollNext]_pollVars PROVE PollInv'
  OBVIOUS
<1> USE PollAssumption DEF PollAssumption
<1>0. CASE UNCHANGED pollVars
  BY <1>0 DEF pollVars, PollInv, PollTypes, AttemptsTakeTime, SleepsInterval
<1>1. CASE LimitReached
  <2>1. skew < 0
    BY <1>1 DEF LimitReached, PollInv, PollTypes, AttemptsTakeTime
  <2> QED
    BY <1>1, <2>1
    DEF LimitReached, PollEnds, PollInv, PollTypes, AttemptsTakeTime, SleepsInterval, PollStages, Endings
<1>2. CASE Expired \/ WokenTooLate \/ Cancelled \/ SleepFails
  BY <1>2, EndInv DEF Expired, WokenTooLate, Cancelled, SleepFails, Endings
<1>3. CASE \E answer \in {"tokens", "malformed", "denied", "expired", "unavailable"} : Settled(answer)
  BY <1>3, EndInv DEF Settled, Endings
<1>4. CASE Sleep
  BY <1>4, SleepInv
<1>5. CASE Ask
  BY <1>5, AskInv
<1>6. CASE Pending
  BY <1>6, RoundInv DEF Pending, PollInv, PollTypes, SleepsInterval
<1>7. CASE SlowDown
  BY <1>7, RoundInv DEF SlowDown, Backoff, PollInv, PollTypes, SleepsInterval
<1>8. CASE Transient
  <2>1. CASE PollEnds("unavailable")
    BY <2>1, EndInv DEF Endings
  <2>2. CASE GoesRound(Backoff(poll.interval), poll.transients + 1, poll.owed)
    BY <1>8, <2>2, RoundInv DEF Transient, Backoff, PollInv, PollTypes, SleepsInterval
  <2> QED BY <1>8, <2>1, <2>2 DEF Transient
<1>9. CASE Passes
  BY <1>9 DEF Passes, PollInv, PollTypes, AttemptsTakeTime, SleepsInterval
<1>10. CASE \E by \in ClockSettings : SetClock(by)
  BY <1>10 DEF SetClock, PollInv, PollTypes, AttemptsTakeTime, SleepsInterval, Endings
<1> QED
  BY <1>0, <1>1, <1>2, <1>3, <1>4, <1>5, <1>6, <1>7, <1>8, <1>9, <1>10 DEF PollNext

-----------------------------------------------------------------------------
\* The loop never ends for want of attempts while its wall clock is not set
\* back: whoever waits to the end is told of the expiry.
THEOREM LimitIsUnreachable == PollSpec => []RunsOutAsExpired
<1>1. PollInv => RunsOutAsExpired
  BY DEF PollInv, PollTypes, AttemptsTakeTime, RunsOutAsExpired
<1> QED BY InitPollInv, NextPollInv, <1>1, PTL DEF PollSpec

LEMMA AskStep ==
    ASSUME PollInv, PollNext, poll.stage = "asleep", poll'.stage = "asking", skew = 0
    PROVE  elapsed - poll.heard >= poll.owed
<1>1. Ask
  BY DEF PollNext, LimitReached, Expired, Cancelled, Sleep, SleepFails, WokenTooLate, Pending,
         SlowDown, Transient, Settled, Passes, SetClock, PollEnds, PollInv, PollTypes
<1> QED BY <1>1 DEF Ask, Now, PollInv, PollTypes, SleepsInterval

\* No request is sooner than the server has asked for, all told.
THEOREM IntervalIsKept == PollSpec => KeepsInterval
<1>1. PollInv /\ [PollNext]_pollVars =>
        [poll.stage = "asleep" /\ poll'.stage = "asking" /\ skew = 0
            => elapsed - poll.heard >= poll.owed]_pollVars
  BY AskStep
<1> QED BY InitPollInv, NextPollInv, <1>1, PTL DEF PollSpec, KeepsInterval
-----------------------------------------------------------------------------
(* The retries of one call, for any number of attempts.                      *)

CallTypes ==
    /\ DOMAIN call = {"stage", "method", "attempt", "aborted", "sent", "handled", "reported"}
    /\ call.stage \in {"asking", "resting", "answered", "failed"} /\ call.method \in Method
    /\ call.attempt \in 1..MaxAttempts /\ call.aborted \in BOOLEAN
    /\ call.sent \in Nat /\ call.handled \in Nat /\ call.reported \in Nat

\* While it rests, the attempt that was counted is still to be made.
SentAsCounted ==
    /\ call.stage \in {"asking", "answered"} => call.sent = call.attempt
    /\ call.stage = "resting" => call.sent + 1 = call.attempt
    /\ call.stage = "failed" => call.reported = call.sent

\* A request that must not be repeated is handled, if at all, by the answer or
\* the failure that ends the call.
HandledOnce ==
    call.method \notin Retryable =>
        /\ call.attempt = 1 /\ call.stage # "resting"
        /\ call.handled <= 1
        /\ call.stage = "asking" => call.handled = 0

CallInv == CallTypes /\ SentAsCounted /\ HandledOnce

(* The first request is counted and not yet handled.                         *)
LEMMA InitCallInv == CallInit => CallInv
BY RetryAssumption DEF CallInit, CallInv, CallTypes, SentAsCounted, HandledOnce

(* Every step of a call, and the deadline in between, keeps the count.       *)
LEMMA NextCallInv == CallInv /\ [CallNext]_callVars => CallInv'
<1> USE RetryAssumption DEF CallInv
<1>1. SUFFICES ASSUME CallInv, [CallNext]_callVars PROVE CallInv'
  OBVIOUS
<1>2. CASE Abort
  BY <1>1, <1>2 DEF Abort, CallTypes, SentAsCounted, HandledOnce
<1>3. CASE Respond
  BY <1>1, <1>3 DEF Respond, CallTypes, SentAsCounted, HandledOnce
<1>4. CASE RestAborted
  <2>1. call.attempt - 1 = call.sent
    BY <1>1, <1>4 DEF RestAborted, CallTypes, SentAsCounted
  <2>2. QED
    BY <1>1, <1>4, <2>1 DEF RestAborted, Reports, CallTypes, SentAsCounted, HandledOnce
<1>5. CASE Reissue
  BY <1>1, <1>5 DEF Reissue, CallTypes, SentAsCounted, HandledOnce
<1>6. ASSUME NEW handled \in 0..MaxAttempts, Throws(handled) PROVE CallInv'
  <2>1. /\ handled \in Nat /\ call.stage = "asking" /\ call.sent = call.attempt
        /\ call.method \notin Retryable => call.attempt = 1 /\ handled <= 1
    BY <1>1, <1>6 DEF Throws, CallTypes, SentAsCounted, HandledOnce
  <2>2. CASE Reports(call.sent, handled)
    BY <1>1, <2>1, <2>2 DEF Reports, CallTypes, SentAsCounted, HandledOnce
  <2>3. CASE call.method \notin Retryable \/ call.attempt >= MaxAttempts
    <3>1. Reports(call.attempt, handled)
      BY <1>1, <1>6, <2>1, <2>3 DEF Throws, CallTypes
    <3>2. QED
      BY <2>1, <2>2, <3>1
  <2>4. CASE ~(call.method \notin Retryable \/ call.attempt >= MaxAttempts)
    <3>1. call' = [call EXCEPT !.stage = "resting", !.attempt = call.attempt + 1,
                               !.handled = handled]
      BY <1>6, <2>4 DEF Throws
    <3>2. QED
      BY <1>1, <2>1, <2>4, <3>1 DEF CallTypes, SentAsCounted, HandledOnce
  <2>5. QED
    BY <2>3, <2>4
<1>7. CASE UNCHANGED callVars
  BY <1>1, <1>7 DEF callVars, CallTypes, SentAsCounted, HandledOnce
<1>8. QED
  BY <1>1, <1>2, <1>3, <1>4, <1>5, <1>6, <1>7 DEF CallNext

(* A failed call reports the requests it sent, and one that must not be      *)
(* repeated is carried out at most once, for any number of attempts.         *)
THEOREM AttemptsAreTrue == CallSpec => []RetriesAccounted
<1>1. CallInv => RetriesAccounted
  BY DEF CallInv, CallTypes, SentAsCounted, HandledOnce, RetriesAccounted
<1>2. QED
  BY <1>1, InitCallInv, NextCallInv, PTL DEF CallSpec
==============================================================================
