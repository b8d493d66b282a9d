----------------------------- MODULE FacetCache -----------------------------
(* One slot of the content-addressed facet cache and the processes that     *)
(* resolve the facet it belongs to: look the slot up, audit what is there,  *)
(* evict it when the audit fails, download, put, and read the content: its  *)
(* texts, then the hashes of its files, then the companions of its skills.  *)
(* There is no lock: every step may meet the step of another process.       *)
(*                                                                          *)
(* Abstracted: a version is published once, so one content is the original; *)
(* hashing is comparison of contents; a staging directory is private.       *)
EXTENDS Naturals

CONSTANTS
    Fetcher,     \* processes
    MaxTampers   \* bound

VARIABLES
    slot,      \* what is at the slot's path
    fetch,     \* what every process is doing
    tampers

cacheVars == <<slot, fetch, tampers>>

\* A directory is the original, a self-consistent forgery, one whose content
\* contradicts its sidecar, or what a removal has left of the original
\* ("partial") or of one of the others ("ruins").
Bad == {"forged", "spoilt", "ruins"}
Directories == {"original", "partial"} \cup Bad

\* "squatter" is anything at the path that is not a directory.
SlotStates == Directories \cup {"absent", "squatter"}

AuditPasses(content) == content \in {"original", "forged"}

\* locked: the content must reproduce the lockfile's hash, else the one the
\* registry publishes.  known: the registry's answer is at hand.
Fetching(stage, locked, hit, known) ==
    [stage |-> stage, locked |-> locked, hit |-> hit, known |-> known,
     content |-> "absent", text |-> "unread", files |-> "unread",
     companions |-> "unread", disturbed |-> FALSE]

CacheInit ==
    /\ slot = "absent"
    /\ fetch = [p \in Fetcher |-> Fetching("idle", TRUE, FALSE, FALSE)]
    /\ tampers = 0

FetchMoves(p, stage) == fetch' = [fetch EXCEPT ![p].stage = stage]

\* The slot is taken for good; how it was come by no longer matters.
Loading(f) == [Fetching("loading", f.locked, FALSE, FALSE) EXCEPT !.disturbed = f.disturbed]

FetchLoads(p) == fetch' = [fetch EXCEPT ![p] = Loading(fetch[p])]

\* A fetch that fails, or whose process dies, leaves nothing in memory.
FetchEnds(p, stage) == fetch' = [fetch EXCEPT ![p] = Fetching(stage, TRUE, FALSE, FALSE)]

\* The lockfile names the version, or the manifest or a review does (the
\* metadata of a reviewed or resolved version is already known).
Lookup(p, locked, known) ==
    /\ fetch[p].stage = "idle"
    /\ locked => ~ known
    /\ LET hit == slot \in Directories IN
       fetch' = [fetch EXCEPT ![p] =
          Fetching(IF hit /\ locked THEN "auditing" ELSE "metadata", locked, hit, known)]
    /\ UNCHANGED <<slot, tampers>>

\* Asked at most once; without an answer nothing is confirmed or downloaded.
EnsureMeta(p) ==
    /\ fetch[p].stage = "metadata"
    /\ \/ fetch' = [fetch EXCEPT
             ![p].stage = IF fetch[p].hit THEN "auditing" ELSE "downloading",
             ![p].known = TRUE]
       \/ ~ fetch[p].known /\ FetchEnds(p, "failed")
    /\ UNCHANGED <<slot, tampers>>

\* Fault: the anchor alone decides, on the word of the sidecar.
TrustHit(p) ==
    /\ fetch[p].stage = "auditing"
    /\ CASE slot \notin Directories -> FetchMoves(p, "evicting")
         [] slot = "forged" -> FetchEnds(p, "failed")
         [] OTHER -> FetchLoads(p)
    /\ UNCHANGED <<slot, tampers>>

\* A hit is audited, and then held against the lockfile or the registry.
AuditHit(p) ==
    /\ fetch[p].stage = "auditing"
    /\ CASE ~ AuditPasses(slot) -> FetchMoves(p, "evicting")
         [] slot = "original" -> FetchLoads(p)
         [] OTHER -> FetchEnds(p, "failed")
    /\ UNCHANGED <<slot, tampers>>

\* The tree is removed file by file, whatever has come to the path since.
Evict(p) ==
    /\ fetch[p].stage = "evicting"
    /\ slot' = CASE slot \in Bad -> "ruins"
                 [] slot \in {"original", "partial"} -> "partial"
                 [] OTHER -> "absent"
    /\ FetchMoves(p, "removing")
    /\ UNCHANGED tampers

\* The chain goes round once more, as a miss that asks no cache.
EvictDone(p) ==
    /\ fetch[p].stage = "removing"
    /\ slot' = "absent"
    /\ fetch' = [fetch EXCEPT ![p].stage = "metadata", ![p].hit = FALSE]
    /\ UNCHANGED tampers

\* What arrives is checked against its own claim, the registry and the lock.
Download(p, content) ==
    /\ fetch[p].stage = "downloading"
    /\ IF content = "original"
       THEN fetch' = [fetch EXCEPT ![p].stage = "putting", ![p].content = content]
       ELSE FetchEnds(p, "failed")
    /\ UNCHANGED <<slot, tampers>>

\* A directory that is there by now is taken for a finished put of another.
Put(p) ==
    /\ fetch[p].stage = "putting"
    /\ CASE slot = "absent" -> FetchMoves(p, "renaming")
         [] slot \in Directories -> FetchLoads(p)
         [] OTHER -> FetchEnds(p, "failed")
    /\ UNCHANGED <<slot, tampers>>

Rename(p) ==
    /\ fetch[p].stage = "renaming"
    /\ slot' = IF slot = "absent" THEN fetch[p].content ELSE slot
    /\ IF slot = "squatter" THEN FetchEnds(p, "failed") ELSE FetchLoads(p)
    /\ UNCHANGED tampers

\* What some files of the slot may say when they are read: those a change left
\* alone still say what the original says.
Says == CASE slot \in {"original", "partial"} -> {"original"}
          [] slot \in Bad -> {"original", "altered"}
          [] OTHER -> {}

\* A whole tree reads well; half of one may lack a file, and so may a changed
\* one, or have a manifest that does not load.
ReadFails(p) == slot # "original" /\ FetchEnds(p, "failed")

\* Three separate readings of the slot.  First the manifest, with descriptions
\* and servers, and the prompts.
ReadTexts(p) ==
    /\ fetch[p].stage = "loading"
    /\ \/ \E said \in Says :
             fetch' = [fetch EXCEPT ![p].stage = "hashing", ![p].text = said]
       \/ ReadFails(p)
    /\ UNCHANGED <<slot, tampers>>

\* Then every file but the manifest is hashed, for the plan of the assets.
HashFiles(p) ==
    /\ fetch[p].stage = "hashing"
    /\ \/ \E said \in Says :
             fetch' = [fetch EXCEPT ![p].stage = "bundling", ![p].files = said]
       \/ ReadFails(p)
    /\ UNCHANGED <<slot, tampers>>

\* Of a locked facet the hashes are held against the records of the lockfile, and
\* of its texts the servers.
Reconciled(f) == f.locked => f.files = "original"
Refused(f) == f.locked /\ "altered" \in {f.text, f.files}

\* Last the companions, and nothing is read after the reconciliation.
ReadCompanions(p) ==
    /\ fetch[p].stage = "bundling"
    /\ \/ \E said \in Says :
             /\ Reconciled(fetch[p])
             /\ fetch' = [fetch EXCEPT ![p].stage = "served", ![p].companions = said]
       \/ Refused(fetch[p]) /\ FetchEnds(p, "failed")
       \/ ReadFails(p)
    /\ UNCHANGED <<slot, tampers>>

Over(p) == fetch[p].stage \in {"served", "failed", "dead"}

\* The process starts over with another command, or dies.
Again(p) ==
    /\ Over(p)
    /\ fetch' = [fetch EXCEPT ![p] = Fetching("idle", TRUE, FALSE, FALSE)]
    /\ UNCHANGED <<slot, tampers>>

FetcherDies(p) ==
    /\ ~ Over(p) /\ fetch[p].stage # "idle"
    /\ FetchEnds(p, "dead")
    /\ UNCHANGED <<slot, tampers>>

\* Something else changes the slot by hand.
Tamper(content) ==
    /\ tampers < MaxTampers /\ tampers' = tampers + 1
    /\ slot # content
    /\ slot' = content
    /\ fetch' = [p \in Fetcher |->
          [fetch[p] EXCEPT !.disturbed = fetch[p].stage # "idle"]]

FetchStep(p) ==
    \/ \E locked, known \in BOOLEAN : Lookup(p, locked, known)
    \/ EnsureMeta(p) \/ AuditHit(p) \/ Evict(p) \/ EvictDone(p)
    \/ \E content \in {"original", "spoilt"} : Download(p, content)
    \/ Put(p) \/ Rename(p)
    \/ ReadTexts(p) \/ HashFiles(p) \/ ReadCompanions(p)
    \/ Again(p) \/ FetcherDies(p)

CacheNext ==
    \/ \E p \in Fetcher : FetchStep(p)
    \/ \E content \in {"forged", "spoilt", "squatter", "absent"} : Tamper(content)

CacheSpec == CacheInit /\ [][CacheNext]_cacheVars

----------------------------------------------------------------------------
\* What is installed, and what the lockfile will record of it, is the content the
\* lockfile or the registry vouches for, whatever other processes put, evict or
\* leave half removed between the readings: only somebody who changes the slot
\* by hand while a version is being fetched gets other content through, be the
\* version locked or not.
ServesAnchored ==
    \A p \in Fetcher : fetch[p].stage = "served" =>
        \/ fetch[p].disturbed
        \/ {fetch[p].text, fetch[p].files, fetch[p].companions} = {"original"}
=============================================================================
