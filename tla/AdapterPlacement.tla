-------------------------- MODULE AdapterPlacement --------------------------
(* The managed installation of one adapter: generation directories, and a   *)
(* receipt that names the active one and is replaced by a rename.  Placers  *)
(* exclude each other through a lock (see InstallLock); readers and removals *)
(* take none.                                                               *)
EXTENDS Naturals, FiniteSets

CONSTANTS
    Placer, Reader,   \* processes
    Generation,       \* identifiers: a bound on placements, minted fresh
    Nobody,           \* no process, no generation
    MaxDeaths         \* bound

ASSUME PlacementAssumption == Nobody \notin Placer \cup Generation

VARIABLES
    stored,     \* generation -> "none", "partial", "bundle" or "unfit"
    active,     \* the generation the receipt names, or Nobody
    legacy,     \* there is a bundle of the layout before receipts
    minted,     \* generations that have been used
    lockedBy,
    place,      \* what every placer is doing
    read,       \* what every reader is doing
    removal,    \* "none", "under way" or "over": somebody removes the adapter
    deaths

placementVars ==
    <<stored, active, legacy, minted, lockedBy, place, read, removal, deaths>>

NoPlace == [stage |-> "idle", gen |-> Nobody, was |-> Nobody]
NoRead == [stage |-> "idle", gen |-> Nobody]

PlacementInit ==
    /\ stored = [g \in Generation |-> "none"]
    /\ active = Nobody /\ legacy \in BOOLEAN
    /\ minted = {} /\ lockedBy = Nobody
    /\ place = [p \in Placer |-> NoPlace]
    /\ read = [r \in Reader |-> NoRead]
    /\ removal = "none" /\ deaths = 0

Placing == UNCHANGED <<read, removal, deaths>>

\* The lock, or the one a dead process left; then a fresh generation.
Acquire(p, g) ==
    /\ place[p].stage = "idle" /\ g \in Generation \ minted
    /\ \A q \in Placer : lockedBy = q => place[q].stage = "dead"
    /\ lockedBy' = p
    /\ minted' = minted \cup {g}
    /\ place' = [place EXCEPT ![p] = [stage |-> "staging", gen |-> g, was |-> active]]
    /\ UNCHANGED <<stored, active, legacy>> /\ Placing

Moves(p, stage) ==
    /\ place' = [place EXCEPT ![p].stage = stage]
    /\ UNCHANGED <<minted, lockedBy>>

\* The directory first, then the bundle, which is fit to be loaded or not.
Mkdir(p) ==
    /\ place[p].stage = "staging"
    /\ stored' = [stored EXCEPT ![place[p].gen] = "partial"]
    /\ Moves(p, "copying")
    /\ UNCHANGED <<active, legacy>> /\ Placing

Copy(p, bundle) ==
    /\ place[p].stage = "copying" /\ stored[place[p].gen] = "partial"
    /\ stored' = [stored EXCEPT ![place[p].gen] = bundle]
    /\ Moves(p, "verifying")
    /\ UNCHANGED <<active, legacy>> /\ Placing

\* The bytes that will be activated are loaded at their final path.
Verify(p) ==
    /\ place[p].stage = "verifying" /\ stored[place[p].gen] = "bundle"
    /\ Moves(p, "activating")
    /\ UNCHANGED <<stored, active, legacy>> /\ Placing

\* Any failure before the activation; the staged generation goes if it can.
Fails(p) ==
    /\ place[p].stage \in {"staging", "copying", "verifying", "activating"}
    /\ \/ stored' = [stored EXCEPT ![place[p].gen] = "none"]
       \/ UNCHANGED stored
    /\ Moves(p, "failed")
    /\ UNCHANGED <<active, legacy>> /\ Placing

\* The receipt is replaced in one rename, inside the adapter's directory.
Activate(p) ==
    /\ place[p].stage = "activating"
    /\ active' = place[p].gen
    /\ Moves(p, "cleaning")
    /\ UNCHANGED <<stored, legacy>> /\ Placing

Stale(g, mine) == stored[g] # "none" /\ g # mine

\* Fault: the others go first, and then the receipt is replaced.
CleanEarly(p, g) ==
    /\ place[p].stage = "activating" /\ Stale(g, place[p].gen)
    /\ stored' = [stored EXCEPT ![g] = IF stored[g] = "partial" THEN "none" ELSE "partial"]
    /\ UNCHANGED <<active, legacy, minted, lockedBy, place>> /\ Placing

\* Every other generation goes, one file after another and one by one; a
\* failure is a warning.
Clean(p, g) ==
    /\ place[p].stage = "cleaning" /\ Stale(g, place[p].gen)
    /\ stored' = [stored EXCEPT ![g] = IF stored[g] = "partial" THEN "none" ELSE "partial"]
    /\ UNCHANGED <<active, legacy, minted, lockedBy, place>> /\ Placing

CleanLegacy(p) ==
    /\ place[p].stage = "cleaning"
    /\ legacy' \in {FALSE, legacy}
    /\ Moves(p, "placed")
    /\ UNCHANGED <<stored, active>> /\ Placing

Unlock(p) ==
    /\ place[p].stage \in {"placed", "failed"}
    /\ lockedBy' = IF lockedBy = p THEN Nobody ELSE lockedBy
    /\ place' = [place EXCEPT ![p] = NoPlace]
    /\ UNCHANGED <<stored, active, legacy, minted>> /\ Placing

PlacerDies(p) ==
    /\ place[p].stage \notin {"idle", "dead"}
    /\ deaths < MaxDeaths /\ deaths' = deaths + 1
    /\ Moves(p, "dead")
    /\ UNCHANGED <<stored, active, legacy, read, removal>>

----------------------------------------------------------------------------
(* A removal deletes the directory of an installation, file by file.        *)

Removing == UNCHANGED <<minted, lockedBy, place, read, deaths>>

StartRemoval ==
    /\ removal = "none"
    /\ active # Nobody \/ legacy
    /\ removal' = "under way"
    /\ UNCHANGED <<stored, active, legacy>> /\ Removing

RemoveSome ==
    /\ removal = "under way"
    /\ \/ \E g \in Generation :
             /\ stored[g] # "none"
             /\ stored' = [stored EXCEPT ![g] = "none"]
             /\ UNCHANGED <<active, legacy>>
       \/ active # Nobody /\ active' = Nobody /\ UNCHANGED <<stored, legacy>>
       \/ legacy /\ legacy' = FALSE /\ UNCHANGED <<stored, active>>
    /\ UNCHANGED removal /\ Removing

EndRemoval ==
    /\ removal = "under way" /\ removal' = "over"
    /\ UNCHANGED <<stored, active, legacy>> /\ Removing

----------------------------------------------------------------------------
(* Whoever loads the adapters takes no lock.  It lists what is installed, by *)
(* a receipt or else by the old bundle; reads the receipt; and loads what   *)
(* the receipt names, or the old bundle if there is none.                   *)

Reading == UNCHANGED <<stored, active, legacy, minted, lockedBy, place, removal, deaths>>

LookForReceipt(r) ==
    /\ read[r].stage = "idle"
    /\ read' = [read EXCEPT ![r].stage = IF active # Nobody THEN "listed" ELSE "looking"]
    /\ Reading

LookForLegacy(r) ==
    /\ read[r].stage = "looking"
    /\ read' = [read EXCEPT ![r].stage = IF legacy THEN "listed" ELSE "absent"]
    /\ Reading

ReadReceipt(r) ==
    /\ read[r].stage = "listed"
    /\ read' = [read EXCEPT ![r] = [stage |-> "inspecting", gen |-> active]]
    /\ Reading

Loadable(g) == IF g = Nobody THEN legacy ELSE stored[g] = "bundle"

LoadBundle(r) ==
    /\ read[r].stage = "inspecting"
    /\ read' = [read EXCEPT ![r].stage =
          IF Loadable(read[r].gen) THEN "compatible" ELSE "broken"]
    /\ Reading

EndRead(r) ==
    /\ read[r].stage \in {"compatible", "broken", "absent"}
    /\ read' = [read EXCEPT ![r] = NoRead]
    /\ Reading

PlacerStep(p) ==
    \/ \E g \in Generation : Acquire(p, g)
    \/ Mkdir(p)
    \/ \E bundle \in {"bundle", "unfit"} : Copy(p, bundle)
    \/ Verify(p) \/ Fails(p) \/ Activate(p)
    \/ \E g \in Generation : Clean(p, g)
    \/ CleanLegacy(p) \/ Unlock(p) \/ PlacerDies(p)

PlacementNext ==
    \/ \E p \in Placer : PlacerStep(p)
    \/ StartRemoval \/ RemoveSome \/ EndRemoval
    \/ \E r \in Reader : \/ LookForReceipt(r) \/ LookForLegacy(r)
                         \/ ReadReceipt(r) \/ LoadBundle(r) \/ EndRead(r)

PlacementSpec == PlacementInit /\ [][PlacementNext]_placementVars

----------------------------------------------------------------------------
\* The receipt names a generation that is complete and was loaded at that
\* very path, through failures, deaths and the cleaning of other generations;
\* a removal, which takes no lock, is the one thing that may cross it.
ActiveIsWhole ==
    removal = "none" /\ active # Nobody => stored[active] = "bundle"

\* A placement that fails leaves the receipt of the previous one in place.
FailureKeepsPrevious ==
    \A p \in Placer : removal = "none" /\ place[p].stage = "failed" => active = place[p].was

\* An adapter is reported as broken for want of its bundle only when the
\* receipt the reader went by, or the lack of one, is out of date: the state
\* on disk is whole, and reading it again would help.
BrokenIsReplaced ==
    [][\A r \in Reader : read[r].stage = "inspecting" /\ read'[r].stage = "broken"
          => removal # "none" \/ active # read[r].gen]_placementVars
=============================================================================
