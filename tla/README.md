# Verification of the facets package manager

`facets` installs *facets* (bundles of skills, agents, commands and MCP server
configurations) into a project through *adapters*, one per AI tool. This
directory holds TLA+ models of the parts of it that are hard to test, the TLC
runs that check them on small instances, and proofs of their main invariants.

Paths below are relative to `packages/engine/src/` of the repository unless
they begin with `packages/`, `openspec/` or `docs/`.

## Reading guide

| Module | What it is |
| --- | --- |
| `FileTransaction` | the file transaction of a run, with other programs at work |
| `FileTransactionInvariant` | its inductive invariants |
| `AtomicBatches`, `FileTransactionRefinement` | what it promises, and the mapping onto it |
| `FileTransactionProofs`, `FileTransactionTreeProofs` | its theorems: files; directories and the refinement |
| `InstallLock`, `InstallLockProofs` | the advisory lock file, and its theorems |
| `VersionSpecs` | versions, specifiers, and what an update makes of them |
| `MaterializationPlan` | under which name a contribution is placed, and which contend |
| `ProjectRecords` | manifest, lockfile and receipt, and what commands compute from them |
| `InstallRun` | `install`, `add`, `remove` and `update`, from the lock to the release |
| `InstallRunInvariant`, `InstallRunProofs`, `InstallRunRecordsProofs` | its invariants; its theorems: consent and decisions; journal, receipt and refinement |
| `ProjectState` | what a project may rely on its commands for |
| `FacetCache` | a cache slot under concurrent fetches |
| `AdapterPlacement` | the generations of an installed adapter |
| `OAuthStore` | the session file and its SQLite lock |
| `OAuthSession` | login, credential resolution and logout over that store |
| `OAuthSessionInvariant`, `OAuthSessionProofs` | its inductive invariant, and its theorems |
| `SessionLifecycle` | what a session file promises its readers |
| `DevicePoll` | the polling of a login |
| `HttpRetry` | the retries of one request |
| `MachineProofs` | the theorems of the cache, the placement, the polling and the retries |
| `InstallView` | the screen of an installing command and its questions |
| `CollisionWorkspace` | where a user settles name collisions |
| `EditSession` | an interactive `facet edit` |
| `ScreenProofs` | the theorems of the last three |
| `MC*` | the values of the constants for TLC |

Two of the `MC*` modules combine models that share no variable, so that one
run checks all of them: `MCMachine` (cache, adapter, login, request) and `MCParts` (lock,
screen, workspace, edit). A behaviour of such a run is a behaviour of one part,
chosen at the start; the others rest in one initial state.

The definitions whose comment begins with `Fault:`, and the few actions that
stand unused before one they resemble (`WriteWhereFree`, `CommitOverOthers`,
...), are not part of any specification: each is the definition after it as a
plausible bug would have it. They document what the properties can tell apart.

## Inventory

### Components and how they interact

A command of the CLI becomes a call of the engine. `install`, `add`, `remove`
and `update` all end in `runInstall` (`install/run-install.ts`), which

1. takes the **install lock** before it reads anything,
2. loads the manifest, the lockfile and the machine-local **receipt**,
3. passes its gates (a stale update plan, incompatible adapters, a frozen
   lockfile that has drifted),
4. resolves every facet, through the **cache**, the **registry client**, git
   or a local directory, and composes them (**materialization planner**),
5. obtains consent for collisions and for MCP servers,
6. opens a **file transaction** and, through the adapters' planners, deletes
   what is obsolete, writes what is wanted and merges the server
   configurations,
7. commits manifest, lockfile and receipt as one batch of that transaction,
8. rolls the transaction back if any of 6 or 7 fails, and releases the lock.

Nothing before 6 writes to the project, so failures before it need no rollback.
In a terminal the questions of 5 and 6 are promises that the **install screen**
settles; collisions are settled in the **collision workspace**. `facet edit`
works on the other side, on the sources of a facet, and ends in a transaction
of its own. The registry client takes its credential from the **OAuth session**
component, which keeps one session file per registry origin in the **OAuth
session store**, shared by all processes of a user.

| Component | State | Operations | Hard behaviour | What makes it correct | Modelled |
| --- | --- | --- | --- | --- | --- |
| file transaction (`fs/`) | journal, savepoint, created directories; the project's files | `apply`, `rollback` | failing system calls that took effect, other writers, several batches on a path | all or nothing, complete and truthful rollback, no blind overwrite | yes |
| install lock (`install/lockfile-guard.ts`) | one lock file holding a pid | acquire, take over, release | death at any step, two takeovers at once | exclusion, a dead holder does not block | yes |
| install orchestration (`install/run-install.ts`, `install/commit/`, `install/mcp/`, `install/materialize.ts`) | manifest, lockfile, receipt, adapter files | `runInstall` | gates before mutation, deletes before writes, tri-write, cancellation, rollback | the three files agree; a failed run leaves the project as it was; nothing unapproved is configured | yes |
| facet resolution (`install/commit/resolve-*.ts`, `compose.ts`) | resolved facets, collision plan | resolve, compose, finalize | collisions answered by the user, frozen mode | what is composed is what is locked | registry sources |
| facet removal (`install/remove/refine.ts`) | none | decide whether local state answers a removal | an untracked or drifted facet | never skips work for a facet this machine has not materialized | yes |
| update (`install/update/`) | the reviewed plan and its snapshot | discover, prepare, apply | the project moves between review and application | a stale plan is refused | yes, one facet at a time |
| receipt and lockfile (`install/receipt.ts`, `install/lockfile-io.ts`) | one file each | read, write, detect drift | missing, unreadable, spoilt and older receipts; older lockfiles | an unusable receipt, or record of it, claims nothing | yes |
| materialization planner (`packages/protocol/src/materialization/`) | none | plan effective names | alias swaps, stale overrides | two contributions never share a target | yes |
| facet cache (`cache/operations.ts`, `install/materialize-version/`) | one directory per slot | get, audit, evict, download, put | concurrent writers and evictors, no lock | what is served is vouched for | yes |
| adapter installation (`adapters/placement.ts`, `adapters/install-service.ts`) | receipt naming the active generation, generation directories | place, remove, load | readers during a replacement, cleanup of generations, death half way | the receipt names a complete, verified generation | placement, removal, readers |
| registry client (`registry/client.ts`, `registry/middleware/`) | attempt number, deadline | request with retries | last attempt against the deadline | bounded and truthfully counted attempts, only idempotent methods repeated | the retries |
| OAuth session store (`registry/oauth-store.ts`) | session file with a generation, SQLite lock | load, save, delete, under a lock | save fails after its rename, lock timeout, crash | generations replace each other one by one, only along legal transitions | yes |
| OAuth session (`registry/oauth-session.ts`) | what a process has in hand, the server's view | resolve with refresh, login, logout, local logout | refresh tokens are single-use; crash between request and save; concurrent commands | a sent token is recorded first and repeated only inside its window; only the selected session is ended | yes |
| device authorization (`registry/device-auth.ts`) | attempt, interval, consecutive failures | request, poll | expiry against attempts and back-off, a clock that is set | ends by the expiry, honours `slow_down` | the polling |
| install screen (`packages/cli/src/tui/views/install/install-view.tsx`) | phase, open promise, what is rendered and listening | ask, answer, interrupt | keys and signals between a state change, its render and its effects | no question is accepted unseen; an interrupt ends the run | yes |
| collision workspace (`packages/cli/src/tui/views/install/collision/`) | a draft of the project's intent | keep, alias, omit, confirm | an alias creates a conflict with a claimant not shown so far | nothing hidden blocks; nothing untouched changes | yes |
| authoring edits (`edit/`, `packages/cli/src/tui/views/edit/`) | one facet's manifest and files | reconcile, edit, apply | choices of three panels that concern one file | no text is lost unasked; what is declared exists | the interactive session |
| content integrity (`packages/protocol/src/integrity`) | none | hash | none | hashing of bytes | no |
| schemas and loaders (`packages/protocol/src/schemas`, `loaders`) | none | validate, load | none | validation of one document | no |
| build and publish (`build/`, `registry/publish.ts`) | an archive | build, upload | none between states | a pipeline over files it only reads | no |
| self-update (`self-update/`) | outside the program | run a package manager | external | external | no |
| adapters (`packages/adapters`, `packages/adapter*`) | none | plan file changes for a tool | formats | layout of each tool | no |
| command line and terminal interface (`packages/cli`) | prompts | parse, ask, render | presentation | presentation | three of its screens, above |
| release scripts (`scripts`) | none | publish the repository | none | tooling | no |

### Hazards

`PROJECT.json` lists the hazards of the code at their lines, with the
properties that would catch each. One has none: `edit/context.ts:15`, the scan
an edit session works from is never compared with the disk again. No other
program runs in that model, and a property of it would restate that the
comparison is missing.

## The models

### File transaction (`FileTransaction`)

`fs/transaction.ts` is synchronous, so a run is one process. Everything else
that touches the same files is another program, and may step in between any
two of the run's system calls; the model gives each of them its own action.

| State | Code |
| --- | --- |
| `disk`, `dirs`, `litter` | what the paths hold; the directories; directories a staged temporary was left in |
| `pc`, `batch`, `cursor` | the place in `apply` (265), `unwind` (598) or `rollback` (311) |
| `savepoint`, `batchDirs` | the savepoint entries and directories of the batch in progress |
| `journal`, `created`, `clock` | the journal of the run, its created directories, the order counter |
| `todo`, `report`, `residue` | the entries still to be put back; the outcome of this undoing; that of a failed batch's own |
| `start` ... `treeEdited` | history, read by the properties only |

`Apply` plans a batch from the current files, with everything validation
refuses; `Preflight*` compares every file with the plan; `Recheck`, `Ensure`,
`Stage`, `Act` and `Verify*` are the steps of one mutation: the last look, the
missing directories, the temporary file, the arming of the savepoint together
with the rename or unlink, and the inspection of the result. `Act` arms and
acts in one step because nothing comes between the two but memory. `ActFails`
reports an error whether or not the call took effect. `AlreadyRestored`,
`LeftAlone`, `OursToRevert` and `PutBack*` are the three arms of `restore`
(644) and its two failures, shared by `unwind` and `rollback`. `RollbackEnds`
includes `mergeRollbackOutcomes` of `fs/rollback.ts`, which the caller applies
to the two accounts. `OtherWrites`, `OtherMakesDir` and `OtherRemovesDir` are
the other programs.

Data abstracted: bytes and permission bits are one value; an inspection fails
by a choice of its action, whatever the reason; the walk that makes missing
directories and the one that removes emptied ones are one step each; two paths
are two files (no case folding); `rmdir` succeeds exactly on an empty directory.
The death of the process is not in this model: the journal is in memory, and
what a death leaves behind is a question about the next run (`InstallRun`).

`AtomicBatches` is the promise to a caller when nobody else is at work: a batch
happens at once or not at all, and giving up returns every file, but for the
paths it reports. `FileTransactionRefinement` hides a batch in progress behind
the originals of its savepoint.

### Install lock (`InstallLock`)

One action per system call of `acquireLockFile` (80) and `makeLock` (145).
`file` records who created the lock file and whether its pid is written,
because `openSync(path, 'wx')` and `writeFileSync` are two calls. A process
that finds the file reads its pid (`ReadHeld`), asks whether that process is
alive (`Probe`), and if it is dead removes the path (`Unlink`) and tries once
more (`Retry`). Between any two of these calls the file may have become
another's. `Crash` is the end of a process, killed or by itself, and may happen
at the places in `CrashPoints`. The naming of lock files and the reuse of pids
are left out: a process is one life of a program. Two variables are history:
`overlap` says that two processes were removing a stale lock at the same moment,
`outdated` that one took a lock for stale on the word of a pid that was not the
file's any more. Either lets two processes in, and `Raced` is their disjunction. Two processes
that read the pid of one dead holder do the one or the other
(`lock_two_cleaners`). The second needs nobody to die inside: a process reads the
pid of a holder, that holder releases the lock and ends, the next creates the
file, and the probe of the old pid has the new lock removed (lines 103, 104 and
106); with `overlap` alone as its condition, the invariant fails that way.

### A run (`InstallRun`, on `ProjectRecords`, `MaterializationPlan`, `VersionSpecs`)

The three lower modules are operators only: which version a specifier admits,
what a project's overrides make of the names its facets bring, and what a
command writes into the manifest, the lockfile and the receipt. `InstallRun`
is the machine over them.

| State | Code |
| --- | --- |
| `manifest`, `lockfile`, `receipt` | `facets.json`, `facets.lock`, the machine's receipt |
| `disk` | what is at every place: a file of the tool, or an entry of its server configuration |
| `published` | what the registry has |
| `asked`, `holder` | every process's command; who has the lock |
| `step`, `run` | where the run is; what it loaded (`saw`), wants, resolved (`got`), and saw of the servers when it asked (`seen`) |
| `todelete`, `towrite`, `prompt` | obsolete files and assets still to be dealt with; the takeover question that is open |
| `journal`, `residue` | the transaction's journal, by batch; what it could not undo |
| `approved`, `shown`, `touched`, `before`, `stray` | history |

Up to the lock there is only `Review`, which plans an update from the files as
they are, without the lock, and `Refuse*`. `Begin` takes the lock, loads, and
passes the gates in the order of the code; a removal that `Refinable` allows
skips resolution. `Resolve`, `Compose` (with the question about collisions),
`PrepareServers` and `Consent` only read. `DeleteObsolete`, `AskTakeover`,
`TakeOver`, `WriteAsset` and `ApplyServers` write, one batch each, and the last
compares what it is about to do with what the user agreed to. `Commit` is the
batch of three files, `CommitFrozen` the receipt alone, which may also fail
without consequence. `Stop` is any failure, refusal, cancellation or interrupt;
`Undo` takes the journal back batch by batch. `Crash` is death at any step,
which in the middle of a commit leaves the manifest written, and perhaps the
lockfile. Around the run, others edit a place, pull other records from version
control, lose the receipt or one record of it, or publish a version.

Older formats are read and never written. A receipt from before there were
servers proves what was placed and says nothing of servers, so it approves none,
removes none, and no removal is answered from it (`Authority`). A lockfile of
those formats does not list servers (`Lists`), nor, the oldest, what was done with
a file (`Represents`): a frozen run refuses overrides it could not have recorded,
resolution compares only what is listed, and a removal that leaves something is
resolved.

`ProjectState` is the promise: the records go from what a command loaded to
records that agree with each other, all at once or not at all; a frozen run
writes the receipt of the lockfile it loaded (and, where the format of that
lists no servers, its own account of them); a death tears them in one way
only. `ImplementsProjectState` maps a run onto it.

Abstracted: one adapter, one file per asset, all servers of a tool in one
document; registry sources only (a git or local source has no version to
compare); the adapter API check left out. The
exclusion of the lock and the atomicity of a batch are assumed here and are the
subject of `InstallLock` and `FileTransaction`: what those find (two
takeovers at once, or one that comes late, a directory that goes, an edit under a second batch) can
happen to a run too. The facets of a run are resolved in one step, since
nothing is written in between.

### Facet cache (`FacetCache`)

One slot and the processes that fetch its facet: `Lookup`, `EnsureMeta`,
`AuditHit`, `Evict` and `EvictDone` (a tree is removed file by file), `Download`,
`Put` (which looks) and `Rename` (which acts), and then the three readings of
`install/commit/resolve-registry.ts:217-229`: `ReadTexts` (the manifest, with its
descriptions and servers, and the prompts), `HashFiles` (every other file, for
the plan that reconciliation holds against the lockfile, without `facet.json`)
and `ReadCompanions` (the bytes of the companions). There is no lock, and the
slot may change between any two of them. A version is published once, so
`original` is what both the registry and any lockfile vouch for; `forged` is a
directory that agrees with its own sidecar but with nobody else, `spoilt` one
that does not agree with itself, `partial` and `ruins` what a removal leaves of
the one or the others. Of a directory that is not the original, a reading may
find parts that are changed and parts that are not. `Tamper` is somebody at the
slot by hand.

### Adapter placement (`AdapterPlacement`)

`Acquire` to `Unlock` are the steps of `adapters/placement.ts`: lock, fresh
generation, directory, bundle, load at the final path, receipt by rename,
removal of the others. Readers (`adapters/inspect.ts`) take no lock: they
list, read the receipt, and load, in separate steps. A removal takes no lock
either, happens once, and is excluded from the promises where it crosses them.
The placers' lock is taken to be exclusive; for two takeovers at once see
`InstallLock`, which is the same code.

### Login and requests (`DevicePoll`, `HttpRetry`)

`DevicePoll` is `pollForTokens` in real time, with a wall clock that may be set
once: `Sleep` fixes when the loop wakes, `Passes` lets time go by, an answer
goes round with the old interval, with a longer one (`SlowDown`, `Transient`)
or ends. `HttpRetry` is one call with its repetitions under the deadline that
covers them all; a request that throws may or may not have been carried out.

### OAuth store and session (`OAuthStore`, `OAuthSession`)

`disk` is the session file: a generation and a session, or a tombstone. A save
is `CheckSave` (read the file, compare the generation, check the transition)
followed by `Rename`; only the SQLite lock (`Lock`, `LockTimeout`, `Release`)
makes the two one. `Rename` may take effect and still be reported as failed.

`me[p]` is what process `p` has in hand:

| Field | Code |
| --- | --- |
| `picked` | the snapshot a command selected before the lock |
| `cur`, `base` | the snapshot, and the session, of `resolveHeld` |
| `draft`, `resume` | the save in progress and what follows it |
| `outcome` | what the command reports |

Before the lock: `Choose`, `Configure`, `TakeSnapshot`, `Approve`. Under it:
`Enter*` (the four commands), `Resolve` (`resolveHeld`, 315), the refresh loop
`Fence`, `Dispatch`, `Rotated`/`Refused`/`Unclear`/`NotNow`, `Wake`
(`refreshHeld`, 396-469), `Verified`/`Unauthorized`/`Settle` (344-386), and
the logout's `Reread`, `Revoked`, `RevokedUnheard` (285-303, 503-530).
`GiveUp` is any call that fails or is cancelled. The server is free: an answer
may say anything the client can tell apart, and a request may have been done
without an answer. Tokens are numbered by rotation; the access and refresh
token of one number are issued together.

`SessionLifecycle` is what a reader of the file may rely on: the generation
grows by one, and the status moves along the arrows drawn in that module.

Left out: the precedence of personal access tokens, the binding of a session
to a client configuration (both refuse or bypass the operation as a whole),
the inspection of directories, ownership and permissions (a refusal before the
first read), platforms without a store, and a clock that is set back.

### Install screen (`InstallView`)

A question is a promise (`prompts`) that the run awaits while it holds the
project's lock. `phase` is the state last set, `shown` the screen last
rendered, `listening` the screen whose effects have run, that is, whose keys
and interrupt listener are in place: `Render` and `Flush` are separate steps,
and every key or signal in between meets the older screen. Consecutive
questions of one kind are drawn by one component, which keeps its selection
(`choice`). `Settle` is the closure bound to one promise, which works once.
What is drawn is left out.

### Collision workspace (`CollisionWorkspace`)

The draft is the intent of the whole project; after every edit the planner
(`MaterializationPlan`) is asked again and the groups are recomputed:
`DisplayGroups` joins whatever shares a claimant (`Together`) among the groups
of the start and those of now, over all claimants ever surfaced. Left out: the order of rows, the highlighted option
and scopes; the cursor may go to any row of its group.

### Edit session (`EditSession`)

`context` is the scan at the start. Differences between manifest and files are
resolved one by one, the READMEs are dealt with, names are added, removed and
renamed in a form, and `Apply` writes one batch computed from all three
(`FinalManifest`, `WrittenAt`, `Deleted`). A rename changes the list of names and
nothing else, so in the batch it is a template under the new name and a deletion
under the old one; `became` is history and remembers which it was. The scan's
glob passes hidden companions over (`Seen`), so a declared one is always
reported missing; if it is there and its asset is removed after a scaffold was
chosen, the batch names its path twice and is refused (`Twice`). File contents
are tokens: what the author wrote, an editor's result, a template, empty, absent.
Left out: descriptions, the version and privacy fields, other programs, and
`facet modify`, the non-interactive form of the same edits.

## What the runs check

Runs expected to pass:

| Run | Question | Answer |
| --- | --- | --- |
| `transaction` | Two files, two directories, two batches of two mutations, any call failing, nobody else at work: is a batch all or nothing, and a rollback complete? | `FailedBatchLeavesNothing`, `RolledBackToStart`, `ReportIsTruthful`, `BoundarySurvives`, `NoDirectoryLeftBehind` and `ImplementsAtomicBatches` hold |
| `transaction_edited` | And with two edits of files or directories by other programs during a batch? | what the run changed is accounted for, nobody's bytes are overwritten on an old look (`NoBlindWrite`), no file loses its directory, and the undoing of a batch or of a run ends (`UndoingEnds`) |
| `oauth_refresh` | Two commands of two processes, the clock, one death, one failing save | a sent token is recorded, counted and repeated only in its window; no rotation is lost without a fault; a session is ready only with accepted tokens; the file follows its life cycle |
| `oauth_commands` | Three overlapping commands over two logins | a confirmed logout is final, only the selected session is ended, the lock always comes free |
| `install` | Two processes with a command each, on six projects, with one edit by others and one death | between runs the receipt is true (`ReceiptIsTrue`) and complete (`NothingStranded`); a failed run leaves the project (`FailedRunLeavesProject`); no server runs that was not approved in that definition (`OnlyApprovedRuns`); nothing of others is replaced unseen (`TakeoversDisclosed`); an update applies what was reviewed; the records change together (`ImplementsProjectState`) |
| `machine` | Three fetches of one slot; two placers, a reader and a removal of an adapter; a login; a request | `ServesAnchored`, `BrokenIsReplaced`, `RunsOutAsExpired`, `KeepsInterval`, `RetriesAccounted` |
| `parts` | Four processes at one lock, two dying anywhere; a screen with four questions; a workspace of three revisions; an edit session of three changes | the lock is exclusive and owned (`ExclusiveUnlessRaced`, `HolderOwnsFile`) but for two races (`Raced`), and a written stale one goes (`WrittenStaleLockGoes`); no question is accepted unseen (`AcceptedWasShown`) and an interrupt ends the run (`InterruptEndsRun`); the workspace hides no conflict (`BlockersAreOnScreen`) and answers with the project's own intent (`ConfirmedIntentIsOwn`); an edit loses nothing unasked but in the two ways of `edit_content` (`LossesWereAskedFor`) and declares what exists (`DeclaredIsOnDisk`) |

Runs expected to find a violation, each of what the repository itself says:

| Run | What the text says | What the code does |
| --- | --- | --- |
| `transaction_directories` | `openspec/specs/installation/spec.md:1151`: a directory that existed before is never removed, even if empty | `pruneEmptiedAncestors` removes every empty directory up to the boundary, so a rollback that deletes a file it had created in a directory that was there, empty, removes that directory |
| `transaction_contested` | `openspec/specs/installation/spec.md:1123`: a file changed by another writer after the operation wrote it keeps that writer's content | when a later batch of the same run was planned on top of the other writer's content, the merged journal entry has the first original and the newest committed state, and the rollback replaces the edit |
| `lock_two_cleaners` | `install/lockfile-guard.ts:99`: two processes that both observe the stale pid cannot both acquire | the second `unlinkSync` removes the lock the first has just created, and both are inside |
| `lock_empty` | `install/lockfile-guard.ts:13`: the lock of a dead holder is treated as stale | a creator that dies before writing its pid leaves an empty file that is never treated as stale |
| `edit_content` | `openspec/specs/authoring__facets/spec.md:648`: primary content is preserved verbatim, and supplementary files keep their bytes, unless the author explicitly edits them | a rename in the form scaffolds a template under the new name and deletes the primary and the companions of the old one (`packages/cli/src/tui/views/edit/use-edit-session.ts:166-181`); `facet modify --rename` moves the file. With `MaxFormEdits = 0` the same run finds the other way: the glob of `edit/scanner.ts:87` does not match hidden files, so a declared one that is there is offered as missing, and a scaffold writes an empty file over it |

Deadlock is not checked in any of them: a run ends, and so do commands,
questions and sessions.

### Bounds

- *Paths, directories*: `MCFileTransaction` gives the two files a common
  boundary and one of them a directory below it. Two files are the least that
  shows a batch half done and one entry stranding another; two directories the
  least with a parent and a child, and a boundary that is not the parent.
- *Contents*: two, besides absence: with the original these are enough for
  ours, theirs and before.
- *Batches*: two for a journal that is folded. *Edits*: two, one to be adopted
  and one to collide, or one for each entry of a rollback. The theorems are for any number of all of these.
- *Lock*: four processes and two deaths: a dead holder, two that take over,
  and a bystander that may die as well. The late probe
  needs three: the holder that leaves, the next one, and the reader between them.
- *Install*: two facets, one of them with two versions; the first versions
  collide on a file and share a server definition, the second gives up the
  file for another and redefines the server. So there is a file whose
  ownership moves, one that becomes obsolete, a collision, and a changed
  definition under an old name. Six projects (none, one with a stranger's
  file in the way, one facet, two with an override, two on a machine without a
  receipt, and two whose lockfile and receipt are of an older format), eight commands in all modes, two answers to a collision, three
  pulls, one of them with a lockfile of the first format. One edit by others, because an edit that is taken back cannot be told
  from none by comparing contents, in the code or in the model; one death. Two
  processes are one to hold the lock and one that reviews, is refused, or
  comes next.
- *Cache*: three processes are two that race at the slot and one that evicts;
  one change by hand. *Adapter*: two placers, three generations (the old, the
  active, the staged), one reader, one death. The theorems are for any number.
- *Login*: a lifetime of 8 at the least interval of 2 is four polls, in the
  proportion of the code's 3600, 5 and 720, which makes the attempts just fill
  the lifetime; the clock may be set by 2 either way. *Request*: three
  attempts, as in the code.
- *Screen*: four questions are one of each kind and a second takeover, which
  is the component that stays. *Workspace*: three facets, two of which contend
  for an asset and a server; a third has an asset that an alias can run into,
  and, in the second project, an alias, an omission and a leftover override.
  Three revisions make a conflict, move it, and resolve it. *Edit*: two skills
  that can be renamed into each other and an agent, on four projects, one of
  which declares a hidden companion, with three changes in the form.
- *OAuth*: two processes and two logins (one to be replaced, one to replace
  it); `MaxTokens` 2 is one rotation; `ReplayWindow` 2 and `MaxTime` 3 let a
  window open, run and close; `MaxAttempts` is 2 (3 in the code) for one repeat
  within the limit and one beyond it. One crash and one failing save suffice
  for the states between a request and its record. `oauth_commands` trades the
  faults for a third command, which is what it takes for one to select, one to
  replace and one to be mistaken.

Bounds are guards of the actions they bound (`Start`, `Tick`, `Crash`,
`SaveFault`, `Apply`, the `Other*` actions, `Elsewhere`, `Tamper`, `Acquire`,
`Passes`, `AskUser`, `Revise`, `InForm`). `Rotated` has one too: a server that
has issued `MaxTokens` rotations answers otherwise.

Symmetry is declared only in runs without a liveness property.

### Fairness

- `FileTransaction!FairSpec`: weak fairness of `Run`. The transaction is
  synchronous code that waits for nobody, so once entered it goes on.
- `InstallLock!LockFairSpec`: weak fairness of each live process's `LockStep`,
  the user's repetition of a refused command (`StartOver`) included: without
  anybody asking for the lock, nobody would find it stale.
- `InstallView!ViewFairness`: the run behind the screen goes on when its
  promise is settled and comes back by itself in the end, and the terminal
  renders and runs effects. Nobody has to press a key; so the lock a question
  holds need not come free until somebody answers or interrupts.
- `OAuthSession!FairSpec`: weak fairness of each process's `Step`. Every
  request has a deadline, the wait for the lock has one, and the back-off is
  finite. Nothing is assumed of the server, the clock or the start of commands.

`MCParts` states the second and the third for the behaviours of that part. The
other runs check safety only.

## What is proved

Every safety property that a passing run checks, invariant or action property,
is proved for all values of the constants, and so are the three refinements.
The proofs hold for any sets of files, directories, contents, processes,
facets, versions, logins, projects and questions, and for any bounds, under
the assumptions stated in the modules:

| Assumption | Says | Because |
| --- | --- | --- |
| `FileAssumption`, `LockAssumption`, `PlacementAssumption`, `ProcAssumption`, `StoreAssumption` | markers are not values, every path lies below its boundary, bounds are numbers | they are `null`, `undefined`, and an authorized root that contains the file |
| `TreeAssumption` | a directory has the same directories above it, whichever file it is above | it is a file system |
| `NamesAssumption` | a name is an asset's or a server's, and no reserved word | the two are separate namespaces; dispositions are a tagged union |
| `DeclaresAssumption` | versions declare names; among some versions one is the newest | semantic versions are ordered, and a registry has published finitely many |
| `InputsAssumption` | what is asked, answered and pulled passes the schemas | nothing else is loaded |
| `WorldsAssumption` | a run starts on a project that earlier runs have left | what the theorems promise of it, so that it holds of the next run again |
| `RequestsAssumption` | the workspace is opened on a collision, with every alias legal | `Compose` asks only then |
| `ProjectsAssumption` | a facet's manifest names assets and files | its schema |
| `PollAssumption`, `RetryAssumption`, `MaxPromptsAssumption`, `SessionAssumption` | intervals and limits are positive numbers; attempts times the least interval are the longest lifetime | the constants of the code |

| Theorem | Says | In |
| --- | --- | --- |
| `TypeCorrect` | `[]TypeOK` of the transaction | `FileTransactionProofs` |
| `LedgersInvariant` | the inductive invariant `LedgersExplainDisk` | same |
| `AlwaysAccountedFor` | `[]AccountedFor` | same |
| `FailedBatchUndone` | `[]FailedBatchLeavesNothing` | same |
| `RollbackReturnsToStart` | `[]RolledBackToStart` | same |
| `RollbackReportsTruly` | `[]ReportIsTruthful` | same |
| `LooksInvariant` | the inductive invariant `LooksAreFresh` | same |
| `NeverBlind` | the action property `NoBlindWrite` | same |
| `TreeInvariant` | the inductive invariant `TreeSound` | `FileTransactionTreeProofs` |
| `WalksOrphanNothing` | `[]NothingOrphaned` | same |
| `BoundariesStay` | `[]BoundarySurvives` | same |
| `DirectoriesInvariant` | the inductive `RecordsScoped /\ DirectoriesRecorded` | same |
| `NoDirectoryLeft` | `[]NoDirectoryLeftBehind` | same |
| `AtomicBatchesImplemented` | `ImplementsAtomicBatches`, where `MaxEdits = 0` | same |
| `LockTypeCorrect` | `[]LockTypeOK` | `InstallLockProofs` |
| `HolderAlwaysOwnsFile` | `[]HolderOwnsFile` | same |
| `LockExclusive` | `[]ExclusiveUnlessRaced` | same |
| `Soundness` | the inductive invariant `Sound` | `InstallRunProofs` |
| `Typing` | `[]TypeOK` of a run | same |
| `Approval` | `[]OnlyApprovedRuns` | same |
| `Disclosure` | the action property `TakeoversDisclosed` | same |
| `Reviewing` | the action property `UpdateAppliesReviewed` | same |
| `Faithfulness` | the inductive invariant `Faithful` | `InstallRunRecordsProofs` |
| `Truth` | `[]ReceiptIsTrue` | same |
| `Completeness` | `[]NothingStranded` | same |
| `Ownership` | `[]ReceiptUncontested` | same |
| `Restoration` | `[]FailedRunLeavesUntouched` | same |
| `RestorationOfAll` | `[]FailedRunLeavesProject`, where `MaxEdits <= 1` | same |
| `Refinement` | `ImplementsProjectState` | same |
| `SessionInvariant` | the inductive invariant `SessionInv` | `OAuthSessionProofs` |
| `Fencing` | `[]SentIsFenced` | same |
| `Counting` | `[]ReplaysCounted` | same |
| `Vouched` | `[]ReadyIsVouched` | same |
| `Keeping` | `[]RotationKept` | same |
| `Confirmation` | `[]ConfirmedIsOver` | same |
| `Window` | the action property `ReplayedInWindow` | same |
| `Selection` | the action property `OnlySelectedReplaced` | same |
| `Implementation` | `ImplementsLifecycle` | same |
| `AnchoredAlways` | `[]ServesAnchored` | `MachineProofs` |
| `ReceiptNamesWhole` | `[]ActiveIsWhole` | same |
| `PreviousIsKept` | `[]FailureKeepsPrevious` | same |
| `BrokenReportsAreStale` | the action property `BrokenIsReplaced` | same |
| `LimitIsUnreachable` | `[]RunsOutAsExpired` | same |
| `IntervalIsKept` | the action property `KeepsInterval` | same |
| `AttemptsAreTrue` | `[]RetriesAccounted` | same |
| `Shown` | `[]AcceptedWasShown` | `ScreenProofs` |
| `Blockers` | `[]BlockersAreOnScreen` | same |
| `OwnIntent` | `[]ConfirmedIntentIsOwn` | same |
| `Losses` | `[]LossesWereAskedFor` | same |
| `Declarations` | `[]DeclaredIsOnDisk` | same |

**The ledgers.** None of the promises about files is inductive: whether a
rollback returns a file depends on what the journal says of it long before.
`LedgersExplainDisk` says that at every moment, for every path nobody else has
edited, the journal knows the state before the run, the savepoint knows the
state before the batch, the batch was planned from that, and together they say
what is on the disk; and while undoing, that whatever is neither still to do
nor reported is back. The promises are its cases at `failed` and `rolledback`.

**The looks.** `NoBlindWrite` also speaks of files others have edited. It rests
on `OrdersDistinct` (there is one newest entry, so the path that was inspected
is the one that is put back) and `LastLookHolds` (unless an edit fell in the
window, the path holds what the last inspection saw).

**The directories.** `TreeSound` is inductive by itself, other programs
included, because no step removes a directory that is not empty. A boundary
that was there is never recorded as created (`BoundariesKept`), and only
recorded directories are removed. That nothing is left behind is true only as
long as nothing had to be left where it is, which is `AllBack`; while it holds,
every directory was there before or is recorded, with all that is above it, and
so are the directories of every file that is to stand between batches
(`Recorded`). So when the last file is back, the walk over the records finds
every directory of the run empty.

**Atomic batches.** The batch in progress is hidden behind the originals of
its savepoint, so arming and writing a file are one stutter; the merge of the
savepoint into the journal is the commit, a refusal or the end of an unwinding
the failure. With nobody else at work, the ledgers say that this mapped disk
is what the abstract one is.

**A run: consent and decisions.** `Sound` says what a run knows. It loaded
records of the right kind; its wants follow from them; the versions it resolved
are admitted and reconcile with the lockfile; its plan has no collision. And
what it may place was agreed to: whatever is at a server's place, whatever the
journal could put back there, and whatever the receipt it loaded speaks for.
An update's version lies above the one in the lockfile it was reviewed with,
and the gate compares that file.

**A run: the journal.** `Retraceable` says, for every place, that the batches
of the journal form a trail from what the place would hold without the run to
what it holds (up to an edit by others, before which nothing will be undone).
So an undoing that can be carried out is right, however many batches touched
the place. `WorkDone` says what of the plan is on disk already. At the commit
it makes the new receipt true and complete (`ReceiptSound`), which the next run
relies on. `ReceiptUncontested` needs only that plans are free of collisions,
that a removal without resolution carries claims over unchanged, and that a
spoilt record takes claims away.

**A run: the refinement.** The records written agree with each other
(`WrittenAgree`, `WrittenRecords`), those of a frozen run with the lockfile it
found (`FrozenRecords`), and any other step leaves them alone.

**OAuth.** `SessionInv` says for every process what it has in hand compared
with the file. Under the lock they are equal (`Working`), until a save is about
to write one of six things (`Drafted`): a tombstone, a login, a fence, a
rotation, a rejection, a confirmation. `SentRecorded` is the heart: each token
sent was on disk, and while its refresh is open, the number and time on record
bound what was sent. `FreshUnseen` says that nobody has seen a login before its
process saves it. The refinement is short, because only `Rename` changes the
file, and `Drafted` says to what.

**The screens.** An acceptance is listened to only where the question was
drawn (`Offered`). In the workspace, the claimants on the screen contain every
group that ever formed, no draft has an illegal alias, and the intent is
unchanged off the edited ones. In the edit session every choice is one that was
offered, and what an asset became is in the form (so what is deleted was removed
or renamed); the rest is what `Apply` computes from them.

**The lock.** `ExclusiveUnlessRaced` needs to know, of the one process about to
unlink, that the file at the path is still that of a dead process: this is
`Guarded`, with `HolderOwnsFile`, the inductive invariant. Of one that has read a
pid and not probed it yet nothing need be known, since a probe that condemns
another file than the one at the path leaves its mark in `outdated`.

**The cache.** Nothing of the texts and the companions is compared with the
lockfile after they are read, so a locked fetch needs the same argument as any
other. `PastTheAudit` names the stages in which a fetch has seen that nothing bad
is at the slot; `Relies` says that until somebody tampers nothing bad is there
in those stages, and that all that was read so far is the original's. This needs
`PutsOriginal`, that other processes put only what has passed the same checks,
and that what an eviction leaves behind of a good tree says what the tree said.

**The placement.** `StagedApart` says that what is staged is not active, that
what is about to be activated has been loaded at its path, and that until then
the receipt is the one that was found. It needs the lock (`LockHeld`) and that
identifiers are fresh (`ActiveMinted`). A reader that has listed an adapter
keeps finding a receipt or an old bundle (`ListedStays`), so what it calls
broken has been replaced since.

**The poll and the request.** `AttemptsTakeTime` counts: every completed
attempt has taken a least interval, so before the attempts run out the lifetime
has. `SleepsInterval` is the same for the sum of what the server has asked for.
Of a request, `SentAsCounted` and `HandledOnce` follow the loop's counter.

**What the proofs corrected.** Attempts that failed showed where the models
were wrong, and they were changed after the code: the receipt that a removal
carries forward kept a file the lockfile no longer lists; a review did not
require the registry to answer for every facet; an absent lockfile could list
facets; and the workspace joined groups pairwise where the code closes over
shared claimants.

**Where a theorem has a condition.** With two edits by others, one can take the
other back, and then a failed run may leave its own change at a place that looks
untouched when the run compares contents. So `RestorationOfAll` is for one
edit, the bound of the run that checks it, and `Restoration`, of places nobody
edited, for any number. `AtomicBatches` speaks of a transaction that is alone,
hence `MaxEdits = 0`; with others at work `AccountedFor` and `NoBlindWrite`
say what remains.

## What is only model-checked

The four liveness properties, which are beyond the prover: `UndoingEnds`,
`WrittenStaleLockGoes`, `InterruptEndsRun` and `LockComesFree`. But for
the two conditions above, no other property of a passing run rests on the
bounds of its run.

## Observed, but stated nowhere as a property

Met while modelling; each can be read off the named lines.

- An asset that was added or removed in the reconciliation of `facet edit` is
  neither added nor removed: `applySupplementaryDeltas`
  (`packages/cli/src/tui/views/edit/use-edit-session.ts:104`) skips asset items
  because the form is to reflect them, and nothing makes the form do so
  (`openspec/specs/authoring__facets/spec.md:624` says that on Remove the
  descriptor goes). `ApplySupplementaryDeltas` models it.

- `install/run-install.ts` says of the removal that needs no resolution that
  every remaining asset "is already on disk"; only the receipt is consulted.
- `cache/operations.ts:118` says every read is audited again; a miss that finds
  somebody else's directory when it puts its own serves that one unaudited.
- `registry/middleware/retry.ts:21` says `Retry-After` is honoured; the pause is
  always computed without it.
- A reader that looks for a receipt and then for the old bundle may find
  neither while a placement replaces the one by the other.
- The attempts of a failed request are recorded on the error object as a
  property that cannot be redefined, so one object thrown by two calls would
  make the second throw another error.
- In `facet edit`, a missing asset that is to be scaffolded and is then removed in
  the form leaves its template behind, undeclared. A hidden companion that is to
  be scaffolded and whose skill is then removed or renamed makes the whole batch
  be refused, though every choice was one that was offered.
- `install/commit/resolve-registry.ts:220` says the chain has proved that the
  slot reproduces the locked integrity, and that plan and companions are read
  from it. They are read later: whoever changes the slot by hand after the audit
  can have other descriptions, prompts or companions installed than the lockfile
  vouches for, since `facet.json` is not among the files that are hashed
  (`install/verified-asset-plan.ts:92`) and the companions are read once more
  after the hashing. `ServesAnchored` excludes the fetches so disturbed.

## Not modelled

- *Hashing, schemas, loaders, adapters*: functions from documents to documents;
  there is no state between two calls of them.
- *Build and publish*: one pipeline that reads files and writes an archive.
- *Self-update, release scripts*: they run other programs, whose state is the
  interesting one.
- *Git and local sources*: further inputs of steps that are modelled. *A
  lockfile or manifest that does not parse*: refused before anything is done.
- *The update picker, the build and create views, argument parsing*: they
  collect an answer before anything is at stake.

## Plan

Done: the models above, their runs, and the theorems about every safety
property of them. Next:

1. Git and local sources in `ProjectRecords`, with the drift that only their
   hash shows; several facets in one update.
2. Of the file transaction, directories when others edit: what remains of
   `NoDirectoryLeftBehind` when something had to be left where it is.
