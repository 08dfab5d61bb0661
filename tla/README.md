# Formal models of Denju

TLA+ modules, TLC runs and TLAPS proofs for the parts of Denju where several
processes, requests or devices meet over shared state. Paths below are relative
to the repository root, `src/`. `PROJECT.json` is the machine-readable
companion: it maps each definition to the lines it models, lists the runs, the
mutated definitions that each property is known to catch, the findings, the
hazards and the theorems.

    tlc -workers 2 -config BlobStorage.cfg MCBlobStorage      # one run
    tlapm WorkspaceRegistryProofs.tla                         # one module's proofs

## 1. The system

Denju distributes agent skills (small directory trees). A *registry* (axum,
PostgreSQL, an object store) holds skills, their immutable revisions, releases,
forks, proposals, packs and teams. A *device* runs the `denju` command line and a
background service over one SQLite file, and shows each skill as a directory that
agents and editors use directly.

| Component | State | Operations | Hard behaviour |
|---|---|---|---|
| Private workspace, registry (`crates/denju-registry/src/workspace*.rs`, `fork_sync.rs`, `lifecycle.rs`, `release.rs`) | head, two generation counters, revision graph, operations, conflicts | prepare, commit, restore, rename, publish, unpublish, deprecate, delete, prune, accept a proposal | commits in two transactions with object-store work between them; retries; stale bases; pruning under prepared work |
| Content storage (`ingest*.rs`, `workspace_storage.rs`, `lifecycle_storage.rs`, `transfer.rs`) | blob rows, reference counts, collection candidates, objects | store, restore, attach, transfer, prune, drain | no transaction spans the database and the object store; READ COMMITTED checks; quota at its limit |
| Subscription sync, device (`apps/denju/src/public.rs`, `forks.rs`, `crates/denju-local/src/materialize.rs`, `db.rs`, `lifecycle.rs`) | desired and materialized revision, journals, lease, generations, canonical link | sync, recover, protect edits, fork, materialize, remove | two processes and the user's editor on one tree; crashes at any step; a lease that expires |
| Owned workspace, device (`apps/denju/src/workspace*.rs`, `owned_sync.rs`) | baseline, queued revisions, conflicts | capture, upload, merge, advance | offline queues, divergence, crash between answers and their record |
| Packs and release fan-out, registry (`packs*.rs`, `pack_*.rs`, `outbox.rs`) | authored membership, current pack revision, watermarks, release events | author a pack, publish, drain events | events numbered before they commit; drains and authors lock in different orders; drains that stop |
| Sources of a skill, device (`crates/denju-sync`, `apps/denju/src/pack_sync.rs`, `quarantine_sync.rs`) | suppressions, pack rows, apply journal, links | resolve, apply all or nothing, recover, quarantine | several sources disagree; a catalogue that changes during the sync; crashes inside a switch of many links |
| Teams (`teams.rs`, `team_policy.rs`, `team_access.rs`) | memberships, invitations, nominations | invite, join, change role, remove, leave, transfer, delete | joins against revocation and deletion; row policies that hide rows from statements |
| Names (`lifecycle.rs`, `team_rename.rs`, `transfer.rs`) | locator index, redirects | import, rename, transfer, delete | a rename prepared from a name and a namespace that have moved |
| Team skills (`private_catalog.rs`, `release.rs`, `team_rename.rs`) | releases, one draft per maintainer | provision, save, merge, restore, publish, rename | several drafts, one release line; a rename that rewrites all drafts |
| Proposals (`proposals.rs`, both sides) | proposals, the fork, the target's head | create, inspect, accept, reject, withdraw | acceptance of what was inspected earlier |
| Identity (`identity*.rs`, `setup.rs`) | installations, sessions, journals, local credentials | setup, claim, login, recover, log out, delete the account | three stores that no transaction spans; lost answers; a login that overlaps a deletion |
| Local forks (`forks.rs`, `fork_*.rs`) | fork rows, chains of revisions, promotion | capture, promote, resolve | a replay of many requests, cut off anywhere; names taken by other clients |
| Import (`owned.rs`, both sides) | import journal, snapshot, the user's directory, the new skill | plan, upload, commit, show, delete the directory | interrupted anywhere and run again over a directory and a skill that have changed |
| Upgrade and service (`upgrade.rs`, `service.rs`, `db.rs`) | executable, backup, daemons, schema version | upgrade, roll back, start, stop | two programs on one database; a replacement cut off anywhere |
| Harness projections (`projection.rs`, `harness.rs`, `lifecycle.rs`) | links per root, recorded names, lifecycle and writeback journals, derived views | reconcile, remove, rename, write back, refresh | the user's own entries; interrupted reconciles; two editable copies of one skill |
| Merge, wire formats, HTTP, discovery, administration, output | none, or single rows | many | not modelled, see section 6 |

Components interact as follows. A device saves with *prepare*, uploads, and
*commit*; the registry answers *advanced* or *diverged*, and the device merges a
divergence into a two-parent revision. A publication inserts a release and an
outbox event; devices learn of it by a hint or by polling and call *reconcile*,
which lists what the device does not report as materialized. Content storage is
written inside the transactions of every operation that stores a revision, and
its collector runs beside them.

## 2. The modules

### WorkspaceRegistry

One personal skill and its owner's workspace. The variables are the columns of
`resources`, `skill_private_workspaces`, `resource_revision_snapshots`,
`private_revision_operations`, `skill_workspace_conflicts` and `skill_forks`, plus
the handlers between their two transactions and the answers given so far.

* `Prepare` is `prepare_private_revision`: its decision under the row locks is
  `PrepareAllowed`. A replayed prepare changes nothing.
* `CommitRead` is the first transaction of `commit_private_revision`;
  `CommitAdvance`, `CommitDiverge` and `CommitReplay` are its second, which reads
  the operation again; `Abort` is every failure between or inside them.
* `RenameRead` and `RenameCommit` are the two halves of `rename_skill`.
* `RestoreSkill`, `AcceptProposal`, `PublishSkill`, `UnpublishSkill`,
  `DeprecateSkill`, `DeleteSkill`, `TombstoneAccount`, `PruneHistory` are one
  transaction each under the resource's row lock. What `restore_skill` reads
  before its transaction is guarded by the generation the request expects.

Revisions are identified with the operations that make them, because a revision
ID hashes the operation ID; a merge's operation ID is its conflict's ID, as the
code requires. Parents of revisions of other skills (`Foreign`) are not needed.
Authority, quota and object-store failures are `Abort`. Left out: the team branch,
fork promotion (`historical_skill_name`), request-hash refusals.

### BlobStorage

Blobs shared by the revisions of several skills in several namespaces. A storing
request (import, save or rename) goes through the phases *prepared*, *verified*,
*put*, *checked*; the last two transitions are inside its transaction: locks and
quota, then the writes. Locks are predicates on the phases (`SkillLocked`,
`NamespaceExclusive`, `NamespaceShared`). `PruneRead` and `PruneWrite` split
`prune_skill_history` where it reads the namespace's counts without a lock on them;
the code does this blob by blob, the model for all blobs at once (every property is
about one blob at a time). `DrainLock`, `DrainDeleteObject`, `DrainDeleteRow` split
`drain_blob_gc` around the call to the object store. Blobs have size one, and the
grace period is the step `GraceElapses`.

### SubscriptionSync

One subscribed skill on one device. Each process runs `sync_once` through the
places of `pc`; the database, the journal, the staging directories, the
generations and the canonical links are shared. Writing and deleting a directory
takes two steps, so that another process, or a crash, finds half of it: `partial`, or
`headless` when its `SKILL.md` is the missing half. `recover_*` lists the
open journals and then works from that list. `Crash` may happen at any place;
the lease and the journals stay. The user edits whatever is visible, into a valid skill
(`dirty`) or one that cannot be read (`broken`).

* Every sync first finishes open removals and then projects: `NothingToRemove` ends it
  when a materialized row has no link (`Projectable`), as
  `reconcile_harness_projections` does.
* `ProtectEdits` compares the visible tree with the desired release; a tree that cannot be
  read locks the subscription (`locked`). `CreateFork` saves the fork's row, and
  `ReplaceSubscription` opens the removal of the subscription in a step of its own; a
  second fork of one upstream fails on the unique index.
* `CheckGeneration` rebuilds an inactive generation that does not match its manifest and
  fails on one whose manifest cannot be built (`Readable`).
* A release has a name, so a rename upstream is a release with another one. After
  `UpsertDesired` the old name is removed (`RemoveRenamed`), and with it the row of the
  skill, which is the same row.

Abstractions: a local fork stays and suppresses its upstream; a removal step
is atomic with the advance of its journal row; claiming the lease and creating the
journal are one step; the catalogue refresh between `UpsertDesired` and what follows it
is a place of its own without effect here; suppressions by policy, packs and quarantine
are left out (`DesiredSources`), and so is a skill that moves into a team without a
release.

### WorkspaceSync

One owned skill on several devices of its owner, with the registry's `prepare` and
`commit` of saves and merges inlined (that part of `WorkspaceRegistry`, one step per
request, because its races inside a request are checked there). Per device: the
visible directory, `workspace_state` (`base`, `localHead`, `valid`, `status`),
`local_revisions` (`queue` holds the queued ones, `recorded` all), the row of
`workspace_content_conflicts` (`local`), and where its sync is (`run`).

* `Scan` and the steps of `CaptureStep` are `capture_one`: the lease and the scan of the
  directory, the read of the workspace's row, the read of the conflict, the decision from
  the queue, and the write, each a step of its own. A sync runs them (`StartSync`) before
  it lists the queue (`ListQueue`); on the devices of `Background` the service runs them
  beside a sync (`BackgroundCapture`). A process that dies in a capture leaves its lease
  (`LeaseExpires`).
* `Prepare` ... `PauseConflict` are `upload_one` and the transactions that record its
  answers; `Blocked` is `pause_remote_blocker`, `OperationReused` the error that is
  no blocker.
* `ReconcileSave`, `ReconcilePause`, `ReconcileMerge`, `Refresh`, `Materialize`,
  `Adopt`, `ClearConflict` are `reconcile_workspace_conflict` and
  `commit_merge_entries`; `ResolveWith` is `denju restore` of any stored revision during
  a conflict.
* `SettleClear`, `SettleCount`, `SettleResume`, `SettleRefused` are
  `settle_resolved_workspace_conflict`, which holds no lease: it clears the record, counts
  the queue and writes the status in three statements. The rest of `sync_owned_skill` shows
  the head.
* `Fail` ends a sync anywhere: a crash, a lost request or a lost answer.

A tree is the set of edits it contains, a merge keeps what either side added, and
`overlap` says which pairs of edits `merge_skill_entries` cannot combine; the merge
itself is deterministic and symmetric, as the code's is. A revision is its operation
and its tree, because its ID hashes both (and the parents, which the operation
determines). The head is materialized in one step: `SubscriptionSync` models that
procedure. `SettleClear` and `ReconcileSave` have the reads before their write of the
conflict record in one step with it: what a scan beside them can change in between is the
queue, which the two writes do not touch. Left out: pending and registry renames, local-only forks, suppression by
policy, quarantine, a second syncing process on one device.

### SharedHead and WorkspaceRefinement

`SharedHead` is what the private workspace promises to the devices that save to it,
without handlers, transactions, operations, generations, snapshots or pruning: one
current value and at most one open divergence of two values. A save is decided once. It
takes effect on the value it was made from, or it is kept beside the value that came
first, and from then on only the merge of the two is accepted. Restore and rename write on
top of the current value; an accepted proposal brings a value made elsewhere.
`WorkspaceRefinement` gives the refinement mapping and `ImplementsSharedHead`
states that every behaviour of `WorkspaceRegistry` is one of `SharedHead`.

### PackFanout

Skills with releases, packs that pin or follow them, the release events that
`publish_skill` inserts, drains and authors. `PublishInsert` takes the event's
number, `PublishCommit` makes it visible: commits may come in another order than
the numbers. A drain (`DrainLoad` ... `DrainApply`) takes the earliest event it
can see and applies it to one pack at a time; an author (`Request` ...
`AuthorCommit`) locks the pack's row, the pack, and every skill of the pack,
catches up with pending events, changes the membership and resolves it. The row
locks and the advisory locks are variables, `DeadlockVictim` is PostgreSQL ending
one transaction of a cycle, `Crash` a drain or a request that stops.

### DesiredSources

The sources of each skill (team assignment, direct subscription, personal pack)
in the registry, and one or two processes that sync. A sync begins with
`prepare_current_harness_roots`: it goes on only when no skill has two owners and every
row has its link (`Projectable`). Then quarantine (`Enforce`), recovery of
an interrupted apply, catalogue and resolver (`Strongest`, `Conflicted`),
suppressions, the direct subscriptions one by one (the row is stored by `DirectSent`, the
catalogue read again by `SentRefresh`, the link set by `SentPlace`), then
the pack skills: `ApplyPlan` journals the old links, `ApplySwitch` moves one link
per step, `ApplyFail` puts them back, `ApplyCommit` writes all rows; `Sweep` removes
links nobody owns. Names and renames are in `SubscriptionSync`.

### TeamAuthority, SkillNames, TeamSkill, Proposals

Four parts of the registry that meet only through rows one part treats as given.
Requests that hold the rows they decide on are one step; the module headers name the
ones that are not (joining, provisioning, renaming, inspecting). The row policies of
`migrations/0017_security_rls.sql` are part of the statements they filter:
`CanChangeRow` and `CanChangeSubscription` in `TeamAuthority`, `MayReplace` in
`SkillNames`. Invitations expire (`ExpireInvite`); everything else of time is left
out. Where `Resolve` of `SkillNames` looks a locator up, the row policy could hide a
private holder from the actor; the model lets everyone see the holder, and no property
depends on it. What a maintainer has `Inspected` in `Proposals` is what `denju proposal
accept` reads before it decides, not what an earlier `denju proposal show` printed.
Descent in `TeamSkill` (`Walk`) is the least set closed under parents, as the
recursive query of `revision_graph.rs` computes it. `MCRegistryParts` instantiates the
four side by side: the variable `part` chooses one of them in the initial state and the
others stay still.

### DeviceIdentity, LocalForks, Upgrade

`DeviceIdentity` has `denju setup` and its journal, claim, login, recovery, backup,
revocation, subscription and account deletion as steps of a command that may be killed
or lose the registry's answer between any two (`Stop`), on one device or two.
`LocalForks` has the fork of an edited subscription, its captures, the promotion
(one import, a commit per later revision, a rename), the three resolutions of a name
conflict, other clients that take and free names, and the service beside a command.
`Upgrade` has the executable, its backup, the schema version and the daemons, with a
service manager or with a pid file, from a standalone file or from npm. A manager
replaces the process it manages (launchd, systemd); the Windows scheduled task, whose
failed end is ignored so that an old daemon may stay, is left out.

### Import

`denju import` step by step: the journal found by path (`FindJournal`) or made
(`CreateJournal`), `Prepare`, `Stage`, `Commit` and `Verify` with the registry, then
`Desire`, `Materialize`, `Baseline` and `Switch` on the device, and `CheckSource`,
`RemoveSource`, `Finish`. Every change of the journal is the compare-and-set of
`update_import_journal`; `StopImport` ends a command anywhere and the next one resumes
from the journal. `ServiceSync` is the service's capture, upload and refresh of the
new skill in one step (`WorkspaceSync` has its inside). `RemoveSource` may stop halfway and
leave a rest of the directory that no later check accepts. `Watchful` says that nobody
touches the directory between its check and its removal, two adjacent calls.

### ProjectionNames and DerivedView

`ProjectionNames`: `allocate_projection_names` as `Kept`, `Claimed`, `IsLowestAlias` and
`Allocated` (a name is a sequence of parts, an alias the owner's name and the slug with
a suffix; the code's loop over the skills is stated as what each name must satisfy given
the names before it, and a plan exists as long as the list `Suffixes` lasts); a reconcile as plan, removal of stale links, one link per root and step, and
the row; the local *remove* and *rename* journals state by state (the links of the
earlier roots are gone when a later root refuses; a rename is refused while its new path
shows another skill); and the user, who adds and deletes entries. `LoseView` is a refresh
of an owned skill's view that stopped after it had deleted the directory: its links dangle
and their name is reserved. At most one name dangles at a time, and a skill that arrives on
a path which another skill of its owner still shows is left out.

`DerivedView`: an owned skill under an alias, whose copy can
be edited as the skill can; comparison with the agreed baseline, the writeback journal,
the refresh of the copy, capture, upload, materialization; `Derives` is the least
relation closed under "made from". When both sides have changed, the skill is `paused` and
not captured, and the sync goes on: `Upload` takes a save queued earlier, which ends the
pause, and `Materialize` then shows it over both sides. `Careful` and `Patient` say when the
user does not edit: during a sync or an open writeback, and while a save waits for an
upload that the registry would take. `MCDeviceParts` puts the six device modules side by
side as above. Three of them have two instances each, by a parametrised `INSTANCE`:
`D(procs, most)` is `DeviceIdentity` with one device or two, `I(procs, service)` is
`Import` with two commands or with one beside the service, and `U(kind, from, migrates)`
is `Upgrade` with a service manager and a replaced file or with a session daemon and npm.

## 3. Runs

Passing runs, each below three minutes with two workers:

| Run | Instance | Checks |
|---|---|---|
| `workspace` | three operations, two conflicts, two handlers, `MaxGen` 4 (108 thousand states) | type, one open conflict, history of conflicts kept, diverged saves survive, one outcome per operation, no head overwritten, generations never repeat, and the refinement of `SharedHead` |
| `workspace_fork` | two operations, one conflict, one handler, two upstream revisions, `MaxGen` 4 (183 thousand states) | the fork's base follows its merges |
| `blobs` | two requests, two skills, a personal and a team namespace, three revisions, two blobs (19 thousand states) | type, exact counts, references have rows, unreachable rows are candidates, bytes are deleted only when unreachable |
| `sync` | two processes, edits, two releases, the second under a new name, three operations, no faults (4.5 million states) | type; no visible edit is deleted |
| `sync_crash` | one process, two faults, re-subscription, edits, fair scheduling (155 thousand states) | what is visible is whole; the device settles after one fault and without edits |
| `workspace_sync` | two devices, two edits that overlap, three UUIDs, one fault or invalid edit; on one device the service scans beside the sync (2.5 million states) | type; recorded saves are stored or queued; on the other device clean means nothing queued; the head never loses an edit to a race |
| `workspace_converge` | two devices, two edits, no faults, fair scheduling (19 thousand states) | the devices converge |
| `packs` | two skills, one pack, a drain, an author, two release events, two authored changes, one abort, fair scheduling (126 thousand states) | membership and revision agree; no release is lost; public packs show releases; followers never go back; every release lands |
| `device_sources` | two skills, two revisions, one process, four changes at the registry, one crash, fair scheduling (65 thousand states) | applied rows are visible; a conflict keeps the last good revision; the device settles, or a sync that was cut off left a state which the projection check refuses (`SourcesReturn.cfg` shows one) |
| `registry_parts` | three people, one invitation, one nomination; two skills, three slugs, `MaxGen` 3; two maintainers, four revisions; two clients, two heads, two proposals (1.2 million states) | `TeamSafety`, `NamesSafety`, `TeamSkillSafety`, `DraftsKept`, `ProposalSafety` |
| `device_parts` | one device with two setups and two logins, two devices with one each; two fork revisions and one fault; two imports of one directory at once, one import beside the service, three trees each; three commands and four daemons; two skills, two roots, a lost view; four trees (1.1 million states) | `IdentitySafety`, `NewSkillSafety`, `UpgradeSafety`, `HarnessSafety` |

The last two runs each conjoin the invariants of several modules, one conjunction per
part, so that one run answers for the registry's rows of one kind and one for the device's.

Bounds. `MaxGen` bounds the generation counters and with them the number of
committed changes: a divergence, its merge and one more change fit. Two handlers
(requests, processes) are enough for every pairwise race; the operations explored
in `workspace` suffice for two stale saves against one advanced head. Three
revisions over two blobs give a shared and an unshared blob, and a revision pruned
while another keeps its blob. `MaxOps` bounds how often a process may materialize;
seven operations leave every behaviour of `sync_crash` with one fault and no edit room to
settle, and a run that runs out of operations would show as a violation of
`SyncSettles`. Two releases, the second renamed, give a switch between two names in
`sync`.
Two edits on two devices give a divergence, its merge or its refusal, and a save
queued behind either; `MaxIds` is enough for both saves and the conflict in
`workspace_sync` and is never reached in `workspace_converge`, where running
out would show as a violation of `DevicesConverge` (with `MaxIds` from 4 to 9 TLC finds
the same 18727 states). Convergence is claimed for two edits only: with three, the
automatic merge of one device and the directory of another can undo each other, or a
conflict is left to the user, and the devices need not agree. Two events of two skills,
whose transactions commit in either order, and an author who adds, pins or removes a
member between them are what the watermark of `packs` is for; one drain and one author
already form every lock cycle of two, and `publish_skill` is the third party. Two
skills in `device_sources` give a half-switched apply; four changes give a source that
arrives, wins, disagrees and goes. In `registry_parts` three people give an owner, a
member and a stranger; two maintainers a second publication; four revisions a release,
two drafts and a merge. In `device_parts` the second skill's slug equals the alias of the
first, which is the collision that the order of the allocator exists for; four trees give
an edit on each side, a save of another device and one more. `RootSymmetry` permutes the
two harness roots, which no action tells apart. `CHECK_DEADLOCK FALSE` is set where the
bounds end every behaviour.

Fairness. `SubscriptionSync!FairSpec` (`sync_crash`): weak fairness of each process's
steps, because a sync that has started runs, and the service starts one on every hint and
every poll; and of the expiry of a lease nobody holds, because `claim_lease` replaces
an expired row. No fairness is assumed of the registry, the user, crashes or failed
downloads (`MaxFaults` bounds the last two, which is the assumption that faults stop).
`WorkspaceSync!FairSpec` (`workspace_converge`) is weak
fairness of the next sync step of each device: the loop of `daemon` starts a sync on
every hint, every change and at least every ten seconds, and a started one runs on; and of
the next step of a capture, or of the expiry of a lease its process left behind;
`DesiredSources!FairSpec` and `LocalForks!FairForkSpec` assume the same of the same loop.
`PackFanout!Fairness`: a publication that inserted its event commits, a drain that can
step does (the recovery route starts one periodically), PostgreSQL ends some
transaction of every cycle (`deadlock_timeout`), and an author's transaction is strongly
fair, because a lock it waits for is released again and again and its queue is first come,
first served.

### Finding

One run expects a violation, in the words of a guide.

| Run | Property | What happens |
|---|---|---|
| `fork_promotion` | `PromotionEnds` | A device that stops between saving a local fork and removing the subscription it replaces makes the fork again at every later sync and fails on the unique index; the promotion is never reached. |

### Further reproductions

These configurations are not part of the regular runs; each ends in a counterexample
(`tlc -config OpenConflict.cfg MCWorkspaceRegistry`, and so on).

| Configuration, module | Property | What happens |
|---|---|---|
| `OpenConflict`, `MCWorkspaceRegistry` | `OpenConflictCanBeMerged` | A restore, rename or accepted proposal moves the head while a conflict is open; afterwards neither the merge nor any other save is accepted. |
| `BlobBytes`, `MCBlobStorage` | `StoredRevisionsHaveBytes` | Between the PUT of a commit and its transaction the collector deletes the object. |
| `BlobQuota`, `MCBlobStorage` | `QuotaHolds` | Two saves check the quota under a shared lock and both commit. |
| `SyncPartial`, `MCSubscriptionSync` | `VisibleIsWhole` | Recovery in a second process deletes a staging directory between verification and rename. |
| `SyncEdit`, `MCSubscriptionSync` | `EditBecomesFork` | An edit between the protection check and the switch disappears from view without a fork. |
| `SyncRename`, `MCSubscriptionSync` | `RenamedKeepsWorking` | A subscribed skill is renamed upstream and nothing fails (`guides/lifecycle.md:13`). The sync that follows stores the new name and release in the skill's row, removes the old name and with it that row, switches the link and cannot mark the release: the journal it leaves fails the recovery of every later sync. |
| `MergeRevert`, `MCWorkspaceSync` | `SavesContainParent` | A sync stops after it queued a merge and before it shows it; the next capture saves the old directory on top of the merge. |
| `SourcesReturn`, `MCDesiredSources` | `WeakerSourceReturns` | A pack skill of a team is also subscribed to directly and the team's policy goes; the sync stores the subscription's row and is cut off before it reads the catalogue again. The skill has two owners, and the projection check at the start refuses every later sync (`guides/teams.md:128`). |
| `ImportRerun`, `Import` | `RerunNeverReverts` | An import that stopped, or refused because the directory had changed, is run again after the service saved an edit of the new skill: row, link and visible tree go back to the first revision, and the next scan saves that. |
| `ProposalSync`, `Proposals` | `AcceptedInSync` | A release published between inspection and acceptance does not stop the acceptance (`spec/wire/proposals-v1.md:28`). |

Other properties stated in the modules that TLC refutes when they are put into a
configuration of the kind above: `BlobStorage!HeldBlobsCharged` (prune deletes the
namespace's row because of a count read before another skill's save);
`WorkspaceSync!ResolvedConflictSettles` (a custom resolution by `denju sync` leaves the
device's conflict record, and every later sync refuses the skill);
`SubscriptionSync!InterruptedSwitchCompletes` under `SyncPartial.cfg` (a switched journal
whose release is no longer desired fails every later recovery), `ForkOnlyFromEdit` under
`SyncEdit.cfg` with `MaxFaults = 1`, `MaxSubs = 0` and `Edits = FALSE` (after a failed
download the next sync takes the untouched old release for an edit and forks it),
`VisibleEditKept` under `SubscriptionSync.cfg` with `Slow = TRUE`, `MaxFaults = 1` and
`Name <- OneName` (a process that outlives its lease deletes a generation that has become
visible and edited) and `SyncSettles` with a second fault (a crash between the fork's row and
the removal) or with edits (a generation that the user broke and that is no longer
visible cannot be rebuilt, which the comment at `materialize.rs:257` says a stale cache
always can); `WorkspaceSync!CleanMeansUploaded` read for a device of `Background` (a scan
queues a save between the count and the write of `resume_workspace`);
`DesiredSources!QuarantineTakesDown`, also with `MaxCrashes = 0` (a skill whose team
sources disagree keeps its last good revision also when it is quarantined,
`guides/trust-and-safety.md:44`), `ConflictKeepsLastGood` with `DirectRevs <- MCDirectAll`
(a direct subscription to such a skill records a row without content, and the apply then
takes the last good revision away) and `AppliedRowsVisible` with two processes (the
recovery of one puts back the links of an apply that the other is about to commit) or with
`MCDirectAll`, `MaxChanges = 6` and `Quarantinable = {}`;
`TeamSkill!BehindCanMerge` (a maintainer whose draft shares no readable base with the
release that came first cannot record the conflict the answer asks to resolve); `TeamAuthority!NominationAccepted` (the row policy hides
the owner's membership from the nominee, so `accept_team_owner_transfer` never succeeds),
`DepartedKeepNothing` and `WorkspaceNeedsAuthority`; `SkillNames!ReusedNameForgets` and
`RenamePossible` (a redirect that leads to a skill of a team the actor has left is neither
deleted nor replaced); `TeamSkill!DraftNamesSkill`; `DeviceIdentity!SecretShown`,
`DeletionCanFinish` and `DropsOnlyRevoked`; `LocalForks!ForkWorkKept` with `Service = TRUE`;
`Import!NoWorkLost` with `Background = TRUE`, `ImportNeverBlocksItself` with two commands
and `RemovedIsStored` with `Watchful = FALSE`;
`Upgrade!UpgradeSound` for a session daemon with `Migrates = TRUE`, `RolledBackRuns` (the new program has migrated the database that the restored one
then refuses), `OneDaemon` and `RestartWorks` for a session daemon;
`DerivedView!NoSaveLost` with `Careful = FALSE`, `Patient = FALSE` (both sides are edited
while an earlier save waits: the upload ends the pause and the head is materialized over
both) or `LateStop = TRUE`, and `ViewUsable`; `ProjectionNames!RenameApplicable` with three
skills of which two are owned (the refused rename stays open and ends every later
command), `NoOrphanLink` and `OneResourcePerName` (a reconcile that stops between a
link and the row that records it leaves a link that no later one knows).

## 4. Proofs

Eight modules hold theorems. Each is about the specification of its component for
every value of the constants, the bounds included. An invariant is proved by an inductive
one, an action property from the same. `tlapm M.tla` checks module `M`.

| Module | Theorem | Property |
|---|---|---|
| `WorkspaceRegistryProofs` | `TypeCorrect` | `TypeOK` |
| | `OneConflict` | `AtMostOneActiveConflict` |
| | `ConflictsMergeable` | `ConflictHistoryKept` |
| | `NoSaveDropped` | `DivergedSavesSurvive` |
| | `CommitIdempotent` | `OneOutcomePerOperation` |
| | `NoLastWriterWins` | `HeadNeverOverwritten` (action) |
| | `GenerationsAdvance` | `GenerationNeverRepeats` (action) |
| | `ForkBaseAdvances` | `ForkBaseFollowsMerges` (action) |
| | `RegistryKeepsPromise` | `ImplementsSharedHead` (refinement) |
| `BlobStorageProofs` | `TypeCorrect` | `TypeOK` |
| | `CountsExact` | `RefCountsExact` |
| | `RowsKept` | `ReferencesHaveRows` |
| | `NothingLeaks` | `UnreachableIsCandidate` |
| | `CollectionSafe` | `CollectedOnlyWhenUnreachable` (action) |
| `PackFanoutProofs` | `MembershipAgrees` | `IntentMatchesRevision` |
| | `ReleasesKept` | `NoReleaseLost` |
| | `PublicShowsReleases` | `PublicPackShowsReleases` |
| | `NeverRegress` | `FollowersNeverRegress` (action) |
| `WorkspaceSyncProofs` | `TypeCorrect` | `TypeOK` |
| | `WorkDurable` | `CapturedWorkDurable` |
| | `CleanUploaded` (one process on the device) | `CleanMeansUploaded` |
| | `EditsKept` | `HeadNeverLosesEdits` (action) |
| `SubscriptionSyncProofs` | `TypeCorrect` | `TypeOK` |
| | `VisibleWhole` (one process) | `VisibleIsWhole` |
| | `EditKept` (one process) | `VisibleEditKept` (action) |
| `DesiredSourcesProofs` | `RowsVisible` (one process, separate sources) | `AppliedRowsVisible` |
| | `LastGoodKept` (one process, separate sources) | `ConflictKeepsLastGood` (action) |
| `RegistryPartsProofs` | `TeamSafe` | `TeamSafety` |
| | `NamesSafe` | `NamesSafety` |
| | `ProposalsSafe` | `ProposalSafety` |
| | `TeamSkillSafe` | `TeamSkillSafety` |
| | `DraftsSafe` | `DraftsKept` (action) |
| `DevicePartsProofs` | `IdentitySafe` | `IdentitySafety` |
| | `NewSkillSafe` | `NewSkillSafety` |
| | `UpgradeSafe` | `UpgradeSafety` |
| | `HarnessSafe` | `HarnessSafety` |
| | `UpgradeSoundEverywhere` (every kind and source) | |

Hardly any of these properties is inductive. What the inductive invariants add, and why:

* `WorkspaceRegistryProofs!IndInv`. The workspace generation never exceeds the
  resource's (`GenOrder`, why setting one from the other never goes back); everything an
  operation, conflict or release names is a stored revision (`SnapshotsAreRevisions`,
  `OperationRows`); a rename that is still current read the present head
  (`RenameReads`, why comparing one counter is enough); every answer given equals the
  stored outcome (`RepliesAreStored`).
* The refinement uses that invariant: `CommitAdvance` maps to `Advance`, `CommitDiverge`
  to `Diverge`, restore and rename to `Rewrite`, an accepted proposal to `Adopt`, and
  every other step to a stutter of `SharedHead`.
* `BlobStorageProofs!IndInv`. A request that has passed its check still has its skill to
  itself (`LocksHeld`), what a prune read is still there when it writes
  (`PrunesKeepHead`), no two requests make one revision (`RevisionsAreNew`), and a blob
  whose row a drain has locked has no reference (`DrainsUnreachable`). Counts are
  cardinalities, so that storing and deleting a revision changes them by one.
* `PackFanoutProofs!IndInv`. The releases of a skill are numbered as their events are,
  although the events of different skills commit in any order (`EventsNumbered`,
  `PublishesOrdered`); a drain works on the first incomplete event of its skill
  (`DrainsInOrder`); a member's watermark was taken while no publish of its skill was
  open, and what is pending for a pack is newer than what it shows (`PackInOrder`).
* `WorkspaceSyncProofs!IndInv`. Everything numbered is older than the next UUID, an
  operation keeps the row it was prepared with, the open conflict is between the head and
  a stored save made on its base (`RegistryInv`); what a sync carries from one request to
  the next is still true of the registry when it uses it (`RunInv`), and so is what a
  capture carries from one read to the next (`ScanInv`). `CleanUploaded` is about the
  devices outside `Background`; the other three hold with a scan beside the sync.
* `SubscriptionSyncProofs`. `TypeInv` is inductive for any number of processes.
  `AloneInv` says what each place of the procedure knows of its journal and generation
  (`WorkInv`) and that a recovery has every open journal on its list as it is
  (`RecoveryInv`), names and records included. It needs the hypothesis `Alone`: at most one process. That is not for
  convenience: with two processes `SyncPartial.cfg` violates `VisibleIsWhole` and
  a process that outlives its lease violates `VisibleEditKept` (section 3). The run `sync` shows
  `VisibleEditKept` for two processes without faults.
* `DesiredSourcesProofs!IndInv`. The journal of an apply has the rows as they are until
  the commit (`JournalInv`); the link of a skill that only teams and packs bring shows its
  row, unless a journal lists it (`LinkInv`); and each place of a sync has what it planned
  (`Planned`: what is not switched shows its new row already, a skill in conflict is never
  switched). Two hypotheses, which the instance of `device_sources` satisfies: one process
  (`Alone`), and `Separate`, no direct subscription to a skill whose team or pack sources
  may disagree. Both are needed: two processes violate `AppliedRowsVisible`, and with
  `DirectRevs <- MCDirectAll` TLC refutes `ConflictKeepsLastGood`, and also
  `AppliedRowsVisible` with six changes and `Quarantinable = {}` (a catalogue read again
  for another skill finds a conflict that the removal of the subscription did not know of,
  and keeps a row whose link is gone).
* `RegistryPartsProofs!PartInv`. A join that has passed its checks holds its invitation
  alone and the invitation stays usable meanwhile (`JoinsHold`); the last skill to get a
  name is recorded, and it has the name or the redirect from it (`HolderInv`); only
  the last proposal can be open, which bounds the generations (`OpenIsLast`), and a
  generation that a client has read names the head it had (`DetailsTrue`, why comparing
  the generation is enough for an acceptance to replace only what was seen).
  For team skills (`SkillInv`): a revision's parents are older than it (`Past`), each
  release descends from the one before (`Line`), what a revision holds was saved in its own
  history or in a release's (`Origins`), and neither a draft, nor a side of its conflict, nor
  a request under way leads to another's unpublished work (`Private`). Descent is a least closed set, so a lemma about it
  exhibits a closed set; no induction along the graph is used.
* `DevicePartsProofs!PartInv` is one conjunct per part:
  * `UpgradeInv`: which executable and which backup are on disk at each place of the
    command (`ExecutableAt`), which daemons may run there (`DaemonsAt`), and what a
    success that has been reported still means (`Reported`).
    `UpgradeSoundEverywhere` states the same for every service kind and source. It
    excludes a session daemon together with a release that migrates the database, because
    there TLC refutes `UpgradeSound`: a session daemon is stopped by its pid file, so a new
    one that has not written it yet survives the rollback and migrates the database after
    the old program was reported restored.
  * `ImportInv`: what each place of an import relies on of its journal and the registry
    (`CommandOK`), which an interrupted or second command cannot take back because every
    change of the journal is a compare-and-set; at most one open journal when one command
    runs at a time (`OneJournal`, why it never blocks itself); and every tree of the user's
    is in the directory, set aside, on show or stored (`Kept`).
  * `ForkInv`: the fork's row has every captured revision (`ForkHolds`); an import has
    committed exactly when there is a skill, hidden until it has the whole history that
    the import named (`PromotionHolds`); and a sync that drops the fork has seen that skill
    at the fork's own head (`SyncHolds`).
  * `IdentityInv`: only live accounts have sessions and nothing of a deleted one is valid
    (`RegistryOK`); a device has one open setup, whose credential it holds past *planned*,
    and an identity only with an installation whose subscription is adopted (`DeviceOK`);
    what a command carries between two requests stays true (`IdentityCommandOK`).
  * `ViewInv`: the harnesses show the view of the materialized revision, but for the
    moment before its projection (`Projected`); while a save waits for its upload no side
    has changed since it was captured (`Waiting`, why an upload that ends a pause hides
    nothing); baseline, sides, queue and head follow one
    another (`InLine`); a half-made copy or an open writeback means that only the other
    side, or only that one, has changed (`SideChanged`); and a tree that is not
    materialized yet has no view of its own (`NewTrees`, why a refresh overwrites nothing).
    `HarnessSafe` is for a user who edits neither during a sync nor while a save waits for
    its upload.
    The proof showed that the guards of `Decision`'s `CASE` overlapped, where the code
    takes the first; they are disjoint now.
  * `NamesInv`: every managed skill has its canonical link, but one whose removal has
    taken the link and not yet the row (`Canonicals`); a journal knows its skill's row, and
    only entries of the user's are in its way (`JobRow`, `JobFree`); in the body of a
    command the recorded names show their own skills or nothing of Denju's (`BodyLinks`); a
    plan is injective and fits what the roots hold (`PlanOK`, `Given`),
    where the name of a dangling link is reserved; and after an
    undisturbed reconcile the allocator would give the same names again (`Settled`). The
    last is why a second reconcile never removes a link that another skill needs.

Assumptions. In every module an absent row (`None`) is no value of a column or table
(`NoneIsNoValue`, `NoneIsNoRow`, `NoneIsNoRecord`, `NoneIsNoJournal`, `NoneIsNoApply`, and parts of the
others) and bounds are natural numbers. Beyond that: identifiers of different kinds differ
(`IdsDistinct`); skills and packs have numbers by which locks are ordered, and a drain, an
author and a skill are never the same lock holder (`PackFanoutAssumption`); the content of
a revision is fixed and a team is a namespace (`ContentAssumption`); the founder is a user
and every session belongs to one (`TeamAssumption`); skills have numbers, by which a
journal is ordered (`DesiredSourcesAssumption`); each release has a name
(`SyncAssumption`); the founder maintains the team's skill
(`TeamSkillAssumption`). For the device: users, commands and credentials are values
(`IdentityAssumption`); the instance with the service has one command
(`ProcessAssumption`); a fork has a first name (`ForkAssumption`); the marks for an absent,
an incomplete and a headless tree are no trees (`ImportAssumption`, `ViewAssumption`); at
least one daemon can run (`UpgradeAssumption`); rows, links and the user's mark differ
(`NamesAssumption`). TLC evaluates all of them in the runs.

Only model-checked:

* liveness (`SyncSettles`, `DevicesConverge`, `ReleasesLand`, `DeviceSettles`, and
  `PromotionEnds` and `RenamedKeepsWorking`, which are refuted), outside the prover's reach, as is `ENABLED`;
* `VisibleEditKept` for two processes.

Neither proved nor checked: that a plan of names exists while the suffixes last.
`PlanNames` is a step only when there is one, and the theorems are about such plans.

## 5. Plan

Every safety invariant and every action property of the passing runs has a theorem; what
is left to TLC is listed at the end of section 4.

Models still worth adding: the queued rename of a device, the client's merge of an
upstream release into a fork, the three-way merge over bounded trees.

## 6. Not modelled

* Three-way merge (`denju-core/src/merge.rs`): a pure function; the models take its
  result as the union of two sides' edits or as a conflict.
* HTTP, wire encodings, request hashes and object hashing: identities are model values,
  a request is the action it causes, a lost one is a fault of the action.
* Administration (`admin.rs`), discovery, catalogue, stars, shares, history: queries and
  single-row updates with no protocol of their own.
* Authentication itself: passwords, token hashing, rate limits, keychains.
* Service files, installers, npm packages, command line output.
* Time: expiry is a step that may happen, leases excepted (section 2).
