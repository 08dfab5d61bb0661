--------------------------- MODULE WorkspaceSync ---------------------------
(***************************************************************************)
(* The private workspace of one owned skill on the devices of its owner.   *)
(* A device scans the directory its user edits, queues each changed tree   *)
(* as a revision in SQLite, uploads the queue, and shows the registry's    *)
(* head when it has nothing of its own.  Two devices that save on the same *)
(* head diverge: the registry keeps both revisions and one of the devices  *)
(* merges them into a revision with two parents.                           *)
(*                                                                         *)
(* Requests to the registry and the SQLite transactions that record their  *)
(* answers are separate steps, and so are the reads of a scan and the      *)
(* write they lead to; a sync may end between any two of them.             *)
(* The registry is the part of WorkspaceRegistry that saves and merges     *)
(* use.  A tree is the set of edits it contains; a revision is identified  *)
(* by its operation and its tree, because its ID hashes both.              *)
(***************************************************************************)
EXTENDS Naturals, Sequences, SequencesExt, FiniteSets

CONSTANTS
    Devices,
    Edits,       \* what users do to the directory, each at most once
    Overlaps,    \* which pairs of edits a three-way merge cannot combine: the
                 \* possible answers, one of which holds throughout
    Choosers,    \* devices whose user ends a conflict with `denju restore`
    Breakers,    \* devices whose user may leave the skill invalid for a while
    Background,  \* devices whose service scans on its own, beside a sync
    MaxIds,      \* operation and conflict UUIDs are 1..MaxIds, in order of use
    MaxFaults,   \* bound on crashes, lost answers, quota refusals
                 \* and edits that leave the skill invalid
    None

ASSUME WorkspaceSyncAssumption ==
    /\ Overlaps \subseteq SUBSET SUBSET Edits
    /\ Choosers \cup Breakers \cup Background \subseteq Devices
    /\ MaxIds \in Nat \ {0} /\ MaxFaults \in Nat

Ids == 1..MaxIds
Trees == SUBSET Edits
Rev == [op : 0..MaxIds, tree : Trees]
Base == [op |-> 0, tree |-> {}]
Gens == 1..(MaxIds + 1)

Status == {"clean", "queued", "pausedValidation", "conflict", "quota"}

\* LocalRevisionRecord: `other` is the second parent of a merge.
Row == [rev : Rev, head : Rev, other : Rev \cup {None}, gen : Gens]

\* PrivateWorkspaceConflict, as the registry serves it.
Conflict ==
    {c \in [id : Ids, base : Rev, heads : SUBSET Rev, active : Rev, gen : Gens] :
        Cardinality(c.heads) = 2 /\ c.active \in c.heads}

\* WorkspaceContentConflictRecord.
LocalConflict == [conflict : Conflict, working : Trees, required : BOOLEAN]

VARIABLES
    head, gen,   \* skill_private_workspaces: revision_id, generation
    stored,      \* resource_revision_snapshots
    operations,  \* private_revision_operations
    open,        \* the unresolved row of skill_workspace_conflicts
    nextId,      \* the next UUID
    tree,        \* of each device: the visible directory
    broken,      \* whether that directory is at present no valid skill
    shown,       \* the generation the canonical link shows
    base,        \* workspace_state.base_generation
    localHead,   \* workspace_state.local_head_revision_id
    valid,       \* workspace_state.valid_root_tree_id
    status,      \* workspace_state.status
    queue,       \* local_revisions with state 'queued', in upload order
    local,       \* workspace_content_conflicts
    run,         \* where the device's sync is, and what it carries
    scan,        \* the capture that holds the lease of the skill, and what it
                 \* has read
    edits,       \* edits made so far
    recorded,    \* local_revisions of every state
    overlap,     \* the pairs of edits that cannot be merged
    faults

registry == <<head, gen, stored, operations, open>>
folder == <<tree, broken, shown>>
wsState == <<base, localHead, valid, status>>
database == <<wsState, queue, local>>
vars == <<head, gen, stored, operations, open, nextId, tree, broken, shown,
          base, localHead, valid, status, queue, local, run, scan, edits, recorded,
          overlap, faults>>

Reply == [state : {"advanced"}, gen : Gens] \cup [state : {"diverged"}, conflict : Conflict]
Operation == [row : Row, outcome : Reply \cup {None}]
Remote == [head : Rev, gen : Gens, open : Conflict \cup {None}]
Place == {"idle", "capture", "list", "drain", "prepared", "answered", "detached", "saved", "catalog",
          "owned", "kept", "merge", "cleared", "noneQueued", "someQueued", "upserted", "download", "switched",
          "refresh", "adopted"}
Run == [at : Place, todo : Seq(Row), merging : BOOLEAN,
        reply : Reply \cup {None}, remote : Remote \cup {None}]

\* WorkspaceStateRecord, as a capture reads it.
State == [base : Gens, head : Rev, valid : Trees, status : Status]

\* A capture has scanned the directory, read the row of the workspace, read
\* the conflict, or knows what to write; or its process died with the lease.
Capturing ==
    [at : {"invalid", "abandoned"}] \cup [at : {"scanned"}, tree : Trees]
    \cup [at : {"stated"}, tree : Trees, state : State]
    \cup [at : {"compared"}, tree : Trees, state : State, conflict : LocalConflict \cup {None}]
    \cup [at : {"setting"}, status : Status] \cup [at : {"enqueuing"}, row : Row]

\* None is no value of any of these types.
ASSUME NoneIsNoRecord ==
    /\ None \notin Rev /\ None \notin Conflict /\ None \notin LocalConflict
    /\ None \notin Reply /\ None \notin Operation /\ None \notin Remote
    /\ None \notin Capturing

Idle == [at |-> "idle", todo |-> <<>>, merging |-> FALSE, reply |-> None, remote |-> None]
Goto(d, place) == run' = [run EXCEPT ![d].at = place]
Stop(d) == run' = [run EXCEPT ![d] = Idle]

-----------------------------------------------------------------------------
(* Capture: capture_local_edits, under the lease of the skill *)

IsMerge(row) == row.other # None

\* queued_local_revisions orders by expected generation, then by creation.
Enqueued(q, row) ==
    InsertAt(q, Cardinality({i \in DOMAIN q : q[i].gen <= row.gen}) + 1, row)

\* operation_id is the primary key of local_revisions.
Unrecorded(d, id) == \A r \in recorded[d] : r.op # id

\* enqueue_local_revision: one transaction on local_revisions and workspace_state.
Enqueue(d, row) ==
    /\ queue' = [queue EXCEPT ![d] = Enqueued(@, row)]
    /\ localHead' = [localHead EXCEPT ![d] = row.rev]
    /\ valid' = [valid EXCEPT ![d] = row.rev.tree]
    /\ status' = [status EXCEPT ![d] = "queued"]
    /\ recorded' = [recorded EXCEPT ![d] = @ \cup {row.rev}]
    /\ UNCHANGED base

\* The merge of a conflict reuses its UUID and descends from both heads.
MergeRow(c, t) ==
    [rev |-> [op |-> c.id, tree |-> t], head |-> c.active,
     other |-> CHOOSE h \in c.heads : h # c.active, gen |-> c.gen]

\* A save descends from the newest queued revision, or from the local head.
SaveRow(d, t, state) ==
    LET q == queue[d]
    IN  [rev |-> [op |-> nextId, tree |-> t], other |-> None,
         head |-> IF q = <<>> THEN state.head ELSE Last(q).rev,
         gen |-> IF q = <<>> THEN state.base ELSE Last(q).gen + 1]

\* resume_workspace counts the queue first and writes the status then.
Resumed(d) == IF queue[d] = <<>> THEN "clean" ELSE "queued"

\* An edited tree resolves the conflict once the user has been asked to, but
\* not while a save made before the conflict is still queued.
Resolves(d, t, conflict) == queue[d] = <<>> /\ conflict.required /\ t # conflict.working

\* capture_one takes the lease of the skill and scans the directory.
Scan(d) ==
    /\ scan[d] = None
    /\ scan' = [scan EXCEPT ![d] = IF broken[d] THEN [at |-> "invalid"]
                                      ELSE [at |-> "scanned", tree |-> tree[d]]]

\* The capture goes on, or is done: the sync that ran it lists the queue.
CaptureGoes(d, next) ==
    /\ scan' = [scan EXCEPT ![d] = next]
    /\ run' = IF next = None /\ run[d].at = "capture" THEN [run EXCEPT ![d].at = "list"] ELSE run
    /\ UNCHANGED <<registry, folder, local, edits, faults>>

\* An invalid directory pauses the skill.
CaptureInvalid(d) ==
    /\ scan[d].at = "invalid"
    /\ CaptureGoes(d, [at |-> "setting", status |-> "pausedValidation"])
    /\ UNCHANGED <<nextId, wsState, queue, recorded>>

\* A valid one is compared with the row of the workspace.
CaptureState(d) ==
    /\ scan[d].at = "scanned"
    /\ CaptureGoes(d, [at |-> "stated", tree |-> scan[d].tree,
                       state |-> [base |-> base[d], head |-> localHead[d], valid |-> valid[d],
                                  status |-> status[d]]])
    /\ UNCHANGED <<nextId, wsState, queue, recorded>>

Unchanged(d) == scan[d].state.valid = scan[d].tree

CaptureUnchanged(d) ==
    /\ scan[d].at = "stated" /\ Unchanged(d)
    /\ CaptureGoes(d, IF scan[d].state.status = "pausedValidation"
                      THEN [at |-> "setting", status |-> Resumed(d)]
                      ELSE None)
    /\ UNCHANGED <<nextId, wsState, queue, recorded>>

CaptureChanged(d) ==
    /\ scan[d].at = "stated" /\ ~Unchanged(d)
    /\ CaptureGoes(d, [at |-> "compared", tree |-> scan[d].tree, state |-> scan[d].state,
                       conflict |-> IF scan[d].state.status = "conflict" THEN local[d] ELSE None])
    /\ UNCHANGED <<nextId, wsState, queue, recorded>>

\* What to queue is decided from the queue.
CaptureResolution(d) ==
    /\ scan[d].at = "compared" /\ scan[d].conflict # None
    /\ CaptureGoes(d, IF Resolves(d, scan[d].tree, scan[d].conflict)
                      THEN [at |-> "enqueuing", row |-> MergeRow(scan[d].conflict.conflict, scan[d].tree)]
                      ELSE None)
    /\ UNCHANGED <<nextId, wsState, queue, recorded>>

CaptureSave(d) ==
    /\ scan[d].at = "compared" /\ scan[d].conflict = None
    /\ nextId \in Ids /\ nextId' = nextId + 1
    /\ CaptureGoes(d, [at |-> "enqueuing", row |-> SaveRow(d, scan[d].tree, scan[d].state)])
    /\ UNCHANGED <<wsState, queue, recorded>>

CaptureStatus(d) ==
    /\ scan[d].at = "setting"
    /\ status' = [status EXCEPT ![d] = scan[d].status]
    /\ CaptureGoes(d, None)
    /\ UNCHANGED <<nextId, base, localHead, valid, queue, recorded>>

\* An operation that was recorded before cannot be inserted again.
CaptureEnqueue(d) ==
    /\ scan[d].at = "enqueuing"
    /\ IF Unrecorded(d, scan[d].row.rev.op)
       THEN Enqueue(d, scan[d].row)
       ELSE UNCHANGED <<wsState, queue, recorded>>
    /\ CaptureGoes(d, None)
    /\ UNCHANGED nextId

CaptureStep(d) ==
    /\ scan[d] # None
    /\ \/ CaptureInvalid(d) \/ CaptureState(d) \/ CaptureUnchanged(d) \/ CaptureChanged(d)
       \/ CaptureResolution(d) \/ CaptureSave(d) \/ CaptureStatus(d) \/ CaptureEnqueue(d)

\* Sixty seconds after a crash the lease is free.
LeaseExpires(d) ==
    /\ scan[d] # None /\ scan[d].at = "abandoned"
    /\ scan' = [scan EXCEPT ![d] = None]
    /\ UNCHANGED <<registry, nextId, folder, database, run, edits, recorded, faults>>

-----------------------------------------------------------------------------
(* The registry: prepare_private_revision and commit_private_revision *)

ValidMerge(row) == open # None /\ open.id = row.rev.op /\ open.heads = {row.head, row.other}

PrepareAllowed(row) ==
    IF open # None
    THEN IsMerge(row) /\ head = row.head /\ gen = row.gen /\ ValidMerge(row)
    ELSE ~IsMerge(row) /\ IF head = row.head THEN gen = row.gen ELSE row.head \in stored

CommitAllowed(row) ==
    /\ open # None => IsMerge(row) /\ row.rev.op = open.id
    /\ head = row.head => gen = row.gen
    /\ IsMerge(row) => head = row.head /\ ValidMerge(row)

\* Mutant: a save advances whatever the head is, and the last writer wins.
BasedOnAny(row) == TRUE

BasedOnHead(row) == head = row.head

\* Mutant: a repeated commit is decided again.
NeverDecided(row) == FALSE

\* A commit that was decided before is answered from its row.
Decided(row) == operations[row.rev.op].outcome # None

Advance(row) ==
    LET reply == [state |-> "advanced", gen |-> gen + 1]
    IN  /\ BasedOnHead(row)
        /\ head' = row.rev
        /\ gen' = gen + 1
        /\ open' = IF IsMerge(row) THEN None ELSE open
        /\ operations' = [operations EXCEPT ![row.rev.op].outcome = reply]
        /\ UNCHANGED nextId

Diverge(row) ==
    LET c == [id |-> nextId, base |-> row.head, heads |-> {row.rev, head},
              active |-> head, gen |-> gen]
    IN  /\ ~BasedOnHead(row)
        /\ nextId \in Ids
        /\ nextId' = nextId + 1
        /\ open' = c
        /\ operations' = [operations EXCEPT ![row.rev.op].outcome =
                             [state |-> "diverged", conflict |-> c]]
        /\ UNCHANGED <<head, gen>>

-----------------------------------------------------------------------------
(* Upload: drain_queued_revisions, upload_one *)

Current(d) == Head(run[d].todo)

\* Mutant: every queued revision of the skill is marked synced.
DequeueAll(d, row) == queue' = [queue EXCEPT ![d] = <<>>]

\* The row is no longer 'queued'.
Without(q, row) ==
    IF \E i \in DOMAIN q : q[i] = row
    THEN RemoveAt(q, CHOOSE i \in DOMAIN q : q[i] = row)
    ELSE q

Dequeue(d, row) == queue' = [queue EXCEPT ![d] = Without(@, row)]

Pause(d, s) == status' = [status EXCEPT ![d] = s]

\* A sync captures first, unless another process holds the lease.
StartSync(d) ==
    /\ run[d].at = "idle"
    /\ \/ Scan(d) /\ Goto(d, "capture")
       \/ scan[d] # None /\ Goto(d, "list") /\ UNCHANGED scan
    /\ UNCHANGED <<registry, nextId, folder, database, edits, recorded, faults>>

ListQueue(d) ==
    /\ run[d].at = "list"
    /\ run' = [run EXCEPT ![d].at = "drain", ![d].todo = queue[d]]
    /\ UNCHANGED <<registry, nextId, folder, database, edits, recorded, scan, faults>>

DrainDone(d) ==
    /\ run[d].at = "drain" /\ run[d].todo = <<>>
    /\ Goto(d, "catalog")
    /\ UNCHANGED <<registry, nextId, folder, database, edits, recorded, scan, faults>>

\* A refusal pauses the skill: a drain goes on to the catalogue, a merge fails.
Blocked(d, s) ==
    /\ Pause(d, s)
    /\ run' = [run EXCEPT ![d] = IF @.merging THEN Idle ELSE [Idle EXCEPT !.at = "catalog"]]
    /\ UNCHANGED <<registry, nextId, folder, base, localHead, valid, queue, local,
                   edits, recorded, scan>>

\* A new operation is stored, a repeated one is answered from its row.
Prepare(d) ==
    /\ run[d].at = "drain" /\ run[d].todo # <<>>
    /\ LET row == Current(d)
           known == operations[row.rev.op]
       IN  /\ IF known = None
              THEN /\ PrepareAllowed(row)
                   /\ operations' = [operations EXCEPT ![row.rev.op] =
                                        [row |-> row, outcome |-> None]]
              ELSE known.row = row /\ UNCHANGED operations
    /\ Goto(d, "prepared")
    /\ UNCHANGED <<head, gen, stored, open, nextId, folder, database, edits, recorded, scan, faults>>

\* GenerationConflict from prepare.
PrepareRefused(d) ==
    /\ run[d].at = "drain" /\ run[d].todo # <<>>
    /\ operations[Current(d).rev.op] = None
    /\ ~PrepareAllowed(Current(d))
    /\ Blocked(d, "conflict")
    /\ UNCHANGED faults

\* OperationConflict: the operation ID was used with another request.  This
\* is no blocker of one skill: the error ends the sync.
OperationReused(d) ==
    /\ run[d].at = "drain" /\ run[d].todo # <<>>
    /\ operations[Current(d).rev.op] # None
    /\ operations[Current(d).rev.op].row # Current(d)
    /\ Stop(d)
    /\ UNCHANGED <<registry, nextId, folder, database, edits, recorded, scan, faults>>

Commit(d) ==
    /\ run[d].at = "prepared"
    /\ LET row == Current(d)
       IN  \/ /\ Decided(row)
              /\ run' = [run EXCEPT ![d].at = "answered",
                                    ![d].reply = operations[row.rev.op].outcome]
              /\ UNCHANGED <<registry, nextId>>
           \/ /\ ~Decided(row) /\ CommitAllowed(row)
              /\ stored' = stored \cup {row.rev}
              /\ Advance(row) \/ Diverge(row)
              /\ run' = [run EXCEPT ![d].at = "answered",
                                    ![d].reply = operations'[row.rev.op].outcome]
    /\ UNCHANGED <<folder, database, edits, recorded, scan, faults>>

CommitRefused(d) ==
    /\ run[d].at = "prepared"
    /\ ~Decided(Current(d))
    /\ ~CommitAllowed(Current(d))
    /\ Blocked(d, "conflict")
    /\ UNCHANGED faults

QuotaExceeded(d) ==
    /\ run[d].at = "prepared"
    /\ ~Decided(Current(d)) /\ CommitAllowed(Current(d))
    /\ faults < MaxFaults
    /\ faults' = faults + 1
    /\ Blocked(d, "quota")

\* upload_one returns to the drain, or to the merge that called it.
UploadDone(d) ==
    run' = [run EXCEPT ![d] = IF @.merging
                              THEN [@ EXCEPT !.at = "refresh", !.reply = None]
                              ELSE [@ EXCEPT !.at = "drain", !.reply = None, !.todo = Tail(run[d].todo)]]

\* Mutant: the revisions still queued are not counted.
StatusClean(d) == status' = [status EXCEPT ![d] = "clean"]

StatusSynced(d) == status' = IF queue'[d] = <<>> THEN [status EXCEPT ![d] = "clean"] ELSE status

\* mark_local_revision_synced
RecordAdvanced(d) ==
    /\ run[d].at = "answered" /\ run[d].reply.state = "advanced"
    /\ Dequeue(d, Current(d))
    /\ base' = [base EXCEPT ![d] = run[d].reply.gen]
    /\ StatusSynced(d)
    /\ UploadDone(d)
    /\ UNCHANGED <<registry, nextId, folder, localHead, valid, local, edits, recorded, scan, faults>>

\* mark_local_revision_detached_stored
RecordDetached(d) ==
    /\ run[d].at = "answered" /\ run[d].reply.state = "diverged"
    /\ Dequeue(d, Current(d))
    /\ Goto(d, "detached")
    /\ UNCHANGED <<registry, nextId, folder, wsState, local, edits, recorded, scan, faults>>

Remember(d, c, t, asked) ==
    local' = [local EXCEPT ![d] = [conflict |-> c, working |-> t, required |-> asked]]

\* persist_workspace_conflict: the record, then the status.
SaveConflict(d) ==
    /\ run[d].at = "detached"
    /\ Remember(d, run[d].reply.conflict, Current(d).rev.tree, FALSE)
    /\ Goto(d, "saved")
    /\ UNCHANGED <<registry, nextId, folder, wsState, queue, edits, recorded, scan, faults>>

PauseConflict(d) ==
    /\ run[d].at = "saved"
    /\ Pause(d, "conflict")
    /\ UploadDone(d)
    /\ UNCHANGED <<registry, nextId, folder, base, localHead, valid, queue, local,
                   edits, recorded, scan, faults>>

-----------------------------------------------------------------------------
(* Merge: reconcile_workspace_conflict, commit_merge_entries *)

\* merge_skill_entries: an edit is kept if both heads have it or one added it,
\* and edits that overlap, one on each side, cannot be merged.
Merge3(b, x, y) == (x \cap y) \cup (x \ b) \cup (y \ b)
Overlapping(b, x, y) ==
    \E e \in (x \ b) \ y, f \in (y \ b) \ x : {e, f} \in overlap

\* private_skills
Catalog(d) ==
    /\ run[d].at = "catalog"
    /\ run' = [run EXCEPT ![d].at = "owned", ![d].remote = [head |-> head, gen |-> gen, open |-> open]]
    /\ UNCHANGED <<registry, nextId, folder, database, edits, recorded, scan, faults>>

RemoteConflict(d) == run[d].at = "owned" /\ run[d].remote.open # None
HeadTrees(c) == {h.tree : h \in c.heads}
Mergeable(c) ==
    LET other == CHOOSE h \in c.heads : h # c.active
    IN  ~Overlapping(c.base.tree, c.active.tree, other.tree)
MergedTree(c) ==
    LET other == CHOOSE h \in c.heads : h # c.active
    IN  Merge3(c.base.tree, c.active.tree, other.tree)

\* The directory shows one of the two heads and nothing else is queued.
Untouched(d, c) == tree[d] \in HeadTrees(c) /\ queue[d] = <<>>

\* The user has to resolve the conflict if there is newer work, or if the
\* heads overlap.  persist_workspace_conflict: the record, then the status.
ReconcileSave(d) ==
    /\ RemoteConflict(d) /\ ~broken[d]
    /\ LET c == run[d].remote.open
       IN  Remember(d, c, tree[d], ~(Untouched(d, c) /\ Mergeable(c)))
    /\ Goto(d, "kept")
    /\ UNCHANGED <<registry, nextId, folder, wsState, queue, edits, recorded, scan, faults>>

ReconcilePause(d) ==
    /\ run[d].at = "kept"
    /\ Pause(d, "conflict")
    /\ IF local[d].required THEN Stop(d) ELSE Goto(d, "merge")
    /\ UNCHANGED <<registry, nextId, folder, base, localHead, valid, queue, local, edits,
                   recorded, scan, faults>>

\* commit_merge_entries queues the merge, to be uploaded at once; it fails if
\* the merge was queued before.
StartMerge(d, row) ==
    /\ IF Unrecorded(d, row.rev.op)
       THEN /\ Enqueue(d, row)
            /\ run' = [run EXCEPT ![d] = [Idle EXCEPT !.at = "drain", !.todo = <<row>>, !.merging = TRUE]]
       ELSE Stop(d) /\ UNCHANGED <<wsState, queue, recorded>>
    /\ UNCHANGED <<registry, nextId, folder, local, edits, scan, faults>>

ReconcileMerge(d) ==
    /\ run[d].at = "merge"
    /\ LET c == run[d].remote.open IN StartMerge(d, MergeRow(c, MergedTree(c)))

\* The scan of an invalid tree fails, here and before a stale conflict is settled.
ScanFails(d) ==
    /\ run[d].at = "owned" /\ broken[d]
    /\ run[d].remote.open # None \/ local[d] # None
    /\ Stop(d)
    /\ UNCHANGED <<registry, nextId, folder, database, edits, recorded, scan, faults>>

\* resolve_workspace_conflict_with_revision: the user takes any revision of
\* the history for the resolution.
ResolveWith(d, h) ==
    /\ d \in Choosers /\ run[d].at = "idle"
    /\ local[d] # None /\ open # None /\ h \in stored
    /\ StartMerge(d, MergeRow(open, h.tree))

\* After the merge is recorded: the catalogue must show it as the head.
Refresh(d) ==
    /\ run[d].at = "refresh"
    /\ IF open = None /\ head = Current(d).rev
       THEN run' = [run EXCEPT ![d].at = "download", ![d].remote = [head |-> head, gen |-> gen, open |-> open]]
       ELSE Stop(d)
    /\ UNCHANGED <<registry, nextId, folder, database, edits, recorded, scan, faults>>
-----------------------------------------------------------------------------
(* Show the registry's head: sync_owned_skill *)

NoRemoteConflict(d) == run[d].at = "owned" /\ run[d].remote.open = None

\* The conflict was resolved elsewhere and nothing has happened here since.
Stale(d) == queue[d] = <<>> /\ tree[d] = local[d].working

\* settle_resolved_workspace_conflict: forget the conflict, then resume.
SettleClear(d) ==
    /\ NoRemoteConflict(d) /\ local[d] # None /\ ~broken[d] /\ Stale(d)
    /\ local' = [local EXCEPT ![d] = None]
    /\ Goto(d, "cleared")
    /\ UNCHANGED <<registry, nextId, folder, wsState, queue, edits, recorded, scan, faults>>

SettleRefused(d) ==
    /\ NoRemoteConflict(d) /\ local[d] # None /\ ~broken[d] /\ ~Stale(d)
    /\ Stop(d)
    /\ UNCHANGED <<registry, nextId, folder, database, edits, recorded, scan, faults>>

SettleCount(d) ==
    /\ run[d].at = "cleared"
    /\ Goto(d, IF Resumed(d) = "clean" THEN "noneQueued" ELSE "someQueued")
    /\ UNCHANGED <<registry, nextId, folder, database, edits, recorded, scan, faults>>

\* It holds no lease: a scan may have queued something since.
SettleResume(d) ==
    /\ run[d].at \in {"noneQueued", "someQueued"}
    /\ Pause(d, IF run[d].at = "noneQueued" THEN "clean" ELSE "queued")
    /\ Goto(d, "upserted")
    /\ UNCHANGED <<registry, nextId, folder, base, localHead, valid, queue, local,
                   edits, recorded, scan, faults>>

ReadyToShow(d) ==
    /\ run[d].at = "upserted" \/ (NoRemoteConflict(d) /\ local[d] = None)
    /\ status[d] = "clean"

\* Local work comes first: anything but a clean workspace is left alone.
KeepLocalWork(d) ==
    /\ run[d].at = "upserted" \/ (NoRemoteConflict(d) /\ local[d] = None)
    /\ ~ReadyToShow(d)
    /\ Stop(d)
    /\ UNCHANGED <<registry, nextId, folder, database, edits, recorded, scan, faults>>

\* advance_clean_workspace_baseline updates a clean row only.
StillClean(d) == status[d] = "clean"

AdvanceBaseline(d) ==
    /\ IF StillClean(d)
       THEN /\ base' = [base EXCEPT ![d] = run[d].remote.gen]
            /\ localHead' = [localHead EXCEPT ![d] = run[d].remote.head]
            /\ valid' = [valid EXCEPT ![d] = run[d].remote.head.tree]
            /\ Pause(d, "clean")
       ELSE UNCHANGED wsState

\* The head is already shown: only its generation may be new.
AlreadyCurrent(d) ==
    /\ ReadyToShow(d) /\ shown[d] = run[d].remote.head
    /\ AdvanceBaseline(d)
    /\ Stop(d)
    /\ UNCHANGED <<registry, nextId, folder, queue, local, edits, recorded, scan, faults>>

Download(d) ==
    /\ ReadyToShow(d) /\ shown[d] # run[d].remote.head
    /\ Goto(d, "download")
    /\ UNCHANGED <<registry, nextId, folder, database, edits, recorded, scan, faults>>

\* materialize_skill_snapshot, which needs the lease.
MaterializeBusy(d) ==
    /\ run[d].at = "download" /\ scan[d] # None
    /\ Stop(d)
    /\ UNCHANGED <<registry, nextId, folder, database, edits, recorded, scan, faults>>

Materialize(d) ==
    /\ run[d].at = "download" /\ scan[d] = None
    /\ tree' = [tree EXCEPT ![d] = run[d].remote.head.tree]
    /\ broken' = [broken EXCEPT ![d] = FALSE]
    /\ shown' = [shown EXCEPT ![d] = run[d].remote.head]
    /\ Goto(d, "switched")
    /\ UNCHANGED <<registry, nextId, database, edits, recorded, scan, faults>>

\* After a merge the conflict record goes last.
Adopt(d) ==
    /\ run[d].at = "switched"
    /\ AdvanceBaseline(d)
    /\ IF run[d].merging THEN Goto(d, "adopted") ELSE Stop(d)
    /\ UNCHANGED <<registry, nextId, folder, queue, local, edits, recorded, scan, faults>>

\* Mutant: the record outlives the conflict.
ClearForgotten(d) ==
    /\ run[d].at = "adopted"
    /\ Stop(d)
    /\ UNCHANGED <<registry, nextId, folder, database, edits, recorded, scan, faults>>

ClearConflict(d) ==
    /\ run[d].at = "adopted"
    /\ local' = [local EXCEPT ![d] = None]
    /\ Stop(d)
    /\ UNCHANGED <<registry, nextId, folder, wsState, queue, edits, recorded, scan, faults>>

-----------------------------------------------------------------------------
(* The user, the other process of the device, and faults *)

Edit(d, e) ==
    /\ e \notin edits
    /\ edits' = edits \cup {e}
    /\ tree' = [tree EXCEPT ![d] = @ \cup {e}]
    /\ UNCHANGED <<registry, nextId, broken, shown, database, run, recorded, scan, faults>>

\* An edit leaves the skill invalid, and a later one repairs it.
Break(d) ==
    /\ d \in Breakers /\ ~broken[d]
    /\ faults < MaxFaults
    /\ faults' = faults + 1
    /\ broken' = [broken EXCEPT ![d] = TRUE]
    /\ UNCHANGED <<registry, nextId, tree, shown, database, run, edits, recorded, scan>>

Repair(d) ==
    /\ broken[d]
    /\ broken' = [broken EXCEPT ![d] = FALSE]
    /\ UNCHANGED <<registry, nextId, tree, shown, database, run, edits, recorded, scan, faults>>

\* The service scans on its own.
BackgroundCapture(d) ==
    /\ d \in Background
    /\ Scan(d)
    /\ UNCHANGED <<registry, nextId, folder, database, run, edits, recorded, faults>>

\* The lease of a capture that dies stays.
Abandon(d) == scan' = [scan EXCEPT ![d] = [at |-> "abandoned"]]

\* The process dies, or a request or its answer is lost: the sync ends.
Fail(d) ==
    /\ run[d].at # "idle"
    /\ faults < MaxFaults
    /\ faults' = faults + 1
    /\ Stop(d)
    /\ IF run[d].at = "capture" THEN Abandon(d) ELSE UNCHANGED scan
    /\ UNCHANGED <<registry, nextId, folder, database, edits, recorded>>

\* The service dies while it scans.
CaptureFails(d) ==
    /\ scan[d] # None /\ scan[d].at # "abandoned" /\ run[d].at # "capture"
    /\ faults < MaxFaults
    /\ faults' = faults + 1
    /\ Abandon(d)
    /\ UNCHANGED <<registry, nextId, folder, database, run, edits, recorded>>

Init ==
    /\ head = Base /\ gen = 1 /\ stored = {Base}
    /\ operations = [o \in Ids |-> None] /\ open = None /\ nextId = 1
    /\ tree = [d \in Devices |-> {}] /\ broken = [d \in Devices |-> FALSE]
    /\ shown = [d \in Devices |-> Base]
    /\ base = [d \in Devices |-> 1] /\ localHead = [d \in Devices |-> Base]
    /\ valid = [d \in Devices |-> {}] /\ status = [d \in Devices |-> "clean"]
    /\ queue = [d \in Devices |-> <<>>] /\ local = [d \in Devices |-> None]
    /\ run = [d \in Devices |-> Idle] /\ scan = [d \in Devices |-> None]
    /\ edits = {} /\ recorded = [d \in Devices |-> {}] /\ faults = 0
    /\ overlap \in Overlaps

SyncStep(d) ==
    \/ StartSync(d) \/ ListQueue(d) \/ DrainDone(d)
    \/ Prepare(d) \/ PrepareRefused(d) \/ OperationReused(d)
    \/ Commit(d) \/ CommitRefused(d)
    \/ RecordAdvanced(d) \/ RecordDetached(d) \/ SaveConflict(d) \/ PauseConflict(d)
    \/ Catalog(d) \/ ReconcileSave(d) \/ ReconcilePause(d) \/ ReconcileMerge(d) \/ ScanFails(d) \/ Refresh(d)
    \/ SettleClear(d) \/ SettleRefused(d) \/ SettleCount(d) \/ SettleResume(d)
    \/ KeepLocalWork(d) \/ AlreadyCurrent(d) \/ Download(d)
    \/ Materialize(d) \/ MaterializeBusy(d) \/ Adopt(d) \/ ClearConflict(d)

Next ==
    /\ UNCHANGED overlap
    /\ \E d \in Devices :
        \/ SyncStep(d) \/ CaptureStep(d) \/ BackgroundCapture(d) \/ LeaseExpires(d)
        \/ QuotaExceeded(d) \/ Fail(d) \/ CaptureFails(d) \/ Break(d) \/ Repair(d)
        \/ \E h \in stored : ResolveWith(d, h)
        \/ \E e \in Edits : Edit(d, e)

Spec == Init /\ [][Next]_vars

\* A device that can run syncs again and again: the service starts one on
\* every hint and at least every ten seconds.
FairSpec ==
    /\ Spec
    /\ \A d \in Devices : /\ WF_vars(SyncStep(d) /\ UNCHANGED overlap)
                          /\ WF_vars((CaptureStep(d) \/ LeaseExpires(d)) /\ UNCHANGED overlap)

-----------------------------------------------------------------------------
(* Properties *)

TypeOK ==
    /\ head \in Rev /\ gen \in Gens /\ stored \subseteq Rev
    /\ operations \in [Ids -> Operation \cup {None}]
    /\ open \in Conflict \cup {None}
    /\ nextId \in 1..(MaxIds + 1)
    /\ tree \in [Devices -> Trees] /\ broken \in [Devices -> BOOLEAN]
    /\ shown \in [Devices -> Rev]
    /\ base \in [Devices -> Gens] /\ localHead \in [Devices -> Rev]
    /\ valid \in [Devices -> Trees] /\ status \in [Devices -> Status]
    /\ queue \in [Devices -> Seq(Row)] /\ local \in [Devices -> LocalConflict \cup {None}]
    /\ run \in [Devices -> Run] /\ scan \in [Devices -> Capturing \cup {None}]
    /\ recorded \in [Devices -> SUBSET Rev] /\ edits \in Trees
    /\ overlap \in Overlaps /\ faults \in 0..MaxFaults

\* A save that a device has recorded is never lost: it waits in that device's
\* queue until the registry stores it, whatever is refused, repeated,
\* interrupted or resolved by another device on the way.
CapturedWorkDurable ==
    \A d \in Devices : \A r \in recorded[d] :
        r \in stored \/ \E i \in DOMAIN queue[d] : queue[d][i].rev = r

\* A workspace is clean only when nothing is queued: clean is what allows
\* sync_owned_skill to replace the visible directory.  This holds while one
\* process at a time works on the device, whatever crashed before: a scan of
\* the service can queue a save between the count and the write of a sync's
\* resume_workspace.
CleanMeansUploaded ==
    \A d \in Devices \ Background : status[d] = "clean" => queue[d] = <<>>

\* A revision without an edit of the revision it was made on.
Drops(row) == ~(row.head.tree \subseteq row.rev.tree)

\* The operation carries a directory without the edit: a save on the head that
\* drops it, or a resolution that is not the automatic merge of the heads, or
\* the merge of a save that had dropped it.
FromDirectory(row) ==
    IF IsMerge(row)
    THEN row.rev.tree # MergedTree(open) \/ Drops(operations[row.other.op].row)
    ELSE row.head = head /\ Drops(row)

\* An edit leaves the head only by a directory that lacks it: no race between
\* the devices, and no automatic merge of saves that only add, loses one.
HeadNeverLosesEdits ==
    [][head.tree \subseteq head'.tree \/ FromDirectory(operations[head'.op].row)]_vars

\* What a device saves on a revision has every edit of that revision.
SavesContainParent ==
    \A o \in Ids : operations[o] # None /\ ~IsMerge(operations[o].row) => ~Drops(operations[o].row)

Converged ==
    /\ open = None
    /\ \A d \in Devices : status[d] = "clean" /\ queue[d] = <<>> /\ local[d] = None
                          /\ shown[d] = head /\ tree[d] = head.tree

\* Once the users stop, every device shows the same head: queues are uploaded,
\* divergences merged and stale conflict records settled.  This is what the sync
\* gives two edits that race.  A third can be made over a conflict, which the
\* sync then leaves to the user, or on a directory that never showed a merge
\* (SavesContainParent), and the devices may go on reverting each other.
DevicesConverge == <>[]Converged

Agrees(d) == open = None /\ queue[d] = <<>> /\ tree[d] = head.tree

\* A device whose directory is what the registry's conflict was resolved to
\* forgets its record of the conflict, and so goes on with later updates.
ResolvedConflictSettles ==
    \A d \in Devices : (local[d] # None /\ Agrees(d)) ~> (local[d] = None \/ ~Agrees(d))
=============================================================================
