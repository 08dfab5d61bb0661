------------------------- MODULE WorkspaceRegistry -------------------------
(***************************************************************************)
(* The registry's private workspace of one personal skill: the mutable     *)
(* head that every device of its owner saves to, the immutable revision    *)
(* graph behind it, the divergence records ("workspace conflicts"), and    *)
(* every registry operation that moves the head or a generation.           *)
(*                                                                         *)
(* A revision ID hashes (tree, parents, author, operation ID), so distinct *)
(* operations make distinct revisions: the revision of an operation is     *)
(* named here by the operation.  A merge uses the conflict's UUID as its   *)
(* operation ID.  SQL transactions that lock the resource and workspace    *)
(* rows are single steps; what a handler does before its transaction (the  *)
(* first read, object-store traffic) is a step of its own, and the values  *)
(* it carries across are kept in handler[h].                               *)
(***************************************************************************)
EXTENDS Naturals

CONSTANTS
    Ops,            \* client-chosen operation IDs (UUIDv7)
    ConflictIds,    \* UUIDs the registry draws for divergence records
    Foreign,        \* revisions of other skills: the upstream's, proposal forks'
    Base,           \* the revision the skill was imported with
    ForeignBefore,  \* <<a, b>>: a is an ancestor of b among Foreign
    Handlers,       \* request handlers running concurrently
    MaxGen,         \* bound on the generation counters
    None

Revs == {Base} \cup Ops \cup ConflictIds \cup Foreign
OpIds == Ops \cup ConflictIds
Gens == 1..MaxGen

ASSUME IdsDistinct ==
    /\ Ops \cap ConflictIds = {}
    /\ Foreign \cap (Ops \cup ConflictIds) = {}
    /\ Base \notin Ops \cup ConflictIds \cup Foreign
    /\ None \notin Revs
    /\ ForeignBefore \subseteq Foreign \X Foreign
    /\ MaxGen \in Nat \ {0}

VARIABLES
    resGen,     \* resources.generation
    wsGen,      \* skill_private_workspaces.generation
    head,       \* skill_private_workspaces.revision_id
    deleted,    \* resources.deleted_at IS NOT NULL
    public,     \* resources.visibility = 'public'
    latest,     \* revision of latest_release_version, None before the first
    released,   \* revisions in skill_releases
    parents,    \* revisions and revision_parents: None if there is no such row
    snapshots,  \* resource_revision_snapshots of this skill
    operations, \* private_revision_operations
    conflicts,  \* skill_workspace_conflicts
    syncBase,   \* skill_forks.sync_base_revision_id, None if not a fork
    handler,    \* what each running commit or rename read before its tx
    replies     \* commit outcomes sent to clients

graph == <<parents, snapshots>>
vars == <<resGen, wsGen, head, deleted, public, latest, released, parents,
          snapshots, operations, conflicts, syncBase, handler, replies>>

-----------------------------------------------------------------------------
(* Requests and rows *)

ForkSync == { f \in [base : Foreign, upstream : Foreign] : f.base # f.upstream }

\* PrivateRevisionRequest.  parse_revision_parents admits one or two distinct
\* parents and the expected head must be one of them: `other` is the second.
Request ==
    { r \in [op : OpIds, head : Revs, other : Revs \cup {None}, gen : Gens,
             fork : ForkSync \cup {None}] : r.other # r.head }

Parents(r) == {r.head} \cup ({r.other} \ {None})
IsMerge(r) == r.other # None

OpState == {"prepared", "advanced", "diverged"}
Operation == [req : Request, state : OpState, gen : 0..MaxGen,
              conflict : ConflictIds \cup {None}]
Conflict == [base : Revs, heads : SUBSET Revs, active : Revs,
             resolution : Revs \cup {None}]
RunningCommit == [kind : {"commit"}, req : Request]
RunningRename == [kind : {"rename"}, op : Ops, gen : Gens, parent : Revs,
                  prepared : OpIds \cup {None}]

\* None marks an absent row or a NULL column: it is no value of any column.
ASSUME NoneIsNoValue ==
    /\ None \notin Operation /\ None \notin Conflict
    /\ None \notin RunningCommit /\ None \notin RunningRename
    /\ None \notin ForkSync /\ \A S \in SUBSET Revs : S # None

\* Mutant: a transaction that forgets to move the resource's counter.
BumpForgotten == UNCHANGED resGen

\* next_generation / checked_add, up to the bound explored.
BumpResource == resGen < MaxGen /\ resGen' = resGen + 1

Unresolved(c) == conflicts[c] # None /\ conflicts[c].resolution = None
Active == {c \in ConflictIds : Unresolved(c)}
Prepared(o) == operations[o] # None /\ operations[o].state = "prepared"

-----------------------------------------------------------------------------
(* prepare_private_revision *)

\* Mutant: any two parents resolve the conflict.
MergeOfAnyHeads(c, ps) == c \in Active

\* validate_merge_conflict: the merge names this unresolved conflict and its
\* parents are exactly the two recorded heads.
ValidMerge(c, ps) == c \in Active /\ conflicts[c].heads = ps

\* Mutant: the upstream revision need not descend from the recorded base.
ForkSyncUnordered(f) == syncBase = f.base

\* validate_fork_sync
ValidForkSync(f) ==
    /\ syncBase = f.base
    /\ <<f.base, f.upstream>> \in ForeignBefore

\* The decision prepare takes under the row locks for a new operation.
PrepareAllowed(r) ==
    IF Active # {}
    THEN /\ r.fork = None
         /\ IsMerge(r) /\ r.op \in Active
         /\ head = r.head /\ wsGen = r.gen
         /\ ValidMerge(r.op, Parents(r))
    ELSE IF head = r.head
    THEN /\ wsGen = r.gen
         /\ IF r.fork # None
            THEN IsMerge(r) /\ r.fork.upstream \in Parents(r) /\ ValidForkSync(r.fork)
            ELSE ~IsMerge(r)
    ELSE /\ r.fork = None
         /\ ~IsMerge(r)
         /\ r.head \in snapshots

\* Operation IDs are UUIDs: a client does not reuse one that a restore or a
\* rename took, and knows a conflict's ID only once it is recorded.
Renaming(o) == \E h \in Handlers :
    handler[h] # None /\ handler[h].kind = "rename" /\ handler[h].op = o
ClientCanUse(o) ==
    /\ parents[o] = None /\ ~Renaming(o)
    /\ o \in ConflictIds => conflicts[o] # None

\* A replayed request finds its row and changes nothing, and one that reuses
\* the ID with another payload is refused, so only a new ID gets here.
Prepare(r) ==
    /\ operations[r.op] = None
    /\ ~deleted
    /\ ClientCanUse(r.op)
    /\ PrepareAllowed(r)
    /\ operations' = [operations EXCEPT ![r.op] =
           [req |-> r, state |-> "prepared", gen |-> 0, conflict |-> None]]
    /\ UNCHANGED <<resGen, wsGen, head, deleted, public, latest, released,
                   graph, conflicts, syncBase, handler, replies>>

-----------------------------------------------------------------------------
(* commit_private_revision *)

Reply(o, row) == [op |-> o, state |-> row.state, gen |-> row.gen,
                  conflict |-> row.conflict]

\* The first transaction: a decided operation answers with its stored
\* outcome, a prepared one is read and its objects are verified and copied.
CommitRead(h, o) ==
    /\ handler[h] = None
    /\ operations[o] # None
    /\ IF Prepared(o)
       THEN /\ ~deleted
            /\ handler' = [handler EXCEPT ![h] = [kind |-> "commit", req |-> operations[o].req]]
            /\ UNCHANGED replies
       ELSE /\ replies' = replies \cup {Reply(o, operations[o])}
            /\ UNCHANGED handler
    /\ UNCHANGED <<resGen, wsGen, head, deleted, public, latest, released,
                   graph, operations, conflicts, syncBase>>

Committing(h) == handler[h] # None /\ handler[h].kind = "commit"

\* Mutant: the second transaction trusts the state the first one read.
PreparedWhenRead(r) == operations[r.op] # None /\ operations[r.op].req = r

\* The second transaction reads the operation again under the row locks.
StillPrepared(r) == Prepared(r.op) /\ operations[r.op].req = r

\* Mutant: only prepare looks for an unresolved conflict.
CommitDuringConflict(r) ==
    /\ head = r.head => wsGen = r.gen
    /\ head = r.head /\ IsMerge(r) => ValidMerge(r.op, Parents(r))

\* The checks of prepare, made again under the row locks.
CommitAllowed(r) ==
    /\ Active # {} => r.fork = None /\ IsMerge(r) /\ r.op \in Active
    /\ head = r.head => wsGen = r.gen
    /\ head # r.head => r.fork = None /\ ~IsMerge(r)
    /\ head = r.head /\ IsMerge(r) =>
         IF r.fork # None
         THEN r.fork.upstream \in Parents(r) /\ ValidForkSync(r.fork)
         ELSE ValidMerge(r.op, Parents(r))

\* persist_private_revision_storage
StoreRevision(rev, ps) ==
    /\ parents' = [parents EXCEPT ![rev] = ps]
    /\ snapshots' = snapshots \cup {rev}

Finish(h) == handler' = [handler EXCEPT ![h] = None]

Decide(o, row) ==
    /\ operations' = [operations EXCEPT ![o] = row]
    /\ replies' = replies \cup {Reply(o, row)}

\* The head is still the expected one: the revision becomes the head, a merge
\* closes its conflict and a fork sync moves the recorded upstream base.
CommitAdvance(h) ==
    /\ Committing(h)
    /\ LET r == handler[h].req
           row == [req |-> r, state |-> "advanced", gen |-> wsGen + 1, conflict |-> None]
       IN  /\ StillPrepared(r) /\ ~deleted
           /\ CommitAllowed(r)
           /\ head = r.head
           /\ StoreRevision(r.op, Parents(r))
           /\ BumpResource
           /\ wsGen' = wsGen + 1
           /\ head' = r.op
           /\ conflicts' = IF IsMerge(r) /\ r.fork = None
                           THEN [conflicts EXCEPT ![r.op].resolution = r.op]
                           ELSE conflicts
           /\ syncBase' = IF r.fork # None THEN r.fork.upstream ELSE syncBase
           /\ Decide(r.op, row)
    /\ Finish(h)
    /\ UNCHANGED <<deleted, public, latest, released>>

\* record_workspace_conflict: an unresolved record of the same two heads is
\* updated in place, otherwise a record with a fresh UUID is inserted.
RecordConflict(c, base, detached, active) ==
    LET same == {d \in Active : conflicts[d].heads = {detached, active}}
    IN  IF same # {}
        THEN /\ c \in same
             /\ conflicts' = [conflicts EXCEPT ![c].active = active]
        ELSE /\ conflicts[c] = None
             /\ conflicts' = [conflicts EXCEPT ![c] =
                    [base |-> base, heads |-> {detached, active},
                     active |-> active, resolution |-> None]]

\* The head is no longer the expected one: the revision is stored beside it
\* and the pair of heads is recorded for the client to merge.
CommitDiverge(h, c) ==
    /\ Committing(h)
    /\ LET r == handler[h].req
           row == [req |-> r, state |-> "diverged", gen |-> wsGen, conflict |-> c]
       IN  /\ StillPrepared(r) /\ ~deleted
           /\ CommitAllowed(r)
           /\ head # r.head
           /\ StoreRevision(r.op, Parents(r))
           /\ RecordConflict(c, r.head, r.op, head)
           /\ Decide(r.op, row)
    /\ Finish(h)
    /\ UNCHANGED <<resGen, wsGen, head, deleted, public, latest, released, syncBase>>

\* Another handler decided the operation first: answer with its outcome.
CommitReplay(h) ==
    /\ Committing(h)
    /\ LET o == handler[h].req.op
       IN  /\ operations[o] # None /\ ~Prepared(o) /\ ~deleted
           /\ operations[o].req = handler[h].req
           /\ replies' = replies \cup {Reply(o, operations[o])}
    /\ Finish(h)
    /\ UNCHANGED <<resGen, wsGen, head, deleted, public, latest, released,
                   graph, operations, conflicts, syncBase>>

\* The handler ends without committing: a check failed, the quota or the
\* object store refused, the authority is gone, or the server stopped.
Abort(h) ==
    /\ handler[h] # None
    /\ Finish(h)
    /\ UNCHANGED <<resGen, wsGen, head, deleted, public, latest, released,
                   graph, operations, conflicts, syncBase, replies>>

-----------------------------------------------------------------------------
(* restore_skill, accept_proposal *)

\* A UUID no request has carried so far.
Fresh(o) ==
    /\ operations[o] = None /\ parents[o] = None /\ ~Renaming(o)
    /\ \A h \in Handlers : Committing(h) => handler[h].req.op # o

\* A new revision with the target's tree on top of the current head.
RestoreSkill(o, target) ==
    /\ Fresh(o) /\ ~deleted
    /\ target \in snapshots
    /\ head # target
    /\ StoreRevision(o, {head})
    /\ head' = o
    /\ wsGen' = wsGen + 1
    /\ BumpResource
    /\ UNCHANGED <<deleted, public, latest, released, operations, conflicts,
                   syncBase, handler, replies>>

\* The exact head of a fork becomes the workspace head; the revisions it
\* replaces stay in history.
AcceptProposal(rev) ==
    /\ ~deleted
    /\ rev \in Foreign
    /\ snapshots' = snapshots \cup {rev}
    /\ head' = rev
    /\ wsGen' = wsGen + 1
    /\ BumpResource
    /\ UNCHANGED <<deleted, public, latest, released, parents, operations,
                   conflicts, syncBase, handler, replies>>

-----------------------------------------------------------------------------
(* publish_skill, unpublish_skill, deprecate_skill, delete_skill *)

PublishSkill ==
    /\ ~deleted
    /\ ~(latest = head /\ public)
    /\ latest' = head
    /\ released' = released \cup {head}
    /\ public' = TRUE
    /\ BumpResource
    /\ UNCHANGED <<wsGen, head, deleted, graph, operations, conflicts,
                   syncBase, handler, replies>>

UnpublishSkill ==
    /\ ~deleted /\ latest # None /\ public
    /\ public' = FALSE
    /\ BumpResource
    /\ UNCHANGED <<wsGen, head, deleted, latest, released, graph, operations,
                   conflicts, syncBase, handler, replies>>

DeprecateSkill ==
    /\ ~deleted /\ latest # None /\ public
    /\ BumpResource
    /\ UNCHANGED <<wsGen, head, deleted, public, latest, released, graph,
                   operations, conflicts, syncBase, handler, replies>>

DeleteSkill ==
    /\ ~deleted
    /\ deleted' = TRUE
    /\ public' = FALSE
    /\ BumpResource
    /\ UNCHANGED <<wsGen, head, latest, released, graph, operations, conflicts,
                   syncBase, handler, replies>>

\* tombstone_owned_resources_for_account_delete
TombstoneAccount ==
    /\ ~deleted
    /\ deleted' = TRUE
    /\ public' = FALSE
    /\ BumpResource
    /\ wsGen' = resGen + 1
    /\ UNCHANGED <<head, latest, released, graph, operations, conflicts,
                   syncBase, handler, replies>>

-----------------------------------------------------------------------------
(* rename_skill *)

\* The head is read and its documents rewritten before the transaction.
\* Unsaved content may come from a prepared operation on that same head.
RenameRead(h, o, p) ==
    /\ handler[h] = None
    /\ Fresh(o) /\ ~deleted
    /\ p # None => /\ Prepared(p)
                   /\ operations[p].req.gen = resGen
                   /\ operations[p].req.head = head
    /\ handler' = [handler EXCEPT ![h] =
           [kind |-> "rename", op |-> o, gen |-> resGen, parent |-> head, prepared |-> p]]
    /\ UNCHANGED <<resGen, wsGen, head, deleted, public, latest, released,
                   graph, operations, conflicts, syncBase, replies>>

\* Mutant: the rename trusts what it read before its transaction.
RenameUnchecked(run) == TRUE

\* Only the resource generation is compared again under the lock.
RenameCurrent(run) == resGen = run.gen

\* The renamed documents become a child of the head that was read; a public
\* skill releases it, and a prepared operation that supplied it is consumed.
RenameCommit(h) ==
    /\ handler[h] # None /\ handler[h].kind = "rename"
    /\ LET run == handler[h]
       IN  /\ ~deleted
           /\ RenameCurrent(run)
           /\ StoreRevision(run.op, {run.parent})
           /\ head' = run.op
           /\ latest' = IF public THEN run.op ELSE latest
           /\ released' = IF public THEN released \cup {run.op} ELSE released
           /\ run.prepared # None => Prepared(run.prepared)
           /\ operations' = IF run.prepared = None THEN operations
                            ELSE [operations EXCEPT ![run.prepared] = None]
    /\ BumpResource
    /\ wsGen' = resGen + 1
    /\ Finish(h)
    /\ UNCHANGED <<deleted, public, conflicts, syncBase, replies>>

-----------------------------------------------------------------------------
(* prune_skill_history *)

ConflictRevisions ==
    UNION { {conflicts[c].base, conflicts[c].resolution} \cup conflicts[c].heads :
              c \in {d \in ConflictIds : conflicts[d] # None} }

\* Mutant: the head is taken for safe because it has no conflict or release.
HeadUnprotected == released \cup ConflictRevisions

\* The revisions the eligibility query leaves alone.
Protected == {head} \cup released \cup ConflictRevisions

\* Mutant: uploads in flight survive the revisions they are based on.
KeepPrepared == operations

\* The prepared operations are deleted: their base may be gone.
ExpirePrepared == [o \in OpIds |-> IF Prepared(o) THEN None ELSE operations[o]]

\* Drops the snapshots nothing refers to and every prepared operation, and
\* moves both generations without moving the head.
PruneHistory ==
    /\ ~deleted
    /\ snapshots' = snapshots \cap Protected
    /\ operations' = ExpirePrepared
    /\ BumpResource
    /\ wsGen' = resGen + 1
    /\ UNCHANGED <<head, deleted, public, latest, released, parents, conflicts,
                   syncBase, handler, replies>>

-----------------------------------------------------------------------------
Init ==
    /\ resGen = 1 /\ wsGen = 1
    /\ head = Base
    /\ deleted = FALSE /\ public = FALSE
    /\ latest = None /\ released = {}
    /\ parents = [r \in Revs |-> IF r \in Ops \cup ConflictIds THEN None ELSE {}]
    /\ snapshots = {Base}
    /\ operations = [o \in OpIds |-> None]
    /\ conflicts = [c \in ConflictIds |-> None]
    /\ syncBase \in Foreign \cup {None}
    /\ handler = [h \in Handlers |-> None]
    /\ replies = {}

Commit(h) ==
    \/ CommitAdvance(h)
    \/ \E c \in ConflictIds : CommitDiverge(h, c)
    \/ CommitReplay(h)

Lifecycle ==
    \/ PublishSkill \/ UnpublishSkill \/ DeprecateSkill
    \/ DeleteSkill \/ TombstoneAccount \/ PruneHistory

Next ==
    \/ \E o \in {op \in OpIds : operations[op] = None}, p \in Revs, g \in Gens :
         \/ Prepare([op |-> o, head |-> p, other |-> None, gen |-> g, fork |-> None])
         \/ \E q \in Revs \ {p}, f \in ForkSync \cup {None} :
              Prepare([op |-> o, head |-> p, other |-> q, gen |-> g, fork |-> f])
    \/ \E h \in Handlers :
         \/ \E o \in OpIds : CommitRead(h, o)
         \/ Commit(h) \/ Abort(h)
         \/ \E o \in Ops, p \in OpIds \cup {None} : RenameRead(h, o, p)
         \/ RenameCommit(h)
    \/ \E o \in Ops, t \in Revs : RestoreSkill(o, t)
    \/ \E rev \in Foreign : AcceptProposal(rev)
    \/ Lifecycle

Spec == Init /\ [][Next]_vars

-----------------------------------------------------------------------------
(* Correctness *)

\* Every column holds a value of its type, and references stay inside the
\* tables they refer to.
TypeOK ==
    /\ resGen \in Gens /\ wsGen \in Gens
    /\ head \in snapshots
    /\ deleted \in BOOLEAN /\ public \in BOOLEAN
    /\ latest \in released \cup {None} /\ released \subseteq snapshots
    /\ parents \in [Revs -> (SUBSET Revs) \cup {None}]
    /\ snapshots \subseteq Revs
    /\ operations \in [OpIds -> Operation \cup {None}]
    /\ conflicts \in [ConflictIds -> Conflict \cup {None}]
    /\ syncBase \in Foreign \cup {None}
    /\ handler \in [Handlers -> RunningCommit \cup RunningRename \cup {None}]
    /\ replies \subseteq [op : OpIds, state : OpState, gen : 0..MaxGen,
                          conflict : ConflictIds \cup {None}]

\* No last writer wins: whichever handler moves the head, the revision it
\* installs has the replaced head as a parent.  Only accepting a proposal
\* installs another skill's revision instead.  Commits re-check the head
\* under the lock; a rename re-checks only the resource generation, so this
\* holds because every step that moves the head moves that generation too.
HeadNeverOverwritten ==
    [][ head' # head => head \in parents'[head'] \/ head' \in Foreign ]_vars

\* The workspace generation never repeats or goes back, even for rename and
\* prune, which set it from the resource's counter: a head is never replaced
\* under an unchanged generation, which is what a restore, a publish or a
\* proposal acceptance compares with the one its caller saw.
GenerationNeverRepeats ==
    [][ /\ wsGen' >= wsGen /\ resGen' >= resGen
        /\ head' # head => wsGen' > wsGen ]_vars

\* Clients refuse a skill with two open conflicts, so concurrent commits must
\* never record a second one.
AtMostOneActiveConflict == \A c, d \in Active : c = d

\* The base and both heads of a divergence stay downloadable for the
\* three-way merge, whatever is pruned between prepare, commit and merge.
ConflictHistoryKept ==
    \A c \in ConflictIds : conflicts[c] # None =>
        {conflicts[c].base} \cup conflicts[c].heads \subseteq snapshots

\* A save that lost the race is never dropped: its revision is a head of the
\* conflict its client was told of, and that conflict is closed only by a
\* revision whose parents are exactly its two heads.
DivergedSavesSurvive ==
    \A o \in OpIds : operations[o] # None /\ operations[o].state = "diverged" =>
        LET c == conflicts[operations[o].conflict]
        IN  /\ o \in c.heads
            /\ c.resolution # None => parents[c.resolution] = c.heads

\* Retried and concurrent commits of one operation all get one answer.
OneOutcomePerOperation ==
    \A r1, r2 \in replies : r1.op = r2.op => r1 = r2

\* The upstream base recorded for a fork only moves forward, to a revision
\* that the new head really merges.
ForkBaseFollowsMerges ==
    [][ syncBase' # syncBase =>
          /\ <<syncBase, syncBase'>> \in ForeignBefore
          /\ syncBase' \in parents'[head'] ]_vars

\* The documented way out of a conflict is a revision whose parents are its
\* two heads; prepare accepts it only if the workspace head is one of them.
OpenConflictCanBeMerged ==
    \A c \in Active : head \in conflicts[c].heads

=============================================================================
