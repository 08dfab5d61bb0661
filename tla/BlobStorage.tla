---------------------------- MODULE BlobStorage ----------------------------
(***************************************************************************)
(* Content storage of the registry: the canonical blobs that revisions     *)
(* share, their reference counts per skill and per namespace, the          *)
(* namespace quota, and the delayed collection of what pruning leaves      *)
(* unreachable.  PostgreSQL holds the counts and the blob rows, an object  *)
(* store holds the bytes, and no transaction spans the two.                *)
(*                                                                         *)
(* A request that stores a revision runs through phases: prepared, bytes   *)
(* verified, bytes put under their canonical keys, and, inside its         *)
(* transaction, locks taken and quota checked; the writes that follow are  *)
(* one step.  Transactions run READ COMMITTED, so what one checked may     *)
(* have changed when it writes, except for the rows it locked.  A revision *)
(* is the set of blobs in its manifest, all of one size.                   *)
(***************************************************************************)
EXTENDS Naturals, FiniteSets

CONSTANTS
    Namespaces, Teams,  \* personal and team namespaces
    Skills, Revs, Blobs,
    BlobsOf,    \* the blobs of each revision's manifest
    Requests,   \* requests running concurrently
    Quota,      \* limits.namespace_storage_bytes, in blobs
    None

ASSUME ContentAssumption ==
    /\ BlobsOf \in [Revs -> SUBSET Blobs]
    /\ Teams \subseteq Namespaces
    /\ Quota \in Nat
    /\ None \notin Namespaces \cup Skills \cup Revs \cup Blobs

VARIABLES
    owner,      \* resources.owner_namespace_id, None before the import commits
    head,       \* skill_private_workspaces.revision_id
    snapshots,  \* resource_revision_snapshots
    stored,     \* revisions
    revBlobs,   \* revision_blob_reachability
    resRefs,    \* resource_blob_reachability.reference_count, 0 for no row
    nsRefs,     \* namespace_blob_reachability.reference_count, 0 for no row
    rows,       \* canonical_blobs
    gc,         \* canonical_blob_gc: "no" row, "waiting" for the grace, "eligible"
    objects,    \* canonical blob keys in the object store
    running,    \* the requests in progress
    pruning,    \* transactions of prune_skill_history and the counts they read
    collecting  \* transactions of drain_blob_gc: "no", "locked", "deleted" the object

catalog == <<owner, head, snapshots, stored>>
counts == <<revBlobs, resRefs, nsRefs>>
vars == <<owner, head, snapshots, stored, revBlobs, resRefs, nsRefs, rows, gc,
          objects, running, pruning, collecting>>

Kinds == {"import", "save", "rename"}
Phases == {"prepared", "verified", "put", "checked"}
Run == [kind : Kinds, skill : Skills, ns : Namespaces, rev : Revs,
        staged : SUBSET Blobs, phase : Phases]
Prune == [drop : SUBSET Revs, nsCount : [Blobs -> Nat]]

\* None marks an absent row: it is no request and no transaction.
ASSUME NoneIsNoRow == None \notin Run /\ None \notin Prune

Personal(s) == owner[s] \in Namespaces \ Teams

InNamespace(n) == {b \in Blobs : nsRefs[n][b] > 0}
Reachable(b) ==
    \/ \E s \in Skills : resRefs[s][b] > 0
    \/ \E n \in Namespaces : nsRefs[n][b] > 0

Phase(q, p) == running[q] # None /\ running[q].phase = p
Enter(q, p) == running' = [running EXCEPT ![q].phase = p]

\* FOR UPDATE on the resource, and on the namespace by imports; the other
\* writers that authorize through the namespace take FOR SHARE.
SkillLocked(s) ==
    \/ pruning[s] # None
    \/ \E q \in Requests : Phase(q, "checked") /\ running[q].skill = s
NamespaceExclusive(n) == \E q \in Requests :
    Phase(q, "checked") /\ running[q].kind = "import" /\ running[q].ns = n
NamespaceShared(n) == \E q \in Requests :
    Phase(q, "checked") /\ running[q].kind # "rename" /\ running[q].ns = n

-----------------------------------------------------------------------------
(* prepare, and the part of commit that precedes its transaction *)

NewRevision(r) == r \notin stored /\ \A q \in Requests : running[q] # None => running[q].rev # r

\* prepare_private_skill_import, prepare_private_revision, and the read that
\* opens rename_skill.  Only blobs this namespace has not proven are staged;
\* a rename puts every blob of the tree it rewrote.
PrepareUpload(q, k, s, n, r) ==
    /\ running[q] = None
    /\ NewRevision(r)
    /\ IF k = "import"
       THEN owner[s] = None /\ \A p \in Requests : running[p] # None => running[p].skill # s
       ELSE owner[s] = n /\ (k = "rename" => Personal(s))
    /\ running' = [running EXCEPT ![q] =
           [kind |-> k, skill |-> s, ns |-> n, rev |-> r, phase |-> "prepared",
            staged |-> IF k = "rename" THEN BlobsOf[r] ELSE BlobsOf[r] \ InNamespace(n)]]
    /\ UNCHANGED <<catalog, counts, rows, gc, objects, pruning, collecting>>

\* commit: staged bytes are read from staging, the others must still be
\* proven by this namespace and are read under their canonical key.
VerifyBytes(q) ==
    /\ Phase(q, "prepared")
    /\ BlobsOf[running[q].rev] \ running[q].staged \subseteq
         InNamespace(running[q].ns) \cap rows \cap objects
    /\ Enter(q, "verified")
    /\ UNCHANGED <<catalog, counts, rows, gc, objects, pruning, collecting>>

\* Staged bytes are put under their canonical keys.
PutObjects(q) ==
    /\ Phase(q, "verified")
    /\ objects' = objects \cup running[q].staged
    /\ Enter(q, "put")
    /\ UNCHANGED <<catalog, counts, rows, gc, pruning, collecting>>

-----------------------------------------------------------------------------
(* The transaction that stores the revision *)

\* enforce_namespace_quota: a blob the namespace already reaches is free.
WithinQuota(n, bs) == Cardinality(InNamespace(n) \cup bs) <= Quota

CheckLocked(q) ==
    LET run == running[q]
    IN  /\ Phase(q, "put")
        /\ ~SkillLocked(run.skill)
        /\ CASE run.kind = "import" -> owner[run.skill] = None /\ ~NamespaceShared(run.ns)
             [] run.kind = "save"   -> owner[run.skill] = run.ns /\ ~NamespaceExclusive(run.ns)
             [] run.kind = "rename" -> owner[run.skill] = run.ns
        /\ WithinQuota(run.ns, BlobsOf[run.rev])
        /\ Enter(q, "checked")
        /\ UNCHANGED <<catalog, counts, rows, gc, objects, pruning, collecting>>

Increment(refs, bs) == [b \in Blobs |-> refs[b] + IF b \in bs THEN 1 ELSE 0]

\* Mutant: the row that a drain has locked is taken for a settled one.
NoDrain(bs) == TRUE

\* Inserting a reference share-locks the blob's row and so waits for a drain
\* that has it FOR UPDATE.
NotDraining(bs) == \A b \in bs : collecting[b] = "no"

\* A rename compares the generation it read, so any other committed write to
\* the skill ends it; pruning also deletes the prepared saves.
EndStale(s, kinds, own) ==
    [q \in Requests |->
        IF q = own \/ (running[q] # None /\ running[q].skill = s
                       /\ running[q].kind \in kinds /\ running[q].phase # "checked")
        THEN None ELSE running[q]]

\* persist_canonical_blobs, persist_revision(_storage), the snapshot and the
\* workspace.  Only a rename cancels a pending collection.
PersistRevision(q) ==
    LET run == running[q]  bs == BlobsOf[run.rev]
    IN  /\ Phase(q, "checked")
        /\ NotDraining(bs)
        /\ rows' = rows \cup bs
        /\ stored' = stored \cup {run.rev}
        /\ revBlobs' = [revBlobs EXCEPT ![run.rev] = bs]
        /\ resRefs' = [resRefs EXCEPT ![run.skill] = Increment(@, bs)]
        /\ nsRefs' = [nsRefs EXCEPT ![run.ns] = Increment(@, bs)]
        /\ gc' = [b \in Blobs |-> IF run.kind = "rename" /\ b \in bs THEN "no" ELSE gc[b]]
        /\ owner' = [owner EXCEPT ![run.skill] = run.ns]
        /\ snapshots' = [snapshots EXCEPT ![run.skill] = @ \cup {run.rev}]
        /\ \/ /\ head' = [head EXCEPT ![run.skill] = run.rev]
              /\ running' = EndStale(run.skill, {"rename"}, q)
           \/ /\ run.kind = "save"    \* diverged: stored beside the head
              /\ UNCHANGED head
              /\ running' = [running EXCEPT ![q] = None]
        /\ UNCHANGED <<objects, pruning, collecting>>

\* A check fails, a lock times out, a client goes away or the server stops:
\* the transaction is rolled back, and a prepared upload may be retried.
Fail(q) ==
    /\ running[q] # None
    /\ \/ running' = [running EXCEPT ![q] = None]
       \/ running[q].kind # "rename" /\ Enter(q, "prepared")
    /\ UNCHANGED <<catalog, counts, rows, gc, objects, pruning, collecting>>

-----------------------------------------------------------------------------
(* restore_skill, accept_proposal, transfer_resource: one transaction each *)

\* An UPDATE: a blob without a row stays without one.
IncrementRow(refs, bs) == Increment(refs, {b \in bs : refs[b] > 0})

\* What is read before the transaction is guarded by the workspace generation
\* that the request expects, so reading and writing are one step.
RestoreSkill(s, r, target) ==
    /\ owner[s] # None /\ ~SkillLocked(s) /\ ~NamespaceExclusive(owner[s])
    /\ target \in snapshots[s] /\ target # head[s]
    /\ NewRevision(r) /\ BlobsOf[r] = BlobsOf[target]
    /\ stored' = stored \cup {r}
    /\ revBlobs' = [revBlobs EXCEPT ![r] = BlobsOf[r]]
    /\ resRefs' = [resRefs EXCEPT ![s] = IncrementRow(@, BlobsOf[r])]
    /\ nsRefs' = [nsRefs EXCEPT ![owner[s]] = IncrementRow(@, BlobsOf[r])]
    /\ snapshots' = [snapshots EXCEPT ![s] = @ \cup {r}]
    /\ head' = [head EXCEPT ![s] = r]
    /\ running' = EndStale(s, {"rename"}, None)
    /\ UNCHANGED <<owner, rows, gc, objects, pruning, collecting>>

\* Mutant: a revision the target already holds is counted again.
NotAttached(t, r) == TRUE

\* attach_proposal_revision returns early for a revision the target has.
Unattached(t, r) == r \notin snapshots[t]

\* The head of skill s, a fork of t, becomes the head of t.
AcceptProposal(s, t) ==
    LET r == head[s]  new == IF Unattached(t, r) THEN BlobsOf[r] ELSE {}
    IN  /\ s # t /\ owner[s] # None /\ owner[t] # None
        /\ ~SkillLocked(s) /\ ~SkillLocked(t) /\ ~NamespaceExclusive(owner[t])
        /\ Unattached(t, r) => WithinQuota(owner[t], new)
        /\ NotDraining(new)
        /\ resRefs' = [resRefs EXCEPT ![t] = Increment(@, new)]
        /\ nsRefs' = [nsRefs EXCEPT ![owner[t]] = Increment(@, new)]
        /\ gc' = [b \in Blobs |-> IF b \in new THEN "no" ELSE gc[b]]
        /\ snapshots' = [snapshots EXCEPT ![t] = @ \cup {r}]
        /\ head' = [head EXCEPT ![t] = r]
        /\ running' = EndStale(t, {"rename"}, None)
        /\ UNCHANGED <<owner, stored, revBlobs, rows, objects, pruning, collecting>>

\* move_namespace_blob_reachability: the skill's counts change namespace.
TransferResource(s, n) ==
    /\ Personal(s) /\ n \in Teams
    /\ ~SkillLocked(s) /\ ~NamespaceExclusive(n)
    /\ WithinQuota(n, {b \in Blobs : resRefs[s][b] > 0})
    /\ \A b \in Blobs : nsRefs[owner[s]][b] >= resRefs[s][b]
    /\ nsRefs' = [nsRefs EXCEPT
           ![n] = [b \in Blobs |-> @[b] + resRefs[s][b]],
           ![owner[s]] = [b \in Blobs |-> @[b] - resRefs[s][b]]]
    /\ owner' = [owner EXCEPT ![s] = n]
    /\ running' = EndStale(s, {"rename"}, None)
    /\ UNCHANGED <<head, snapshots, stored, revBlobs, resRefs, rows, gc, objects, pruning, collecting>>

-----------------------------------------------------------------------------
(* prune_skill_history and drain_blob_gc *)

\* Mutant: the head is taken for prunable history.
HeadToo(s) == snapshots[s]

\* The eligibility query: never the head.  Which others are kept for a
\* release, a conflict, a proposal or a pack is left open.
Prunable(s) == snapshots[s] \ {head[s]}

\* Under the resource lock, which does not cover the namespace's counts, the
\* counts are read by a statement of their own.
PruneRead(s, E) ==
    /\ Personal(s) /\ ~SkillLocked(s)
    /\ E \subseteq Prunable(s)
    /\ pruning' = [pruning EXCEPT ![s] = [drop |-> E, nsCount |-> nsRefs[owner[s]]]]
    /\ UNCHANGED <<catalog, counts, rows, gc, objects, running, collecting>>

\* decrement_reachability: the row goes when the count that was read says
\* nothing would be left, otherwise the current count is reduced.
Decrement(refs, read, n) ==
    [b \in Blobs |-> IF n[b] = 0 THEN refs[b]
                    ELSE IF read[b] <= n[b] \/ refs[b] = 0 THEN 0 ELSE refs[b] - n[b]]

\* Mutant: candidates are looked for before the counts are dropped.
MarkBeforeDecrement(n, newNs, newRes, dropped) ==
    {b \in Blobs : dropped[b] > 0 /\ nsRefs[n][b] = 0}

\* The blobs to mark: row security shows the caller the counts of its own
\* namespace only, so another namespace may still reach them.
Candidates(n, newNs, newRes, dropped) ==
    {b \in Blobs : /\ dropped[b] > 0
                   /\ newNs[n][b] = 0
                   /\ \A s \in Skills : owner[s] = n => newRes[s][b] = 0}

\* A blob without a namespace row fails the join, and a row is never updated
\* to zero (CHECK reference_count > 0): the transaction then fails.
PruneWrite(s) ==
    LET run == pruning[s]
        dropped == [b \in Blobs |-> Cardinality({r \in run.drop : b \in revBlobs[r]})]
        n == owner[s]
    IN  /\ run # None
        /\ \A b \in Blobs : dropped[b] > 0 =>
             /\ run.nsCount[b] > 0
             /\ run.nsCount[b] > dropped[b] => nsRefs[n][b] > dropped[b] \/ nsRefs[n][b] = 0
        /\ resRefs' = [resRefs EXCEPT ![s] = Decrement(@, @, dropped)]
        /\ nsRefs' = [nsRefs EXCEPT ![n] = Decrement(@, run.nsCount, dropped)]
        /\ gc' = [b \in Blobs |->
               IF b \in Candidates(n, nsRefs', resRefs', dropped) THEN "waiting" ELSE gc[b]]
        /\ snapshots' = [snapshots EXCEPT ![s] = @ \ run.drop]
        /\ revBlobs' = [r \in Revs |->
               IF r \in run.drop /\ \A t \in Skills : r \notin snapshots'[t] THEN {} ELSE revBlobs[r]]
        /\ running' = EndStale(s, {"save", "rename"}, None)
        /\ pruning' = [pruning EXCEPT ![s] = None]
        /\ UNCHANGED <<owner, head, stored, rows, objects, collecting>>

PruneFails(s) ==
    /\ pruning[s] # None
    /\ pruning' = [pruning EXCEPT ![s] = None]
    /\ UNCHANGED <<catalog, counts, rows, gc, objects, running, collecting>>

\* The grace interval of a candidate passes.
GraceElapses(b) ==
    /\ gc[b] = "waiting"
    /\ gc' = [gc EXCEPT ![b] = "eligible"]
    /\ UNCHANGED <<catalog, counts, rows, objects, running, pruning, collecting>>

\* Mutant: the drain trusts the check that prune made.
NeverReachable(b) == FALSE

\* The fresh check, by the worker role that sees every namespace.
ReachableNow(b) == Reachable(b)

DrainLock(b) ==
    /\ gc[b] = "eligible" /\ b \in rows /\ collecting[b] = "no"
    /\ IF ReachableNow(b)
       THEN gc' = [gc EXCEPT ![b] = "no"] /\ UNCHANGED collecting
       ELSE collecting' = [collecting EXCEPT ![b] = "locked"] /\ UNCHANGED gc
    /\ UNCHANGED <<catalog, counts, rows, objects, running, pruning>>

DrainDeleteObject(b) ==
    /\ collecting[b] = "locked"
    /\ objects' = objects \ {b}
    /\ collecting' = [collecting EXCEPT ![b] = "deleted"]
    /\ UNCHANGED <<catalog, counts, rows, gc, running, pruning>>

DrainDeleteRow(b) ==
    /\ collecting[b] = "deleted"
    /\ rows' = rows \ {b}
    /\ gc' = [gc EXCEPT ![b] = "no"]
    /\ collecting' = [collecting EXCEPT ![b] = "no"]
    /\ UNCHANGED <<catalog, counts, objects, running, pruning>>

\* The drain stops and its transaction rolls back; the object stays deleted.
DrainFails(b) ==
    /\ collecting[b] # "no"
    /\ collecting' = [collecting EXCEPT ![b] = "no"]
    /\ UNCHANGED <<catalog, counts, rows, gc, objects, running, pruning>>

-----------------------------------------------------------------------------
Init ==
    /\ owner = [s \in Skills |-> None]
    /\ head = [s \in Skills |-> None]
    /\ snapshots = [s \in Skills |-> {}]
    /\ stored = {}
    /\ revBlobs = [r \in Revs |-> {}]
    /\ resRefs = [s \in Skills |-> [b \in Blobs |-> 0]]
    /\ nsRefs = [n \in Namespaces |-> [b \in Blobs |-> 0]]
    /\ rows = {} /\ objects = {}
    /\ gc = [b \in Blobs |-> "no"]
    /\ running = [q \in Requests |-> None]
    /\ pruning = [s \in Skills |-> None]
    /\ collecting = [b \in Blobs |-> "no"]

Store(q) == VerifyBytes(q) \/ PutObjects(q) \/ CheckLocked(q) \/ PersistRevision(q) \/ Fail(q)
Collect(b) == GraceElapses(b) \/ DrainLock(b) \/ DrainDeleteObject(b) \/ DrainDeleteRow(b) \/ DrainFails(b)
PruneHistory(s) == (\E E \in SUBSET snapshots[s] : PruneRead(s, E)) \/ PruneWrite(s) \/ PruneFails(s)

Next ==
    \/ \E q \in Requests, k \in Kinds, s \in Skills, n \in Namespaces, r \in Revs :
         PrepareUpload(q, k, s, n, r)
    \/ \E q \in Requests : Store(q)
    \/ \E s \in Skills, r \in Revs, t \in Revs : RestoreSkill(s, r, t)
    \/ \E s, t \in Skills : AcceptProposal(s, t)
    \/ \E s \in Skills, n \in Namespaces : TransferResource(s, n)
    \/ \E s \in Skills : PruneHistory(s)
    \/ \E b \in Blobs : Collect(b)

Spec == Init /\ [][Next]_vars

-----------------------------------------------------------------------------
(* Correctness *)

\* Every column holds a value of its type, and a skill's head is one of its
\* stored snapshots.
TypeOK ==
    /\ owner \in [Skills -> Namespaces \cup {None}]
    /\ \A s \in Skills : IF owner[s] = None THEN head[s] = None ELSE head[s] \in snapshots[s]
    /\ DOMAIN head = Skills
    /\ snapshots \in [Skills -> SUBSET stored] /\ stored \subseteq Revs
    /\ revBlobs \in [Revs -> SUBSET Blobs]
    /\ resRefs \in [Skills -> [Blobs -> Nat]]
    /\ nsRefs \in [Namespaces -> [Blobs -> Nat]]
    /\ rows \subseteq Blobs /\ objects \subseteq Blobs
    /\ gc \in [Blobs -> {"no", "waiting", "eligible"}]
    /\ running \in [Requests -> Run \cup {None}]
    /\ pruning \in [Skills -> Prune \cup {None}]
    /\ collecting \in [Blobs -> {"no", "locked", "deleted"}]

\* The revisions of a skill that contain a blob, and the number of references
\* to it that the snapshots of a namespace's skills hold.
Containing(s, b) == {r \in snapshots[s] : b \in BlobsOf[r]}
Holding(n, b) == {x \in Skills \X Revs : owner[x[1]] = n /\ x[2] \in Containing(x[1], b)}
Held(n, b) == Cardinality(Holding(n, b))

\* A skill's count of a blob is the number of its revisions that contain it,
\* and a namespace is charged for no more references than its skills hold,
\* through any mix of saves, restores, accepted proposals, transfers and
\* pruning.  Quota, upload skipping and collection all read these counts.
RefCountsExact ==
    /\ \A s \in Skills, b \in Blobs : resRefs[s][b] = Cardinality(Containing(s, b))
    /\ \A n \in Namespaces, b \in Blobs : nsRefs[n][b] <= Held(n, b)

\* Every reference has its blob row: a drain never removes the row of a blob
\* that a transaction is about to reference.
ReferencesHaveRows == \A b \in Blobs : Reachable(b) => b \in rows

\* drain_blob_gc deletes bytes only while nothing in any namespace refers to
\* them, although prune marks candidates from its caller's view.
CollectedOnlyWhenUnreachable ==
    [][ \A b \in objects \ objects' : ~Reachable(b) /\ ~Reachable(b)' ]_vars

\* Nothing leaks past the collector: a blob row that no revision refers to
\* is a candidate.
UnreachableIsCandidate == \A b \in rows : Reachable(b) \/ gc[b] # "no"

\* "The workspace ref cannot advance before all referenced objects ... are
\* authoritative": every stored revision's bytes are in the object store.
StoredRevisionsHaveBytes ==
    \A s \in Skills : \A r \in snapshots[s] : BlobsOf[r] \subseteq objects

\* "Charges unique logical bytes independently per namespace": a namespace
\* is charged for every blob its skills hold.
HeldBlobsCharged == \A n \in Namespaces, b \in Blobs : Held(n, b) > 0 => nsRefs[n][b] > 0

\* "Enforces namespace quota": no namespace reaches more than its limit.
QuotaHolds == \A n \in Namespaces : Cardinality(InNamespace(n)) <= Quota

=============================================================================
