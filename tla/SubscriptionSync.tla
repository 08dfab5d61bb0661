-------------------------- MODULE SubscriptionSync --------------------------
(***************************************************************************)
(* One subscribed skill on one device: how `denju sync` brings the visible *)
(* copy to the release the registry serves.  The command line and the      *)
(* background service are processes that run the same sync over one SQLite *)
(* file and one directory tree, with a lease per skill but no lock around  *)
(* a sync.  A release is unpacked into a generation directory and the      *)
(* canonical path, a link, is switched to it; a journal row records how    *)
(* far that got, so that any later sync can finish or undo it.  The user   *)
(* may edit the visible directory at any time: an edit turns the           *)
(* subscription into a local fork.                                         *)
(***************************************************************************)
EXTENDS Naturals, FiniteSets

CONSTANTS
    Procs,      \* processes that run sync
    MaxOps,     \* operation IDs are 1..MaxOps, handed out in order of creation
    MaxRev,     \* releases are 1..MaxRev
    Names, Name,\* the name (owner and slug) under which each release was published:
                \* a rename is a release of its own
    MaxSubs,    \* bound on subscribing and unsubscribing
    MaxFaults,  \* bound on crashes, failed downloads and outlived leases
    Slow,       \* whether a live process may outlive its lease
    Edits,      \* whether the user edits the visible copy
    None

ASSUME SyncAssumption ==
    /\ {MaxRev, MaxOps} \subseteq Nat \ {0} /\ {MaxSubs, MaxFaults} \subseteq Nat /\ {Slow, Edits} \subseteq BOOLEAN
    /\ None \notin Nat /\ Name \in [1..MaxRev -> Names]

Revs == 1..MaxRev
Ops == 1..MaxOps

VARIABLES
    release,      \* the registry's latest release
    subs,         \* changes of the subscription so far; subscribed when even
    desired,      \* subscriptions.desired_revision_id, None without a row
    materialized, \* subscriptions.materialized_revision_id
    forked,       \* a local_forks row suppresses the subscription
    locked,       \* a subscription_edit_locks row does
    removal,      \* open journals of journaled_remove_managed_skill: what each
                  \* removes next, of the skill of which name
    journal,      \* operation_journal rows of kind materialize_skill
    lease,        \* work_leases row of the skill: the operation holding it
    canonical,    \* generation that the canonical link of each name points to
    tree,         \* each generation directory: absent, as released (clean),
                  \* edited (dirty; broken if SKILL.md is gone or unreadable),
                  \* or cut short by a process (partial; headless without
                  \* its SKILL.md)
    stage,        \* the staging directory of each operation
    pc, want, op, \* of each process: where it is, release fetched, operation
    record,       \* of each process: the row of the skill it has read
    todo,         \* of each process: journal rows its recovery has listed
    faults

registry == <<release, subs>>
database == <<desired, materialized, forked, locked, removal>>
vars == <<registry, desired, materialized, forked, locked, removal, journal, lease,
          canonical, tree, stage, pc, want, op, record, todo, faults>>

JournalState == {"planned", "staged", "verified", "switched", "complete", "discarded"}
Journal == [rev : Revs, state : JournalState]

Row == [name : Names, rev : Revs \cup {None}]
Removal == [part : {"link", "row"}, name : Names]

\* None is no row of a table.
ASSUME NoneIsNoJournal == None \notin Journal \cup Row

Listed == [op : Ops, rev : Revs, state : JournalState \cup {"deleting", "marking", "marked"}]

Recovering == {"forkRecover", "recover", "matRecover"}
Removing == {"lifecycle", "forkRemove", "prepare", "lifecycleAgain", "unsubscribe", "move"}
Working == {"check", "clear", "clearing", "write", "writing", "wrote", "verify",
            "rename", "renamed", "switch", "switched", "mark", "marked"}
Places == Recovering \cup Removing \cup Working \cup
          {"idle", "protect", "fork", "forked", "reconcile", "apply", "applied", "remove", "download", "claim",
           "links", "sweep"}

\* The visible link of the skill as its row names it, and the row as read.
Link == IF desired = None THEN None ELSE canonical[Name[desired]]
RowRead == IF desired = None THEN None ELSE [name |-> Name[desired], rev |-> materialized]

\* What the registry serves this device.
remote == IF subs % 2 = 0 THEN release ELSE None

\* materialization_journals
Open == {[op |-> o, rev |-> journal[o].rev, state |-> journal[o].state] :
           o \in {x \in Ops : journal[x] # None /\ journal[x].state \notin {"complete", "discarded"}}}

\* A recovery lists the open journals when it starts.
Goto(p, place) ==
    /\ pc' = [pc EXCEPT ![p] = place]
    /\ todo' = [todo EXCEPT ![p] = IF place \in Recovering THEN Open ELSE {}]

\* Mutant: an error leaves materialize_skill_snapshot before the release.
ReturnAtOnce(p) == Goto(p, "idle") /\ UNCHANGED <<lease, op, want, record>>

\* The sync returns an error; materialize_skill_snapshot releases its lease.
Return(p) ==
    /\ Goto(p, "idle")
    /\ lease' = IF lease # None /\ lease = op[p] THEN None ELSE lease
    /\ op' = [op EXCEPT ![p] = None]
    /\ want' = [want EXCEPT ![p] = None] /\ record' = [record EXCEPT ![p] = None]

-----------------------------------------------------------------------------
(* The registry, the user and faults *)

Publish ==
    /\ release < MaxRev /\ release' = release + 1
    /\ UNCHANGED <<subs, database, journal, lease, canonical, tree, stage, pc, want, op, record, todo, faults>>

\* The relationship ends, here or elsewhere, or begins again.
ChangeSubscription ==
    /\ subs < MaxSubs /\ subs' = subs + 1
    /\ UNCHANGED <<release, database, journal, lease, canonical, tree, stage, pc, want, op, record, todo, faults>>

\* The visible copy is a writable working view.
UserEdits ==
    /\ Edits
    /\ \E n \in Names, edit \in {"dirty", "broken"} :
         /\ canonical[n] # None /\ tree[canonical[n]] \in {"clean", "dirty", "broken"} \ {edit}
         /\ tree' = [tree EXCEPT ![canonical[n]] = edit]
    /\ UNCHANGED <<registry, database, journal, lease, canonical, stage, pc, want, op, record, todo, faults>>

Fault == faults < MaxFaults /\ faults' = faults + 1

\* The process dies anywhere; its lease and its journal stay.
Crash(p) ==
    /\ pc[p] # "idle" /\ Fault
    /\ Goto(p, "idle")
    /\ op' = [op EXCEPT ![p] = None] /\ want' = [want EXCEPT ![p] = None] /\ record' = [record EXCEPT ![p] = None]
    /\ UNCHANGED <<registry, database, journal, lease, canonical, tree, stage>>

\* Sixty seconds pass: the holder is dead, slow, or its machine slept.
LeaseExpires ==
    /\ lease # None
    /\ IF \E p \in Procs : op[p] = lease THEN Slow /\ Fault ELSE UNCHANGED faults
    /\ lease' = None
    /\ UNCHANGED <<registry, database, journal, canonical, tree, stage, pc, want, op, record, todo>>

-----------------------------------------------------------------------------
(* sync_once up to its first request: lifecycle recovery, edit protection *)

StartSync(p) ==
    /\ pc[p] = "idle"
    /\ Goto(p, "lifecycle")
    /\ UNCHANGED <<registry, database, journal, lease, canonical, tree, stage, want, op, record, faults>>

\* recover_local_lifecycle: the link goes first, then the row, whatever it
\* says by now, and the lock that refers to it.
RemoveManaged(p) ==
    /\ pc[p] \in Removing
    /\ \E x \in removal :
         \/ /\ x.part = "link"
            /\ canonical' = [canonical EXCEPT ![x.name] = None]
            /\ removal' = (removal \ {x}) \cup {[x EXCEPT !.part = "row"]}
            /\ UNCHANGED <<desired, materialized, locked>>
         \/ /\ x.part = "row"
            /\ desired' = None /\ materialized' = None /\ locked' = FALSE /\ removal' = removal \ {x}
            /\ UNCHANGED canonical
    /\ UNCHANGED <<registry, forked, journal, lease, tree, stage, pc, want, op, record, todo, faults>>

\* reconcile_harness_projections fails on a row whose link leads nowhere.
Projectable == materialized # None => Link # None /\ tree[Link] # "absent"

NothingToRemove(p) ==
    /\ pc[p] \in Removing /\ removal = {}
    /\ IF pc[p] \in {"lifecycle", "prepare"} /\ ~Projectable THEN Return(p)
       ELSE /\ Goto(p, CASE pc[p] = "lifecycle" -> "protect"
                         [] pc[p] = "forkRemove" -> "prepare"
                         [] pc[p] = "prepare" -> "recover"
                         [] pc[p] = "lifecycleAgain" -> "reconcile"
                         [] pc[p] = "unsubscribe" \/ (pc[p] = "move" /\ (forked \/ locked)) -> "links"
                         [] OTHER -> "download")
            /\ UNCHANGED <<lease, want, op, record>>
    /\ locked' = (locked /\ pc[p] # "forkRemove")
    /\ UNCHANGED <<registry, desired, materialized, forked, removal, journal, canonical, tree, stage, faults>>

\* protect_subscription_edits compares the visible tree with the tree of the
\* DESIRED release, whichever release is materialized.
Readable(r) == tree[r] \notin {"broken", "headless"}
LooksEdited ==
    /\ Link # None /\ tree[Link] # "absent" /\ Readable(Link)
    /\ ~(Link = desired /\ tree[Link] = "clean")

\* A tree that cannot be read as a skill locks the subscription, one that is
\* as desired unlocks it.
ProtectEdits(p) ==
    /\ pc[p] = "protect"
    /\ locked' = CASE Link = None \/ LooksEdited -> locked
                   [] OTHER -> IF tree[Link] = "absent" THEN locked ELSE ~Readable(Link)
    /\ record' = [record EXCEPT ![p] = IF LooksEdited THEN RowRead ELSE None]
    /\ Goto(p, IF LooksEdited THEN "forkRecover" ELSE "prepare")
    /\ UNCHANGED <<registry, desired, materialized, forked, removal, journal, lease, canonical, tree, stage,
                   want, op, faults>>

\* create_local_fork: the tree that was read is saved as a fork, which is
\* materialized elsewhere; an upstream has one fork (local_forks_upstream_idx).
CreateFork(p) ==
    /\ pc[p] = "fork"
    /\ IF forked THEN Return(p) ELSE Goto(p, "forked") /\ UNCHANGED <<lease, want, op, record>>
    /\ forked' = TRUE
    /\ UNCHANGED <<registry, desired, materialized, locked, removal, journal, canonical, tree, stage, faults>>

\* journaled_remove_managed_skill of the row that was read
OpenRemoval(p, place) ==
    /\ removal' = removal \cup {[part |-> "link", name |-> record[p].name]}
    /\ record' = [record EXCEPT ![p] = None]
    /\ Goto(p, place)
    /\ UNCHANGED <<registry, desired, materialized, forked, locked, journal, lease, canonical, tree, stage,
                   want, op, faults>>

ReplaceSubscription(p) == pc[p] = "forked" /\ OpenRemoval(p, "forkRemove")

-----------------------------------------------------------------------------
(* recover_materializations: it takes no lease *)

SetJournal(o, state) == journal' = [journal EXCEPT ![o].state = state]
Handled(p, j) == todo' = [todo EXCEPT ![p] = @ \ {j}]
Relist(p, j, state) == todo' = [todo EXCEPT ![p] = (@ \ {j}) \cup {[j EXCEPT !.state = state]}]

\* Rows are recovered in order of creation.
Oldest(p, j) == j \in todo[p] /\ \A k \in todo[p] : j.op <= k.op

\* Planned or staged when listed: its staging directory is deleted, file by
\* file, and the row deleted unless it has moved on since.
RecoverDeleteStage(p, j) ==
    /\ Oldest(p, j) /\ j.state \in {"planned", "staged"}
    /\ stage' = [stage EXCEPT ![j.op] = IF @ = "whole" THEN "partial" ELSE "none"]
    /\ Relist(p, j, "deleting")
    /\ UNCHANGED <<registry, database, journal, lease, canonical, tree, pc, want, op, record, faults>>

RecoverDiscard(p, j) ==
    /\ Oldest(p, j) /\ j.state = "deleting"
    /\ stage' = [stage EXCEPT ![j.op] = "none"]
    /\ IF journal[j.op].state \in {"planned", "staged"}
       THEN SetJournal(j.op, "discarded")
       ELSE UNCHANGED journal
    /\ Handled(p, j)
    /\ UNCHANGED <<registry, database, lease, canonical, tree, pc, want, op, record, faults>>

\* update_materialization_journal fails unless the row is in state "from";
\* recovery gives up at the first error.
RecoverAdvance(p, j, from, next, listed) ==
    IF journal[j.op].state = from
    THEN /\ SetJournal(j.op, next)
         /\ IF next = "complete" THEN Handled(p, j) ELSE Relist(p, j, listed)
         /\ UNCHANGED <<pc, lease, want, op, record>>
    ELSE Return(p) /\ UNCHANGED journal

\* Verified when listed: the link is switched before the row is compared.
RecoverSwitch(p, j) ==
    /\ Oldest(p, j) /\ j.state = "verified"
    /\ IF tree[j.rev] = "absent"    \* "verified generation is missing"
       THEN Return(p) /\ UNCHANGED <<canonical, journal>>
       ELSE canonical' = [canonical EXCEPT ![Name[j.rev]] = j.rev] /\ RecoverAdvance(p, j, "verified", "switched", "marking")
    /\ UNCHANGED <<registry, database, tree, stage, faults>>

\* mark_skill_materialized: some source must desire exactly this revision.
CanMark(rev) == desired = rev

\* Switched when listed: the link must still point to the generation.
RecoverMark(p, j) ==
    /\ Oldest(p, j) /\ j.state \in {"switched", "marking"}
    /\ IF (j.state = "switched" => canonical[Name[j.rev]] = j.rev /\ tree[j.rev] # "absent") /\ CanMark(j.rev)
       THEN materialized' = j.rev /\ Relist(p, j, "marked") /\ UNCHANGED <<pc, lease, want, op, record>>
       ELSE Return(p) /\ UNCHANGED materialized
    /\ UNCHANGED <<registry, desired, forked, locked, removal, journal, canonical, tree, stage, faults>>

RecoverComplete(p, j) ==
    /\ Oldest(p, j) /\ j.state = "marked"
    /\ RecoverAdvance(p, j, "switched", "complete", "complete")
    /\ UNCHANGED <<registry, database, canonical, tree, stage, faults>>

RecoveryDone(p) ==
    /\ pc[p] \in Recovering /\ todo[p] = {}
    /\ Goto(p, CASE pc[p] = "forkRecover" -> "fork"
                 [] pc[p] = "recover" -> "lifecycleAgain"
                 [] pc[p] = "matRecover" -> "claim")
    /\ UNCHANGED <<registry, database, journal, lease, canonical, tree, stage, want, op, record, faults>>

-----------------------------------------------------------------------------
(* sync_with_context: reconcile with the registry *)

\* Mutant: the device reports the desired revision, not the materialized one.
KnownIfDesired == remote = desired

\* The registry lists the release if its generation or revision is not the
\* one this device reports: the generation stored with the desired release
\* and the revision MATERIALIZED.  The generation also moves without a
\* release.  A known relationship that has ended is listed as removed.
AlreadyKnown == remote = desired /\ (remote # None => remote = materialized)

Reconcile(p) ==
    /\ pc[p] = "reconcile"
    /\ \/ /\ remote = None /\ desired # None
          /\ Goto(p, "remove") /\ record' = [record EXCEPT ![p] = RowRead] /\ UNCHANGED want
       \/ /\ remote # None
          /\ Goto(p, "apply") /\ want' = [want EXCEPT ![p] = remote] /\ UNCHANGED record
       \/ /\ AlreadyKnown
          /\ Goto(p, "links") /\ UNCHANGED <<want, record>>
    /\ UNCHANGED <<registry, database, journal, lease, canonical, tree, stage, op, faults>>

RemoveEnded(p) == pc[p] = "remove" /\ OpenRemoval(p, "unsubscribe")

\* upsert_desired: release and name, whatever is visible
UpsertDesired(p) ==
    /\ pc[p] = "apply"
    /\ record' = [record EXCEPT ![p] = RowRead]
    /\ desired' = want[p]
    /\ Goto(p, "applied")
    /\ UNCHANGED <<registry, materialized, forked, locked, removal, journal, lease, canonical, tree, stage,
                   want, op, faults>>

\* The row that was there before had another name.
Renamed(p) == record[p] # None /\ record[p].name # Name[want[p]]

\* After the catalogue is refreshed: the old name of a renamed skill is
\* removed, and with it the row that was just written.
RemoveRenamed(p) == pc[p] = "applied" /\ Renamed(p) /\ OpenRemoval(p, "move")

\* Nothing more for an upstream that a fork or a lock suppresses or a release
\* that is already visible.
ApplyDesired(p) ==
    LET r == want[p]
        current == /\ record[p] # None /\ record[p].rev = r
                   /\ canonical[Name[r]] = r /\ tree[r] # "absent"
    IN  /\ pc[p] = "applied" /\ ~Renamed(p)
        /\ record' = [record EXCEPT ![p] = None]
        /\ Goto(p, IF forked \/ locked \/ current THEN "links" ELSE "download")
        /\ UNCHANGED <<registry, database, journal, lease, canonical, tree, stage, want, op, faults>>

\* reconcile_canonical_links: a link that no row names is removed.
ReadLinks(p) ==
    /\ pc[p] = "links"
    /\ record' = [record EXCEPT ![p] = RowRead]
    /\ Goto(p, "sweep")
    /\ UNCHANGED <<registry, database, journal, lease, canonical, tree, stage, want, op, faults>>

SweepLinks(p) ==
    /\ pc[p] = "sweep"
    /\ canonical' = [n \in Names |-> IF record[p] # None /\ record[p].name = n THEN canonical[n] ELSE None]
    /\ Return(p)
    /\ UNCHANGED <<registry, database, journal, tree, stage, faults>>

DownloadSnapshot(p) ==
    /\ pc[p] = "download"
    /\ Goto(p, "matRecover")
    /\ UNCHANGED <<registry, database, journal, lease, canonical, tree, stage, want, op, record, faults>>

DownloadFails(p) ==
    /\ pc[p] = "download" /\ Fault
    /\ Return(p)
    /\ UNCHANGED <<registry, database, journal, canonical, tree, stage>>

-----------------------------------------------------------------------------
(* materialize_skill_snapshot *)

\* claim_lease, then the journal row; Busy if another operation holds it.
ClaimLease(p) ==
    /\ pc[p] = "claim"
    /\ IF lease # None THEN Return(p) /\ UNCHANGED journal
       ELSE \E o \in Ops :
              /\ journal[o] = None /\ \A x \in 1..(o - 1) : journal[x] # None
              /\ lease' = o
              /\ op' = [op EXCEPT ![p] = o]
              /\ journal' = [journal EXCEPT ![o] = [rev |-> want[p], state |-> "planned"]]
              /\ Goto(p, "check")
              /\ UNCHANGED <<want, record>>
    /\ UNCHANGED <<registry, database, canonical, tree, stage, faults>>

\* Mutant: any dirty generation is a stale cache.
NeverActive(r) == FALSE

\* canonical_targets_generation
ActiveGeneration(r) == canonical[Name[r]] = r

\* Mutant: only the files that are there are compared with the manifest.
ReadyUnlessEdited(r) == tree[r] \in {"clean", "partial"}

\* verify_generation of the generation directory
GenerationReady(r) == tree[r] = "clean"

\* A generation that does not match its manifest is rebuilt, unless it is
\* the visible one; one whose manifest cannot be built is an error.
CheckGeneration(p) ==
    LET r == want[p]
        place == CASE tree[r] = "absent" -> "write"
                   [] GenerationReady(r) -> "wrote"
                   [] OTHER -> "clear"
    IN  /\ pc[p] = "check"
        /\ IF place = "clear" /\ (~Readable(r) \/ ActiveGeneration(r)) THEN Return(p)
           ELSE Goto(p, place) /\ UNCHANGED <<lease, want, op, record>>
        /\ UNCHANGED <<registry, database, journal, canonical, tree, stage, faults>>

\* remove_dir_all of the generation, file by file, in any order
ClearGeneration(p) ==
    /\ pc[p] \in {"clear", "clearing"}
    /\ LET done == pc[p] = "clearing"
       IN  /\ \E t \in {"partial", "headless"} :
                tree' = [tree EXCEPT ![want[p]] = IF done \/ @ = "absent" THEN "absent" ELSE t]
           /\ Goto(p, IF done THEN "write" ELSE "clearing")
    /\ UNCHANGED <<registry, database, journal, lease, canonical, stage, want, op, record, faults>>

\* write_generation into the staging directory, file by file
WriteStage(p) ==
    /\ pc[p] \in {"write", "writing"}
    /\ LET done == pc[p] = "writing"
       IN  /\ stage' = [stage EXCEPT ![op[p]] = IF done /\ @ = "partial" THEN "whole" ELSE "partial"]
           /\ Goto(p, IF done THEN "wrote" ELSE "writing")
    /\ UNCHANGED <<registry, database, journal, lease, canonical, tree, want, op, record, faults>>

\* update_materialization_journal: compare and set, an error if it changed.
Advance(p, from, next, place) ==
    /\ IF journal[op[p]].state = from
       THEN SetJournal(op[p], next) /\ Goto(p, place) /\ UNCHANGED <<lease, want, op, record>>
       ELSE Return(p) /\ UNCHANGED journal
    /\ UNCHANGED <<registry, database, canonical, tree, stage, faults>>

RecordStaged(p) == pc[p] = "wrote" /\ Advance(p, "planned", "staged", "verify")

\* What the staging directory must hold to be trusted.
Verified(o) == stage[o] = "whole"

\* verify_generation of the staging directory, unless the generation is there.
VerifyStage(p) ==
    /\ pc[p] = "verify"
    /\ IF tree[want[p]] = "absent" /\ ~Verified(op[p]) THEN Return(p)
       ELSE /\ Goto(p, IF tree[want[p]] = "absent" THEN "rename" ELSE "renamed")
            /\ UNCHANGED <<lease, want, op, record>>
    /\ UNCHANGED <<registry, database, journal, canonical, tree, stage, faults>>

\* What is in the staging directory by now becomes the generation.
RenameStage(p) ==
    LET r == want[p]  o == op[p]
    IN  /\ pc[p] = "rename"
        /\ IF tree[r] = "absent" /\ stage[o] # "none"
           THEN /\ \E t \in {"partial", "headless"} :
                     tree' = [tree EXCEPT ![r] = IF stage[o] = "whole" THEN "clean" ELSE t]
                /\ stage' = [stage EXCEPT ![o] = "none"]
                /\ Goto(p, "renamed") /\ UNCHANGED <<lease, want, op, record>>
           ELSE Return(p) /\ UNCHANGED <<tree, stage>>
        /\ UNCHANGED <<registry, database, journal, canonical, faults>>

RecordVerified(p) == pc[p] = "renamed" /\ Advance(p, "staged", "verified", "switch")

\* atomic_switch_directory_link
SwitchLink(p) ==
    /\ pc[p] = "switch"
    /\ canonical' = [canonical EXCEPT ![Name[want[p]]] = want[p]]
    /\ Goto(p, "switched")
    /\ UNCHANGED <<registry, database, journal, lease, tree, stage, want, op, record, faults>>

RecordSwitched(p) == pc[p] = "switched" /\ Advance(p, "verified", "switched", "mark")

MarkMaterialized(p) ==
    /\ pc[p] = "mark"
    /\ IF CanMark(want[p])
       THEN materialized' = want[p] /\ Goto(p, "marked") /\ UNCHANGED <<lease, want, op, record>>
       ELSE Return(p) /\ UNCHANGED materialized
    /\ UNCHANGED <<registry, desired, forked, locked, removal, journal, canonical, tree, stage, faults>>

\* The last record; the lease is released and the links are swept.
CompleteJournal(p) ==
    /\ pc[p] = "marked"
    /\ lease' = IF lease = op[p] THEN None ELSE lease
    /\ op' = [op EXCEPT ![p] = None] /\ want' = [want EXCEPT ![p] = None] /\ record' = [record EXCEPT ![p] = None]
    /\ IF journal[op[p]].state = "switched"
       THEN SetJournal(op[p], "complete") /\ Goto(p, "links")
       ELSE Goto(p, "idle") /\ UNCHANGED journal
    /\ UNCHANGED <<registry, database, canonical, tree, stage, faults>>

-----------------------------------------------------------------------------
Init ==
    /\ release = 1 /\ subs = 0 /\ desired = None /\ materialized = None
    /\ forked = FALSE /\ locked = FALSE /\ removal = {}
    /\ journal = [o \in Ops |-> None] /\ lease = None
    /\ canonical = [n \in Names |-> None] /\ tree = [r \in Revs |-> "absent"]
    /\ stage = [o \in Ops |-> "none"]
    /\ pc = [p \in Procs |-> "idle"] /\ want = [p \in Procs |-> None]
    /\ op = [p \in Procs |-> None] /\ todo = [p \in Procs |-> {}]
    /\ record = [p \in Procs |-> None]
    /\ faults = 0

Recover(p) ==
    \/ \E j \in todo[p] : \/ RecoverDeleteStage(p, j) \/ RecoverDiscard(p, j)
                         \/ RecoverSwitch(p, j) \/ RecoverMark(p, j) \/ RecoverComplete(p, j)
    \/ RecoveryDone(p)

Materialize(p) ==
    \/ ClaimLease(p) \/ CheckGeneration(p) \/ ClearGeneration(p) \/ WriteStage(p)
    \/ RecordStaged(p) \/ VerifyStage(p) \/ RenameStage(p) \/ RecordVerified(p) \/ SwitchLink(p)
    \/ RecordSwitched(p) \/ MarkMaterialized(p) \/ CompleteJournal(p)

\* What a process does by itself, once it runs.
Step(p) ==
    \/ StartSync(p) \/ RemoveManaged(p) \/ NothingToRemove(p) \/ ProtectEdits(p)
    \/ CreateFork(p) \/ ReplaceSubscription(p) \/ Recover(p) \/ Reconcile(p) \/ RemoveEnded(p)
    \/ UpsertDesired(p) \/ RemoveRenamed(p) \/ ApplyDesired(p)
    \/ DownloadSnapshot(p) \/ Materialize(p) \/ ReadLinks(p) \/ SweepLinks(p)

Next ==
    \/ \E p \in Procs : Step(p) \/ Crash(p) \/ DownloadFails(p)
    \/ LeaseExpires \/ Publish \/ ChangeSubscription \/ UserEdits

Spec == Init /\ [][Next]_vars

\* The service syncs periodically and is restarted, and leases run out.
FairSpec == Spec /\ (\A p \in Procs : WF_vars(Step(p))) /\ WF_vars(LeaseExpires)

-----------------------------------------------------------------------------
(* Correctness *)

\* Every variable holds a value of its type; a link leads to a release of its
\* name; only a process at work in materialize_skill_snapshot has an
\* operation, whose row it created.
TypeOK ==
    /\ release \in Revs /\ subs \in 0..MaxSubs
    /\ {desired, materialized} \subseteq Revs \cup {None}
    /\ canonical \in [Names -> Revs \cup {None}]
    /\ \A n \in Names : canonical[n] # None => Name[canonical[n]] = n
    /\ {forked, locked} \subseteq BOOLEAN /\ removal \subseteq Removal
    /\ journal \in [Ops -> Journal \cup {None}] /\ lease \in Ops \cup {None}
    /\ tree \in [Revs -> {"absent", "clean", "dirty", "broken", "partial", "headless"}]
    /\ stage \in [Ops -> {"none", "whole", "partial"}]
    /\ pc \in [Procs -> Places] /\ want \in [Procs -> Revs \cup {None}]
    /\ op \in [Procs -> Ops \cup {None}] /\ record \in [Procs -> Row \cup {None}]
    /\ todo \in [Procs -> SUBSET Listed]
    /\ \A p \in Procs : IF pc[p] \in Working
                        THEN op[p] \in Ops /\ journal[op[p]] # None /\ journal[op[p]].rev = want[p]
                        ELSE op[p] = None
    /\ faults \in 0..MaxFaults

\* An agent never sees a missing directory: every canonical link points to a
\* whole generation.
VisibleIsWhole ==
    \A n \in Names : canonical[n] # None => tree[canonical[n]] \notin {"absent", "partial", "headless"}

\* While the user's edit is visible, no materialization deletes its files.
VisibleEditKept ==
    [][ \A n \in Names : canonical[n] # None /\ tree[canonical[n]] \in {"dirty", "broken"}
                         => tree'[canonical[n]] \in {"dirty", "broken"} ]_vars

\* The device shows release r and no other (no release: nothing), its row
\* says so, and no journal is left to finish.
Shows(r) ==
    /\ desired = r /\ materialized = r /\ Open = {} /\ removal = {}
    /\ \A n \in Names : canonical[n] = IF r # None /\ n = Name[r] THEN r ELSE None

\* The subscription gave way to a fork: nothing of it is visible.
GaveWay == forked /\ \A n \in Names : canonical[n] = None

\* No edit so far, and at most one crash or failed download.
Undisturbed == faults <= 1 /\ \A r \in Revs : tree[r] \notin {"dirty", "broken"}

\* Once the registry rests, every sync succeeds in the end, wherever the sync
\* before it was cut off: the device shows the release it serves, or nothing
\* once the relationship ended, or the subscription gave way to a fork.
SyncSettles ==
    []Undisturbed =>
        \A r \in Revs \cup {None} : <>[](remote = r) => <>[](GaveWay \/ Shows(r))

\* "you can rename or move something into a team and existing subscriptions
\* keep working": a device that has shown a release keeps following the
\* registry without a crash, a failure or an edit.
RenamedKeepsWorking ==
    \A r \in Revs : <>[](remote = r) => <>[]Shows(r)

\* "If you edit your local copy, Denju protects ... your work ... by turning
\* your edit into a fork": an edit of a live subscription stops being visible
\* only when a fork exists.
EditBecomesFork ==
    [][ \A n \in Names : canonical[n] # None /\ tree[canonical[n]] = "dirty" /\ canonical'[n] # canonical[n]
                         => forked' \/ remote = None ]_vars

\* "Editing a subscription creates a private fork": nothing else does.
ForkOnlyFromEdit ==
    [][ \A p \in Procs : pc[p] = "protect" /\ pc'[p] = "forkRecover" => tree[Link] = "dirty" ]_vars

\* "If a process crashes ... Denju repairs the view": a switched journal that
\* no running process is finishing can be completed by the next recovery.
InterruptedSwitchCompletes ==
    \A o \in Ops :
        journal[o] # None /\ journal[o].state = "switched" /\ (\A p \in Procs : pc[p] = "idle")
        => CanMark(journal[o].rev) /\ canonical[Name[journal[o].rev]] = journal[o].rev

=============================================================================
