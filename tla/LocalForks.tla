----------------------------- MODULE LocalForks -----------------------------
(***************************************************************************)
(* The fork that a device makes of an edited subscription, and its         *)
(* promotion to a private skill of the account                             *)
(* (apps/denju/src/forks.rs, fork_ops.rs, fork_resolve.rs; registry        *)
(* ingest.rs).                                                             *)
(*                                                                         *)
(* One device follows one upstream skill.  A sync captures what the user   *)
(* edited and, once the device has an account, replays the fork's history  *)
(* into the registry: one import that names the last revision of the       *)
(* history, then one commit per later revision, then a rename when the     *)
(* user chose another name.  Any request may be lost and the process may   *)
(* stop at any step (Interrupt); the next sync starts again.  Meanwhile    *)
(* other clients of the account take and free names and change its         *)
(* subscriptions, and the service may capture edits beside a command.      *)
(*                                                                         *)
(* A revision is its place in the fork's chain: commit_local_only_revision *)
(* makes chains only.  A crash inside create_local_fork before the fork's  *)
(* row is saved leaves an owned row that the next sync removes or          *)
(* repeats; creation is one step up to that row.                           *)
(***************************************************************************)
EXTENDS Naturals

CONSTANTS
    Names,     \* names of skills in the account's namespace
    First,     \* the name the edited skill declares
    MaxRevs,   \* bound on the revisions of the fork
    MaxFaults, \* bound on interruptions
    Others,    \* whether other clients and the upstream's owner act
    Service,   \* whether the background service captures beside the sync
    None

VARIABLES
    claimed,   \* the device has an account's session
    upstream,  \* the device's subscription: "clean", "edited", "none"
    removing,  \* a lifecycle journal that removes it is open
    localFork, \* the local_forks row with its revisions, or None
    account,   \* the installation, then the account, follows the upstream
    source,    \* the upstream revision can still be read and forked
    taken,     \* names of the account's other skills
    preparing, \* names with a prepared import of another operation
    importOp,  \* the import operation of the fork's first revision, or None
    promoted,  \* the skill the import made, or None
    copy,      \* its revisions on this device, 0 when it is not installed
    sync,      \* the sync in progress
    target,    \* revisions merged into another skill of the account
    faults,    \* interruptions so far
    captured,  \* history: revisions captured for the current fork
    dropped    \* history: the user discarded the fork

forkVars == <<claimed, upstream, removing, localFork, account, source, taken,
              preparing, importOp, promoted, copy, sync, target, faults,
              captured, dropped>>

device == <<claimed, upstream, removing, copy>>
registry == <<account, source, taken, preparing, importOp, promoted, target>>
history == <<captured, dropped>>

Revs == 1..MaxRevs
(* The revision a promotion ends at: the last of the chain, or its rename. *)
Heads == [rev : Revs, name : Names]
Steps == {"idle", "recover", "protect", "remove", "capture", "promote", "prepare",
          "commit", "replay", "drop", "install", "catalog",
          "unsubscribe", "merged"}

ForkRows == [state : {"local", "name_conflict"}, name : Names, revs : Revs, edited : BOOLEAN]
ImportOps == [head : Heads, committed : BOOLEAN]
Promotions == [head : Heads, goal : Heads, pending : BOOLEAN]

ForkTypeOK ==
    /\ claimed \in BOOLEAN /\ removing \in BOOLEAN /\ account \in BOOLEAN
    /\ source \in BOOLEAN /\ dropped \in BOOLEAN
    /\ upstream \in {"clean", "edited", "none"}
    /\ localFork \in ForkRows \cup {None}
    /\ taken \subseteq Names /\ preparing \subseteq Names
    /\ importOp \in ImportOps \cup {None} /\ promoted \in Promotions \cup {None}
    /\ copy \in 0..MaxRevs /\ target \in 0..MaxRevs
    /\ sync \in [at : Steps, head : Heads \cup {None}]
    /\ faults \in 0..MaxFaults /\ captured \in 0..MaxRevs

-----------------------------------------------------------------------------
Go(step) == sync' = [sync EXCEPT !.at = step]
Fail == sync' = [at |-> "idle", head |-> None]

(* The user edits whatever is visible.                                     *)
EditUpstream ==
    /\ upstream = "clean" /\ ~removing
    /\ upstream' = "edited"
    /\ UNCHANGED <<claimed, removing, localFork, copy, registry, sync, faults, history>>

EditFork ==
    /\ localFork # None /\ ~localFork.edited /\ localFork.revs < MaxRevs
    /\ localFork' = [state |-> localFork.state, name |-> localFork.name,
                     revs |-> localFork.revs, edited |-> TRUE]
    /\ UNCHANGED <<device, registry, sync, faults, history>>

(* claim or login; the installation's subscription joins the account.      *)
ClaimAccount ==
    /\ ~claimed /\ sync.at = "idle"
    /\ claimed' = TRUE
    /\ UNCHANGED <<upstream, removing, localFork, copy, registry, sync, faults, history>>

-----------------------------------------------------------------------------
(* sync_once, up to the promotion.                                         *)
SyncStart ==
    /\ sync.at = "idle"
    /\ sync' = [at |-> "recover", head |-> None]
    /\ UNCHANGED <<device, localFork, registry, faults, history>>

(* recover_local_lifecycle finishes the removal of the subscription.       *)
Recover ==
    /\ sync.at = "recover"
    /\ upstream' = IF removing THEN "none" ELSE upstream
    /\ removing' = FALSE
    /\ Go("protect")
    /\ UNCHANGED <<claimed, localFork, copy, registry, faults, history>>

(* A new fork has operations of its own: what an earlier one left in the   *)
(* registry is a skill or a prepared import like any other.                *)
Forget ==
    /\ taken' = taken \cup IF promoted = None THEN {} ELSE {promoted.goal.name}
    /\ preparing' = preparing \cup
         IF importOp = None \/ promoted # None THEN {} ELSE {importOp.head.name}
    /\ importOp' = None /\ promoted' = None /\ target' = 0 /\ copy' = 0
    /\ UNCHANGED <<account, source>>

(* protect_subscription_edits and create_local_fork.  A second fork of an  *)
(* upstream breaks the unique index local_forks_upstream_idx: the sync     *)
(* fails.                                                                  *)
Protect ==
    /\ sync.at = "protect"
    /\ IF upstream # "edited"
         THEN Go("capture") /\ UNCHANGED <<localFork, copy, registry, history>>
       ELSE IF localFork # None
         THEN Fail /\ UNCHANGED <<localFork, copy, registry, history>>
       ELSE /\ localFork' = [state |-> "local", name |-> First, revs |-> 1,
                             edited |-> FALSE]
            /\ Forget
            /\ captured' = 1 /\ dropped' = FALSE
            /\ Go("remove")
    /\ UNCHANGED <<claimed, upstream, removing, faults>>

(* journaled_remove_managed_skill: the journal, then what Recover does.    *)
JournalRemoval ==
    /\ sync.at = "remove" /\ ~removing
    /\ removing' = TRUE
    /\ UNCHANGED <<claimed, upstream, copy, localFork, registry, sync, faults, history>>

FinishRemoval ==
    /\ sync.at = "remove" /\ removing
    /\ removing' = FALSE /\ upstream' = "none"
    /\ Go("capture")
    /\ UNCHANGED <<claimed, copy, localFork, registry, faults, history>>

(* commit_local_only_revision                                              *)
Captured ==
    /\ localFork # None /\ localFork.edited
    /\ localFork' = [state |-> localFork.state, name |-> localFork.name,
                     revs |-> localFork.revs + 1, edited |-> FALSE]
    /\ captured' = captured + 1

Capture ==
    /\ sync.at = "capture"
    /\ \/ Captured
       \/ ~(localFork # None /\ localFork.edited) /\ UNCHANGED <<localFork, captured>>
    /\ Go("promote")
    /\ UNCHANGED <<device, registry, faults, dropped>>

(* The daemon's own capture, at any time.                                  *)
ServiceCapture ==
    /\ Service /\ Captured
    /\ UNCHANGED <<device, registry, sync, faults, dropped>>

-----------------------------------------------------------------------------
(* promote_local_forks: forks in the state "local" of a claimed device.    *)
(* build_promotion_rename makes the rename a function of the last revision *)
(* and the desired name.                                                   *)
Head(fork) == [rev |-> fork.revs, name |-> fork.name]

Promote ==
    /\ sync.at = "promote"
    /\ IF claimed /\ localFork # None /\ localFork.state = "local"
         THEN sync' = [at |-> "prepare", head |-> Head(localFork)]
         ELSE Go("catalog")
    /\ UNCHANGED <<device, localFork, registry, faults, history>>

(* A GenerationConflict marks the fork; the sync goes on.                  *)
Blocked ==
    /\ localFork' = [localFork EXCEPT !.state = "name_conflict"]
    /\ Go("catalog")

(* prepare_private_skill_import.  The request's hash covers the name and   *)
(* the revision the promotion ends at.                                     *)
Prepare ==
    /\ sync.at = "prepare"
    /\ IF importOp # None
         THEN /\ IF importOp.head = sync.head THEN Go("commit") ELSE Fail
              /\ UNCHANGED <<localFork, importOp>>
       ELSE IF ~source
         THEN Fail /\ UNCHANGED <<localFork, importOp>>
       ELSE IF ~account \/ sync.head.name \in taken
         THEN Blocked /\ UNCHANGED importOp
       ELSE IF sync.head.name \in preparing
         THEN Fail /\ UNCHANGED <<localFork, importOp>>
       ELSE /\ importOp' = [head |-> sync.head, committed |-> FALSE]
            /\ Go("commit") /\ UNCHANGED localFork
    /\ UNCHANGED <<device, account, source, taken, preparing, promoted, target,
                   faults, history>>

(* commit_private_skill_import: a replay, a name taken since, or the new   *)
(* skill, hidden until the replay reaches the named head.                  *)
Commit ==
    /\ sync.at = "commit"
    /\ IF importOp.committed
         THEN Go("replay") /\ UNCHANGED <<localFork, account, importOp, promoted>>
       ELSE IF ~source
         THEN Fail /\ UNCHANGED <<localFork, account, importOp, promoted>>
       ELSE IF sync.head.name \in taken
         THEN Blocked /\ UNCHANGED <<account, importOp, promoted>>
       ELSE LET first == [rev |-> 1, name |-> First] IN
            /\ promoted' = [head |-> first, goal |-> sync.head,
                            pending |-> sync.head # first]
            /\ importOp' = [importOp EXCEPT !.committed = TRUE]
            /\ account' = FALSE
            /\ Go("replay") /\ UNCHANGED localFork
    /\ UNCHANGED <<device, source, taken, preparing, target, faults, history>>

(* The next revision of the history, and after the last the rename.        *)
NextHead ==
    IF promoted.head.rev < sync.head.rev
      THEN [promoted.head EXCEPT !.rev = @ + 1]
      ELSE sync.head

Whole == promoted.head = sync.head

Replay ==
    /\ sync.at = "replay" /\ ~Whole
    /\ promoted' = [head |-> NextHead, goal |-> promoted.goal,
                    pending |-> promoted.pending /\ NextHead # promoted.goal]
    /\ UNCHANGED <<device, localFork, account, source, taken, preparing, importOp,
                   target, sync, faults, history>>

(* Mutant: the fork is dropped once the import is committed.               *)
ReplayedFirst ==
    /\ sync.at = "replay"
    /\ Go("drop")
    /\ UNCHANGED <<device, localFork, registry, faults, history>>

Replayed ==
    /\ sync.at = "replay" /\ Whole
    /\ Go("drop")
    /\ UNCHANGED <<device, localFork, registry, faults, history>>

(* install_server_fork: the journaled removal of the local fork, whose     *)
(* rows and revisions go with the owned row ...                            *)
DropFork ==
    /\ sync.at = "drop"
    /\ localFork' = None
    /\ Go("install")
    /\ UNCHANGED <<device, registry, faults, history>>

(* ... and the promoted skill in its place.                                *)
InstallPromoted ==
    /\ sync.at = "install"
    /\ copy' = sync.head.rev
    /\ Go("catalog")
    /\ UNCHANGED <<claimed, upstream, removing, localFork, registry, faults, history>>

(* The rest of the sync installs what the account has: its visible skills  *)
(* and the upstream when it is followed and no local fork stands for it.   *)
Catalogued ==
    /\ sync.at = "catalog"
    /\ copy' = IF claimed /\ promoted # None /\ ~promoted.pending
                 THEN promoted.head.rev ELSE copy
    /\ upstream' = IF localFork # None THEN upstream
                   ELSE IF ~account THEN "none"
                   ELSE IF upstream = "none" /\ source THEN "clean"
                   ELSE upstream
    /\ Fail
    /\ UNCHANGED <<claimed, removing, localFork, registry, faults, history>>

(* A lost request or answer, or the end of the process.                    *)
Interrupt ==
    /\ sync.at # "idle" /\ faults < MaxFaults
    /\ faults' = faults + 1
    /\ Fail
    /\ UNCHANGED <<device, localFork, registry, history>>

-----------------------------------------------------------------------------
(* denju fork resolve, for a fork whose name is taken.                     *)
Resolvable ==
    /\ sync.at = "idle" /\ claimed /\ source
    /\ localFork # None /\ localFork.state = "name_conflict"

ResolveAs(name) ==
    /\ Resolvable
    /\ localFork' = [state |-> "local", name |-> name, revs |-> localFork.revs,
                     edited |-> localFork.edited]
    /\ Go("promote")
    /\ UNCHANGED <<device, registry, faults, history>>

ResolveDiscard ==
    /\ Resolvable
    /\ localFork' = None /\ dropped' = TRUE
    /\ sync' = [at |-> "recover", head |-> None]
    /\ UNCHANGED <<device, registry, faults, captured>>

(* --merge-into: the merged head is committed to another skill of the      *)
(* account, the upstream is unfollowed with the generation read first,     *)
(* and the fork is removed.                                                *)
ResolveMerge ==
    /\ Resolvable /\ taken # {}
    /\ target' = localFork.revs
    /\ sync' = [at |-> "unsubscribe", head |-> Head(localFork)]
    /\ UNCHANGED <<device, localFork, account, source, taken, preparing, importOp,
                   promoted, faults, history>>

MergeUnsubscribe ==
    /\ sync.at = "unsubscribe"
    /\ account' = FALSE
    /\ Go("merged")
    /\ UNCHANGED <<device, localFork, source, taken, preparing, importOp, promoted,
                   target, faults, history>>

MergeFinish ==
    /\ sync.at = "merged"
    /\ localFork' = None
    /\ Fail
    /\ UNCHANGED <<device, registry, faults, history>>

-----------------------------------------------------------------------------
(* Other clients of the account, and the owner of the upstream skill.      *)
Used == taken \cup IF promoted = None THEN {} ELSE {promoted.goal.name}

TakeName(n) ==   \* an import, or a rename, which ignores prepared imports
    /\ Others /\ claimed /\ n \notin Used
    /\ taken' = taken \cup {n}
    /\ UNCHANGED <<device, localFork, account, source, preparing, importOp, promoted,
                   target, sync, faults, history>>

FreeName(n) ==
    /\ Others /\ claimed /\ n \in taken
    /\ taken' = taken \ {n}
    /\ UNCHANGED <<device, localFork, account, source, preparing, importOp, promoted,
                   target, sync, faults, history>>

PrepareOther(n) ==
    /\ Others /\ claimed /\ n \notin Used \cup preparing
    /\ importOp # None => importOp.committed \/ importOp.head.name # n
    /\ preparing' = preparing \cup {n}
    /\ UNCHANGED <<device, localFork, account, source, taken, importOp, promoted,
                   target, sync, faults, history>>

SetAccount ==
    /\ Others /\ claimed /\ (account \/ source)
    /\ account' = ~account
    /\ UNCHANGED <<device, localFork, source, taken, preparing, importOp, promoted,
                   target, sync, faults, history>>

SourceGone ==
    /\ Others /\ source
    /\ source' = FALSE
    /\ UNCHANGED <<device, localFork, account, taken, preparing, importOp, promoted,
                   target, sync, faults, history>>

-----------------------------------------------------------------------------
(* A device that follows the upstream without an account.                  *)
ForkInit ==
    /\ claimed = FALSE /\ upstream = "clean" /\ removing = FALSE
    /\ localFork = None /\ account = TRUE /\ source = TRUE
    /\ taken = {} /\ preparing = {} /\ importOp = None /\ promoted = None
    /\ copy = 0 /\ sync = [at |-> "idle", head |-> None] /\ target = 0
    /\ faults = 0 /\ captured = 0 /\ dropped = FALSE

SyncStep ==
    \/ SyncStart \/ Recover \/ Protect \/ JournalRemoval \/ FinishRemoval \/ Capture
    \/ Promote \/ Prepare \/ Commit \/ Replay \/ Replayed \/ DropFork
    \/ InstallPromoted \/ Catalogued \/ MergeUnsubscribe \/ MergeFinish

ForkNext ==
    \/ SyncStep \/ EditUpstream \/ EditFork \/ ClaimAccount \/ ServiceCapture
    \/ Interrupt \/ ResolveDiscard \/ ResolveMerge \/ SetAccount \/ SourceGone
    \/ \E n \in Names : ResolveAs(n) \/ TakeName(n) \/ FreeName(n) \/ PrepareOther(n)

ForkSpec == ForkInit /\ [][ForkNext]_forkVars
(* The daemon repeats its sync; interruptions are bounded.                 *)
FairForkSpec == ForkSpec /\ WF_forkVars(SyncStep)

-----------------------------------------------------------------------------
(* Every revision captured for a fork survives until the user discards it: *)
(* it is in the fork's own history, or in the promoted skill, which is no  *)
(* longer hidden, or it was merged into the skill the user named.  What    *)
(* the registry shows of a promotion, and what is installed of it, is the  *)
(* whole history that its import named.                                    *)
ForkWorkKept ==
    /\ captured > 0 /\ localFork = None /\ ~dropped =>
         \/ target = captured
         \/ promoted # None /\ ~promoted.pending /\ promoted.head.rev = captured
    /\ promoted # None /\ ~promoted.pending => promoted.head = promoted.goal

(* "If you claim an identity later, that existing history can be promoted  *)
(* without rewriting its revision IDs": a claimed device's fork is         *)
(* promoted, resolved, or put to the user as a name collision.             *)
PromotionEnds ==
    claimed /\ localFork # None ~> localFork = None \/ localFork.state = "name_conflict"
=============================================================================
