----------------------------- MODULE DerivedView ----------------------------
(***************************************************************************)
(* An owned skill that the harnesses see under an alias: a copy of its     *)
(* tree, editable on its own, in a directory named after the materialized  *)
(* revision (denju-local projection.rs).  Every command first projects,    *)
(* then recovers open writebacks, compares the two sides with the baseline *)
(* on which they last agreed, captures the canonical tree, uploads it,     *)
(* materializes the head and projects again.                               *)
(*                                                                         *)
(* A tree is a number, its origin the tree the user edited to make it.     *)
(* The registry side is reduced to the head: the merge of an upload that   *)
(* diverges from it is the subject of WorkspaceSync, here it stays queued. *)
(***************************************************************************)
EXTENDS Naturals

CONSTANTS
    MaxTrees,  \* bound on the trees ever made
    Careful,   \* the user edits only while no sync runs and no writeback is open
    Patient,   \* nor while a captured save waits for its upload
    LateStop,  \* a sync may stop between materialization and projection
    TornCopy,  \* a sync may stop inside the copy that refreshes the view
    Headless,  \* what an interrupted copy leaves, without its SKILL.md
    Partial,   \* and with it
    None

VARIABLES
    origin,    \* [trees made so far -> the tree each was edited from]
    canonTree, \* the tree the canonical path shows
    views,     \* derived directories: [materialized revision -> tree | None | torn]
    shownRev,  \* the revision whose view the harness links show
    matRev,    \* materialized_revision_id, named by its tree
    headRev,   \* the registry's head, named by its tree
    queuedRev, \* captured and not yet uploaded, or None
    capturedTree, \* valid_root_tree_id, the tree captured last
    paused,    \* workspace_state: the status set when the sides diverged
    agreed,    \* derived_projection_state: baseline_root_tree_id
    wb,        \* the writeback journal: [state, tree], or None
    viewSync   \* the sync in progress: its step and the sides it read

derivedVars == <<origin, canonTree, views, shownRev, matRev, headRev, queuedRev,
                 capturedTree, paused, agreed, wb, viewSync>>

Made == DOMAIN origin
Torn == {Headless, Partial}
Quiet == [at |-> "idle", target |-> None]

DerivedTypeOK ==
    /\ Made \subseteq 0..MaxTrees /\ \A t \in Made : origin[t] \in Made
    /\ {canonTree, shownRev, matRev, headRev, capturedTree, agreed} \subseteq Made
    /\ queuedRev \in Made \cup {None} /\ paused \in BOOLEAN
    /\ \A r \in 0..MaxTrees : views[r] \in Made \cup Torn \cup {None}
    /\ wb = None \/ wb \in [state : {"planned", "staged", "verified", "switched"}, tree : Made]
    /\ viewSync \in [at : {"idle", "before", "recover", "read", "write", "refresh", "copy",
                           "scan", "upload", "materialize", "project"},
                     target : Made \cup {None}]

-----------------------------------------------------------------------------
Go(step) == viewSync' = [viewSync EXCEPT !.at = step]
Registry == <<headRev, queuedRev, capturedTree, paused>>
Sides == <<canonTree, views>>

(* u is t or was made from it, through any number of edits.                *)
Derives(t, u) ==
    \A S \in SUBSET Made :
        t \in S /\ (\A s \in Made : origin[s] \in S => s \in S) => u \in S

-----------------------------------------------------------------------------
(* A save is queued and the registry would take it.                        *)
Uploads == queuedRev # None /\ headRev = matRev

(* The user saves through the canonical path or through an alias link.     *)
MayEdit ==
    /\ Careful => viewSync.at = "idle" /\ wb = None
    /\ Patient => ~Uploads

NextTree == CHOOSE n \in 0..MaxTrees : n \notin Made /\ \A m \in 0..(n - 1) : m \in Made
Make(from) ==
    /\ Made # 0..MaxTrees
    /\ origin' = [s \in Made \cup {NextTree} |-> IF s \in Made THEN origin[s] ELSE from]

EditCanonical ==
    /\ MayEdit /\ Make(canonTree)
    /\ canonTree' = NextTree
    /\ UNCHANGED <<views, shownRev, matRev, Registry, agreed, wb, viewSync>>

EditView ==
    /\ MayEdit /\ views[shownRev] \in Made /\ Make(views[shownRev])
    /\ views' = [views EXCEPT ![shownRev] = NextTree]
    /\ UNCHANGED <<canonTree, shownRev, matRev, Registry, agreed, wb, viewSync>>

(* Another device saves on the head this device has shown.                    *)
RemoteSave ==
    /\ viewSync.at = "idle" /\ queuedRev = None
    /\ {canonTree, views[shownRev]} = {headRev} /\ Make(headRev)
    /\ headRev' = NextTree
    /\ UNCHANGED <<Sides, shownRev, matRev, queuedRev, capturedTree, paused, agreed, wb, viewSync>>

-----------------------------------------------------------------------------
Start ==
    /\ viewSync.at = "idle"
    /\ Go("before")
    /\ UNCHANGED <<origin, Sides, shownRev, matRev, Registry, agreed, wb>>

(* reconcile_harness_projections of this skill.  A missing view is copied  *)
(* aside and renamed into place; an existing one is taken as it is, but    *)
(* its SKILL.md must be readable.                                          *)
Project ==
    /\ viewSync.at \in {"before", "project"}
    /\ IF views[matRev] = Headless
         THEN viewSync' = Quiet /\ UNCHANGED <<views, shownRev, agreed>>
         ELSE /\ views' = [views EXCEPT ![matRev] = IF @ = None THEN canonTree ELSE @]
              /\ shownRev' = matRev
              /\ agreed' = IF views[matRev] = None THEN canonTree ELSE agreed
              /\ IF viewSync.at = "before" THEN Go("recover") ELSE viewSync' = Quiet
    /\ UNCHANGED <<origin, canonTree, matRev, Registry, wb>>

-----------------------------------------------------------------------------
(* The writeback journal, advanced by the sync that opened it or by the    *)
(* recovery of a later one: planned work is discarded by recovery and      *)
(* staged by its own sync.                                                 *)
Stage ==
    /\ viewSync.at = "write" /\ wb # None /\ wb.state = "planned"
    /\ wb' = [wb EXCEPT !.state = "staged"]
    /\ UNCHANGED <<origin, Sides, shownRev, matRev, Registry, agreed, viewSync>>

DiscardPlanned ==
    /\ viewSync.at = "recover" /\ wb # None /\ wb.state = "planned"
    /\ wb' = None
    /\ UNCHANGED <<origin, Sides, shownRev, matRev, Registry, agreed, viewSync>>

(* verify_writeback_generation and the rename of the stage.                *)
VerifyStaged ==
    /\ viewSync.at \in {"recover", "write"} /\ wb # None /\ wb.state = "staged"
    /\ wb' = [wb EXCEPT !.state = "verified"]
    /\ UNCHANGED <<origin, Sides, shownRev, matRev, Registry, agreed, viewSync>>

(* atomic_switch_directory_link; the journal follows.                      *)
Switch ==
    /\ viewSync.at \in {"recover", "write"} /\ wb # None /\ wb.state = "verified"
    /\ canonTree' = wb.tree
    /\ wb' = [wb EXCEPT !.state = "switched"]
    /\ UNCHANGED <<origin, views, shownRev, matRev, Registry, agreed, viewSync>>

(* set_workspace_working_generation, save_derived_projection_state.        *)
CompleteWriteback ==
    /\ viewSync.at \in {"recover", "write"} /\ wb # None /\ wb.state = "switched"
    /\ agreed' = wb.tree /\ wb' = None
    /\ IF viewSync.at = "write" THEN Go("scan") ELSE UNCHANGED viewSync
    /\ UNCHANGED <<origin, Sides, shownRev, matRev, Registry>>

RecoveryDone ==
    /\ viewSync.at = "recover" /\ wb = None
    /\ Go("read")
    /\ UNCHANGED <<origin, Sides, shownRev, matRev, Registry, agreed, wb>>

-----------------------------------------------------------------------------
(* (canonical_changed, derived_changed): both changed pauses the resource. *)
Decision(canonChanged, viewChanged) ==
    CASE canonChanged /\ viewChanged -> "paused"
      [] viewChanged /\ ~ canonChanged -> "write"
      [] canonChanged /\ ~ viewChanged -> "refresh"
      [] OTHER -> "scan"

(* reconcile_owned_derived_projection up to its match.  An error skips the *)
(* capture of this skill and nothing else of the sync.                     *)
Compare ==
    LET v == views[matRev]
        d == Decision(canonTree # agreed, v # agreed)
    IN  /\ viewSync.at = "read"
        /\ CASE v \in {None, canonTree} ->
                    /\ agreed' = IF v = None THEN agreed ELSE canonTree
                    /\ Go("scan") /\ UNCHANGED <<wb, paused>>
             [] v = Headless -> Go("upload") /\ UNCHANGED <<agreed, wb, paused>>
             [] OTHER ->
                  /\ UNCHANGED agreed
                  /\ wb' = IF d = "write" THEN [state |-> "planned", tree |-> v] ELSE wb
                  /\ paused' = (paused \/ d = "paused")
                  /\ viewSync' = [at |-> IF d = "paused" THEN "upload" ELSE d,
                                  target |-> IF d = "refresh" THEN canonTree ELSE None]
        /\ UNCHANGED <<origin, Sides, shownRev, matRev, headRev, queuedRev, capturedTree>>

(* The (true, false) branch: remove_dir_all and the copy in its place.     *)
RemoveView ==
    /\ viewSync.at = "refresh"
    /\ views' = [views EXCEPT ![matRev] = None]
    /\ Go("copy")
    /\ UNCHANGED <<origin, canonTree, shownRev, matRev, Registry, agreed, wb>>

CopyView ==
    /\ viewSync.at = "copy"
    /\ views' = [views EXCEPT ![matRev] = viewSync.target]
    /\ agreed' = viewSync.target
    /\ Go("scan")
    /\ UNCHANGED <<origin, canonTree, shownRev, matRev, Registry, wb>>

(* scan_owned_workspace and the queue; a new save ends the pause.          *)
Scan ==
    /\ viewSync.at = "scan"
    /\ queuedRev' = IF canonTree = capturedTree THEN queuedRev ELSE canonTree
    /\ capturedTree' = canonTree
    /\ paused' = (paused /\ canonTree = capturedTree)
    /\ Go("upload")
    /\ UNCHANGED <<origin, Sides, shownRev, matRev, headRev, agreed, wb>>

(* drain_queued_revisions, whatever the status; mark_local_revision_synced *)
(* makes it clean.                                                         *)
Upload ==
    /\ viewSync.at = "upload"
    /\ IF Uploads
         THEN headRev' = queuedRev /\ queuedRev' = None /\ paused' = FALSE
         ELSE UNCHANGED <<headRev, queuedRev, paused>>
    /\ Go("materialize")
    /\ UNCHANGED <<origin, Sides, shownRev, matRev, capturedTree, agreed, wb>>

(* sync_owned_skill of a clean workspace: the generation of the head.      *)
Materialize ==
    /\ viewSync.at = "materialize"
    /\ IF queuedRev # None \/ paused \/ matRev = headRev
         THEN UNCHANGED <<canonTree, matRev, capturedTree>>
         ELSE canonTree' = headRev /\ matRev' = headRev /\ capturedTree' = headRev
    /\ Go("project")
    /\ UNCHANGED <<origin, views, shownRev, headRev, queuedRev, paused, agreed, wb>>

(* A sync ends early: an error of another skill, a lost connection, the    *)
(* end of the process.  The copy of the refresh may be left half done.     *)
StopSync ==
    /\ viewSync.at # "idle"
    /\ viewSync.at = "project" /\ matRev # shownRev => LateStop
    /\ viewSync' = Quiet
    /\ \/ UNCHANGED views
       \/ /\ TornCopy /\ viewSync.at = "copy"
          /\ \E torn \in Torn : views' = [views EXCEPT ![matRev] = torn]
    /\ UNCHANGED <<origin, canonTree, shownRev, matRev, Registry, agreed, wb>>

-----------------------------------------------------------------------------
(* A projected skill, the two sides equal.                                 *)
DerivedInit ==
    /\ origin = [t \in {0} |-> 0] /\ canonTree = 0 /\ shownRev = 0 /\ matRev = 0
    /\ views = [r \in 0..MaxTrees |-> IF r = 0 THEN 0 ELSE None]
    /\ headRev = 0 /\ queuedRev = None /\ capturedTree = 0 /\ paused = FALSE /\ agreed = 0
    /\ wb = None /\ viewSync = Quiet

ViewStep ==
    \/ Project \/ Stage \/ DiscardPlanned \/ VerifyStaged \/ Switch \/ CompleteWriteback
    \/ RecoveryDone \/ Compare \/ RemoveView \/ CopyView \/ Scan \/ Upload \/ Materialize

DerivedNext ==
    \/ EditCanonical \/ EditView \/ RemoteSave \/ Start \/ ViewStep \/ StopSync

DerivedSpec == DerivedInit /\ [][DerivedNext]_derivedVars

-----------------------------------------------------------------------------
(* Whatever the order of edits, syncs and interruptions: every tree the    *)
(* user saved through either side is on show on one of them, queued, or at *)
(* the registry, or a tree made from it is; reconciling the sides never    *)
(* guesses.                                                                *)
NoSaveLost ==
    \A t \in Made :
        \E u \in {canonTree, views[shownRev], headRev, queuedRev} \cap Made : Derives(t, u)

(* "Recovers idempotently after interruption": no interruption leaves a    *)
(* view that every later command stumbles over.                            *)
ViewUsable == viewSync.at = "idle" => views[matRev] # Headless
=============================================================================
