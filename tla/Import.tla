------------------------------- MODULE Import -------------------------------
(***************************************************************************)
(* `denju import': a directory of the user's becomes a managed skill and   *)
(* is then deleted (apps/denju owned.rs).  A journal row, found again by   *)
(* the directory's path, takes the command through planned, staged,        *)
(* verified, switched and complete; a later command resumes where an       *)
(* earlier one stopped, from the snapshot the first one made.  Beside the  *)
(* commands: the user, who edits, moves and replaces the directory and     *)
(* edits the managed skill once it is visible, and the background service. *)
(*                                                                         *)
(* A tree is a number; 0 is what is left of a directory whose removal      *)
(* stopped halfway.  The skill's revisions are a sequence of trees; a      *)
(* generation is named by its place in it.  The directory keeps its path,  *)
(* the owner its name, and nobody else takes the skill's name              *)
(* (SkillNames); harness links are the subject of ProjectionNames.         *)
(***************************************************************************)
EXTENDS Naturals, Sequences, FiniteSets

CONSTANTS
    ImportProcs, \* the commands that may run at once
    MaxOps,      \* bound on the journals
    MaxWork,     \* bound on the trees the user makes
    Background,  \* the service syncs the skill while the import is open
    Watchful,    \* nobody touches the directory between its check and its removal
    Absent

VARIABLES
    work,     \* trees the user made, and did not replace by an edit
    made,     \* how many trees there are
    dir,      \* the directory at the source path: a tree, or Absent
    aside,    \* trees the user moved away from that path
    journals, \* the import_skill journals, in the order of their creation
    imports,  \* private_import_operations: the state of each journal's operation
    revs,     \* the skill at the registry: the trees of its revisions
    row,      \* owned_skills: the desired revision, 0 without a row
    link,     \* the generation the canonical path leads to, 0 without a link
    shownTree, \* what that generation holds
    base,     \* workspace_state: [rev, tree], rev 0 without a row
    removed,  \* trees the command deleted from the source path
    importer  \* each command: its step, its journal and the state it read

importVars == <<work, made, dir, aside, journals, imports, revs, row, link,
                shownTree, base, removed, importer>>
Device == <<row, link, shownTree, base>>
UserSide == <<work, made, aside>>

Elements(seq) == {seq[i] : i \in DOMAIN seq}
Trees == 1..MaxWork
Rest == 0
MaxLen == MaxWork + 1 \* bound on the revisions
States == <<"planned", "staged", "verified", "switched", "complete">>
Resting == [at |-> "idle", op |-> 0, state |-> "planned"]

ImportTypeOK ==
    /\ made \in Trees /\ work \subseteq 1..made /\ aside \subseteq Rest..made
    /\ removed \subseteq 1..made
    /\ dir \in (Rest..made) \cup {Absent}
    /\ \A o \in DOMAIN journals : journals[o] \in [state : Elements(States), tree : Rest..made]
    /\ DOMAIN imports = DOMAIN journals /\ Elements(imports) \subseteq {"none", "prepared", "committed"}
    /\ Elements(revs) \subseteq Rest..made
    /\ {row, link, base.rev} \subseteq 0..Len(revs)
    /\ shownTree \in (Rest..made) \cup {Absent} /\ base.tree \in (Rest..made) \cup {Absent}
    /\ \A p \in ImportProcs :
         /\ importer[p].at \in {"idle", "create", "prepare", "stage", "commit", "verify",
                                "desire", "materialize", "baseline", "switch", "check",
                                "remove", "finish"}
         /\ importer[p].op \in 0..Len(journals)
         /\ importer[p].state \in Elements(States)

-----------------------------------------------------------------------------
At(p, step) == importer[p].at = step
Op(p) == importer[p].op
Journal(p) == journals[Op(p)]
Enter(p, step) == importer' = [importer EXCEPT ![p].at = step]
Quit(p) == importer' = [importer EXCEPT ![p] = Resting]

(* update_import_journal: compare and set, an error when another command   *)
(* has advanced the row.                                                   *)
Advance(p, from, to, step) ==
    IF Journal(p).state = from
      THEN /\ journals' = [journals EXCEPT ![Op(p)].state = to]
           /\ importer' = [importer EXCEPT ![p] = [at |-> step, op |-> Op(p), state |-> to]]
      ELSE Quit(p) /\ UNCHANGED journals

(* import_journal_for_source: the oldest journal of the path still open.   *)
OpenJournals == {o \in DOMAIN journals : journals[o].state # "complete"}
OldestOpen == CHOOSE o \in OpenJournals : \A q \in OpenJournals : o <= q

(* Where the command takes a journal up again.                             *)
StepFor(state) == CASE state \in {"planned", "staged"} -> "prepare"
                    [] state = "verified" -> "desire"
                    [] state = "switched" -> "check"

(* import up to load_staged_import.  Without a journal the directory must  *)
(* exist.                                                                  *)
FindJournal(p) ==
    /\ At(p, "idle")
    /\ \/ /\ OpenJournals # {}
          /\ LET s == journals[OldestOpen].state
             IN  importer' = [importer EXCEPT ![p] = [at |-> StepFor(s), op |-> OldestOpen, state |-> s]]
       \/ /\ OpenJournals = {} /\ dir # Absent /\ Len(journals) < MaxOps
          /\ Enter(p, "create")
    /\ UNCHANGED <<UserSide, dir, journals, imports, revs, Device, removed>>

(* create_import_journal reads the directory and keeps a snapshot of it.   *)
CreateJournal(p) ==
    /\ At(p, "create")
    /\ IF dir = Absent \/ Len(journals) = MaxOps
         THEN Quit(p) /\ UNCHANGED <<journals, imports>>
         ELSE /\ journals' = Append(journals, [state |-> "planned", tree |-> dir])
              /\ imports' = Append(imports, "none")
              /\ importer' = [importer EXCEPT ![p] =
                    [at |-> "prepare", op |-> Len(journals) + 1, state |-> "planned"]]
    /\ UNCHANGED <<UserSide, dir, revs, Device, removed>>

-----------------------------------------------------------------------------
(* prepare_private_skill_import: a known operation is answered again, a    *)
(* new one is refused while the name exists or is being imported.          *)
NameFree == revs = <<>> /\ "prepared" \notin Elements(imports)

Prepare(p) ==
    /\ At(p, "prepare")
    /\ IF imports[Op(p)] # "none" \/ NameFree
         THEN /\ imports' = [imports EXCEPT ![Op(p)] = IF @ = "none" THEN "prepared" ELSE @]
              /\ Enter(p, IF importer[p].state = "planned" THEN "stage" ELSE "commit")
         ELSE Quit(p) /\ UNCHANGED imports
    /\ UNCHANGED <<UserSide, dir, journals, revs, Device, removed>>

(* The uploads are done; the journal keeps the identity the answer named.  *)
Stage(p) ==
    /\ At(p, "stage")
    /\ Advance(p, "planned", "staged", "commit")
    /\ UNCHANGED <<UserSide, dir, imports, revs, Device, removed>>

(* commit_private_skill_import, answered again when it was committed.      *)
Commit(p) ==
    /\ At(p, "commit")
    /\ revs' = IF imports[Op(p)] = "committed" THEN revs ELSE <<Journal(p).tree>>
    /\ imports' = [imports EXCEPT ![Op(p)] = "committed"]
    /\ Enter(p, "verify")
    /\ UNCHANGED <<UserSide, dir, journals, Device, removed>>

Verify(p) ==
    /\ At(p, "verify")
    /\ Advance(p, "staged", "verified", "desire")
    /\ UNCHANGED <<UserSide, dir, imports, revs, Device, removed>>

-----------------------------------------------------------------------------
(* upsert_owned_skill_desired with the first revision, whatever the row    *)
(* names.                                                                  *)
Desire(p) ==
    /\ At(p, "desire")
    /\ row' = 1
    /\ Enter(p, "materialize")
    /\ UNCHANGED <<UserSide, dir, journals, imports, revs, link, shownTree, base, removed>>

(* materialize_skill_snapshot: a generation that is visible and edited is  *)
(* refused, one that is not visible is built again.                        *)
Materialize(p) ==
    /\ At(p, "materialize")
    /\ IF link = 1 /\ shownTree # Journal(p).tree
         THEN Quit(p) /\ UNCHANGED <<link, shownTree>>
         ELSE link' = 1 /\ shownTree' = Journal(p).tree /\ Enter(p, "baseline")
    /\ UNCHANGED <<UserSide, dir, journals, imports, revs, row, base, removed>>

(* ensure_workspace_baseline leaves an existing row alone.                 *)
Baseline(p) ==
    /\ At(p, "baseline")
    /\ base' = IF base.rev = 0 THEN [rev |-> 1, tree |-> Journal(p).tree] ELSE base
    /\ Enter(p, "switch")
    /\ UNCHANGED <<UserSide, dir, journals, imports, revs, row, link, shownTree, removed>>

(* Mutant: the directory is not compared with the snapshot.                *)
SourceAny(p) == TRUE

(* verify_source_unchanged.                                                *)
SourceUnchanged(p) == dir \in {Absent, Journal(p).tree}

Switch(p) ==
    /\ At(p, "switch")
    /\ IF SourceUnchanged(p) THEN Advance(p, "verified", "switched", "check")
                             ELSE Quit(p) /\ UNCHANGED journals
    /\ UNCHANGED <<UserSide, dir, imports, revs, Device, removed>>

CheckSource(p) ==
    /\ At(p, "check")
    /\ CASE dir = Absent -> Enter(p, "finish")
         [] dir # Absent /\ SourceUnchanged(p) -> Enter(p, "remove")
         [] OTHER -> Quit(p)
    /\ UNCHANGED <<UserSide, dir, journals, imports, revs, Device, removed>>

(* remove_dir_all takes what is there now, or stops halfway and leaves a    *)
(* part of it; a missing directory is an error.                            *)
RemoveSource(p) ==
    /\ At(p, "remove")
    /\ IF dir = Absent
         THEN Quit(p) /\ UNCHANGED <<dir, removed>>
         ELSE /\ removed' = removed \cup ({dir} \ {Rest})
              /\ \/ dir' = Absent /\ Enter(p, "finish")
                 \/ dir' = Rest /\ Quit(p)
    /\ UNCHANGED <<UserSide, journals, imports, revs, Device>>

(* The snapshot goes with the journal, and the command ends.               *)
Finish(p) ==
    /\ At(p, "finish")
    /\ journals' = [journals EXCEPT ![Op(p)].state = IF @ = "switched" THEN "complete" ELSE @]
    /\ Quit(p)
    /\ UNCHANGED <<UserSide, dir, imports, revs, Device, removed>>

(* The command is killed, a request or its answer is lost.                 *)
StopImport(p) ==
    /\ ~At(p, "idle")
    /\ Quit(p)
    /\ UNCHANGED <<UserSide, dir, journals, imports, revs, Device, removed>>

-----------------------------------------------------------------------------
(* sync_owned_skill of the service: an edit of the visible tree is saved,  *)
(* and the head is shown.  A workspace without a baseline takes what it    *)
(* finds for one.                                                          *)
ServiceSync ==
    /\ Background /\ revs # <<>>
    /\ LET valid == IF base.rev = 0 THEN shownTree ELSE base.tree
           saved == IF link # 0 /\ shownTree # valid THEN Append(revs, shownTree) ELSE revs
           head  == Len(saved)
       IN  /\ head <= MaxLen
           /\ revs' = saved /\ row' = head /\ link' = head
           /\ shownTree' = IF link = head THEN shownTree ELSE saved[head]
           /\ base' = [rev |-> head, tree |-> saved[head]]
    /\ UNCHANGED <<UserSide, dir, journals, imports, removed, importer>>

-----------------------------------------------------------------------------
(* The user.                                                               *)
Touchable == Watchful => \A p \in ImportProcs : ~At(p, "remove")

EditSource ==
    /\ Touchable /\ made < MaxWork
    /\ made' = made + 1 /\ dir' = made + 1
    /\ work' = (work \ {dir}) \cup {made + 1}
    /\ UNCHANGED <<aside, journals, imports, revs, Device, removed, importer>>

MoveSource ==
    /\ Touchable /\ dir # Absent
    /\ dir' = Absent /\ aside' = aside \cup {dir}
    /\ UNCHANGED <<work, made, journals, imports, revs, Device, removed, importer>>

EditManaged ==
    /\ link # 0 /\ made < MaxWork
    /\ made' = made + 1 /\ shownTree' = made + 1
    /\ work' = (work \ ({shownTree} \ ({dir} \cup aside))) \cup {made + 1}
    /\ UNCHANGED <<aside, dir, journals, imports, revs, row, link, base, removed, importer>>

ImportInit ==
    /\ work = {1} /\ made = 1 /\ dir = 1 /\ aside = {}
    /\ journals = <<>> /\ imports = <<>> /\ revs = <<>>
    /\ row = 0 /\ link = 0 /\ shownTree = Absent /\ base = [rev |-> 0, tree |-> Absent]
    /\ removed = {} /\ importer = [p \in ImportProcs |-> Resting]

ImportNext ==
    \/ \E p \in ImportProcs :
         \/ FindJournal(p) \/ CreateJournal(p) \/ Prepare(p) \/ Stage(p) \/ Commit(p)
         \/ Verify(p) \/ Desire(p) \/ Materialize(p) \/ Baseline(p) \/ Switch(p)
         \/ CheckSource(p) \/ RemoveSource(p) \/ Finish(p) \/ StopImport(p)
    \/ ServiceSync \/ EditSource \/ MoveSource \/ EditManaged

ImportSpec == ImportInit /\ [][ImportNext]_importVars

-----------------------------------------------------------------------------
(* What the command deleted from the user's path is a revision of the      *)
(* skill, whatever was edited, moved, replaced or interrupted on the way.  *)
RemovedIsStored == removed \subseteq Elements(revs)

(* Nothing the user wrote is lost: it is in the directory, in a directory  *)
(* moved away, visible as the managed skill, or stored.  With the service  *)
(* it does not hold: a resumed import shows the first revision again and   *)
(* hides an edit made since.                                               *)
NoWorkLost == work \subseteq {dir} \cup aside \cup {shownTree} \cup Elements(revs)

(* An import that was interrupted before its commit can be taken up again: *)
(* the journal that import_journal_for_source chooses is not refused for   *)
(* the reservation of another one.  With two commands at once it does not  *)
(* hold: both find no journal, the younger one reserves the name and       *)
(* stops, and every later command takes up the older and is refused.       *)
ImportNeverBlocksItself ==
    (\A p \in ImportProcs : At(p, "idle")) /\ OpenJournals # {} /\ revs = <<>> =>
        imports[OldestOpen] # "none" \/ NameFree

(* A rerun of an interrupted import, which the refusal of                  *)
(* verify_source_unchanged asks for, does not bring the skill back to what *)
(* was imported.  With the service it does: the row, the link and the      *)
(* visible tree go back to the first revision, and the next scan saves     *)
(* that as an edit.                                                        *)
RerunNeverReverts == Cardinality(Elements(revs)) = Len(revs)
=============================================================================
