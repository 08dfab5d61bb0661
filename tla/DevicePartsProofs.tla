-------------------------- MODULE DevicePartsProofs ---------------------------
EXTENDS MCDeviceParts, SequenceTheorems, WellFoundedInduction, TLAPS

USE UpgradeAssumption

-------------------------------------------------------------------------------
(* The upgrade: the inductive invariant *)

\* The database is never ahead of the new program.
SchemaKnown(m) == schema <= IF m THEN 2 ELSE 1

\* What the executable's path and the backup hold at each step of the command.
ExecutableAt(s) ==
    /\ s = "standalone" /\ exe = "bad" => saved = "old"
    /\ cli.at \in {"backup", "install"} => exe = "old"
    /\ cli.at \in {"install"} /\ s = "standalone" => saved = "old"
    /\ cli.at \in {"backup", "install", "version"} => cli.next = "health"
    /\ cli.at \in {"stop", "start"} /\ cli.next = "health" => exe = "new"
    /\ cli.at \in {"stop", "start"} /\ cli.next = "restored" => exe = "old"
    /\ cli.at \in {"health", "keep"} => exe = "new"
    /\ cli.at \in {"forget", "restored"} => exe = "old"
    /\ cli.at = "forget" => cli.next = "restored"

\* Which daemons a manager keeps once the command has restarted the service,
\* and which ones can still migrate a database that was given back.
DaemonsAt(k, m) ==
    /\ cli.at \in {"health", "keep"} /\ k = "manager" => \A d \in daemons : d.version = "new"
    /\ cli.at = "restored" /\ m => \A d \in daemons : d.version = "old"

\* What the last command reported is still so.
Reported(k, m) ==
    /\ cli.at # "idle" => cli.end = "none"
    /\ cli.end = "upgraded" =>
         exe = "new" /\ (k = "manager" => \A d \in daemons : d.version = "new")
    /\ cli.end = "restored" =>
         exe = "old" /\ schema = 1 /\ (m => \A d \in daemons : d.version = "old")

UpgradeInv(k, s, m) ==
    /\ U(k, s, m)!UpgradeTypeOK
    /\ SchemaKnown(m) /\ ExecutableAt(s) /\ DaemonsAt(k, m) /\ Reported(k, m)

LEMMA UpgradeInitial ==
  ASSUME NEW k, NEW s, NEW m \in BOOLEAN,
         U(k, s, m)!UpgradeInit
  PROVE  UpgradeInv(k, s, m)
<1> USE DEF U!UpgradeInit
<1>1. U(k, s, m)!UpgradeTypeOK
  BY DEF U!UpgradeTypeOK, U!Versions, U!Daemons, U!Idle
<1>2. SchemaKnown(m) /\ ExecutableAt(s) /\ DaemonsAt(k, m) /\ Reported(k, m)
  BY DEF SchemaKnown, ExecutableAt, DaemonsAt, Reported, U!Idle
<1> QED
  BY <1>1, <1>2 DEF UpgradeInv

LEMMA CommandTypes ==
  ASSUME NEW k, NEW s, NEW m, U(k, s, m)!UpgradeTypeOK
  PROVE  /\ \A step : [cli EXCEPT !.at = step] = [at |-> step, next |-> cli.next, end |-> cli.end]
         /\ cli.at \in {"idle", "backup", "install", "version", "stop", "start", "health", "keep",
                       "rollback", "forget", "check", "restored", "reconcile"}
         /\ cli.next \in {"idle", "health", "restored", "reconcile"}
         /\ cli.end \in {"none", "upgraded", "restored", "failed"}
         /\ exe \in {"old", "new", "bad"}
BY DEF U!UpgradeTypeOK, U!Versions

LEMMA UpgradeFilesStep ==
  ASSUME NEW k, NEW s, NEW m \in BOOLEAN,
         U(k, s, m)!UpgradeTypeOK,
         \/ U(k, s, m)!UpgradeStart \/ U(k, s, m)!Backup
         \/ U(k, s, m)!Install \/ U(k, s, m)!CheckVersion
         \/ U(k, s, m)!Reconcile \/ U(k, s, m)!Keep
         \/ U(k, s, m)!Rollback \/ U(k, s, m)!Forget
         \/ U(k, s, m)!CutOff
  PROVE  /\ UNCHANGED <<schema, daemons, started, pid>>
         /\ \/ /\ cli.at = "idle" /\ exe = "old" /\ UNCHANGED <<exe, saved>>
               /\ cli'.at = (IF s = "npm" THEN "install" ELSE "backup")
               /\ cli'.next = "health" /\ cli'.end = "none"
            \/ /\ cli.at = "backup" /\ saved' = exe /\ exe' = exe
               /\ cli'.at = "install" /\ cli'.next = cli.next /\ cli'.end = cli.end
            \/ /\ cli.at = "install" /\ exe' \in {"new", "bad"} /\ saved' = saved
               /\ cli'.at = "version" /\ cli'.next = cli.next /\ cli'.end = cli.end
            \/ /\ cli.at = "install" /\ UNCHANGED <<exe, saved>>
               /\ cli'.at = "rollback" /\ cli'.next = cli.next /\ cli'.end = cli.end
            \/ /\ cli.at = "version" /\ UNCHANGED <<exe, saved>>
               /\ cli'.at = (IF exe = "new" THEN "stop" ELSE "rollback")
               /\ cli'.next = cli.next /\ cli'.end = cli.end
            \/ /\ cli.at = "reconcile" /\ UNCHANGED <<exe, saved>>
               /\ cli'.at = "stop" /\ cli'.next = "idle" /\ cli'.end = cli.end
            \/ /\ cli.at = "keep" /\ exe' = exe
               /\ cli'.at = "idle" /\ cli'.next = "idle" /\ cli'.end = "upgraded"
            \/ /\ cli.at = "rollback" /\ exe' = "old" /\ saved' = saved
               /\ cli'.at = "forget" /\ cli'.next = "restored" /\ cli'.end = cli.end
            \/ /\ cli.at = "forget" /\ exe' = exe
               /\ cli'.at = "stop" /\ cli'.next = cli.next /\ cli'.end = cli.end
            \/ /\ cli.at # "idle" /\ UNCHANGED <<exe, saved>>
               /\ cli'.at = "idle" /\ cli'.next = "idle" /\ cli'.end = "failed"
         /\ cli' = [at |-> cli'.at, next |-> cli'.next, end |-> cli'.end]
         /\ saved' \in {saved, exe, None} /\ runs' \in 0..MaxRuns
<1> USE DEF U!Done, U!Idle, U!At
<1>0. runs \in 0..MaxRuns
  BY DEF U!UpgradeTypeOK
<1>1. CASE U(k, s, m)!UpgradeStart
  BY <1>0, <1>1 DEF U!UpgradeStart
<1>2. CASE U(k, s, m)!Backup
  BY <1>0, <1>2, CommandTypes DEF U!Backup
<1>3. CASE U(k, s, m)!Install
  BY <1>0, <1>3, CommandTypes DEF U!Install
<1>4. CASE U(k, s, m)!CheckVersion
  BY <1>0, <1>4, CommandTypes DEF U!CheckVersion
<1>5. CASE U(k, s, m)!Reconcile
  <2>1. cli' = [at |-> "stop", next |-> "idle", end |-> cli.end]
    BY <1>5 DEF U!UpgradeTypeOK, U!Reconcile
  <2> QED
    BY <1>0, <1>5, <2>1 DEF U!Reconcile
<1>6. CASE U(k, s, m)!Keep
  BY <1>0, <1>6 DEF U!Keep
<1>7. CASE U(k, s, m)!Rollback
  <2>1. CASE cli' = [cli EXCEPT !.at = "forget", !.next = "restored"] /\ exe' = "old"
    <3>1. cli' = [at |-> "forget", next |-> "restored", end |-> cli.end]
      BY <2>1 DEF U!UpgradeTypeOK
    <3> QED
      BY <1>0, <1>7, <2>1, <3>1 DEF U!Rollback
  <2> QED
    BY <1>0, <1>7, <2>1 DEF U!Rollback
<1>8. CASE U(k, s, m)!Forget
  BY <1>0, <1>8, CommandTypes DEF U!Forget
<1>9. CASE U(k, s, m)!CutOff
  BY <1>0, <1>9 DEF U!CutOff
<1> QED
  BY <1>1, <1>2, <1>3, <1>4, <1>5, <1>6, <1>7, <1>8, <1>9

\* The steps of the command that leave the daemons and the database alone.
LEMMA UpgradeFiles ==
  ASSUME NEW k, NEW s, NEW m \in BOOLEAN,
         UpgradeInv(k, s, m),
         \/ U(k, s, m)!UpgradeStart \/ U(k, s, m)!Backup
         \/ U(k, s, m)!Install \/ U(k, s, m)!CheckVersion
         \/ U(k, s, m)!Reconcile \/ U(k, s, m)!Keep
         \/ U(k, s, m)!Rollback \/ U(k, s, m)!Forget
         \/ U(k, s, m)!CutOff
  PROVE  UpgradeInv(k, s, m)'
<1>0. U(k, s, m)!UpgradeTypeOK
  BY DEF UpgradeInv
<1>1. U(k, s, m)!UpgradeTypeOK'
  BY <1>0, CommandTypes, UpgradeFilesStep DEF U!UpgradeTypeOK, U!Versions, U!Daemons
<1>2. SchemaKnown(m)' /\ ExecutableAt(s)'
  BY <1>0, CommandTypes, UpgradeFilesStep DEF UpgradeInv, SchemaKnown, ExecutableAt
<1>3. DaemonsAt(k, m)' /\ Reported(k, m)'
  BY <1>0, CommandTypes, UpgradeFilesStep DEF UpgradeInv, DaemonsAt, ExecutableAt, Reported
<1> QED
  BY <1>1, <1>2, <1>3 DEF UpgradeInv

\* The programs that open the database, and the service.
LEMMA UpgradeOpens ==
  ASSUME NEW k, NEW s, NEW m \in BOOLEAN,
         UpgradeInv(k, s, m), k = "manager" \/ ~m,
         \/ U(k, s, m)!SetupStart \/ U(k, s, m)!DoctorStart
         \/ U(k, s, m)!Health \/ U(k, s, m)!Restored
         \/ \E d \in daemons : U(k, s, m)!DaemonOpens(d)
  PROVE  UpgradeInv(k, s, m)'
<1> USE DEF U!SetupStart, U!DoctorStart, U!Health, U!Restored, U!DaemonOpens, U!At, U!Done,
            U!Idle, U!Opens, U!Migrated, U!SchemaOf
<1>0. U(k, s, m)!UpgradeTypeOK
  BY DEF UpgradeInv
<1>1. U(k, s, m)!UpgradeTypeOK'
  <2>1. schema' \in 1..2 /\ runs' \in 0..MaxRuns /\ UNCHANGED <<exe, saved, started>>
    BY <1>0 DEF U!UpgradeTypeOK
  <2>2. daemons' \subseteq U(k, s, m)!Daemons /\ pid' \in 1..MaxDaemons \cup {None}
    <3>1. CASE UNCHANGED <<daemons, pid>>
      BY <1>0, <3>1 DEF U!UpgradeTypeOK
    <3>2. ASSUME NEW d \in daemons, daemons' = (daemons \ {d}) \cup {[d EXCEPT !.ready = TRUE]},
                 pid' = d.id
          PROVE  <2>2
      BY <1>0, <3>2 DEF U!UpgradeTypeOK, U!Daemons
    <3> QED
      BY <3>1, <3>2
  <2>3. cli' \in [at : {"idle", "keep", "rollback", "stop"} \cup {cli.at},
                  next : {"idle", "reconcile"} \cup {cli.next},
                  end : {"none", "failed", "restored"} \cup {cli.end}]
    BY <1>0, CommandTypes DEF U!UpgradeTypeOK
  <2> QED
    BY <1>0, <2>1, <2>2, <2>3, CommandTypes DEF U!UpgradeTypeOK
<1>2. SchemaKnown(m)'
  BY DEF UpgradeInv, SchemaKnown, U!UpgradeTypeOK, U!Versions, U!Daemons
<1>3. ExecutableAt(s)'
  BY DEF UpgradeInv, ExecutableAt, U!UpgradeTypeOK, U!Versions
<1>4. DaemonsAt(k, m)'
  BY DEF UpgradeInv, DaemonsAt, ExecutableAt, U!UpgradeTypeOK, U!Versions, U!Daemons
<1>5. Reported(k, m)'
  BY DEF UpgradeInv, Reported, DaemonsAt, ExecutableAt, SchemaKnown, U!UpgradeTypeOK, U!Versions, U!Daemons
<1> QED
  BY <1>1, <1>2, <1>3, <1>4, <1>5 DEF UpgradeInv

LEMMA UpgradeDaemons ==
  ASSUME NEW k, NEW s, NEW m \in BOOLEAN,
         UpgradeInv(k, s, m), k = "manager" \/ ~m,
         \/ U(k, s, m)!StopService \/ U(k, s, m)!StartService
         \/ U(k, s, m)!ManagerStarts \/ U(k, s, m)!Reboot
         \/ \E d \in daemons : U(k, s, m)!DaemonRefuses(d) \/ U(k, s, m)!DaemonEnds(d)
  PROVE  UpgradeInv(k, s, m)'
<1> USE DEF U!StopService, U!StartService, U!ManagerStarts, U!Reboot, U!DaemonRefuses,
            U!DaemonEnds, U!At, U!Done, U!Idle, U!Failed, U!Named, U!Started
<1>0. U(k, s, m)!UpgradeTypeOK
  BY DEF UpgradeInv
<1>1. U(k, s, m)!UpgradeTypeOK'
  <2>1. started' \in 0..MaxDaemons /\ pid' \in 1..MaxDaemons \cup {None} /\ UNCHANGED <<exe, saved, schema, runs>>
    BY <1>0 DEF U!UpgradeTypeOK
  <2>2. daemons' \subseteq U(k, s, m)!Daemons
    <3>1. daemons' \subseteq daemons
          \/ /\ exe # "bad" /\ started < MaxDaemons
             /\ daemons' \subseteq daemons \cup {[id |-> started + 1, version |-> exe, ready |-> FALSE]}
      OBVIOUS
    <3>2. exe # "bad" /\ started < MaxDaemons =>
            [id |-> started + 1, version |-> exe, ready |-> FALSE] \in U(k, s, m)!Daemons
      BY <1>0, CommandTypes DEF U!UpgradeTypeOK, U!Daemons
    <3>3. daemons \subseteq U(k, s, m)!Daemons
      BY <1>0 DEF U!UpgradeTypeOK
    <3> QED
      BY <3>1, <3>2, <3>3
  <2>3. cli' \in [at : {"idle", "rollback", "start"} \cup {cli.at, cli.next},
                  next : {"idle"} \cup {cli.next}, end : {"none", "failed"} \cup {cli.end}]
    BY <1>0, CommandTypes DEF U!UpgradeTypeOK
  <2> QED
    BY <1>0, <2>1, <2>2, <2>3, CommandTypes DEF U!UpgradeTypeOK
<1>2. SchemaKnown(m)'
  BY DEF UpgradeInv, SchemaKnown
<1>3. ExecutableAt(s)'
  BY DEF UpgradeInv, ExecutableAt, U!UpgradeTypeOK, U!Versions
<1>4. DaemonsAt(k, m)'
  BY DEF UpgradeInv, DaemonsAt, ExecutableAt, U!UpgradeTypeOK, U!Versions, U!Daemons
<1>5. Reported(k, m)'
  BY DEF UpgradeInv, Reported, DaemonsAt, ExecutableAt, SchemaKnown, U!UpgradeTypeOK, U!Versions, U!Daemons
<1> QED
  BY <1>1, <1>2, <1>3, <1>4, <1>5 DEF UpgradeInv

LEMMA UpgradeKept ==
  ASSUME NEW k, NEW s, NEW m \in BOOLEAN,
         UpgradeInv(k, s, m), k = "manager" \/ ~m,
         U(k, s, m)!UpgradeNext \/ UNCHANGED upgradeVars
  PROVE  UpgradeInv(k, s, m)'
<1>1. CASE UNCHANGED upgradeVars
  BY <1>1 DEF upgradeVars, UpgradeInv, U!UpgradeTypeOK, SchemaKnown, ExecutableAt, DaemonsAt,
              Reported, U!Daemons
<1>2. CASE U(k, s, m)!UpgradeNext
  BY <1>2, UpgradeFiles, UpgradeOpens, UpgradeDaemons DEF U!UpgradeNext
<1> QED
  BY <1>1, <1>2

LEMMA UpgradeInvSound ==
  ASSUME NEW k, NEW s, NEW m \in BOOLEAN,
         UpgradeInv(k, s, m)
  PROVE  U(k, s, m)!UpgradeTypeOK /\ U(k, s, m)!UpgradeSound
BY DEF UpgradeInv, U!UpgradeSound, U!Opens, U!SchemaOf, U!UpgradeTypeOK, U!Versions, ExecutableAt,
       Reported, SchemaKnown

-------------------------------------------------------------------------------
(* The import: the inductive invariant *)

Places == {"idle", "create", "prepare", "stage", "commit", "verify", "desire", "materialize",
           "baseline", "switch", "check", "remove", "finish"}
JournalStates == {"planned", "staged", "verified", "switched", "complete"}
Rows == [state : JournalStates, tree : Nat]
OpStates == {"none", "prepared", "committed"}
TreeOrAbsent == 0..made \cup {Absent}

ImportTypes(ps) ==
    /\ made \in 1..MaxWork /\ work \subseteq 1..made /\ aside \subseteq 0..made
    /\ removed \subseteq 1..made /\ dir \in TreeOrAbsent
    /\ journals \in Seq(Rows) /\ \A o \in DOMAIN journals : journals[o].tree \in 0..made
    /\ imports \in Seq(OpStates) /\ Len(imports) = Len(journals)
    /\ revs \in Seq(Nat) /\ \A i \in DOMAIN revs : revs[i] \in 0..made
    /\ row \in 0..Len(revs) /\ link \in 0..Len(revs) /\ shownTree \in TreeOrAbsent
    /\ base \in [rev : 0..Len(revs), tree : TreeOrAbsent]
    /\ importer \in [ps -> [at : Places, op : 0..Len(journals), state : JournalStates]]

\* One operation at most holds the name, it has committed once a journal is
\* past staged, and what it committed stays a revision.
OneOperation ==
    /\ \A o, q \in DOMAIN imports : imports[o] # "none" /\ imports[q] # "none" => o = q
    /\ \A o \in DOMAIN imports : imports[o] = "prepared" => revs = <<>>
    /\ \A o \in DOMAIN imports : imports[o] = "committed" =>
         \E i \in DOMAIN revs : revs[i] = journals[o].tree
    /\ \A o \in DOMAIN journals :
         journals[o].state \in {"verified", "switched", "complete"} => imports[o] = "committed"

\* What a command relies on at each of its steps.
CommandOK(p) ==
    LET op == importer[p].op IN
    /\ importer[p].at \notin {"idle", "create"} => op \in DOMAIN journals
    /\ importer[p].at \in {"stage", "commit"} => imports[op] # "none"
    /\ importer[p].at \notin {"idle", "create", "prepare", "stage", "commit"} =>
         imports[op] = "committed"
    /\ importer[p].at = "remove" => dir \in {Absent, 0, journals[op].tree}

\* Without a link nothing is visible.
Visible == link = 0 <=> shownTree = Absent

\* Without the service only the first generation is ever shown.
FirstShown(b) == b = FALSE => link \in {0, 1}

Kept(b) == b = FALSE =>
    \A w \in work : w = dir \/ w \in aside \/ w = shownTree \/ \E i \in DOMAIN revs : revs[i] = w

\* One command at a time has one open journal at most, and creates one only
\* when there is none.
OneJournal(ps) == (\A p, q \in ps : p = q) =>
    /\ \A o, q \in DOMAIN journals :
         journals[o].state # "complete" /\ journals[q].state # "complete" => o = q
    /\ \A p \in ps : importer[p].at = "create" =>
         \A o \in DOMAIN journals : journals[o].state = "complete"

Stored == \A w \in removed : \E i \in DOMAIN revs : revs[i] = w

ImportInv(ps, b) ==
    /\ ImportTypes(ps) /\ OneOperation /\ \A p \in ps : CommandOK(p)
    /\ Visible /\ FirstShown(b) /\ Kept(b) /\ OneJournal(ps) /\ Stored

LEMMA ImportInitial ==
  ASSUME NEW ps, NEW b \in BOOLEAN, I(ps, b)!ImportInit
  PROVE  ImportInv(ps, b)
<1> USE ImportAssumption
<1>1. /\ <<>> \in Seq(Rows) /\ <<>> \in Seq(OpStates) /\ <<>> \in Seq(Nat)
      /\ Len(<<>>) = 0 /\ DOMAIN <<>> = {}
  BY EmptySeq
<1>2. I(ps, b)!Resting \in [at : Places, op : 0..0, state : JournalStates]
      /\ I(ps, b)!Resting.at = "idle"
  BY DEF I!Resting, Places, JournalStates
<1>3. /\ work = {1} /\ made = 1 /\ dir = 1 /\ aside = {} /\ journals = <<>> /\ imports = <<>>
      /\ revs = <<>> /\ row = 0 /\ link = 0 /\ shownTree = Absent
      /\ base = [rev |-> 0, tree |-> Absent] /\ removed = {}
      /\ importer = [p \in ps |-> I(ps, b)!Resting]
  BY DEF I!ImportInit
<1>4. importer \in [ps -> [at : Places, op : 0..0, state : JournalStates]]
      /\ \A p \in ps : importer[p].at = "idle"
  BY <1>2, <1>3
<1>5. ImportTypes(ps)
  BY <1>1, <1>3, <1>4 DEF ImportTypes, TreeOrAbsent
<1>6. OneOperation /\ \A p \in ps : CommandOK(p)
  BY <1>1, <1>3, <1>4 DEF OneOperation, CommandOK
<1>7. Visible /\ FirstShown(b) /\ Kept(b) /\ OneJournal(ps) /\ Stored
  BY <1>1, <1>3, <1>4 DEF Visible, FirstShown, Kept, OneJournal, Stored
<1> QED
  BY <1>5, <1>6, <1>7 DEF ImportInv

-------------------------------------------------------------------------------
(* The import: the steps *)

LEMMA ImportFacts ==
  ASSUME NEW ps, ImportTypes(ps), NEW p \in ps
  PROVE  /\ Len(journals) \in Nat /\ DOMAIN journals = 1..Len(journals)
         /\ DOMAIN imports = 1..Len(journals)
         /\ Len(revs) \in Nat /\ DOMAIN revs = 1..Len(revs) /\ made \in Nat
         /\ \A o \in DOMAIN journals : /\ journals[o] \in Rows /\ journals[o].tree \in 0..made
                                       /\ journals[o].state \in JournalStates
                                       /\ imports[o] \in OpStates
         /\ importer[p] \in [at : Places, op : 0..Len(journals), state : JournalStates]
         /\ importer[p].at \in Places /\ importer[p].op \in 0..Len(journals)
         /\ importer[p].state \in JournalStates
         /\ \A step : [importer[p] EXCEPT !.at = step] =
                        [at |-> step, op |-> importer[p].op, state |-> importer[p].state]
<1>1. journals \in Seq(Rows) /\ imports \in Seq(OpStates) /\ revs \in Seq(Nat)
      /\ Len(imports) = Len(journals)
  BY DEF ImportTypes
<1>2. /\ Len(journals) \in Nat /\ DOMAIN journals = 1..Len(journals)
      /\ DOMAIN imports = 1..Len(journals)
      /\ Len(revs) \in Nat /\ DOMAIN revs = 1..Len(revs)
  BY <1>1, LenProperties
<1>3. \A o \in DOMAIN journals : journals[o] \in Rows /\ imports[o] \in OpStates
  BY <1>1, <1>2, ElementOfSeq
<1>4. \A o \in DOMAIN journals : journals[o].tree \in 0..made /\ journals[o].state \in JournalStates
  BY <1>3 DEF ImportTypes, Rows
<1>5. importer[p] \in [at : Places, op : 0..Len(journals), state : JournalStates]
  BY DEF ImportTypes
<1>6. \A step : [importer[p] EXCEPT !.at = step] =
                  [at |-> step, op |-> importer[p].op, state |-> importer[p].state]
  <2> SUFFICES ASSUME NEW step
               PROVE  [importer[p] EXCEPT !.at = step] =
                        [at |-> step, op |-> importer[p].op, state |-> importer[p].state]
    OBVIOUS
  <2> QED
    BY <1>5
<1>7. made \in Nat
  BY ImportAssumption DEF ImportTypes
<1> QED
  BY <1>2, <1>3, <1>4, <1>5, <1>6, <1>7

\* The oldest open journal is one of them.
LEMMA OldestIsOpen ==
  ASSUME NEW ps, NEW b, DOMAIN journals \subseteq Nat, I(ps, b)!OpenJournals # {}
  PROVE  I(ps, b)!OldestOpen \in DOMAIN journals /\ journals[I(ps, b)!OldestOpen].state # "complete"
<1> DEFINE R == OpToRel(<, Nat)
           S == I(ps, b)!OpenJournals
<1>0. S \subseteq Nat /\ S # {}
  BY DEF I!OpenJournals
<1>1. PICK x \in S : \A y \in S : ~ (<<y, x>> \in R)
  <2>1. IsWellFoundedOn(R, Nat)
    BY NatLessThanWellFounded
  <2> HIDE DEF R, S
  <2> QED
    BY <1>0, <2>1, WFMin
<1>2. ASSUME NEW y \in S
      PROVE  x <= y
  <2>1. <<y, x>> \notin {ss \in Nat \X Nat : ss[1] < ss[2]}
    BY <1>1 DEF OpToRel
  <2> HIDE DEF S
  <2> QED
    BY <1>0, <2>1
<1>3. I(ps, b)!OldestOpen \in S
  <2>1. \E o \in S : \A q \in S : o <= q
    BY <1>2
  <2>2. (CHOOSE o \in S : \A q \in S : o <= q) \in S
    <3> HIDE DEF S
    <3> QED
      BY <2>1
  <2> QED
    BY <2>2 DEF I!OldestOpen
<1> QED
  BY <1>3 DEF I!OpenJournals

\* Rows only advance, and the directory does not change under a removal
\* except by another one: what the other commands rely on stays.
LEMMA OthersKept ==
  ASSUME NEW q, CommandOK(q), importer'[q] = importer[q],
         DOMAIN journals \subseteq DOMAIN journals',
         \A o \in DOMAIN journals :
            /\ journals'[o].tree = journals[o].tree
            /\ imports[o] # "none" => imports'[o] # "none"
            /\ imports[o] = "committed" => imports'[o] = "committed",
         dir' \in {dir, Absent, 0} \/ importer[q].at # "remove"
  PROVE  CommandOK(q)'
BY DEF CommandOK

\* A step of one command that changes only the command.
LEMMA CommandMoves ==
  ASSUME NEW ps, NEW b \in BOOLEAN, ImportInv(ps, b), NEW p \in ps, NEW r,
         r \in [at : Places, op : 0..Len(journals), state : JournalStates],
         importer' = [importer EXCEPT ![p] = r],
         UNCHANGED <<work, made, aside, dir, journals, imports, revs, row, link, shownTree, base,
                     removed>>,
         r.at \notin {"idle", "create"} => r.op \in DOMAIN journals,
         r.at \in {"stage", "commit"} => imports[r.op] # "none",
         r.at \notin {"idle", "create", "prepare", "stage", "commit"} => imports[r.op] = "committed",
         r.at = "remove" => dir \in {Absent, journals[r.op].tree},
         r.at = "create" => \A o \in DOMAIN journals : journals[o].state = "complete"
  PROVE  ImportInv(ps, b)'
<1>1. importer'[p] = r /\ \A q \in ps : q # p => importer'[q] = importer[q]
  BY DEF ImportInv, ImportTypes
<1>2. ImportTypes(ps)'
  BY DEF ImportInv, ImportTypes, TreeOrAbsent
<1>3. CommandOK(p)'
  BY <1>1 DEF CommandOK
<1>4. \A q \in ps : CommandOK(q)'
  BY <1>1, <1>3, OthersKept DEF ImportInv
<1>5. OneJournal(ps)'
  BY <1>1 DEF ImportInv, OneJournal
<1>6. OneOperation' /\ Visible' /\ FirstShown(b)' /\ Kept(b)' /\ Stored'
  BY DEF ImportInv, OneOperation, Visible, FirstShown, Kept, Stored
<1> QED
  BY <1>2, <1>4, <1>5, <1>6 DEF ImportInv

LEMMA ImportQuits ==
  ASSUME NEW ps, NEW b \in BOOLEAN, ImportInv(ps, b), NEW p \in ps, I(ps, b)!Quit(p),
         UNCHANGED <<work, made, aside, dir, journals, imports, revs, row, link, shownTree, base,
                     removed>>
  PROVE  ImportInv(ps, b)'
<1>1. I(ps, b)!Resting \in [at : Places, op : 0..Len(journals), state : JournalStates]
      /\ I(ps, b)!Resting.at = "idle"
  BY ImportFacts DEF I!Resting, Places, JournalStates, ImportInv
<1>2. PICK r : r = I(ps, b)!Resting
  OBVIOUS
<1> QED
  BY <1>1, <1>2, CommandMoves DEF I!Quit

\* The command goes on to another step with the same journal.
LEMMA ImportEnters ==
  ASSUME NEW ps, NEW b \in BOOLEAN, ImportInv(ps, b), NEW p \in ps, NEW step \in Places,
         I(ps, b)!Enter(p, step),
         UNCHANGED <<work, made, aside, dir, journals, imports, revs, row, link, shownTree, base,
                     removed>>,
         step \notin {"idle", "create"} => importer[p].op \in DOMAIN journals,
         step \in {"stage", "commit"} => imports[importer[p].op] # "none",
         step \notin {"idle", "create", "prepare", "stage", "commit"} =>
            imports[importer[p].op] = "committed",
         step = "remove" => dir \in {Absent, journals[importer[p].op].tree},
         step = "create" => \A o \in DOMAIN journals : journals[o].state = "complete"
  PROVE  ImportInv(ps, b)'
<1>1. PICK r : r = [at |-> step, op |-> importer[p].op, state |-> importer[p].state]
  OBVIOUS
<1>2. importer' = [importer EXCEPT ![p] = r]
  <2>1. [importer EXCEPT ![p].at = step] = [importer EXCEPT ![p] = [importer[p] EXCEPT !.at = step]]
    BY DEF ImportInv, ImportTypes
  <2>2. [importer[p] EXCEPT !.at = step] = r
    BY <1>1, ImportFacts DEF ImportInv
  <2> QED
    BY <2>1, <2>2 DEF I!Enter
<1>3. r \in [at : Places, op : 0..Len(journals), state : JournalStates] /\ r.at = step
      /\ r.op = importer[p].op
  BY <1>1, ImportFacts DEF ImportInv
<1> QED
  BY <1>2, <1>3, CommandMoves

LEMMA FindKept ==
  ASSUME NEW ps, NEW b \in BOOLEAN, ImportInv(ps, b), NEW p \in ps, I(ps, b)!FindJournal(p)
  PROVE  ImportInv(ps, b)'
<1>0. UNCHANGED <<work, made, aside, dir, journals, imports, revs, row, link, shownTree, base, removed>>
  BY DEF I!FindJournal, I!UserSide, I!Device
<1>1. CASE I(ps, b)!OpenJournals # {}
  <2>0. DOMAIN journals \subseteq Nat /\ DOMAIN journals = 1..Len(journals) /\ Len(journals) \in Nat
    BY ImportFacts DEF ImportInv
  <2>1. PICK o : o = I(ps, b)!OldestOpen
    OBVIOUS
  <2>2. o \in DOMAIN journals /\ journals[o].state # "complete" /\ journals[o].state \in JournalStates
    BY <1>1, <2>0, <2>1, OldestIsOpen, ImportFacts DEF ImportInv
  <2>3. PICK r : r = [at |-> I(ps, b)!StepFor(journals[o].state), op |-> o, state |-> journals[o].state]
    OBVIOUS
  <2>4. importer' = [importer EXCEPT ![p] = r]
    BY <1>1, <2>1, <2>3 DEF I!FindJournal
  <2>5. \/ journals[o].state \in {"planned", "staged"} /\ r.at = "prepare"
        \/ journals[o].state = "verified" /\ r.at = "desire"
        \/ journals[o].state = "switched" /\ r.at = "check"
    BY <2>2, <2>3 DEF I!StepFor, JournalStates
  <2>6. r \in [at : Places, op : 0..Len(journals), state : JournalStates] /\ r.op = o
    BY <2>0, <2>2, <2>3, <2>5 DEF Places
  <2>7. r.at # "prepare" => imports[o] = "committed"
    BY <2>2, <2>5 DEF ImportInv, OneOperation
  <2> QED
    BY <1>0, <2>2, <2>4, <2>5, <2>6, <2>7, CommandMoves
<1>2. CASE I(ps, b)!OpenJournals = {} /\ I(ps, b)!Enter(p, "create")
  <2>1. \A o \in DOMAIN journals : journals[o].state = "complete"
    BY <1>2 DEF I!OpenJournals
  <2> QED
    BY <1>0, <1>2, <2>1, ImportEnters DEF Places
<1> QED
  BY <1>1, <1>2 DEF I!FindJournal

\* One journal row changes its state.
LEMMA RowStates ==
  ASSUME NEW ps, ImportTypes(ps), NEW o \in DOMAIN journals, NEW to \in JournalStates,
         journals' = [journals EXCEPT ![o].state = to]
  PROVE  /\ journals' \in Seq(Rows) /\ Len(journals') = Len(journals)
         /\ DOMAIN journals' = DOMAIN journals
         /\ \A q \in DOMAIN journals :
              /\ journals'[q].tree = journals[q].tree
              /\ journals'[q].state = (IF q = o THEN to ELSE journals[q].state)
<1>1. journals \in Seq(Rows) /\ o \in 1..Len(journals) /\ DOMAIN journals = 1..Len(journals)
      /\ Len(journals) \in Nat
  BY LenProperties DEF ImportTypes
<1>2. journals[o] \in Rows
  BY <1>1, ElementOfSeq
<1>3. PICK row2 : row2 = [journals[o] EXCEPT !.state = to]
  OBVIOUS
<1>4. row2 \in Rows /\ row2.tree = journals[o].tree /\ row2.state = to
  BY <1>2, <1>3 DEF Rows
<1>5. journals' = [journals EXCEPT ![o] = row2]
  BY <1>3
<1>6. /\ journals' \in Seq(Rows) /\ Len(journals') = Len(journals)
      /\ \A q \in 1..Len(journals) : journals'[q] = IF q = o THEN row2 ELSE journals[q]
  BY <1>1, <1>4, <1>5, ExceptSeq
<1>7. DOMAIN journals' = DOMAIN journals
  BY <1>1, <1>5
<1> QED
  BY <1>1, <1>4, <1>6, <1>7

LEMMA ImportAdvances ==
  ASSUME NEW ps, NEW b \in BOOLEAN, ImportInv(ps, b), NEW p \in ps,
         NEW from \in JournalStates \ {"complete"}, NEW to \in JournalStates \ {"complete"},
         NEW step \in Places \ {"idle", "create", "remove"}, I(ps, b)!Advance(p, from, to, step),
         UNCHANGED <<work, made, aside, dir, imports, revs, row, link, shownTree, base, removed>>,
         importer[p].op \in DOMAIN journals, imports[importer[p].op] # "none",
         imports[importer[p].op] = "committed"
           \/ (to \notin {"verified", "switched"} /\ step \in {"prepare", "stage", "commit"})
  PROVE  ImportInv(ps, b)'
<1>1. CASE I(ps, b)!Quit(p) /\ UNCHANGED journals
  BY <1>1, ImportQuits
<1>2. CASE /\ journals[importer[p].op].state = from
           /\ journals' = [journals EXCEPT ![importer[p].op].state = to]
           /\ importer' = [importer EXCEPT ![p] = [at |-> step, op |-> importer[p].op, state |-> to]]
  <2>1. PICK o : o = importer[p].op
    OBVIOUS
  <2>2. ImportTypes(ps) /\ o \in DOMAIN journals
    BY <2>1 DEF ImportInv
  <2>3. /\ journals' \in Seq(Rows) /\ Len(journals') = Len(journals)
        /\ DOMAIN journals' = DOMAIN journals
        /\ \A q \in DOMAIN journals :
             /\ journals'[q].tree = journals[q].tree
             /\ journals'[q].state = (IF q = o THEN to ELSE journals[q].state)
    <3>1. journals' = [journals EXCEPT ![o].state = to] /\ to \in JournalStates
      BY <1>2, <2>1
    <3> QED
      BY <2>2, <3>1, RowStates
  <2>4. importer' = [importer EXCEPT ![p] = [at |-> step, op |-> o, state |-> to]]
    BY <1>2, <2>1
  <2>5. o \in 0..Len(journals)
    BY <2>1, <2>2, ImportFacts
  <2>6. importer' \in [ps -> [at : Places, op : 0..Len(journals), state : JournalStates]]
        /\ importer'[p] = [at |-> step, op |-> o, state |-> to]
        /\ \A q \in ps : q # p => importer'[q] = importer[q]
    BY <2>2, <2>4, <2>5 DEF ImportTypes
  <2>7. ImportTypes(ps)'
    BY <2>2, <2>3, <2>6 DEF ImportTypes, TreeOrAbsent
  <2>8. DOMAIN imports = DOMAIN journals
    BY <2>2, ImportFacts
  <2>9. OneOperation'
    BY <2>1, <2>2, <2>3, <2>8 DEF ImportInv, OneOperation
  <2>10. CommandOK(p)'
    BY <2>1, <2>2, <2>3, <2>6 DEF CommandOK
  <2>11. \A q \in ps : CommandOK(q)'
    <3>1. ASSUME NEW q \in ps, q # p PROVE CommandOK(q)'
      BY <2>3, <2>6, <3>1, OthersKept DEF ImportInv
    <3> QED
      BY <2>10, <3>1
  <2>12. OneJournal(ps)'
    BY <1>2, <2>1, <2>2, <2>3, <2>6 DEF ImportInv, OneJournal
  <2>13. Visible' /\ FirstShown(b)' /\ Kept(b)' /\ Stored'
    BY DEF ImportInv, Visible, FirstShown, Kept, Stored
  <2> QED
    BY <2>7, <2>9, <2>11, <2>12, <2>13 DEF ImportInv
<1> QED
  BY <1>1, <1>2 DEF I!Advance, I!Journal, I!Op

\* The rows that lead the device are written, and the command goes on.
LEMMA AdvanceSteps ==
  ASSUME NEW ps, NEW b \in BOOLEAN, ImportInv(ps, b), NEW p \in ps,
         I(ps, b)!Stage(p) \/ I(ps, b)!Verify(p) \/ I(ps, b)!Switch(p)
  PROVE  ImportInv(ps, b)'
<1>1. CommandOK(p)
  BY DEF ImportInv
<1>2. CASE I(ps, b)!Stage(p)
  <2>1. /\ importer[p].at = "stage" /\ I(ps, b)!Advance(p, "planned", "staged", "commit")
        /\ UNCHANGED <<work, made, aside, dir, imports, revs, row, link, shownTree, base, removed>>
    BY <1>2 DEF I!Stage, I!At, I!UserSide, I!Device
  <2>2. importer[p].op \in DOMAIN journals /\ imports[importer[p].op] # "none"
    BY <1>1, <2>1 DEF CommandOK
  <2>3. "planned" \in JournalStates \ {"complete"} /\ "staged" \in JournalStates \ {"complete"}
        /\ "commit" \in Places \ {"idle", "create", "remove"}
    BY DEF JournalStates, Places
  <2> QED
    BY <2>1, <2>2, <2>3, ImportAdvances
<1>3. CASE I(ps, b)!Verify(p)
  <2>1. /\ importer[p].at = "verify" /\ I(ps, b)!Advance(p, "staged", "verified", "desire")
        /\ UNCHANGED <<work, made, aside, dir, imports, revs, row, link, shownTree, base, removed>>
    BY <1>3 DEF I!Verify, I!At, I!UserSide, I!Device
  <2>2. importer[p].op \in DOMAIN journals /\ imports[importer[p].op] = "committed"
    BY <1>1, <2>1 DEF CommandOK
  <2>3. "verified" \in JournalStates \ {"complete"} /\ "staged" \in JournalStates \ {"complete"}
        /\ "desire" \in Places \ {"idle", "create", "remove"}
    BY DEF JournalStates, Places
  <2> QED
    BY <2>1, <2>2, <2>3, ImportAdvances
<1>4. CASE I(ps, b)!Switch(p)
  <2>1. /\ importer[p].at = "switch"
        /\ \/ I(ps, b)!Advance(p, "verified", "switched", "check")
           \/ I(ps, b)!Quit(p) /\ UNCHANGED journals
        /\ UNCHANGED <<work, made, aside, dir, imports, revs, row, link, shownTree, base, removed>>
    BY <1>4 DEF I!Switch, I!At, I!UserSide, I!Device
  <2>2. importer[p].op \in DOMAIN journals /\ imports[importer[p].op] = "committed"
    BY <1>1, <2>1 DEF CommandOK
  <2>3. "verified" \in JournalStates \ {"complete"} /\ "switched" \in JournalStates \ {"complete"}
        /\ "check" \in Places \ {"idle", "create", "remove"}
    BY DEF JournalStates, Places
  <2> QED
    BY <2>1, <2>2, <2>3, ImportAdvances, ImportQuits
<1> QED
  BY <1>2, <1>3, <1>4

LEMMA EnterFacts ==
  ASSUME NEW ps, NEW b, ImportTypes(ps), NEW p \in ps, NEW step \in Places, I(ps, b)!Enter(p, step)
  PROVE  /\ importer' \in [ps -> [at : Places, op : 0..Len(journals), state : JournalStates]]
         /\ importer'[p].at = step /\ importer'[p].op = importer[p].op
         /\ \A q \in ps : q # p => importer'[q] = importer[q]
<1>1. importer' = [importer EXCEPT ![p] = [importer[p] EXCEPT !.at = step]]
  BY DEF I!Enter, ImportTypes
<1>2. [importer[p] EXCEPT !.at = step] = [at |-> step, op |-> importer[p].op, state |-> importer[p].state]
  BY ImportFacts
<1>3. importer' = [importer EXCEPT ![p] = [at |-> step, op |-> importer[p].op, state |-> importer[p].state]]
  BY <1>1, <1>2
<1>4. [at |-> step, op |-> importer[p].op, state |-> importer[p].state]
        \in [at : Places, op : 0..Len(journals), state : JournalStates]
  BY ImportFacts
<1>5. PICK r : r = [at |-> step, op |-> importer[p].op, state |-> importer[p].state]
  OBVIOUS
<1>6. importer' = [importer EXCEPT ![p] = r] /\ r \in [at : Places, op : 0..Len(journals), state : JournalStates]
      /\ r.at = step /\ r.op = importer[p].op
  BY <1>3, <1>4, <1>5
<1> QED
  BY <1>6 DEF ImportTypes

LEMMA CreateKept ==
  ASSUME NEW ps, NEW b \in BOOLEAN, ImportInv(ps, b), NEW p \in ps, I(ps, b)!CreateJournal(p)
  PROVE  ImportInv(ps, b)'
<1> USE ImportAssumption
<1>0. /\ importer[p].at = "create"
      /\ UNCHANGED <<work, made, aside, dir, revs, row, link, shownTree, base, removed>>
  BY DEF I!CreateJournal, I!At, I!UserSide, I!Device
<1>1. CASE I(ps, b)!Quit(p) /\ UNCHANGED <<journals, imports>>
  BY <1>0, <1>1, ImportQuits
<1>2. CASE /\ dir # Absent
           /\ journals' = Append(journals, [state |-> "planned", tree |-> dir])
           /\ imports' = Append(imports, "none")
           /\ importer' = [importer EXCEPT ![p] =
                 [at |-> "prepare", op |-> Len(journals) + 1, state |-> "planned"]]
  <2>0. ImportTypes(ps) /\ journals \in Seq(Rows) /\ imports \in Seq(OpStates)
        /\ Len(imports) = Len(journals) /\ dir \in 0..made /\ made \in Nat
    BY <1>2 DEF ImportInv, ImportTypes, TreeOrAbsent
  <2>1. PICK r : r = [state |-> "planned", tree |-> dir]
    OBVIOUS
  <2>2. r \in Rows /\ r.state = "planned" /\ r.tree = dir /\ "none" \in OpStates
    BY <2>0, <2>1 DEF Rows, JournalStates, OpStates
  <2>3. PICK n : n = Len(journals)
    OBVIOUS
  <2>4. n \in Nat /\ DOMAIN journals = 1..n /\ DOMAIN imports = 1..n
    BY <2>0, <2>3, LenProperties
  <2>5. journals' = Append(journals, r)
    BY <1>2, <2>1
  <2>6. /\ journals' \in Seq(Rows) /\ Len(journals') = n + 1 /\ journals'[n + 1] = r
        /\ \A o \in 1..n : journals'[o] = journals[o]
    BY <2>0, <2>2, <2>3, <2>5, AppendProperties
  <2>7. /\ imports' \in Seq(OpStates) /\ Len(imports') = n + 1 /\ imports'[n + 1] = "none"
        /\ \A o \in 1..n : imports'[o] = imports[o]
    BY <1>2, <2>0, <2>2, <2>3, AppendProperties
  <2>8. DOMAIN journals' = 1..(n + 1) /\ DOMAIN imports' = 1..(n + 1)
    BY <2>6, <2>7, LenProperties
  <2>9. /\ importer' \in [ps -> [at : Places, op : 0..(n + 1), state : JournalStates]]
        /\ importer'[p].at = "prepare" /\ importer'[p].op = n + 1
        /\ \A q \in ps : q # p => importer'[q] = importer[q]
    <3>1. importer \in [ps -> [at : Places, op : 0..n, state : JournalStates]]
      BY <2>0, <2>3 DEF ImportTypes
    <3>2. PICK c : c = [at |-> "prepare", op |-> n + 1, state |-> "planned"]
      OBVIOUS
    <3>3. c \in [at : Places, op : 0..(n + 1), state : JournalStates] /\ c.at = "prepare" /\ c.op = n + 1
      BY <2>4, <3>2 DEF Places, JournalStates
    <3>4. importer' = [importer EXCEPT ![p] = c]
      BY <1>2, <2>3, <3>2
    <3>5. \A q \in ps : importer[q] \in [at : Places, op : 0..(n + 1), state : JournalStates]
      BY <2>4, <3>1
    <3> QED
      BY <3>1, <3>3, <3>4, <3>5
  <2>10. ImportTypes(ps)'
    <3>1. \A o \in DOMAIN journals' : journals'[o].tree \in 0..made
      <4>1. \A o \in 1..n : journals'[o].tree \in 0..made
        BY <2>0, <2>4, <2>6 DEF ImportTypes
      <4> QED
        BY <2>0, <2>2, <2>4, <2>6, <2>8, <4>1
    <3> QED
      BY <1>0, <2>0, <2>6, <2>7, <2>9, <3>1 DEF ImportTypes, TreeOrAbsent
  <2>11. OneOperation'
    BY <1>0, <2>2, <2>4, <2>6, <2>7, <2>8 DEF ImportInv, OneOperation
  <2>12. CommandOK(p)'
    BY <2>4, <2>8, <2>9 DEF CommandOK
  <2>13. \A q \in ps : CommandOK(q)'
    <3>1. ASSUME NEW q \in ps, q # p PROVE CommandOK(q)'
      <4>1. CommandOK(q) /\ importer'[q] = importer[q] /\ dir' = dir
        BY <1>0, <2>9, <3>1 DEF ImportInv
      <4>2. \A o \in DOMAIN journals : journals'[o] = journals[o] /\ imports'[o] = imports[o]
        BY <2>4, <2>6, <2>7
      <4> QED
        BY <2>4, <2>8, <4>1, <4>2, OthersKept
    <3> QED
      BY <2>12, <3>1
  <2>14. OneJournal(ps)'
    <3>1. ASSUME \A q, q2 \in ps : q = q2 PROVE \A o \in 1..n : journals[o].state = "complete"
      BY <1>0, <2>4, <3>1 DEF ImportInv, OneJournal
    <3> QED
      BY <2>4, <2>6, <2>8, <2>9, <3>1 DEF OneJournal
  <2>15. Visible' /\ FirstShown(b)' /\ Kept(b)' /\ Stored'
    BY <1>0 DEF ImportInv, Visible, FirstShown, Kept, Stored
  <2> QED
    BY <2>10, <2>11, <2>13, <2>14, <2>15 DEF ImportInv
<1> QED
  BY <1>1, <1>2 DEF I!CreateJournal

\* One operation row changes its state.
LEMMA OpStatesStep ==
  ASSUME NEW ps, ImportTypes(ps), NEW o \in DOMAIN journals, NEW to \in OpStates,
         imports' = [imports EXCEPT ![o] = to]
  PROVE  /\ imports' \in Seq(OpStates) /\ Len(imports') = Len(journals)
         /\ DOMAIN imports' = DOMAIN journals
         /\ \A q \in DOMAIN journals : imports'[q] = (IF q = o THEN to ELSE imports[q])
<1>1. imports \in Seq(OpStates) /\ o \in 1..Len(imports) /\ DOMAIN journals = 1..Len(imports)
      /\ DOMAIN imports = 1..Len(imports) /\ Len(imports) = Len(journals)
  BY LenProperties DEF ImportTypes
<1>2. /\ imports' \in Seq(OpStates) /\ Len(imports') = Len(imports)
      /\ \A q \in 1..Len(imports) : imports'[q] = IF q = o THEN to ELSE imports[q]
  BY <1>1, ExceptSeq
<1> QED
  BY <1>1, <1>2

LEMMA PrepareKept ==
  ASSUME NEW ps, NEW b \in BOOLEAN, ImportInv(ps, b), NEW p \in ps, I(ps, b)!Prepare(p)
  PROVE  ImportInv(ps, b)'
<1>0. /\ importer[p].at = "prepare"
      /\ UNCHANGED <<work, made, aside, dir, journals, revs, row, link, shownTree, base, removed>>
  BY DEF I!Prepare, I!At, I!UserSide, I!Device
<1>1. CASE I(ps, b)!Quit(p) /\ UNCHANGED imports
  BY <1>0, <1>1, ImportQuits
<1>2. CASE /\ imports[importer[p].op] # "none" \/ I(ps, b)!NameFree
           /\ imports' = [imports EXCEPT ![importer[p].op] = IF @ = "none" THEN "prepared" ELSE @]
           /\ I(ps, b)!Enter(p, IF importer[p].state = "planned" THEN "stage" ELSE "commit")
  <2>1. PICK o : o = importer[p].op
    OBVIOUS
  <2>2. ImportTypes(ps) /\ o \in DOMAIN journals /\ DOMAIN imports = DOMAIN journals
        /\ \A q \in DOMAIN journals : imports[q] \in OpStates
    BY <1>0, <2>1, ImportFacts DEF ImportInv, CommandOK
  <2>3. PICK to : to = IF imports[o] = "none" THEN "prepared" ELSE imports[o]
    OBVIOUS
  <2>4. to \in OpStates /\ to # "none" /\ (imports[o] # "none" => to = imports[o])
        /\ (imports[o] = "none" => to = "prepared")
    BY <2>2, <2>3 DEF OpStates
  <2>5. imports' = [imports EXCEPT ![o] = to]
    BY <1>2, <2>1, <2>2, <2>3
  <2>6. /\ imports' \in Seq(OpStates) /\ Len(imports') = Len(journals)
        /\ DOMAIN imports' = DOMAIN journals
        /\ \A q \in DOMAIN journals : imports'[q] = (IF q = o THEN to ELSE imports[q])
    BY <2>2, <2>4, <2>5, OpStatesStep
  <2>7. PICK step : step = IF importer[p].state = "planned" THEN "stage" ELSE "commit"
    OBVIOUS
  <2>8. step \in Places /\ step \in {"stage", "commit"} /\ I(ps, b)!Enter(p, step)
    BY <1>2, <2>7 DEF Places
  <2>9. /\ importer' \in [ps -> [at : Places, op : 0..Len(journals), state : JournalStates]]
        /\ importer'[p].at = step /\ importer'[p].op = o
        /\ \A q \in ps : q # p => importer'[q] = importer[q]
    BY <2>1, <2>2, <2>8, EnterFacts
  <2>10. ImportTypes(ps)'
    BY <1>0, <2>2, <2>6, <2>9 DEF ImportTypes, TreeOrAbsent
  <2>11. OneOperation'
    <3>1. imports[o] # "none" => \A q \in DOMAIN journals : imports'[q] = imports[q]
      BY <2>4, <2>6
    <3>2. imports[o] = "none" => revs = <<>> /\ \A q \in DOMAIN imports : imports[q] # "prepared"
      BY <1>2, <2>1 DEF I!NameFree, I!Elements
    <3>3. imports[o] = "none" => \A q \in DOMAIN imports : imports[q] = "none"
      BY <2>2, <3>2 DEF ImportInv, OneOperation, OpStates
    <3>4. CASE imports[o] # "none"
      BY <1>0, <2>2, <2>6, <3>1, <3>4 DEF ImportInv, OneOperation
    <3>5. CASE imports[o] = "none"
      <4>1. revs' = <<>> /\ to = "prepared"
            /\ \A q \in DOMAIN journals : imports'[q] = IF q = o THEN "prepared" ELSE "none"
        BY <1>0, <2>2, <2>4, <2>6, <3>2, <3>3, <3>5
      <4>2. \A q \in DOMAIN journals : journals'[q].state \notin {"verified", "switched", "complete"}
        BY <1>0, <2>2, <3>3, <3>5 DEF ImportInv, OneOperation
      <4> QED
        BY <1>0, <2>2, <2>6, <4>1, <4>2 DEF OneOperation
    <3> QED
      BY <3>4, <3>5
  <2>12. CommandOK(p)'
    BY <1>0, <2>2, <2>4, <2>6, <2>8, <2>9 DEF CommandOK
  <2>13. \A q \in ps : CommandOK(q)'
    <3>1. ASSUME NEW q \in ps, q # p PROVE CommandOK(q)'
      <4>1. CommandOK(q) /\ importer'[q] = importer[q]
        BY <2>9, <3>1 DEF ImportInv
      <4>2. \A k \in DOMAIN journals : /\ imports[k] # "none" => imports'[k] # "none"
                                       /\ imports[k] = "committed" => imports'[k] = "committed"
        BY <2>4, <2>6
      <4> QED
        BY <1>0, <4>1, <4>2, OthersKept
    <3> QED
      BY <2>12, <3>1
  <2>14. OneJournal(ps)'
    BY <1>0, <2>8, <2>9 DEF ImportInv, OneJournal
  <2>15. Visible' /\ FirstShown(b)' /\ Kept(b)' /\ Stored'
    BY <1>0 DEF ImportInv, Visible, FirstShown, Kept, Stored
  <2> QED
    BY <2>10, <2>11, <2>13, <2>14, <2>15 DEF ImportInv
<1> QED
  BY <1>1, <1>2 DEF I!Prepare, I!Op

LEMMA CommitKept ==
  ASSUME NEW ps, NEW b \in BOOLEAN, ImportInv(ps, b), NEW p \in ps, I(ps, b)!Commit(p)
  PROVE  ImportInv(ps, b)'
<1>1. PICK o : o = importer[p].op
  OBVIOUS
<1>2. /\ importer[p].at = "commit" /\ I(ps, b)!Enter(p, "verify") /\ "verify" \in Places
      /\ UNCHANGED <<work, made, aside, dir, journals, row, link, shownTree, base, removed>>
      /\ imports' = [imports EXCEPT ![o] = "committed"] /\ "committed" \in OpStates
      /\ revs' = IF imports[o] = "committed" THEN revs ELSE <<journals[o].tree>>
  BY <1>1 DEF I!Commit, I!At, I!UserSide, I!Device, I!Op, I!Journal, Places, OpStates
<1>3. /\ ImportTypes(ps) /\ o \in DOMAIN journals /\ DOMAIN imports = DOMAIN journals
      /\ imports[o] # "none" /\ imports[o] \in OpStates /\ journals[o].tree \in 0..made /\ made \in Nat
      /\ DOMAIN revs = 1..Len(revs)
  BY <1>1, <1>2, ImportFacts DEF ImportInv, CommandOK
<1>4. /\ imports' \in Seq(OpStates) /\ Len(imports') = Len(journals)
      /\ DOMAIN imports' = DOMAIN journals
      /\ \A q \in DOMAIN journals : imports'[q] = (IF q = o THEN "committed" ELSE imports[q])
  BY <1>2, <1>3, OpStatesStep
<1>5. /\ importer' \in [ps -> [at : Places, op : 0..Len(journals), state : JournalStates]]
      /\ importer'[p].at = "verify" /\ importer'[p].op = o
      /\ \A q \in ps : q # p => importer'[q] = importer[q]
  BY <1>1, <1>2, <1>3, EnterFacts
<1>6. \A q \in DOMAIN journals : q # o => imports[q] = "none"
  BY <1>3 DEF ImportInv, OneOperation
<1>7. /\ revs' \in Seq(Nat) /\ \A i \in DOMAIN revs' : revs'[i] \in 0..made
      /\ \E i \in DOMAIN revs' : revs'[i] = journals[o].tree
      /\ \A i \in DOMAIN revs : \E j \in DOMAIN revs' : revs'[j] = revs[i]
      /\ row \in 0..Len(revs') /\ link \in 0..Len(revs') /\ base \in [rev : 0..Len(revs'), tree : TreeOrAbsent]
  <2>1. CASE imports[o] = "committed"
    BY <1>2, <1>3, <2>1 DEF ImportTypes, ImportInv, OneOperation
  <2>2. CASE imports[o] # "committed"
    <3>1. revs = <<>>
      BY <1>3, <2>2 DEF ImportInv, OneOperation, OpStates
    <3>2. Len(revs) = 0 /\ DOMAIN revs = {}
      BY <1>3, <3>1
    <3>3. PICK tree : tree = journals[o].tree
      OBVIOUS
    <3>4. tree \in 0..made /\ tree \in Nat /\ revs' = <<tree>>
      BY <1>2, <1>3, <2>2, <3>3
    <3>5. revs' \in Seq(Nat) /\ Len(revs') = 1 /\ DOMAIN revs' = {1} /\ revs'[1] = tree
      BY <3>4
    <3>6. row = 0 /\ link = 0 /\ base \in [rev : 0..0, tree : TreeOrAbsent]
      BY <1>3, <3>2 DEF ImportTypes
    <3> QED
      BY <3>2, <3>3, <3>4, <3>5, <3>6
  <2> QED
    BY <2>1, <2>2
<1>8. ImportTypes(ps)'
  BY <1>2, <1>3, <1>4, <1>5, <1>7 DEF ImportTypes, TreeOrAbsent
<1>9. OneOperation'
  <2>1. \A q \in DOMAIN imports' : q # o => imports'[q] = "none"
    BY <1>3, <1>4, <1>6
  <2>2. imports'[o] = "committed"
    BY <1>3, <1>4
  <2>3. \E i \in DOMAIN revs' : revs'[i] = journals'[o].tree
    BY <1>2, <1>7
  <2>4. \A q \in DOMAIN imports' : imports'[q] # "none" => q = o
    BY <2>1
  <2>5. \A q \in DOMAIN imports' : imports'[q] # "prepared"
    BY <2>1, <2>2
  <2>6. \A q \in DOMAIN imports' : imports'[q] = "committed" =>
          \E i \in DOMAIN revs' : revs'[i] = journals'[q].tree
    BY <2>1, <2>3
  <2>7. \A q, r \in DOMAIN imports' : imports'[q] # "none" /\ imports'[r] # "none" => q = r
    BY <2>4
  <2>8. \A q \in DOMAIN imports' : imports'[q] = "prepared" => revs' = <<>>
    BY <2>5
  <2>9. \A q \in DOMAIN journals' :
          journals'[q].state \in {"verified", "switched", "complete"} => imports'[q] = "committed"
    <3>1. \A q \in DOMAIN journals :
            journals[q].state \in {"verified", "switched", "complete"} => imports[q] = "committed"
      BY DEF ImportInv, OneOperation
    <3> QED
      BY <1>2, <1>4, <3>1
  <2> QED
    BY <2>6, <2>7, <2>8, <2>9 DEF OneOperation
<1>10. CommandOK(p)'
  BY <1>2, <1>3, <1>4, <1>5 DEF CommandOK
<1>11. \A q \in ps : CommandOK(q)'
  <2>1. ASSUME NEW q \in ps, q # p PROVE CommandOK(q)'
    <3>1. CommandOK(q) /\ importer'[q] = importer[q]
      BY <1>5, <2>1 DEF ImportInv
    <3>2. \A k \in DOMAIN journals : /\ imports[k] # "none" => imports'[k] # "none"
                                     /\ imports[k] = "committed" => imports'[k] = "committed"
      BY <1>4
    <3> QED
      BY <1>2, <3>1, <3>2, OthersKept
  <2> QED
    BY <1>10, <2>1
<1>12. OneJournal(ps)'
  BY <1>2, <1>5 DEF ImportInv, OneJournal
<1>13. Visible' /\ FirstShown(b)'
  BY <1>2 DEF ImportInv, Visible, FirstShown
<1>14. Kept(b)' /\ Stored'
  <2>1. \A w : (\E i \in DOMAIN revs : revs[i] = w) => \E j \in DOMAIN revs' : revs'[j] = w
    BY <1>7
  <2>2. Kept(b) /\ Stored
    BY DEF ImportInv
  <2>3. Kept(b)'
    BY <1>2, <2>1, <2>2, Zenon DEF Kept
  <2>4. Stored'
    BY <1>2, <2>1, <2>2, Zenon DEF Stored
  <2> QED
    BY <2>3, <2>4
<1> QED
  BY <1>8, <1>9, <1>11, <1>12, <1>13, <1>14 DEF ImportInv

\* Desire, Materialize and Baseline write the device's rows.
LEMMA DeviceKept ==
  ASSUME NEW ps, NEW b \in BOOLEAN, ImportInv(ps, b), NEW p \in ps,
         I(ps, b)!Desire(p) \/ I(ps, b)!Materialize(p) \/ I(ps, b)!Baseline(p)
  PROVE  ImportInv(ps, b)'
<1> USE ImportAssumption
<1>1. PICK o : o = importer[p].op
  OBVIOUS
<1>2. /\ importer[p].at \in {"desire", "materialize", "baseline"}
      /\ UNCHANGED <<work, made, aside, dir, journals, imports, revs, removed>>
  BY DEF I!Desire, I!Materialize, I!Baseline, I!At, I!UserSide
<1>3. /\ ImportTypes(ps) /\ o \in DOMAIN journals /\ imports[o] = "committed"
      /\ journals[o].tree \in 0..made /\ made \in Nat /\ DOMAIN revs = 1..Len(revs) /\ Len(revs) \in Nat
      /\ DOMAIN imports = DOMAIN journals
  BY <1>1, <1>2, ImportFacts DEF ImportInv, CommandOK
<1>4. \E i \in DOMAIN revs : revs[i] = journals[o].tree
  BY <1>3 DEF ImportInv, OneOperation
<1>5. 1 \in 0..Len(revs)
  BY <1>3, <1>4
<1>6. CASE I(ps, b)!Quit(p) /\ UNCHANGED <<row, link, shownTree, base>>
  BY <1>2, <1>6, ImportQuits
<1>7. ASSUME NEW step \in {"materialize", "baseline", "switch"}, I(ps, b)!Enter(p, step),
             row' \in {row, 1},
             \/ UNCHANGED <<link, shownTree>>
             \/ link' = 1 /\ shownTree' = journals[o].tree /\ (link = 1 => shownTree = journals[o].tree),
             base' = base \/ base' = [rev |-> 1, tree |-> journals[o].tree]
      PROVE  ImportInv(ps, b)'
  <2>1. step \in Places
    BY <1>7 DEF Places
  <2>2. /\ importer' \in [ps -> [at : Places, op : 0..Len(journals), state : JournalStates]]
        /\ importer'[p].at = step /\ importer'[p].op = o
        /\ \A q \in ps : q # p => importer'[q] = importer[q]
    BY <1>1, <1>3, <1>7, <2>1, EnterFacts
  <2>3. ImportTypes(ps)'
    <3>1. row' \in 0..Len(revs) /\ link' \in 0..Len(revs) /\ shownTree' \in TreeOrAbsent
      BY <1>3, <1>5, <1>7 DEF ImportTypes, TreeOrAbsent
    <3>2. base' \in [rev : 0..Len(revs), tree : TreeOrAbsent]
      BY <1>3, <1>5, <1>7 DEF ImportTypes, TreeOrAbsent
    <3> QED
      BY <1>2, <1>3, <2>2, <3>1, <3>2 DEF ImportTypes, TreeOrAbsent
  <2>4. OneOperation' /\ Stored'
    BY <1>2 DEF ImportInv, OneOperation, Stored
  <2>5. CommandOK(p)'
    BY <1>2, <1>3, <1>7, <2>2 DEF CommandOK
  <2>6. \A q \in ps : CommandOK(q)'
    BY <1>2, <2>2, <2>5, OthersKept DEF ImportInv
  <2>7. OneJournal(ps)'
    BY <1>2, <1>7, <2>2 DEF ImportInv, OneJournal
  <2>8. Visible' /\ FirstShown(b)'
    BY <1>3, <1>7 DEF ImportInv, Visible, FirstShown
  <2>9. Kept(b)'
    <3>1. CASE UNCHANGED shownTree
      BY <1>2, <3>1 DEF ImportInv, Kept
    <3>2. CASE b = FALSE /\ shownTree' # shownTree
      <4>1. link = 0 /\ shownTree = Absent
        BY <1>7, <3>2 DEF ImportInv, FirstShown, Visible
      <4>2. \A w \in work : w # shownTree
        BY <1>3, <4>1 DEF ImportTypes
      <4> QED
        BY <1>2, <4>2 DEF ImportInv, Kept
    <3> QED
      BY <3>1, <3>2 DEF Kept
  <2> QED
    BY <2>3, <2>4, <2>6, <2>7, <2>8, <2>9 DEF ImportInv
<1>8. CASE I(ps, b)!Desire(p)
  BY <1>7, <1>8 DEF I!Desire
<1>9. CASE I(ps, b)!Materialize(p)
  BY <1>1, <1>6, <1>7, <1>9 DEF I!Materialize, I!Journal, I!Op
<1>10. CASE I(ps, b)!Baseline(p)
  BY <1>1, <1>7, <1>10 DEF I!Baseline, I!Journal, I!Op
<1> QED
  BY <1>8, <1>9, <1>10

LEMMA CheckKept ==
  ASSUME NEW ps, NEW b \in BOOLEAN, ImportInv(ps, b), NEW p \in ps,
         I(ps, b)!CheckSource(p) \/ I(ps, b)!StopImport(p)
  PROVE  ImportInv(ps, b)'
<1>1. UNCHANGED <<work, made, aside, dir, journals, imports, revs, row, link, shownTree, base, removed>>
  BY DEF I!CheckSource, I!StopImport, I!UserSide, I!Device
<1>2. CASE I(ps, b)!Quit(p)
  BY <1>1, <1>2, ImportQuits
<1>3. ASSUME importer[p].at = "check"
      PROVE  importer[p].op \in DOMAIN journals /\ imports[importer[p].op] = "committed"
  BY <1>3 DEF ImportInv, CommandOK
<1>4. CASE importer[p].at = "check" /\ I(ps, b)!Enter(p, "finish")
  BY <1>1, <1>3, <1>4, ImportEnters DEF Places
<1>5. CASE importer[p].at = "check" /\ I(ps, b)!SourceUnchanged(p) /\ I(ps, b)!Enter(p, "remove")
  <2>1. dir \in {Absent, journals[importer[p].op].tree}
    BY <1>5 DEF I!SourceUnchanged, I!Journal, I!Op
  <2> QED
    BY <1>1, <1>3, <1>5, <2>1, ImportEnters DEF Places
<1> QED
  BY <1>2, <1>4, <1>5 DEF I!CheckSource, I!StopImport, I!At

LEMMA RemoveKept ==
  ASSUME NEW ps, NEW b \in BOOLEAN, ImportInv(ps, b), NEW p \in ps, I(ps, b)!RemoveSource(p)
  PROVE  ImportInv(ps, b)'
<1>0. /\ importer[p].at = "remove"
      /\ UNCHANGED <<work, made, aside, journals, imports, revs, row, link, shownTree, base>>
  BY DEF I!RemoveSource, I!At, I!UserSide, I!Device
<1>1. CASE I(ps, b)!Quit(p) /\ UNCHANGED <<dir, removed>>
  BY <1>0, <1>1, ImportQuits
<1>2. ASSUME dir # Absent, dir' \in {Absent, 0}, removed' = removed \cup ({dir} \ {0}),
             importer' \in [ps -> [at : Places, op : 0..Len(journals), state : JournalStates]],
             \/ importer'[p].at = "idle"
             \/ importer'[p].at = "finish" /\ importer'[p].op = importer[p].op,
             \A q \in ps : q # p => importer'[q] = importer[q]
      PROVE  ImportInv(ps, b)'
  <2>1. ImportTypes(ps)
    BY DEF ImportInv
  <2>2. /\ importer[p].op \in DOMAIN journals /\ imports[importer[p].op] = "committed"
        /\ dir \in {0, journals[importer[p].op].tree} /\ DOMAIN imports = DOMAIN journals
    BY <1>0, <1>2, <2>1, ImportFacts DEF ImportInv, CommandOK
  <2>3. dir # 0 => \E i \in DOMAIN revs : revs[i] = dir
    BY <2>2 DEF ImportInv, OneOperation
  <2>4. ImportTypes(ps)'
    <3>1. dir \in 0..made /\ made \in Nat
      BY <1>2, <2>1 DEF ImportTypes, TreeOrAbsent
    <3>2. removed' \subseteq 1..made /\ dir' \in TreeOrAbsent
      BY <1>2, <2>1, <3>1 DEF ImportTypes, TreeOrAbsent
    <3> QED
      BY <1>0, <1>2, <2>1, <3>2 DEF ImportTypes, TreeOrAbsent
  <2>5. OneOperation' /\ Visible' /\ FirstShown(b)'
    BY <1>0 DEF ImportInv, OneOperation, Visible, FirstShown
  <2>6. CommandOK(p)'
    BY <1>0, <1>2, <2>2 DEF CommandOK
  <2>7. \A q \in ps : CommandOK(q)'
    BY <1>0, <1>2, <2>6, OthersKept DEF ImportInv
  <2>8. OneJournal(ps)'
    BY <1>0, <1>2 DEF ImportInv, OneJournal
  <2>9. Stored'
    BY <1>0, <1>2, <2>3 DEF ImportInv, Stored
  <2>10. Kept(b)'
    <3>1. \A w \in work : w # 0
      BY <2>1 DEF ImportTypes
    <3> QED
      BY <1>0, <1>2, <2>3, <3>1 DEF ImportInv, Kept
  <2> QED
    BY <2>4, <2>5, <2>7, <2>8, <2>9, <2>10 DEF ImportInv
<1>3. CASE /\ dir # Absent /\ dir' = Absent /\ removed' = removed \cup ({dir} \ {0})
           /\ I(ps, b)!Enter(p, "finish")
  <2>1. ImportTypes(ps) /\ "finish" \in Places
    BY DEF ImportInv, Places
  <2> QED
    BY <1>2, <1>3, <2>1, EnterFacts
<1>4. CASE /\ dir # Absent /\ dir' = 0 /\ removed' = removed \cup ({dir} \ {0})
           /\ I(ps, b)!Quit(p)
  <2>1. I(ps, b)!Resting \in [at : Places, op : 0..Len(journals), state : JournalStates]
        /\ I(ps, b)!Resting.at = "idle"
    BY ImportFacts DEF I!Resting, Places, JournalStates, ImportInv
  <2>2. PICK r : r = I(ps, b)!Resting
    OBVIOUS
  <2>3. importer' = [importer EXCEPT ![p] = r] /\ ImportTypes(ps)
    BY <1>4, <2>2 DEF I!Quit, ImportInv
  <2>4. /\ importer' \in [ps -> [at : Places, op : 0..Len(journals), state : JournalStates]]
        /\ importer'[p].at = "idle" /\ \A q \in ps : q # p => importer'[q] = importer[q]
    BY <2>1, <2>2, <2>3 DEF ImportTypes
  <2> QED
    BY <1>2, <1>4, <2>4
<1> QED
  BY <1>1, <1>3, <1>4 DEF I!RemoveSource, I!Rest

LEMMA FinishKept ==
  ASSUME NEW ps, NEW b \in BOOLEAN, ImportInv(ps, b), NEW p \in ps, I(ps, b)!Finish(p)
  PROVE  ImportInv(ps, b)'
<1>1. PICK o : o = importer[p].op
  OBVIOUS
<1>2. /\ importer[p].at = "finish"
      /\ UNCHANGED <<work, made, aside, dir, imports, revs, row, link, shownTree, base, removed>>
      /\ importer' = [importer EXCEPT ![p] = I(ps, b)!Resting]
      /\ journals' = [journals EXCEPT ![o].state = IF @ = "switched" THEN "complete" ELSE @]
  BY <1>1 DEF I!Finish, I!At, I!UserSide, I!Device, I!Op, I!Quit
<1>3. ImportTypes(ps) /\ o \in DOMAIN journals /\ imports[o] = "committed"
      /\ journals[o].state \in JournalStates /\ DOMAIN imports = DOMAIN journals /\ Len(journals) \in Nat
  BY <1>1, <1>2, ImportFacts DEF ImportInv, CommandOK
<1>4. PICK to : to = IF journals[o].state = "switched" THEN "complete" ELSE journals[o].state
  OBVIOUS
<1>5. to \in JournalStates /\ (journals[o].state = "complete" => to = "complete")
  BY <1>3, <1>4 DEF JournalStates
<1>6. journals' = [journals EXCEPT ![o].state = to]
  BY <1>2, <1>3, <1>4
<1>7. /\ journals' \in Seq(Rows) /\ Len(journals') = Len(journals)
      /\ DOMAIN journals' = DOMAIN journals
      /\ \A q \in DOMAIN journals :
           /\ journals'[q].tree = journals[q].tree
           /\ journals'[q].state = (IF q = o THEN to ELSE journals[q].state)
  BY <1>3, <1>5, <1>6, RowStates
<1>8. PICK r : r = I(ps, b)!Resting
  OBVIOUS
<1>9. r \in [at : Places, op : 0..Len(journals), state : JournalStates] /\ r.at = "idle"
  BY <1>3, <1>8 DEF I!Resting, Places, JournalStates
<1>10. /\ importer' \in [ps -> [at : Places, op : 0..Len(journals), state : JournalStates]]
       /\ importer'[p].at = "idle" /\ \A q \in ps : q # p => importer'[q] = importer[q]
  BY <1>2, <1>3, <1>8, <1>9 DEF ImportTypes
<1>11. ImportTypes(ps)'
  BY <1>2, <1>3, <1>7, <1>10 DEF ImportTypes, TreeOrAbsent
<1>12. OneOperation'
  BY <1>2, <1>3, <1>7 DEF ImportInv, OneOperation
<1>13. CommandOK(p)'
  BY <1>10 DEF CommandOK
<1>14. \A q \in ps : CommandOK(q)'
  <2>1. ASSUME NEW q \in ps, q # p PROVE CommandOK(q)'
    <3>1. CommandOK(q) /\ importer'[q] = importer[q]
      BY <1>10, <2>1 DEF ImportInv
    <3> QED
      BY <1>2, <1>7, <3>1, OthersKept
  <2> QED
    BY <1>13, <2>1
<1>15. OneJournal(ps)'
  BY <1>3, <1>5, <1>7, <1>10 DEF ImportInv, OneJournal
<1>16. Visible' /\ FirstShown(b)' /\ Kept(b)' /\ Stored'
  BY <1>2 DEF ImportInv, Visible, FirstShown, Kept, Stored
<1> QED
  BY <1>11, <1>12, <1>14, <1>15, <1>16 DEF ImportInv

LEMMA ServiceKept ==
  ASSUME NEW ps, NEW b \in BOOLEAN, ImportInv(ps, b), NEW p \in ps, I(ps, b)!ServiceSync
  PROVE  ImportInv(ps, b)'
<1> USE ImportAssumption
<1>0. /\ b = TRUE /\ revs # <<>>
      /\ UNCHANGED <<work, made, aside, dir, journals, imports, removed, importer>>
      /\ row' = Len(revs') /\ link' = Len(revs')
      /\ base' = [rev |-> Len(revs'), tree |-> revs'[Len(revs')]]
      /\ shownTree' = (IF link = Len(revs') THEN shownTree ELSE revs'[Len(revs')])
      /\ revs' = revs \/ (link # 0 /\ revs' = Append(revs, shownTree))
  BY DEF I!ServiceSync, I!UserSide
<1>1. /\ ImportTypes(ps) /\ made \in Nat /\ DOMAIN revs = 1..Len(revs) /\ Len(revs) \in Nat
      /\ DOMAIN imports = DOMAIN journals
  BY ImportFacts DEF ImportInv
<1>2. revs \in Seq(Nat) /\ \A i \in DOMAIN revs : revs[i] \in 0..made
  BY <1>1 DEF ImportTypes
<1>3. link # 0 => shownTree \in 0..made
  BY <1>1 DEF ImportInv, ImportTypes, Visible, TreeOrAbsent
<1>4. /\ revs' \in Seq(Nat) /\ Len(revs') \in Nat /\ DOMAIN revs' = 1..Len(revs') /\ Len(revs') > 0
      /\ \A i \in 1..Len(revs') : revs'[i] \in 0..made
      /\ \A i \in DOMAIN revs : i \in DOMAIN revs' /\ revs'[i] = revs[i]
  <2>1. CASE revs' = revs
    <3>1. Len(revs) # 0
      BY <1>0, <1>2, EmptySeq
    <3> QED
      BY <1>1, <1>2, <2>1, <3>1
  <2>2. CASE link # 0 /\ revs' = Append(revs, shownTree)
    <3>0. PICK n, t : n = Len(revs) /\ t = shownTree
      OBVIOUS
    <3>1. t \in 0..made /\ t \in Nat /\ n \in Nat /\ revs' = Append(revs, t)
      BY <1>1, <1>3, <2>2, <3>0
    <3>2. /\ revs' \in Seq(Nat) /\ Len(revs') = n + 1 /\ revs'[n + 1] = t
          /\ \A i \in 1..n : revs'[i] = revs[i]
      BY <1>2, <3>0, <3>1, AppendProperties
    <3>3. DOMAIN revs' = 1..Len(revs')
      BY <3>2, LenProperties
    <3>4. \A i \in 1..n : revs'[i] \in 0..made
      BY <1>1, <1>2, <3>0, <3>2
    <3> QED
      BY <1>1, <3>0, <3>1, <3>2, <3>3, <3>4
  <2> QED
    BY <1>0, <2>1, <2>2
<1>5. PICK h, t : h = Len(revs') /\ t = revs'[h]
  OBVIOUS
<1>6. h \in Nat /\ h # 0 /\ t \in 0..made
  BY <1>4, <1>5
<1>7. row' = h /\ link' = h /\ base' = [rev |-> h, tree |-> t] /\ shownTree' \in 0..made
  BY <1>0, <1>3, <1>5, <1>6
<1>8. ImportTypes(ps)'
  <2>1. base' \in [rev : 0..Len(revs'), tree : TreeOrAbsent'] /\ shownTree' \in TreeOrAbsent'
        /\ row' \in 0..Len(revs') /\ link' \in 0..Len(revs')
    BY <1>0, <1>5, <1>6, <1>7 DEF TreeOrAbsent
  <2>2. dir' \in TreeOrAbsent' /\ \A i \in DOMAIN revs' : revs'[i] \in 0..made'
    BY <1>0, <1>1, <1>4 DEF ImportTypes, TreeOrAbsent
  <2> QED
    BY <1>0, <1>1, <1>4, <2>1, <2>2 DEF ImportTypes
<1>9. OneOperation' /\ Stored'
  BY <1>0, <1>1, <1>4 DEF ImportInv, OneOperation, Stored
<1>10. \A q \in ps : CommandOK(q)'
  BY <1>0, OthersKept DEF ImportInv
<1>11. Visible'
  BY <1>1, <1>6, <1>7 DEF Visible
<1>12. FirstShown(b)' /\ Kept(b)' /\ OneJournal(ps)'
  BY <1>0 DEF ImportInv, FirstShown, Kept, OneJournal
<1> QED
  BY <1>8, <1>9, <1>10, <1>11, <1>12 DEF ImportInv

LEMMA UserKept ==
  ASSUME NEW ps, NEW b \in BOOLEAN, ImportInv(ps, b), NEW p \in ps,
         I(ps, b)!EditSource \/ I(ps, b)!MoveSource \/ I(ps, b)!EditManaged
  PROVE  ImportInv(ps, b)'
<1> USE ImportAssumption
<1>0. /\ UNCHANGED <<journals, imports, revs, row, link, base, removed, importer>>
      /\ \/ /\ \A q \in ps : importer[q].at # "remove"
            /\ made < MaxWork /\ made' = made + 1 /\ dir' = made + 1
            /\ work' = (work \ {dir}) \cup {made + 1} /\ UNCHANGED <<aside, shownTree>>
         \/ /\ \A q \in ps : importer[q].at # "remove"
            /\ dir # Absent /\ dir' = Absent /\ aside' = aside \cup {dir}
            /\ UNCHANGED <<work, made, shownTree>>
         \/ /\ link # 0 /\ made < MaxWork /\ made' = made + 1 /\ shownTree' = made + 1
            /\ work' = (work \ ({shownTree} \ ({dir} \cup aside))) \cup {made + 1}
            /\ UNCHANGED <<aside, dir>>
  BY DEF I!EditSource, I!MoveSource, I!EditManaged, I!Touchable, I!At, I!Device
<1>1. /\ ImportTypes(ps) /\ made \in Nat /\ made' \in Nat /\ made <= made'
  BY <1>0, ImportFacts DEF ImportInv
<1>2. 1..made \subseteq 1..made' /\ 0..made \subseteq 0..made'
  BY <1>1
<1>3. /\ made' \in 1..MaxWork /\ work' \subseteq 1..made' /\ aside' \subseteq 0..made'
      /\ removed' \subseteq 1..made'
  <2>1. /\ made \in 1..MaxWork /\ work \subseteq 1..made /\ aside \subseteq 0..made
        /\ removed \subseteq 1..made /\ (dir # Absent => dir \in 0..made)
    BY <1>1 DEF ImportTypes, TreeOrAbsent
  <2>2. made' \in 1..MaxWork /\ removed' \subseteq 1..made'
    BY <1>0, <1>1, <1>2, <2>1
  <2>3. aside' \subseteq 0..made'
    BY <1>0, <1>2, <2>1
  <2>4. work' \subseteq work \cup {made'}
    BY <1>0
  <2> QED
    BY <1>1, <1>2, <2>1, <2>2, <2>3, <2>4
<1>4. dir' \in TreeOrAbsent' /\ shownTree' \in TreeOrAbsent' /\ TreeOrAbsent \subseteq TreeOrAbsent'
  <2>1. TreeOrAbsent \subseteq TreeOrAbsent' /\ made' \in 1..made' /\ Absent \in TreeOrAbsent'
    BY <1>2, <1>3 DEF TreeOrAbsent
  <2>2. dir \in TreeOrAbsent /\ shownTree \in TreeOrAbsent
    BY <1>1 DEF ImportTypes
  <2>3. dir' \in {dir, made', Absent} /\ shownTree' \in {shownTree, made'}
    BY <1>0
  <2>4. made' \in TreeOrAbsent'
    BY <2>1 DEF TreeOrAbsent
  <2> QED
    BY <2>1, <2>2, <2>3, <2>4
<1>5. base' \in [rev : 0..Len(revs), tree : TreeOrAbsent']
  BY <1>0, <1>1, <1>4 DEF ImportTypes
<1>6. ImportTypes(ps)'
  BY <1>0, <1>1, <1>2, <1>3, <1>4, <1>5 DEF ImportTypes
<1>7. OneOperation' /\ Stored' /\ FirstShown(b)' /\ OneJournal(ps)'
  BY <1>0 DEF ImportInv, OneOperation, Stored, FirstShown, OneJournal
<1>8. \A q \in ps : CommandOK(q)'
  BY <1>0, OthersKept DEF ImportInv
<1>9. Visible'
  BY <1>0, <1>1 DEF ImportInv, Visible
<1>10. Kept(b)'
  BY <1>0 DEF ImportInv, Kept
<1> QED
  BY <1>6, <1>7, <1>8, <1>9, <1>10 DEF ImportInv

LEMMA ImportKept ==
  ASSUME NEW ps, NEW b \in BOOLEAN, ps # {}, ImportInv(ps, b),
         I(ps, b)!ImportNext \/ UNCHANGED importVars
  PROVE  ImportInv(ps, b)'
<1>1. CASE UNCHANGED importVars
  BY <1>1 DEF importVars, ImportInv, ImportTypes, TreeOrAbsent, OneOperation, CommandOK, Visible,
              FirstShown, Kept, OneJournal, Stored
<1>2. CASE I(ps, b)!ServiceSync \/ I(ps, b)!EditSource \/ I(ps, b)!MoveSource \/ I(ps, b)!EditManaged
  BY <1>2, ServiceKept, UserKept
<1>3. ASSUME NEW p \in ps,
             \/ I(ps, b)!FindJournal(p) \/ I(ps, b)!CreateJournal(p) \/ I(ps, b)!Prepare(p)
             \/ I(ps, b)!Stage(p) \/ I(ps, b)!Commit(p) \/ I(ps, b)!Verify(p)
             \/ I(ps, b)!Desire(p) \/ I(ps, b)!Materialize(p) \/ I(ps, b)!Baseline(p)
             \/ I(ps, b)!Switch(p) \/ I(ps, b)!CheckSource(p) \/ I(ps, b)!RemoveSource(p)
             \/ I(ps, b)!Finish(p) \/ I(ps, b)!StopImport(p)
      PROVE  ImportInv(ps, b)'
  <2>1. CASE I(ps, b)!FindJournal(p) \/ I(ps, b)!CreateJournal(p) \/ I(ps, b)!Prepare(p)
    BY <1>3, <2>1, FindKept, CreateKept, PrepareKept
  <2>2. CASE I(ps, b)!Stage(p) \/ I(ps, b)!Verify(p) \/ I(ps, b)!Switch(p) \/ I(ps, b)!Commit(p)
    BY <1>3, <2>2, AdvanceSteps, CommitKept
  <2>3. CASE I(ps, b)!Desire(p) \/ I(ps, b)!Materialize(p) \/ I(ps, b)!Baseline(p)
    BY <1>3, <2>3, DeviceKept
  <2>4. CASE \/ I(ps, b)!CheckSource(p) \/ I(ps, b)!RemoveSource(p)
             \/ I(ps, b)!Finish(p) \/ I(ps, b)!StopImport(p)
    BY <1>3, <2>4, CheckKept, RemoveKept, FinishKept
  <2> QED
    BY <1>3, <2>1, <2>2, <2>3, <2>4
<1> QED
  BY <1>1, <1>2, <1>3 DEF I!ImportNext

LEMMA ImportInvSafe ==
  ASSUME NEW ps, NEW b \in BOOLEAN, ps # {}, ImportInv(ps, b)
  PROVE  /\ I(ps, b)!ImportTypeOK /\ I(ps, b)!RemovedIsStored
         /\ b = FALSE => I(ps, b)!NoWorkLost
         /\ (\A p, q \in ps : p = q) => I(ps, b)!ImportNeverBlocksItself
<1>0. PICK p \in ps : TRUE
  OBVIOUS
<1>1. /\ ImportTypes(ps) /\ DOMAIN journals = 1..Len(journals) /\ Len(journals) \in Nat
      /\ DOMAIN imports = DOMAIN journals
      /\ \A o \in DOMAIN journals : /\ journals[o].tree \in 0..made /\ journals[o] \in Rows
                                    /\ imports[o] \in OpStates
  BY <1>0, ImportFacts DEF ImportInv
<1>2. I(ps, b)!Elements(I(ps, b)!States) = JournalStates
  <2>1. DOMAIN I(ps, b)!States = 1..5
    BY DEF I!States
  <2>2. /\ I(ps, b)!States[1] = "planned" /\ I(ps, b)!States[2] = "staged"
        /\ I(ps, b)!States[3] = "verified" /\ I(ps, b)!States[4] = "switched"
        /\ I(ps, b)!States[5] = "complete"
    BY DEF I!States
  <2> QED
    BY <2>1, <2>2 DEF I!Elements, JournalStates
<1>3. I(ps, b)!ImportTypeOK
  <2>1. \A o \in DOMAIN journals : journals[o] \in [state : JournalStates, tree : 0..made]
    BY <1>1 DEF Rows
  <2>2. \A q \in ps : /\ importer[q].at \in Places /\ importer[q].op \in 0..Len(journals)
                      /\ importer[q].state \in JournalStates
    BY <1>1, ImportFacts
  <2>3. I(ps, b)!Elements(imports) \subseteq {"none", "prepared", "committed"}
        /\ I(ps, b)!Elements(revs) \subseteq 0..made
    BY <1>1 DEF I!Elements, OpStates, ImportTypes
  <2>4. /\ made \in I(ps, b)!Trees /\ work \subseteq 1..made /\ aside \subseteq 0..made
        /\ removed \subseteq 1..made /\ dir \in (0..made) \cup {Absent}
        /\ shownTree \in (0..made) \cup {Absent}
    BY <1>1 DEF ImportTypes, TreeOrAbsent, I!Trees
  <2>5. {row, link, base.rev} \subseteq 0..Len(revs) /\ base.tree \in (0..made) \cup {Absent}
    BY <1>1 DEF ImportTypes, TreeOrAbsent
  <2> QED
    BY <1>1, <1>2, <2>1, <2>2, <2>3, <2>4, <2>5 DEF I!ImportTypeOK, I!Rest, Places
<1>4. I(ps, b)!RemovedIsStored
  BY DEF I!RemovedIsStored, I!Elements, ImportInv, Stored
<1>5. b = FALSE => I(ps, b)!NoWorkLost
  BY DEF I!NoWorkLost, I!Elements, ImportInv, Kept
<1>6. ASSUME \A q1, q2 \in ps : q1 = q2, I(ps, b)!OpenJournals # {}, revs = <<>>
      PROVE  imports[I(ps, b)!OldestOpen] # "none" \/ I(ps, b)!NameFree
  <2>1. PICK o : o = I(ps, b)!OldestOpen
    OBVIOUS
  <2>2. o \in DOMAIN journals /\ journals[o].state # "complete"
    <3>1. DOMAIN journals \subseteq Nat
      BY <1>1
    <3> QED
      BY <1>6, <2>1, <3>1, OldestIsOpen
  <2>3. CASE \E q \in DOMAIN imports : imports[q] = "prepared"
    <3>1. PICK q \in DOMAIN imports : imports[q] = "prepared"
      BY <2>3
    <3>2. journals[q].state # "complete" /\ q \in DOMAIN journals
      BY <1>1, <3>1 DEF ImportInv, OneOperation
    <3>3. q = o
      BY <1>6, <2>2, <3>2 DEF ImportInv, OneJournal
    <3> QED
      BY <2>1, <3>1, <3>3
  <2>4. CASE \A q \in DOMAIN imports : imports[q] # "prepared"
    BY <1>6, <2>4 DEF I!NameFree, I!Elements
  <2> QED
    BY <2>3, <2>4
<1>7. (\A q1, q2 \in ps : q1 = q2) => I(ps, b)!ImportNeverBlocksItself
  BY <1>6 DEF I!ImportNeverBlocksItself
<1> QED
  BY <1>3, <1>4, <1>5, <1>7

-------------------------------------------------------------------------------
(* Local forks: the inductive invariant *)

\* The fork's row has what was captured for it.
ForkHolds ==
    localFork # None => localFork.revs = captured /\ (localFork.edited => captured < MaxRevs)

\* An import has committed exactly when it made a skill, which is hidden until
\* it is the whole history that the import named.
PromotionHolds ==
    /\ promoted # None => importOp # None
    /\ importOp # None => (importOp.committed <=> promoted # None)
    /\ promoted # None => promoted.goal = importOp.head
                          /\ (promoted.pending <=> promoted.head # promoted.goal)

\* What the sync relies on at each of its steps.
SyncHolds ==
    /\ sync.at \in {"prepare", "commit", "replay", "drop"} =>
         localFork # None /\ sync.head = [rev |-> localFork.revs, name |-> localFork.name]
    /\ sync.at \in {"commit", "replay", "drop"} => importOp # None /\ importOp.head = sync.head
    /\ sync.at \in {"replay", "drop"} => promoted # None
    /\ sync.at = "drop" => promoted.head = sync.head
    /\ sync.at = "install" => sync.head \in LF!Heads
    /\ sync.at \in {"unsubscribe", "merged"} => localFork # None /\ target = localFork.revs

ForkInv == LF!ForkTypeOK /\ ForkHolds /\ PromotionHolds /\ SyncHolds /\ LF!ForkWorkKept

LEMMA ForkInitial == LF!ForkInit => ForkInv
<1> SUFFICES ASSUME LF!ForkInit PROVE ForkInv
  OBVIOUS
<1> USE ForkAssumption DEF LF!ForkInit
<1>1. LF!ForkTypeOK
  <2>1. sync \in [at : LF!Steps, head : LF!Heads \cup {None}]
    BY DEF LF!Steps
  <2>2. copy \in 0..MaxRevs /\ target \in 0..MaxRevs /\ faults \in 0..MaxFaults /\ captured \in 0..MaxRevs
    OBVIOUS
  <2> QED
    BY <2>1, <2>2 DEF LF!ForkTypeOK
<1>2. ForkHolds /\ PromotionHolds /\ SyncHolds /\ LF!ForkWorkKept
  BY DEF ForkHolds, PromotionHolds, SyncHolds, LF!ForkWorkKept
<1> QED
  BY <1>1, <1>2 DEF ForkInv

LEMMA ForkFacts ==
  ASSUME LF!ForkTypeOK
  PROVE  /\ sync \in [at : LF!Steps, head : LF!Heads \cup {None}]
         /\ sync.at \in LF!Steps /\ sync.head \in LF!Heads \cup {None}
         /\ \A step : [sync EXCEPT !.at = step] = [at |-> step, head |-> sync.head]
         /\ localFork # None =>
              /\ localFork \in LF!ForkRows /\ localFork.state \in {"local", "name_conflict"}
              /\ localFork.name \in ForkNames /\ localFork.revs \in 1..MaxRevs
              /\ localFork.edited \in BOOLEAN
         /\ importOp # None =>
              importOp \in LF!ImportOps /\ importOp.head \in LF!Heads /\ importOp.committed \in BOOLEAN
         /\ promoted # None =>
              /\ promoted \in LF!Promotions /\ promoted.head \in LF!Heads /\ promoted.goal \in LF!Heads
              /\ promoted.pending \in BOOLEAN
         /\ captured \in 0..MaxRevs /\ target \in 0..MaxRevs
<1>1. sync \in [at : LF!Steps, head : LF!Heads \cup {None}]
  BY DEF LF!ForkTypeOK
<1>2. \A step : [sync EXCEPT !.at = step] = [at |-> step, head |-> sync.head]
  <2> SUFFICES ASSUME NEW step PROVE [sync EXCEPT !.at = step] = [at |-> step, head |-> sync.head]
    OBVIOUS
  <2> QED
    BY <1>1
<1>3. localFork # None =>
              /\ localFork \in LF!ForkRows /\ localFork.state \in {"local", "name_conflict"}
              /\ localFork.name \in ForkNames /\ localFork.revs \in 1..MaxRevs
              /\ localFork.edited \in BOOLEAN
  BY DEF LF!ForkTypeOK, LF!ForkRows, LF!Revs
<1>4. importOp # None =>
              importOp \in LF!ImportOps /\ importOp.head \in LF!Heads /\ importOp.committed \in BOOLEAN
  BY DEF LF!ForkTypeOK, LF!ImportOps
<1>5. promoted # None =>
              /\ promoted \in LF!Promotions /\ promoted.head \in LF!Heads /\ promoted.goal \in LF!Heads
              /\ promoted.pending \in BOOLEAN
  BY DEF LF!ForkTypeOK, LF!Promotions
<1> QED
  BY <1>1, <1>2, <1>3, <1>4, <1>5 DEF LF!ForkTypeOK

\* Steps that leave the fork, its promotion and its history alone.
LEMMA ForkQuiet ==
  ASSUME ForkInv, UNCHANGED <<localFork, importOp, promoted, target, captured, dropped>>,
         claimed' \in BOOLEAN, removing' \in BOOLEAN, follows' \in BOOLEAN, source' \in BOOLEAN,
         upstream' \in {"clean", "edited", "none"}, taken' \subseteq ForkNames,
         preparing' \subseteq ForkNames, copy' \in 0..MaxRevs, faults' \in 0..MaxFaults,
         \/ sync' = sync
         \/ /\ sync' \in [at : LF!Steps, head : LF!Heads \cup {None}]
            /\ \/ sync'.at \in {"idle", "recover", "protect", "remove", "capture", "promote", "catalog"}
               \/ sync'.at = "merged" /\ sync.at = "unsubscribe"
  PROVE  ForkInv'
<1>1. LF!ForkTypeOK'
  BY DEF ForkInv, LF!ForkTypeOK
<1>2. SyncHolds'
  BY DEF ForkInv, SyncHolds
<1>3. ForkHolds' /\ PromotionHolds' /\ LF!ForkWorkKept'
  BY DEF ForkInv, ForkHolds, PromotionHolds, LF!ForkWorkKept
<1> QED
  BY <1>1, <1>2, <1>3 DEF ForkInv

LEMMA OthersAct ==
  ASSUME ForkInv,
         \/ LF!EditUpstream \/ LF!ClaimAccount \/ LF!SetAccount \/ LF!SourceGone \/ LF!JournalRemoval
         \/ \E n \in ForkNames : LF!TakeName(n) \/ LF!FreeName(n) \/ LF!PrepareOther(n)
  PROVE  ForkInv'
<1>1. /\ UNCHANGED <<localFork, importOp, promoted, target, captured, dropped, sync, copy, faults>>
      /\ claimed' \in BOOLEAN /\ removing' \in BOOLEAN /\ follows' \in BOOLEAN /\ source' \in BOOLEAN
      /\ upstream' \in {"clean", "edited", "none"} /\ taken' \subseteq ForkNames
      /\ preparing' \subseteq ForkNames /\ copy' \in 0..MaxRevs /\ faults' \in 0..MaxFaults
  BY DEF ForkInv, LF!ForkTypeOK, LF!EditUpstream, LF!ClaimAccount, LF!SetAccount, LF!SourceGone,
         LF!JournalRemoval, LF!TakeName, LF!FreeName, LF!PrepareOther, LF!registry, LF!history, LF!device
<1> QED
  BY <1>1, ForkQuiet

LEMMA SyncQuiet ==
  ASSUME ForkInv,
         \/ LF!SyncStart \/ LF!Recover \/ LF!FinishRemoval \/ LF!InstallPromoted \/ LF!Catalogued
         \/ LF!Interrupt \/ LF!MergeUnsubscribe
  PROVE  ForkInv'
<1> USE ForkAssumption
<1>1. LF!ForkTypeOK
  BY DEF ForkInv
<1>2. /\ UNCHANGED <<localFork, importOp, promoted, target, captured, dropped>>
      /\ claimed' = claimed /\ source' = source /\ taken' = taken /\ preparing' = preparing
      /\ removing' \in {removing, FALSE} /\ follows' \in {follows, FALSE}
      /\ upstream' \in {upstream, "clean", "none"}
  BY DEF LF!SyncStart, LF!Recover, LF!FinishRemoval, LF!InstallPromoted, LF!Catalogued, LF!Interrupt,
         LF!MergeUnsubscribe, LF!registry, LF!history, LF!device
<1>3. \/ \E step \in {"protect", "capture", "catalog"} : sync' = [sync EXCEPT !.at = step]
      \/ \E step \in {"idle", "recover"} : sync' = [at |-> step, head |-> None]
      \/ sync.at = "unsubscribe" /\ sync' = [sync EXCEPT !.at = "merged"]
  BY DEF LF!SyncStart, LF!Recover, LF!FinishRemoval, LF!InstallPromoted, LF!Catalogued, LF!Interrupt,
         LF!MergeUnsubscribe, LF!Go, LF!Fail
<1>4. /\ sync' \in [at : LF!Steps, head : LF!Heads \cup {None}]
      /\ \/ sync'.at \in {"idle", "recover", "protect", "remove", "capture", "promote", "catalog"}
         \/ sync'.at = "merged" /\ sync.at = "unsubscribe"
  <2>1. \E step \in {"protect", "capture", "catalog", "idle", "recover", "merged"}, h \in LF!Heads \cup {None} :
           sync' = [at |-> step, head |-> h] /\ (step = "merged" => sync.at = "unsubscribe")
    BY <1>1, <1>3, ForkFacts
  <2> QED
    BY <2>1 DEF LF!Steps
<1>5. copy' \in 0..MaxRevs
  <2>1. sync.at = "install" => sync.head.rev \in 0..MaxRevs
    BY DEF ForkInv, SyncHolds, LF!Heads, LF!Revs
  <2>2. promoted # None => promoted.head.rev \in 0..MaxRevs
    BY <1>1, ForkFacts DEF LF!Heads, LF!Revs
  <2>3. copy \in 0..MaxRevs
    BY <1>1 DEF LF!ForkTypeOK
  <2> QED
    BY <2>1, <2>2, <2>3 DEF LF!SyncStart, LF!Recover, LF!FinishRemoval, LF!InstallPromoted, LF!Catalogued,
       LF!Interrupt, LF!MergeUnsubscribe, LF!device
<1>6. faults' \in 0..MaxFaults
  BY <1>1 DEF LF!ForkTypeOK, LF!SyncStart, LF!Recover, LF!FinishRemoval, LF!InstallPromoted,
       LF!Catalogued, LF!Interrupt, LF!MergeUnsubscribe
<1>7. /\ claimed' \in BOOLEAN /\ removing' \in BOOLEAN /\ follows' \in BOOLEAN /\ source' \in BOOLEAN
      /\ upstream' \in {"clean", "edited", "none"} /\ taken' \subseteq ForkNames
      /\ preparing' \subseteq ForkNames
  BY <1>1, <1>2 DEF LF!ForkTypeOK
<1> QED
  BY <1>2, <1>4, <1>5, <1>6, <1>7, ForkQuiet

\* The row of a fork and its sync in the explicit form the steps below give them.
LEMMA ForkRowType ==
  ASSUME NEW s \in {"local", "name_conflict"}, NEW n \in ForkNames, NEW r \in 1..MaxRevs, NEW e \in BOOLEAN
  PROVE  [state |-> s, name |-> n, revs |-> r, edited |-> e] \in LF!ForkRows
BY DEF LF!ForkRows, LF!Revs

LEMMA ImportOpType ==
  ASSUME NEW h \in LF!Heads, NEW c \in BOOLEAN
  PROVE  [head |-> h, committed |-> c] \in LF!ImportOps
BY DEF LF!ImportOps

LEMMA PromotionType ==
  ASSUME NEW h \in LF!Heads, NEW g \in LF!Heads, NEW c \in BOOLEAN
  PROVE  [head |-> h, goal |-> g, pending |-> c] \in LF!Promotions
BY DEF LF!Promotions

LEMMA SyncType ==
  ASSUME NEW s \in LF!Steps, NEW h \in LF!Heads \cup {None}
  PROVE  [at |-> s, head |-> h] \in [at : LF!Steps, head : LF!Heads \cup {None}]
OBVIOUS

\* Steps of a sync or a resolution that change the fork's row only.
LEMMA ForkRowStep ==
  ASSUME ForkInv,
         UNCHANGED <<claimed, upstream, removing, copy, follows, source, taken, preparing, importOp,
                     promoted, target, faults, dropped>>,
         localFork # None,
         NEW st \in {"local", "name_conflict"}, NEW nm \in ForkNames, NEW r \in 1..MaxRevs,
         NEW e \in BOOLEAN, NEW step \in LF!Steps,
         localFork' = [state |-> st, name |-> nm, revs |-> r, edited |-> e],
         captured' = r, e => r < MaxRevs,
         \/ sync' = sync /\ nm = localFork.name /\ r = localFork.revs
         \/ /\ sync' = [at |-> step, head |-> sync.head]
            /\ step \in {"catalog", "promote"}
  PROVE  ForkInv'
<1> USE ForkAssumption
<1>1. LF!ForkTypeOK /\ ForkHolds /\ PromotionHolds /\ SyncHolds /\ LF!ForkWorkKept
  BY DEF ForkInv
<1>2. localFork' \in LF!ForkRows /\ localFork' # None
  BY ForkRowType
<1>3. sync' \in [at : LF!Steps, head : LF!Heads \cup {None}]
  BY <1>1, ForkFacts, SyncType
<1>4. LF!ForkTypeOK'
  BY <1>1, <1>2, <1>3 DEF LF!ForkTypeOK
<1>5. localFork'.revs = r /\ localFork'.name = nm /\ localFork'.edited = e
  OBVIOUS
<1>6. ForkHolds' /\ PromotionHolds' /\ LF!ForkWorkKept'
  BY <1>1, <1>2, <1>5 DEF ForkHolds, PromotionHolds, LF!ForkWorkKept
<1>7. SyncHolds'
  <2>1. CASE sync' = sync /\ nm = localFork.name /\ r = localFork.revs
    BY <1>1, <1>2, <1>5, <2>1 DEF SyncHolds
  <2>2. CASE sync' = [at |-> step, head |-> sync.head] /\ step \in {"catalog", "promote"}
    <3>1. sync'.at \in {"catalog", "promote"}
      BY <2>2
    <3> QED
      BY <3>1 DEF SyncHolds
  <2> QED
    BY <2>1, <2>2
<1> QED
  BY <1>4, <1>6, <1>7 DEF ForkInv

\* The exact form of the row that a name collision leaves.
LEMMA ForkRowForms ==
  ASSUME LF!ForkTypeOK, localFork # None
  PROVE  [localFork EXCEPT !.state = "name_conflict"] =
              [state |-> "name_conflict", name |-> localFork.name, revs |-> localFork.revs,
               edited |-> localFork.edited]
<1>1. localFork \in [state : {"local", "name_conflict"}, name : ForkNames, revs : 1..MaxRevs, edited : BOOLEAN]
  BY ForkFacts DEF LF!ForkRows, LF!Revs
<1> QED
  BY <1>1

LEMMA EditForkKept ==
  ASSUME ForkInv, LF!EditFork
  PROVE  ForkInv'
<1>1. /\ UNCHANGED <<claimed, upstream, removing, copy, follows, source, taken, preparing, importOp,
                     promoted, target, faults, dropped, sync, captured>>
      /\ localFork # None /\ localFork.revs < MaxRevs
      /\ localFork' = [state |-> localFork.state, name |-> localFork.name, revs |-> localFork.revs,
                       edited |-> TRUE]
  BY DEF LF!EditFork, LF!device, LF!registry, LF!history
<1>2. LF!ForkTypeOK /\ captured = localFork.revs
  BY <1>1 DEF ForkInv, ForkHolds
<1>4. "catalog" \in LF!Steps
  BY DEF LF!Steps
<1> QED
  BY <1>1, <1>2, <1>4, ForkFacts, ForkRowStep

LEMMA CaptureKept ==
  ASSUME ForkInv, LF!Capture
  PROVE  ForkInv'
<1>1. /\ UNCHANGED <<claimed, upstream, removing, copy, follows, source, taken, preparing, importOp,
                     promoted, target, faults, dropped>>
      /\ sync' = [sync EXCEPT !.at = "promote"]
      /\ \/ /\ localFork # None /\ localFork.edited /\ captured' = captured + 1
            /\ localFork' = [state |-> localFork.state, name |-> localFork.name,
                            revs |-> localFork.revs + 1, edited |-> FALSE]
         \/ UNCHANGED <<localFork, captured>>
  BY DEF LF!Capture, LF!Captured, LF!Go, LF!device, LF!registry
<1>2. LF!ForkTypeOK
  BY DEF ForkInv
<1>3. sync' = [at |-> "promote", head |-> sync.head] /\ "promote" \in LF!Steps
  BY <1>1, <1>2, ForkFacts DEF LF!Steps
<1>4. CASE UNCHANGED <<localFork, captured>>
  <2>1. sync'.at = "promote" /\ sync' \in [at : LF!Steps, head : LF!Heads \cup {None}]
    BY <1>2, <1>3, ForkFacts, SyncType
  <2> QED
    BY <1>1, <1>2, <1>4, <2>1, ForkQuiet DEF LF!ForkTypeOK
<1>5. CASE /\ localFork # None /\ localFork.edited /\ captured' = captured + 1
           /\ localFork' = [state |-> localFork.state, name |-> localFork.name,
                            revs |-> localFork.revs + 1, edited |-> FALSE]
  <2>1. captured = localFork.revs /\ captured < MaxRevs
    BY <1>5 DEF ForkInv, ForkHolds
  <2>2. localFork' = [state |-> localFork.state, name |-> localFork.name, revs |-> localFork.revs + 1,
                      edited |-> FALSE]
    BY <1>5
  <2>3. localFork.revs + 1 \in 1..MaxRevs /\ localFork.state \in {"local", "name_conflict"}
        /\ localFork.name \in ForkNames /\ captured' = localFork.revs + 1
    BY <1>2, <1>5, <2>1, ForkFacts, ForkAssumption
  <2> QED
    BY <1>1, <1>3, <1>5, <2>2, <2>3, ForkRowStep
<1> QED
  BY <1>1, <1>4, <1>5

LEMMA ResolveAsKept ==
  ASSUME ForkInv, NEW n \in ForkNames, LF!ResolveAs(n)
  PROVE  ForkInv'
<1>1. /\ UNCHANGED <<claimed, upstream, removing, copy, follows, source, taken, preparing, importOp,
                     promoted, target, faults, dropped, captured>>
      /\ sync' = [sync EXCEPT !.at = "promote"] /\ localFork # None
      /\ localFork' = [state |-> "local", name |-> n, revs |-> localFork.revs, edited |-> localFork.edited]
  BY DEF LF!ResolveAs, LF!Resolvable, LF!Go, LF!device, LF!registry, LF!history
<1>2. LF!ForkTypeOK /\ captured = localFork.revs /\ (localFork.edited => captured < MaxRevs)
  BY <1>1 DEF ForkInv, ForkHolds
<1>3. /\ sync' = [at |-> "promote", head |-> sync.head] /\ "promote" \in LF!Steps
  BY <1>1, <1>2, ForkFacts DEF LF!Steps
<1> QED
  BY <1>1, <1>2, <1>3, ForkFacts, ForkRowStep

\* A fork that is dropped: the user discarded it, or its history is elsewhere.
LEMMA ForkGone ==
  ASSUME ForkInv,
         UNCHANGED <<claimed, upstream, removing, copy, follows, source, taken, preparing, importOp,
                     promoted, target, faults, captured>>,
         localFork # None, localFork' = None, dropped' \in BOOLEAN,
         \/ dropped'
         \/ sync.at = "merged"
         \/ sync.at = "drop",
         NEW step \in {"idle", "recover", "install"}, NEW h \in LF!Heads \cup {None},
         step = "install" => h \in LF!Heads,
         sync' = [at |-> step, head |-> h]
  PROVE  ForkInv'
<1>1. LF!ForkTypeOK /\ ForkHolds /\ PromotionHolds /\ SyncHolds /\ LF!ForkWorkKept
  BY DEF ForkInv
<1>2. sync' \in [at : LF!Steps, head : LF!Heads \cup {None}] /\ sync'.at = step /\ sync'.head = h
  BY SyncType DEF LF!Steps
<1>3. LF!ForkTypeOK'
  BY <1>1, <1>2 DEF LF!ForkTypeOK
<1>4. ForkHolds' /\ PromotionHolds'
  BY <1>1 DEF ForkHolds, PromotionHolds
<1>5. SyncHolds'
  BY <1>2 DEF SyncHolds
<1>6. LF!ForkWorkKept'
  <2>1. CASE dropped'
    BY <1>1, <2>1 DEF LF!ForkWorkKept
  <2>2. CASE sync.at = "merged"
    <3>1. target = captured
      BY <1>1, <2>2 DEF SyncHolds, ForkHolds
    <3> QED
      BY <1>1, <3>1 DEF LF!ForkWorkKept
  <2>3. CASE sync.at = "drop"
    <3>1. /\ promoted # None /\ importOp # None /\ promoted.head = sync.head /\ importOp.head = sync.head
          /\ sync.head = [rev |-> localFork.revs, name |-> localFork.name] /\ localFork.revs = captured
      BY <1>1, <2>3 DEF SyncHolds, ForkHolds
    <3>2. promoted.head = promoted.goal /\ ~promoted.pending
      BY <1>1, <3>1, ForkFacts DEF PromotionHolds
    <3>3. promoted.head.rev = captured
      BY <3>1
    <3> QED
      BY <1>1, <3>1, <3>2, <3>3 DEF LF!ForkWorkKept
  <2> QED
    BY <2>1, <2>2, <2>3
<1> QED
  BY <1>3, <1>4, <1>5, <1>6 DEF ForkInv

LEMMA ForkGoneSteps ==
  ASSUME ForkInv, LF!DropFork \/ LF!ResolveDiscard \/ LF!MergeFinish
  PROVE  ForkInv'
<1>0. LF!ForkTypeOK
  BY DEF ForkInv
<1>1. CASE LF!DropFork
  <2>1. /\ UNCHANGED <<claimed, upstream, removing, copy, follows, source, taken, preparing, importOp,
                     promoted, target, faults, captured, dropped>>
        /\ sync.at = "drop" /\ localFork' = None /\ sync' = [sync EXCEPT !.at = "install"]
    BY <1>1 DEF LF!DropFork, LF!Go, LF!device, LF!registry, LF!history
  <2>2. localFork # None /\ sync.head = [rev |-> localFork.revs, name |-> localFork.name] /\ dropped \in BOOLEAN
    BY <1>0, <2>1 DEF ForkInv, SyncHolds, LF!ForkTypeOK
  <2>3. sync.head \in LF!Heads
    BY <1>0, <2>2, ForkFacts DEF LF!Heads, LF!Revs
  <2>4. sync' = [at |-> "install", head |-> sync.head]
    BY <1>0, <2>1, ForkFacts
  <2> QED
    BY <2>1, <2>2, <2>3, <2>4, ForkGone
<1>2. CASE LF!ResolveDiscard
  BY <1>2, ForkGone DEF LF!ResolveDiscard, LF!Resolvable, LF!device, LF!registry
<1>3. CASE LF!MergeFinish
  <2>1. /\ UNCHANGED <<claimed, upstream, removing, copy, follows, source, taken, preparing, importOp,
                     promoted, target, faults, captured, dropped>>
        /\ sync.at = "merged" /\ localFork' = None /\ sync' = [at |-> "idle", head |-> None]
    BY <1>3 DEF LF!MergeFinish, LF!Fail, LF!device, LF!registry, LF!history
  <2>2. localFork # None /\ dropped \in BOOLEAN
    BY <1>0, <2>1 DEF ForkInv, SyncHolds, LF!ForkTypeOK
  <2> QED
    BY <2>1, <2>2, ForkGone
<1> QED
  BY <1>1, <1>2, <1>3

\* Steps of a sync that leave the fork and its history alone and may move its
\* promotion on.
LEMMA PromotionStep ==
  ASSUME ForkInv,
         UNCHANGED <<claimed, upstream, removing, copy, source, taken, preparing, localFork, faults,
                     captured, dropped>>,
         localFork # None, follows' \in BOOLEAN, target' \in 0..MaxRevs,
         importOp' \in LF!ImportOps \cup {None}, promoted' \in LF!Promotions \cup {None},
         PromotionHolds', SyncHolds',
         sync' \in [at : LF!Steps, head : LF!Heads \cup {None}]
  PROVE  ForkInv'
<1>1. LF!ForkTypeOK /\ ForkHolds /\ LF!ForkWorkKept
  BY DEF ForkInv
<1>2. LF!ForkTypeOK'
  BY <1>1 DEF LF!ForkTypeOK
<1>3. promoted' # None => promoted'.pending \in BOOLEAN
  BY DEF LF!Promotions
<1>4. ForkHolds' /\ LF!ForkWorkKept'
  BY <1>1, <1>3 DEF ForkHolds, LF!ForkWorkKept, PromotionHolds
<1> QED
  BY <1>2, <1>4 DEF ForkInv

LEMMA PromoteKept ==
  ASSUME ForkInv, LF!Promote
  PROVE  ForkInv'
<1>0. LF!ForkTypeOK /\ PromotionHolds /\ SyncHolds
  BY DEF ForkInv
<1>1. /\ UNCHANGED <<claimed, upstream, removing, copy, source, taken, preparing, localFork, faults,
                     captured, dropped, follows, target, importOp, promoted>>
      /\ \/ localFork # None /\ sync' = [at |-> "prepare", head |-> LF!Head(localFork)]
         \/ sync' = [sync EXCEPT !.at = "catalog"]
  BY DEF LF!Promote, LF!Go, LF!device, LF!registry, LF!history
<1>2. CASE sync' = [sync EXCEPT !.at = "catalog"]
  <2>1. sync' = [at |-> "catalog", head |-> sync.head]
    BY <1>0, <1>2, ForkFacts
  <2>2. sync' \in [at : LF!Steps, head : LF!Heads \cup {None}] /\ sync'.at = "catalog"
    BY <1>0, <2>1, ForkFacts, SyncType DEF LF!Steps
  <2> QED
    BY <1>0, <1>1, <2>2, ForkQuiet DEF LF!ForkTypeOK
<1>3. CASE localFork # None /\ sync' = [at |-> "prepare", head |-> LF!Head(localFork)]
  <2>1. /\ sync'.at = "prepare" /\ sync'.head = [rev |-> localFork.revs, name |-> localFork.name]
        /\ LF!Head(localFork) \in LF!Heads
    BY <1>0, <1>3, ForkFacts DEF LF!Head, LF!Heads, LF!Revs
  <2>2. sync' \in [at : LF!Steps, head : LF!Heads \cup {None}]
    BY <1>3, <2>1, SyncType DEF LF!Steps
  <2>3. SyncHolds'
    BY <1>1, <1>3, <2>1 DEF SyncHolds
  <2>4. PromotionHolds'
    BY <1>0, <1>1 DEF PromotionHolds
  <2> QED
    BY <1>0, <1>1, <1>3, <2>2, <2>3, <2>4, PromotionStep DEF LF!ForkTypeOK
<1> QED
  BY <1>1, <1>2, <1>3

\* A refused request marks the fork or ends the sync.
LEMMA RefusedKept ==
  ASSUME ForkInv, sync.at \in {"prepare", "commit"}, (LF!Fail /\ localFork' = localFork) \/ LF!Blocked,
         UNCHANGED <<claimed, upstream, removing, copy, follows, source, taken, preparing, importOp,
                     promoted, target, faults, captured, dropped>>
  PROVE  ForkInv'
<1>1. LF!ForkTypeOK /\ localFork # None
  BY DEF ForkInv, SyncHolds
<1>2. CASE LF!Fail /\ localFork' = localFork
  <2>1. sync'.at = "idle" /\ sync' \in [at : LF!Steps, head : LF!Heads \cup {None}]
    BY <1>2, SyncType DEF LF!Fail, LF!Steps
  <2> QED
    BY <1>1, <1>2, <2>1, ForkQuiet DEF LF!ForkTypeOK
<1>3. CASE LF!Blocked
  <2>1. /\ sync' = [at |-> "catalog", head |-> sync.head] /\ "catalog" \in LF!Steps
        /\ localFork' = [state |-> "name_conflict", name |-> localFork.name, revs |-> localFork.revs,
                         edited |-> localFork.edited]
    BY <1>1, <1>3, ForkFacts, ForkRowForms DEF LF!Blocked, LF!Go, LF!Steps
  <2>2. captured = localFork.revs /\ (localFork.edited => captured < MaxRevs)
    BY <1>1 DEF ForkInv, ForkHolds
  <2> QED
    BY <1>1, <2>1, <2>2, ForkFacts, ForkRowStep
<1> QED
  BY <1>2, <1>3

LEMMA PrepareForkKept ==
  ASSUME ForkInv, LF!Prepare
  PROVE  ForkInv'
<1>0. LF!ForkTypeOK /\ PromotionHolds /\ SyncHolds
  BY DEF ForkInv
<1>1. /\ UNCHANGED <<claimed, upstream, removing, copy, follows, source, taken, preparing, promoted,
                     target, faults, captured, dropped>>
      /\ sync.at = "prepare"
      /\ \/ ((LF!Fail /\ localFork' = localFork) \/ LF!Blocked) /\ importOp' = importOp
         \/ /\ importOp # None /\ importOp.head = sync.head /\ LF!Go("commit")
            /\ UNCHANGED <<localFork, importOp>>
         \/ /\ importOp = None /\ importOp' = [head |-> sync.head, committed |-> FALSE]
            /\ LF!Go("commit") /\ UNCHANGED localFork
  BY DEF LF!Prepare, LF!device, LF!history
<1>2. CASE ((LF!Fail /\ localFork' = localFork) \/ LF!Blocked) /\ importOp' = importOp
  BY <1>1, <1>2, RefusedKept
<1>3. ASSUME LF!Go("commit"), UNCHANGED localFork,
             \/ importOp # None /\ importOp.head = sync.head /\ UNCHANGED importOp
             \/ importOp = None /\ importOp' = [head |-> sync.head, committed |-> FALSE]
      PROVE  ForkInv'
  <2>1. /\ localFork # None /\ sync.head = [rev |-> localFork.revs, name |-> localFork.name]
        /\ sync.head \in LF!Heads
    BY <1>0, <1>1, ForkFacts DEF SyncHolds, LF!Heads, LF!Revs
  <2>2. sync' = [at |-> "commit", head |-> sync.head]
    BY <1>0, <1>3, ForkFacts DEF LF!Go
  <2>3. sync' \in [at : LF!Steps, head : LF!Heads \cup {None}] /\ sync'.at = "commit" /\ sync'.head = sync.head
    BY <2>1, <2>2, SyncType DEF LF!Steps
  <2>4. /\ importOp' \in LF!ImportOps /\ importOp' # None /\ importOp'.head = sync.head
        /\ importOp = None => importOp'.committed = FALSE
    <3>1. CASE importOp # None /\ importOp.head = sync.head /\ UNCHANGED importOp
      BY <1>0, <3>1, ForkFacts
    <3>2. CASE importOp = None /\ importOp' = [head |-> sync.head, committed |-> FALSE]
      <4>1. importOp' \in LF!ImportOps
        BY <2>1, <3>2, ImportOpType
      <4> QED
        BY <3>2, <4>1, ForkAssumption
    <3> QED
      BY <1>3, <3>1, <3>2
  <2>5. SyncHolds'
    BY <1>3, <2>1, <2>3, <2>4 DEF SyncHolds
  <2>6. PromotionHolds'
    BY <1>0, <1>1, <1>3, <2>4 DEF PromotionHolds
  <2> QED
    BY <1>0, <1>1, <1>3, <2>1, <2>3, <2>4, <2>5, <2>6, PromotionStep DEF LF!ForkTypeOK
<1> QED
  BY <1>1, <1>2, <1>3

LEMMA CommitForkKept ==
  ASSUME ForkInv, LF!Commit
  PROVE  ForkInv'
<1>0. LF!ForkTypeOK /\ PromotionHolds /\ SyncHolds
  BY DEF ForkInv
<1> DEFINE first == [rev |-> 1, name |-> First]
<1>1. /\ UNCHANGED <<claimed, upstream, removing, copy, source, taken, preparing,
                     target, faults, captured, dropped>>
      /\ sync.at = "commit"
      /\ \/ ((LF!Fail /\ localFork' = localFork) \/ LF!Blocked) /\ UNCHANGED <<follows, importOp, promoted>>
         \/ /\ importOp.committed /\ LF!Go("replay") /\ UNCHANGED <<localFork, follows, importOp, promoted>>
         \/ /\ ~importOp.committed /\ LF!Go("replay") /\ UNCHANGED localFork /\ follows' = FALSE
            /\ promoted' = [head |-> first, goal |-> sync.head, pending |-> sync.head # first]
            /\ importOp' = [importOp EXCEPT !.committed = TRUE]
  BY DEF LF!Commit, LF!device, LF!history
<1>2. /\ localFork # None /\ sync.head = [rev |-> localFork.revs, name |-> localFork.name]
      /\ sync.head \in LF!Heads /\ importOp # None /\ importOp.head = sync.head
  BY <1>0, <1>1, ForkFacts DEF SyncHolds, LF!Heads, LF!Revs
<1>3. CASE ((LF!Fail /\ localFork' = localFork) \/ LF!Blocked) /\ UNCHANGED <<follows, importOp, promoted>>
  BY <1>1, <1>3, RefusedKept
<1>4. ASSUME LF!Go("replay")
      PROVE  /\ sync' \in [at : LF!Steps, head : LF!Heads \cup {None}]
             /\ sync'.at = "replay" /\ sync'.head = sync.head
  <2>2. sync' = [at |-> "replay", head |-> sync.head]
    BY <1>0, <1>4, ForkFacts DEF LF!Go
  <2> QED
    BY <1>2, <2>2, SyncType DEF LF!Steps
<1>5. CASE importOp.committed /\ LF!Go("replay") /\ UNCHANGED <<localFork, follows, importOp, promoted>>
  <2>1. SyncHolds' /\ PromotionHolds'
    BY <1>0, <1>2, <1>4, <1>5 DEF SyncHolds, PromotionHolds
  <2> QED
    BY <1>0, <1>1, <1>2, <1>4, <1>5, <2>1, PromotionStep DEF LF!ForkTypeOK
<1>6. CASE /\ ~importOp.committed /\ LF!Go("replay") /\ UNCHANGED localFork /\ follows' = FALSE
           /\ promoted' = [head |-> first, goal |-> sync.head, pending |-> sync.head # first]
           /\ importOp' = [importOp EXCEPT !.committed = TRUE]
  <2>1. first \in LF!Heads
    BY ForkAssumption DEF LF!Heads, LF!Revs
  <2> HIDE DEF first
  <2>2. /\ promoted' \in LF!Promotions /\ promoted' # None /\ promoted'.head = first
        /\ promoted'.goal = sync.head /\ (promoted'.pending <=> sync.head # first)
    <3>1. PICK b \in BOOLEAN : b = (sync.head # first)
      OBVIOUS
    <3>2. promoted' = [head |-> first, goal |-> sync.head, pending |-> b]
      BY <1>6, <3>1
    <3>3. promoted' \in LF!Promotions
      BY <1>2, <2>1, <3>2, PromotionType
    <3> QED
      BY <3>1, <3>2, <3>3, ForkAssumption
  <2>3. importOp' = [head |-> importOp.head, committed |-> TRUE]
    BY <1>0, <1>2, <1>6, ForkFacts DEF LF!ImportOps
  <2>4. importOp' \in LF!ImportOps /\ importOp' # None /\ importOp'.head = sync.head /\ importOp'.committed
    <3>1. importOp' \in LF!ImportOps
      BY <1>2, <2>3, ImportOpType
    <3> QED
      BY <1>2, <2>3, <3>1, ForkAssumption
  <2>5. SyncHolds'
    BY <1>2, <1>4, <1>6, <2>2, <2>4 DEF SyncHolds
  <2>6. PromotionHolds'
    BY <2>2, <2>4 DEF PromotionHolds
  <2> QED
    BY <1>0, <1>1, <1>2, <1>4, <1>6, <2>2, <2>4, <2>5, <2>6, PromotionStep DEF LF!ForkTypeOK
<1> QED
  BY <1>1, <1>3, <1>5, <1>6

LEMMA ReplayKept ==
  ASSUME ForkInv, LF!Replay \/ LF!Replayed
  PROVE  ForkInv'
<1>0. LF!ForkTypeOK /\ PromotionHolds /\ SyncHolds
  BY DEF ForkInv
<1>1. /\ UNCHANGED <<claimed, upstream, removing, copy, follows, source, taken, preparing, localFork,
                     importOp, target, faults, captured, dropped>>
      /\ sync.at = "replay"
      /\ \/ /\ promoted.head # sync.head /\ sync' = sync
            /\ promoted' = [head |-> LF!NextHead, goal |-> promoted.goal,
                            pending |-> promoted.pending /\ LF!NextHead # promoted.goal]
         \/ promoted.head = sync.head /\ LF!Go("drop") /\ promoted' = promoted
  BY DEF LF!Replay, LF!Replayed, LF!Whole, LF!device, LF!registry, LF!history
<1>2. /\ localFork # None /\ sync.head = [rev |-> localFork.revs, name |-> localFork.name]
      /\ sync.head \in LF!Heads /\ importOp # None /\ importOp.head = sync.head
      /\ promoted # None /\ promoted.head \in LF!Heads /\ promoted.goal = sync.head
      /\ (promoted.pending <=> promoted.head # promoted.goal)
  BY <1>0, <1>1, ForkFacts DEF SyncHolds, PromotionHolds, LF!Heads, LF!Revs
<1>3. CASE promoted.head = sync.head /\ LF!Go("drop") /\ promoted' = promoted
  <2>1. sync' = [at |-> "drop", head |-> sync.head]
    BY <1>0, <1>3, ForkFacts DEF LF!Go
  <2>2. sync' \in [at : LF!Steps, head : LF!Heads \cup {None}] /\ sync'.at = "drop" /\ sync'.head = sync.head
    BY <1>2, <2>1, SyncType DEF LF!Steps
  <2>3. SyncHolds' /\ PromotionHolds'
    BY <1>0, <1>1, <1>2, <1>3, <2>2 DEF SyncHolds, PromotionHolds
  <2> QED
    BY <1>0, <1>1, <1>2, <1>3, <2>2, <2>3, PromotionStep DEF LF!ForkTypeOK
<1>4. CASE /\ promoted.head # sync.head /\ sync' = sync
           /\ promoted' = [head |-> LF!NextHead, goal |-> promoted.goal,
                            pending |-> promoted.pending /\ LF!NextHead # promoted.goal]
  <2>1. LF!NextHead \in LF!Heads
    <3>1. CASE promoted.head.rev < sync.head.rev
      <4>1. /\ promoted.head \in [rev : 1..MaxRevs, name : ForkNames] /\ promoted.head.rev \in 1..MaxRevs
            /\ sync.head.rev \in 1..MaxRevs /\ promoted.head.name \in ForkNames
        BY <1>2 DEF LF!Heads, LF!Revs
      <4>2. [promoted.head EXCEPT !.rev = @ + 1] = [rev |-> promoted.head.rev + 1, name |-> promoted.head.name]
        BY <4>1
      <4>3. promoted.head.rev + 1 \in 1..MaxRevs
        BY <3>1, <4>1, ForkAssumption
      <4> QED
        BY <3>1, <4>1, <4>2, <4>3 DEF LF!NextHead, LF!Heads, LF!Revs
    <3>2. CASE ~(promoted.head.rev < sync.head.rev)
      BY <1>2, <3>2 DEF LF!NextHead
    <3> QED
      BY <3>1, <3>2
  <2>2. PICK h \in LF!Heads : h = LF!NextHead
    BY <2>1
  <2>3. promoted' = [head |-> h, goal |-> sync.head, pending |-> h # sync.head]
    BY <1>2, <1>4, <2>2
  <2>4. /\ promoted' \in LF!Promotions /\ promoted' # None /\ promoted'.goal = sync.head
        /\ promoted'.head = h /\ (promoted'.pending <=> h # sync.head)
    <3>1. PICK b \in BOOLEAN : b = (h # sync.head)
      OBVIOUS
    <3>2. promoted' = [head |-> h, goal |-> sync.head, pending |-> b]
      BY <2>3, <3>1
    <3>3. promoted' \in LF!Promotions
      BY <1>2, <3>2, PromotionType
    <3> QED
      BY <3>1, <3>2, <3>3, ForkAssumption
  <2>5. SyncHolds'
    BY <1>1, <1>2, <1>4, <2>4 DEF SyncHolds
  <2>6. PromotionHolds'
    BY <1>0, <1>1, <1>2, <2>4 DEF PromotionHolds
  <2> QED
    BY <1>0, <1>1, <1>2, <1>4, <2>4, <2>5, <2>6, PromotionStep DEF LF!ForkTypeOK
<1> QED
  BY <1>1, <1>3, <1>4

LEMMA ResolveMergeKept ==
  ASSUME ForkInv, LF!ResolveMerge
  PROVE  ForkInv'
<1>0. LF!ForkTypeOK /\ PromotionHolds /\ SyncHolds
  BY DEF ForkInv
<1>1. /\ UNCHANGED <<claimed, upstream, removing, copy, follows, source, taken, preparing, localFork,
                     importOp, promoted, faults, captured, dropped>>
      /\ localFork # None /\ target' = localFork.revs
      /\ sync' = [at |-> "unsubscribe", head |-> LF!Head(localFork)]
  BY DEF LF!ResolveMerge, LF!Resolvable, LF!device, LF!history
<1>2. LF!Head(localFork) \in LF!Heads /\ target' \in 0..MaxRevs
  BY <1>0, <1>1, ForkFacts, ForkAssumption DEF LF!Head, LF!Heads, LF!Revs
<1>3. sync' \in [at : LF!Steps, head : LF!Heads \cup {None}] /\ sync'.at = "unsubscribe"
  BY <1>1, <1>2, SyncType DEF LF!Steps
<1>4. SyncHolds' /\ PromotionHolds'
  BY <1>0, <1>1, <1>3 DEF SyncHolds, PromotionHolds
<1> QED
  BY <1>0, <1>1, <1>2, <1>3, <1>4, PromotionStep DEF LF!ForkTypeOK

LEMMA ProtectKept ==
  ASSUME ForkInv, LF!Protect
  PROVE  ForkInv'
<1>0. LF!ForkTypeOK /\ PromotionHolds /\ SyncHolds
  BY DEF ForkInv
<1>1. /\ UNCHANGED <<claimed, upstream, removing, faults>>
      /\ \/ /\ LF!Go("capture") \/ LF!Fail
            /\ UNCHANGED <<localFork, copy, follows, source, taken, preparing, importOp, promoted, target,
                           captured, dropped>>
         \/ /\ LF!Forget /\ captured' = 1 /\ dropped' = FALSE /\ LF!Go("remove")
            /\ localFork' = [state |-> "local", name |-> First, revs |-> 1, edited |-> FALSE]
  BY DEF LF!Protect, LF!registry, LF!history
<1>2. CASE /\ LF!Go("capture") \/ LF!Fail
           /\ UNCHANGED <<localFork, copy, follows, source, taken, preparing, importOp, promoted, target,
                           captured, dropped>>
  <2>1. sync' = [at |-> "capture", head |-> sync.head] \/ sync' = [at |-> "idle", head |-> None]
    BY <1>0, <1>2, ForkFacts DEF LF!Go, LF!Fail
  <2>2. sync'.at \in {"idle", "capture"} /\ sync' \in [at : LF!Steps, head : LF!Heads \cup {None}]
    BY <1>0, <2>1, ForkFacts, SyncType DEF LF!Steps
  <2> QED
    BY <1>0, <1>1, <1>2, <2>2, ForkQuiet DEF LF!ForkTypeOK
<1>3. CASE /\ LF!Forget /\ captured' = 1 /\ dropped' = FALSE /\ LF!Go("remove")
           /\ localFork' = [state |-> "local", name |-> First, revs |-> 1, edited |-> FALSE]
  <2>1. /\ importOp' = None /\ promoted' = None /\ target' = 0 /\ copy' = 0 /\ UNCHANGED <<follows, source>>
        /\ taken' \subseteq ForkNames /\ preparing' \subseteq ForkNames
    <3>1. /\ promoted # None => promoted.goal.name \in ForkNames
          /\ importOp # None => importOp.head.name \in ForkNames
      BY <1>0, ForkFacts DEF LF!Heads
    <3> QED
      BY <1>0, <1>3, <3>1 DEF LF!Forget, LF!ForkTypeOK
  <2>2. localFork' \in LF!ForkRows /\ localFork' # None /\ localFork'.revs = 1 /\ localFork'.edited = FALSE
    <3>1. localFork' \in LF!ForkRows
      <4>1. 1 \in 1..MaxRevs /\ First \in ForkNames
        BY ForkAssumption
      <4> QED
        BY <1>3, <4>1, ForkRowType
    <3> QED
      BY <1>3, <3>1, ForkAssumption
  <2>3. sync' = [at |-> "remove", head |-> sync.head]
    BY <1>0, <1>3, ForkFacts DEF LF!Go
  <2>4. sync'.at = "remove" /\ sync' \in [at : LF!Steps, head : LF!Heads \cup {None}]
    BY <1>0, <2>3, ForkFacts, SyncType DEF LF!Steps
  <2>5. copy' \in 0..MaxRevs /\ target' \in 0..MaxRevs /\ captured' \in 0..MaxRevs
    BY <1>3, <2>1, ForkAssumption
  <2>6. LF!ForkTypeOK'
    BY <1>0, <1>1, <1>3, <2>1, <2>2, <2>4, <2>5 DEF LF!ForkTypeOK
  <2>7. ForkHolds' /\ PromotionHolds' /\ SyncHolds' /\ LF!ForkWorkKept'
    BY <1>3, <2>1, <2>2, <2>4 DEF ForkHolds, PromotionHolds, SyncHolds, LF!ForkWorkKept
  <2> QED
    BY <2>6, <2>7 DEF ForkInv
<1> QED
  BY <1>1, <1>2, <1>3

LEMMA ForkKept ==
  ASSUME ForkInv, LF!ForkNext \/ UNCHANGED forkVars
  PROVE  ForkInv'
<1>1. CASE UNCHANGED forkVars
  BY <1>1 DEF forkVars, ForkInv, LF!ForkTypeOK, ForkHolds, PromotionHolds, SyncHolds, LF!ForkWorkKept
<1>2. CASE LF!SyncStep
  BY <1>2, SyncQuiet, OthersAct, ProtectKept, CaptureKept, PromoteKept, PrepareForkKept,
     CommitForkKept, ReplayKept, ForkGoneSteps DEF LF!SyncStep
<1>3. CASE ~LF!SyncStep /\ LF!ForkNext
  <2>1. ~LF!ServiceCapture
    BY DEF LF!ServiceCapture
  <2> QED
    BY <1>3, <2>1, SyncQuiet, OthersAct, EditForkKept, ForkGoneSteps, ResolveMergeKept,
       ResolveAsKept DEF LF!ForkNext
<1> QED
  BY <1>1, <1>2, <1>3

-------------------------------------------------------------------------------
(* Identity: the inductive invariant, for one command at a time on each of ps *)

CredsOf(ps, n) == [dev : ps, n : 1..n]
TokensOf(ps, n) == [dev : ps, n : 1..n, user : Users]
InstallRows == [state : {"none", "live", "revoked"}, user : Users \cup {None}, sub : BOOLEAN]
AccountRows(ps, n) == [state : {"free", "live", "deleted"}, secret : 0..n, sub : BOOLEAN,
                       by : ps \cup {None}]
IdentRows(ps, n) == [user : Users, token : TokensOf(ps, n) \cup {None}]
Journals == {"none", "planned", "staged", "verified", "switched", "complete"}

SetupPlaces == {"store", "stage", "register", "registered", "activate", "switch", "check"}
DeletePlaces == {"delete", "stage_delete", "clear", "token", "credential", "clear_identity",
                 "clear_installation", "switch_delete", "finish"}

\* What a command holds at each of its places.
BareCommands == [at : {"idle", "forget", "logout"} \cup (DeletePlaces \ {"delete"})]
SetupCommands(ps, n) == [at : SetupPlaces, cred : CredsOf(ps, n)]
LoginCommands(ps, n) ==
    [at : {"login", "persist", "identity", "show"}, cred : CredsOf(ps, n), token : TokensOf(ps, n),
     secret : 0..n]
ClaimCommands(ps, n) ==
    [at : {"persist", "identity", "show"}, token : TokensOf(ps, n), secret : 0..n]
BackupCommands(n) == [at : {"show"}, secret : 0..n]
SubscribeCommands(ps, n) == [at : {"subscribe"}, cred : CredsOf(ps, n), user : Users \cup {None}]
DeleteCommands(ps, n) == [at : DeletePlaces, token : TokensOf(ps, n) \cup {None}]

Commands(ps, n) ==
    BareCommands \cup SetupCommands(ps, n) \cup LoginCommands(ps, n) \cup ClaimCommands(ps, n)
    \cup BackupCommands(n) \cup SubscribeCommands(ps, n) \cup DeleteCommands(ps, n)

ServerTypes(ps, n) ==
    /\ installs \in [CredsOf(ps, n) -> InstallRows]
    /\ account \in [Users -> AccountRows(ps, n)]
    /\ active \subseteq TokensOf(ps, n)

SetupTypes(ps, n) ==
    /\ boot \in [CredsOf(ps, n) -> Journals]
    /\ cred \in [ps -> CredsOf(ps, n) \cup {None}] /\ install \in [ps -> CredsOf(ps, n) \cup {None}]

IdentTypes(ps, n) ==
    /\ ident \in [ps -> IdentRows(ps, n) \cup {None}] /\ token \in [ps -> TokensOf(ps, n) \cup {None}]
    /\ deletion \in [ps -> {"none", "planned", "staged", "verified", "switched"}]
    /\ logins \in [ps -> 0..n] /\ secrets \in 0..n /\ shown \subseteq 1..n

\* The device deleted an account.
Gone(d) == \E u \in Users : account[u].by = d

\* The registry: only live accounts have sessions, only deleted ones name the
\* device that deleted them, and nothing of a deleted one is valid.
RegistryOK(ps, n) ==
    /\ \A t \in active : account[t.user].state = "live"
    /\ \A u \in Users : account[u].by # None => account[u].state = "deleted"
    /\ \A c \in CredsOf(ps, n) : installs[c].state = "none" => installs[c].user = None
    /\ \A u \in Users, c \in CredsOf(ps, n) :
         account[u].state = "deleted" /\ installs[c].user = u => installs[c].state # "live"

\* A device has one open setup, whose credential it holds past planned unless
\* it deleted an account; its installation is that of the credential it holds;
\* and its identity row comes with an installation whose subscription is adopted.
DeviceOK(ps, n, d) ==
    /\ \A c1, c2 \in CredsOf(ps, n) :
         /\ c1.dev = d /\ boot[c1] \notin {"none", "complete"}
         /\ c2.dev = d /\ boot[c2] \notin {"none", "complete"}
         => c1 = c2
    /\ \A c \in CredsOf(ps, n) :
         c.dev = d /\ boot[c] \in {"staged", "verified", "switched"} => cred[d] = c \/ Gone(d)
    /\ cred[d] # None => cred[d].dev = d
    /\ install[d] # None => install[d].dev = d /\ cred[d] \in {None, install[d]}
    /\ ident[d] # None => install[d] # None /\ ~installs[install[d]].sub
    /\ deletion[d] \in {"staged", "verified", "switched"} => Gone(d)

\* What the command of a device relies on at each of its places.
IdentityCommandOK(p) ==
    /\ cmd[p].at \in SetupPlaces \cup {"subscribe"} => cmd[p].cred.dev = p
    /\ cmd[p].at = "store" => boot[cmd[p].cred] = "planned" /\ install[p] = None
    /\ cmd[p].at \in SetupPlaces \ {"store"} => cred[p] = cmd[p].cred
    /\ cmd[p].at = "login" => cmd[p].cred = install[p]
    /\ cmd[p].at \in {"persist", "identity"} => install[p] # None /\ ~installs[install[p]].sub
    /\ cmd[p].at \in {"forget", "logout"} => ident[p] # None
    /\ cmd[p].at = "subscribe" /\ cmd[p].user = None => ident[p] = None
    /\ cmd[p].at = "delete" => cmd[p].token # None
    /\ cmd[p].at \in DeletePlaces \ {"delete"} => Gone(p)
    /\ cmd[p].at = "clear_installation" => ident[p] = None

IdentityInv(ps, n) ==
    /\ ServerTypes(ps, n) /\ SetupTypes(ps, n) /\ IdentTypes(ps, n) /\ cmd \in [ps -> Commands(ps, n)]
    /\ RegistryOK(ps, n)
    /\ \A d \in ps : DeviceOK(ps, n, d) /\ IdentityCommandOK(d)

LEMMA IdentitySets ==
  ASSUME NEW ps, NEW n
  PROVE  /\ D(ps, n)!Devices = ps /\ D(ps, n)!Creds = CredsOf(ps, n)
         /\ D(ps, n)!Tokens = TokensOf(ps, n)
<1>1. D(ps, n)!Devices = ps
  BY DEF D!Devices, Itself
<1> QED
  BY <1>1 DEF D!Creds, D!Tokens, CredsOf, TokensOf

LEMMA IdentityInitial ==
  ASSUME NEW ps, NEW n \in Nat, D(ps, n)!IdentityInit
  PROVE  IdentityInv(ps, n)
<1>1. /\ installs = [c \in CredsOf(ps, n) |-> [state |-> "none", user |-> None, sub |-> FALSE]]
      /\ account = [u \in Users |-> [state |-> "free", secret |-> 0, sub |-> FALSE, by |-> None]]
      /\ active = {} /\ boot = [c \in CredsOf(ps, n) |-> "none"]
      /\ cred = [d \in ps |-> None] /\ install = [d \in ps |-> None]
      /\ ident = [d \in ps |-> None] /\ token = [d \in ps |-> None]
      /\ deletion = [d \in ps |-> "none"] /\ logins = [d \in ps |-> 0]
      /\ secrets = 0 /\ shown = {} /\ cmd = [p \in ps |-> [at |-> "idle"]]
  BY IdentitySets DEF D!IdentityInit, D!Idle
<1>2. ServerTypes(ps, n) /\ SetupTypes(ps, n)
  BY <1>1 DEF ServerTypes, SetupTypes, InstallRows, AccountRows, Journals
<1>3. IdentTypes(ps, n)
  BY <1>1 DEF IdentTypes
<1>4. cmd \in [ps -> Commands(ps, n)]
  BY <1>1 DEF Commands, BareCommands
<1>5. RegistryOK(ps, n)
  BY <1>1 DEF RegistryOK
<1>6. \A d \in ps : DeviceOK(ps, n, d) /\ IdentityCommandOK(d)
  BY <1>1 DEF DeviceOK, IdentityCommandOK, SetupPlaces, DeletePlaces
<1> QED
  BY <1>2, <1>3, <1>4, <1>5, <1>6 DEF IdentityInv

\* What is known of a command at each place.
LEMMA CommandFacts ==
  ASSUME NEW ps, NEW n, NEW k \in Commands(ps, n)
  PROVE  /\ k.at \in SetupPlaces => k \in SetupCommands(ps, n) /\ k.cred \in CredsOf(ps, n)
         /\ k.at = "login" => k \in LoginCommands(ps, n)
         /\ k.at \in {"persist", "identity", "show"} =>
              k \in LoginCommands(ps, n) \cup ClaimCommands(ps, n) \cup BackupCommands(n)
         /\ k.at \in {"persist", "identity"} => k \in LoginCommands(ps, n) \cup ClaimCommands(ps, n)
         /\ k.at = "subscribe" => k \in SubscribeCommands(ps, n)
         /\ k.at \in {"forget", "logout"} => k \in BareCommands
         /\ k.at \in DeletePlaces => k \in BareCommands \cup DeleteCommands(ps, n)
         /\ k.at = "delete" => k \in DeleteCommands(ps, n)
<1>1. CASE k \in BareCommands
  BY <1>1 DEF BareCommands, SetupPlaces, DeletePlaces
<1>2. CASE k \in SetupCommands(ps, n)
  BY <1>2 DEF SetupCommands, SetupPlaces, DeletePlaces
<1>3. CASE k \in LoginCommands(ps, n)
  BY <1>3 DEF LoginCommands, SetupPlaces, DeletePlaces
<1>4. CASE k \in ClaimCommands(ps, n)
  BY <1>4 DEF ClaimCommands, SetupPlaces, DeletePlaces
<1>5. CASE k \in BackupCommands(n)
  BY <1>5 DEF BackupCommands, SetupPlaces, DeletePlaces
<1>6. CASE k \in SubscribeCommands(ps, n)
  BY <1>6 DEF SubscribeCommands, SetupPlaces, DeletePlaces
<1>7. CASE k \in DeleteCommands(ps, n)
  BY <1>7 DEF DeleteCommands, SetupPlaces, DeletePlaces
<1> QED
  BY <1>1, <1>2, <1>3, <1>4, <1>5, <1>6, <1>7 DEF Commands

LEMMA IdleCommand ==
  ASSUME NEW ps, NEW n
  PROVE  \A at \in {"idle", "forget", "logout"} \cup (DeletePlaces \ {"delete"}) : [at |-> at] \in Commands(ps, n)
BY DEF Commands, BareCommands

\* Then moves a command on and keeps what it holds.
LEMMA SetupThen ==
  ASSUME NEW ps, NEW n, NEW k \in SetupCommands(ps, n), NEW at \in SetupPlaces
  PROVE  \E x \in Commands(ps, n) : x = [k EXCEPT !.at = at] /\ x.at = at /\ x.cred = k.cred
<1>1. PICK x : x = [k EXCEPT !.at = at]
  OBVIOUS
<1>2. x \in SetupCommands(ps, n) /\ x.at = at /\ x.cred = k.cred
  BY <1>1 DEF SetupCommands
<1> QED
  BY <1>1, <1>2 DEF Commands

LEMMA DeleteThen ==
  ASSUME NEW ps, NEW n, NEW k, k \in BareCommands \/ k \in DeleteCommands(ps, n),
         NEW at \in DeletePlaces \ {"delete"}
  PROVE  \E x \in Commands(ps, n) : x = [k EXCEPT !.at = at] /\ x.at = at
<1>1. PICK x : x = [k EXCEPT !.at = at]
  OBVIOUS
<1>2. CASE k \in BareCommands
  <2>1. x \in BareCommands /\ x.at = at
    BY <1>1, <1>2 DEF BareCommands
  <2> QED
    BY <1>1, <2>1 DEF Commands
<1>3. CASE k \in DeleteCommands(ps, n)
  <2>1. x \in DeleteCommands(ps, n) /\ x.at = at
    BY <1>1, <1>3 DEF DeleteCommands
  <2> QED
    BY <1>1, <2>1 DEF Commands
<1> QED
  BY <1>2, <1>3

LEMMA SessionThen ==
  ASSUME NEW ps, NEW n, NEW k \in LoginCommands(ps, n) \cup ClaimCommands(ps, n),
         NEW at \in {"persist", "identity", "show"}
  PROVE  \E x \in Commands(ps, n) : x = [k EXCEPT !.at = at] /\ x.at = at
<1>1. PICK x : x = [k EXCEPT !.at = at]
  OBVIOUS
<1>2. CASE k \in LoginCommands(ps, n)
  <2>1. x \in LoginCommands(ps, n) /\ x.at = at
    BY <1>1, <1>2 DEF LoginCommands
  <2> QED
    BY <1>1, <2>1 DEF Commands
<1>3. CASE k \in ClaimCommands(ps, n)
  <2>1. x \in ClaimCommands(ps, n) /\ x.at = at
    BY <1>1, <1>3 DEF ClaimCommands
  <2> QED
    BY <1>1, <2>1 DEF Commands
<1> QED
  BY <1>2, <1>3

\* A step of the command of p leaves the other devices alone, adds no
\* subscription to their installations, and forgets no deletion.
Elsewhere(ps, n, p) ==
    /\ \A d \in ps : d # p =>
         /\ cmd'[d] = cmd[d] /\ cred'[d] = cred[d] /\ install'[d] = install[d]
         /\ ident'[d] = ident[d] /\ deletion'[d] = deletion[d]
    /\ \A c \in CredsOf(ps, n) : c.dev # p =>
         boot'[c] = boot[c] /\ (installs'[c].sub => installs[c].sub)
    /\ \A d \in ps : Gone(d) => Gone(d)'

LEMMA OthersAreKept ==
  ASSUME NEW ps, NEW n, NEW p \in ps, IdentityInv(ps, n), Elsewhere(ps, n, p)
  PROVE  \A d \in ps : d # p => DeviceOK(ps, n, d)' /\ IdentityCommandOK(d)'
<1> SUFFICES ASSUME NEW d \in ps, d # p
             PROVE  DeviceOK(ps, n, d)' /\ IdentityCommandOK(d)'
  OBVIOUS
<1>1. /\ cmd'[d] = cmd[d] /\ cred'[d] = cred[d] /\ install'[d] = install[d]
      /\ ident'[d] = ident[d] /\ deletion'[d] = deletion[d] /\ (Gone(d) => Gone(d)')
  BY DEF Elsewhere
<1>2. \A c \in CredsOf(ps, n) : c.dev = d => boot'[c] = boot[c] /\ (installs'[c].sub => installs[c].sub)
  BY DEF Elsewhere
<1>3. DeviceOK(ps, n, d) /\ IdentityCommandOK(d)
  BY DEF IdentityInv
<1>4. install[d] # None => install[d] \in CredsOf(ps, n) /\ install[d].dev = d
  BY <1>3 DEF IdentityInv, SetupTypes, DeviceOK
<1>5. cmd[d].at \in SetupPlaces => cmd[d].cred \in CredsOf(ps, n)
  BY CommandFacts DEF IdentityInv
<1>6. DeviceOK(ps, n, d)'
  <2>1. \A c1, c2 \in CredsOf(ps, n) :
         /\ c1.dev = d /\ boot'[c1] \notin {"none", "complete"}
         /\ c2.dev = d /\ boot'[c2] \notin {"none", "complete"}
         => c1 = c2
    BY <1>2, <1>3 DEF DeviceOK
  <2>2. \A c \in CredsOf(ps, n) :
         c.dev = d /\ boot'[c] \in {"staged", "verified", "switched"} => cred'[d] = c \/ Gone(d)'
    BY <1>1, <1>2, <1>3 DEF DeviceOK
  <2>3. /\ cred'[d] # None => cred'[d].dev = d
        /\ install'[d] # None => install'[d].dev = d /\ cred'[d] \in {None, install'[d]}
        /\ deletion'[d] \in {"staged", "verified", "switched"} => Gone(d)'
    BY <1>1, <1>3 DEF DeviceOK
  <2>4. ident'[d] # None => install'[d] # None /\ ~installs'[install'[d]].sub
    BY <1>1, <1>2, <1>3, <1>4 DEF DeviceOK
  <2> QED
    BY <2>1, <2>2, <2>3, <2>4 DEF DeviceOK
<1>7. IdentityCommandOK(d)'
  <2>1. /\ cmd'[d].at = "store" => boot'[cmd'[d].cred] = "planned" /\ install'[d] = None
    <3>1. cmd[d].at = "store" => cmd[d].cred \in CredsOf(ps, n) /\ cmd[d].cred.dev = d
      BY <1>3, <1>5 DEF IdentityCommandOK, SetupPlaces
    <3> QED
      BY <1>1, <1>2, <1>3, <3>1 DEF IdentityCommandOK
  <2>2. cmd'[d].at \in {"persist", "identity"} => install'[d] # None /\ ~installs'[install'[d]].sub
    BY <1>1, <1>2, <1>3, <1>4 DEF IdentityCommandOK
  <2> QED
    BY <1>1, <1>3, <2>1, <2>2 DEF IdentityCommandOK
<1> QED
  BY <1>6, <1>7

\* Steps that move only the command on.
LEMMA OnlyCommandMoves ==
  ASSUME NEW ps, NEW n, NEW p \in ps, IdentityInv(ps, n), NEW k \in Commands(ps, n),
         cmd' = [cmd EXCEPT ![p] = k], IdentityCommandOK(p)',
         UNCHANGED <<installs, account, active, boot, cred, install, ident, token, deletion, logins,
                     secrets, shown>>
  PROVE  IdentityInv(ps, n)'
<1>0. cmd \in [ps -> Commands(ps, n)]
  BY DEF IdentityInv
<1>1. cmd' \in [ps -> Commands(ps, n)] /\ \A d \in ps : d # p => cmd'[d] = cmd[d]
  BY <1>0
<1>2. ServerTypes(ps, n)' /\ SetupTypes(ps, n)' /\ IdentTypes(ps, n)' /\ RegistryOK(ps, n)'
  BY DEF IdentityInv, ServerTypes, SetupTypes, IdentTypes, RegistryOK
<1>3. Elsewhere(ps, n, p)
  BY <1>1 DEF Elsewhere, Gone
<1>4. DeviceOK(ps, n, p)'
  BY DEF IdentityInv, DeviceOK, Gone
<1> QED
  BY <1>1, <1>2, <1>3, <1>4, OthersAreKept DEF IdentityInv

LEMMA StopKept ==
  ASSUME NEW ps, NEW n, NEW p \in ps, IdentityInv(ps, n), cmd' = [cmd EXCEPT ![p] = [at |-> "idle"]],
         UNCHANGED <<installs, account, active, boot, cred, install, ident, token, deletion, logins,
                     secrets, shown>>
  PROVE  IdentityInv(ps, n)'
<1>1. [at |-> "idle"] \in Commands(ps, n)
  BY IdleCommand
<1>2. cmd'[p].at = "idle"
  BY DEF IdentityInv
<1>3. IdentityCommandOK(p)'
  BY <1>2 DEF IdentityCommandOK, SetupPlaces, DeletePlaces
<1> QED
  BY <1>1, <1>3, OnlyCommandMoves

\* A device has at most one open setup: bootstrap_journal finds it.
LEMMA JournalIsOpen ==
  ASSUME NEW ps, NEW n \in Nat, NEW d \in ps, SetupTypes(ps, n), DeviceOK(ps, n, d),
         NEW j, j = D(ps, n)!Journal(d)
  PROVE  /\ j # None => j \in CredsOf(ps, n) /\ j.dev = d /\ boot[j] \notin {"none", "complete"}
         /\ \A c \in CredsOf(ps, n) : c.dev = d /\ boot[c] \notin {"none", "complete"} => c = j
<1>0. PICK open : open = D(ps, n)!Open(d)
  OBVIOUS
<1>1. \A c : c \in open <=> c \in CredsOf(ps, n) /\ c.dev = d /\ boot[c] \notin {"none", "complete"}
  BY <1>0, IdentitySets DEF D!Open
<1>2. j = IF open = {} THEN None ELSE CHOOSE c \in open : \A o \in open : o.n <= c.n
  BY <1>0 DEF D!Journal
<1>3. CASE open = {}
  BY <1>1, <1>2, <1>3
<1>4. CASE open # {}
  <2>1. PICK c \in open : TRUE
    BY <1>4
  <2>2. \A o \in open : o = c
    BY <1>1, <2>1 DEF DeviceOK
  <2>3. c.n <= c.n
    BY <1>1, <2>1 DEF CredsOf
  <2>4. \A o \in open : o.n <= c.n
    BY <2>2, <2>3
  <2>5. (CHOOSE x \in open : \A o \in open : o.n <= x.n) \in open
    BY <2>1, <2>4
  <2>6. j \in open
    BY <1>2, <1>4, <2>5
  <2> QED
    BY <1>1, <2>2, <2>6
<1> QED
  BY <1>3, <1>4

\* Steps of a setup that move its own journal.
LEMMA JournalMoves ==
  ASSUME NEW ps, NEW n, NEW p \in ps, IdentityInv(ps, n), NEW k \in Commands(ps, n),
         cmd' = [cmd EXCEPT ![p] = k], IdentityCommandOK(p)',
         NEW c \in CredsOf(ps, n), c.dev = p, NEW to \in Journals \ {"none"},
         boot' = [boot EXCEPT ![c] = to], boot[c] \notin {"none", "complete"}, cred[p] = c,
         UNCHANGED <<installs, account, active, cred, install, ident, token, deletion, logins,
                     secrets, shown>>
  PROVE  IdentityInv(ps, n)'
<1>0. cmd \in [ps -> Commands(ps, n)] /\ boot \in [CredsOf(ps, n) -> Journals] /\ DeviceOK(ps, n, p)
  BY DEF IdentityInv, SetupTypes
<1>1. cmd' \in [ps -> Commands(ps, n)] /\ \A d \in ps : d # p => cmd'[d] = cmd[d]
  BY <1>0
<1>2. boot' \in [CredsOf(ps, n) -> Journals] /\ boot'[c] = to /\ \A o \in CredsOf(ps, n) : o # c => boot'[o] = boot[o]
  BY <1>0
<1>3. ServerTypes(ps, n)' /\ SetupTypes(ps, n)' /\ IdentTypes(ps, n)' /\ RegistryOK(ps, n)'
  BY <1>2 DEF IdentityInv, ServerTypes, SetupTypes, IdentTypes, RegistryOK
<1>4. Elsewhere(ps, n, p)
  BY <1>1, <1>2 DEF Elsewhere, Gone
<1>5. \A o \in CredsOf(ps, n) : o.dev = p /\ boot'[o] \notin {"none", "complete"} => o = c
  BY <1>0, <1>2 DEF DeviceOK
<1>6. DeviceOK(ps, n, p)'
  BY <1>0, <1>5 DEF DeviceOK, Gone
<1> QED
  BY <1>1, <1>3, <1>4, <1>6, OthersAreKept DEF IdentityInv

LEMMA AdvanceJournal ==
  ASSUME NEW ps, NEW n, NEW p \in ps, IdentityInv(ps, n), NEW at \in SetupPlaces \ {"store"},
         NEW from \in {"planned", "staged", "verified"}, NEW to \in {"staged", "verified", "switched"},
         NEW next \in SetupPlaces \ {"store"}, D(ps, n)!Advance(p, at, from, to, next)
  PROVE  IdentityInv(ps, n)'
<1>1. /\ cmd[p].at = at
      /\ UNCHANGED <<installs, account, active, cred, install, ident, token, deletion, logins, secrets, shown>>
      /\ \/ /\ boot[cmd[p].cred] = from /\ boot' = [boot EXCEPT ![cmd[p].cred] = to]
            /\ cmd' = [cmd EXCEPT ![p] = [cmd[p] EXCEPT !.at = next]]
         \/ boot' = boot /\ cmd' = [cmd EXCEPT ![p] = [at |-> "idle"]]
  BY DEF D!Advance, D!Then, D!Finished, D!Go, D!Idle, D!serverVars, D!identVars, D!secretVars
<1>2. CASE boot' = boot /\ cmd' = [cmd EXCEPT ![p] = [at |-> "idle"]]
  BY <1>1, <1>2, StopKept
<1>3. CASE /\ boot[cmd[p].cred] = from /\ boot' = [boot EXCEPT ![cmd[p].cred] = to]
           /\ cmd' = [cmd EXCEPT ![p] = [cmd[p] EXCEPT !.at = next]]
  <2>1. cmd[p] \in SetupCommands(ps, n) /\ cmd[p].cred \in CredsOf(ps, n)
    BY <1>1, CommandFacts DEF IdentityInv
  <2>2. cmd[p].cred.dev = p /\ cred[p] = cmd[p].cred
    BY <1>1 DEF IdentityInv, IdentityCommandOK
  <2>3. PICK k \in Commands(ps, n) : k = [cmd[p] EXCEPT !.at = next] /\ k.at = next /\ k.cred = cmd[p].cred
    <3>1. PICK q \in SetupCommands(ps, n) : q = cmd[p]
      BY <2>1
    <3>2. \E k \in Commands(ps, n) : k = [q EXCEPT !.at = next] /\ k.at = next /\ k.cred = q.cred
      BY <3>1, SetupThen
    <3> QED
      BY <3>1, <3>2
  <2>4. cmd'[p] = k
    BY <1>3, <2>3 DEF IdentityInv
  <2>5. IdentityCommandOK(p)'
    BY <1>1, <2>2, <2>3, <2>4 DEF IdentityCommandOK, SetupPlaces, DeletePlaces
  <2>6. cmd' = [cmd EXCEPT ![p] = k] /\ to \in Journals \ {"none"}
    BY <1>3, <2>3 DEF Journals
  <2> QED
    BY <1>1, <1>3, <2>1, <2>2, <2>5, <2>6, JournalMoves
<1> QED
  BY <1>1, <1>2, <1>3

LEMMA SetupPlanKept ==
  ASSUME NEW ps, NEW n \in Nat, NEW p \in ps, None \notin CredsOf(ps, n), IdentityInv(ps, n),
         D(ps, n)!SetupPlan(p)
  PROVE  IdentityInv(ps, n)'
<1>1. PICK j : j = D(ps, n)!Journal(p)
  OBVIOUS
<1>2. PICK i \in 1..n :
         /\ boot' = [[x \in D(ps, n)!Creds |-> IF D(ps, n)!Planned(p) /\ x = D(ps, n)!Journal(p)
                                               THEN "complete" ELSE boot[x]]
                     EXCEPT ![[dev |-> p, n |-> i]] = "planned"]
         /\ cmd' = [cmd EXCEPT ![p] = [at |-> "store", cred |-> [dev |-> p, n |-> i]]]
  BY Zenon DEF D!SetupPlan, D!Go, Itself
<1>3. /\ UNCHANGED <<installs, account, active, cred, install, ident, token, deletion, logins, secrets, shown>>
      /\ install[p] = None /\ (j = None \/ D(ps, n)!Planned(p))
  BY <1>1 DEF D!SetupPlan, D!serverVars, D!identVars, D!secretVars, Itself
<1>4. /\ SetupTypes(ps, n) /\ DeviceOK(ps, n, p) /\ cmd \in [ps -> Commands(ps, n)]
      /\ boot \in [CredsOf(ps, n) -> Journals]
  BY DEF IdentityInv, SetupTypes
<1>5. PICK c \in CredsOf(ps, n) : c = [dev |-> p, n |-> i] /\ c.dev = p
  <2>1. [dev |-> p, n |-> i] \in CredsOf(ps, n) /\ [dev |-> p, n |-> i].dev = p
    BY DEF CredsOf
  <2> QED
    BY <2>1, Zenon
<1>6. /\ boot' \in [CredsOf(ps, n) -> Journals] /\ boot'[c] = "planned"
      /\ \A x \in CredsOf(ps, n) : x # c =>
           boot'[x] = IF D(ps, n)!Planned(p) /\ x = j THEN "complete" ELSE boot[x]
  BY <1>1, <1>2, <1>4, <1>5, IdentitySets DEF Journals
<1>7. \A x \in CredsOf(ps, n) : x.dev = p /\ boot[x] \notin {"none", "complete"} => x = j /\ D(ps, n)!Planned(p)
  <2>1. \A x \in CredsOf(ps, n) : x.dev = p /\ boot[x] \notin {"none", "complete"} => x = j
    BY <1>1, <1>4, JournalIsOpen
  <2> QED
    BY <1>3, <2>1
<1>8. \A x \in CredsOf(ps, n) : x.dev = p /\ boot'[x] \notin {"none", "complete"} => x = c
  BY <1>6, <1>7
<1>9. j # None => j \in CredsOf(ps, n) /\ j.dev = p
  BY <1>1, <1>4, JournalIsOpen
<1>10. D(ps, n)!Planned(p) => j # None
  BY <1>1 DEF D!Planned
<1>11. \A x \in CredsOf(ps, n) : x.dev # p => boot'[x] = boot[x]
  BY <1>5, <1>6, <1>9, <1>10
<1>12. /\ cmd' \in [ps -> Commands(ps, n)] /\ cmd'[p] = [at |-> "store", cred |-> c]
       /\ \A d \in ps : d # p => cmd'[d] = cmd[d]
  <2>1. [at |-> "store", cred |-> c] \in SetupCommands(ps, n)
    BY DEF SetupCommands, SetupPlaces
  <2>2. [at |-> "store", cred |-> c] \in Commands(ps, n)
    BY <2>1 DEF Commands
  <2> QED
    BY <1>2, <1>4, <1>5, <2>2
<1>13. ServerTypes(ps, n)' /\ SetupTypes(ps, n)' /\ IdentTypes(ps, n)' /\ RegistryOK(ps, n)'
  BY <1>3, <1>6 DEF IdentityInv, ServerTypes, SetupTypes, IdentTypes, RegistryOK
<1>14. Elsewhere(ps, n, p)
  BY <1>3, <1>11, <1>12 DEF Elsewhere, Gone
<1>15. DeviceOK(ps, n, p)'
  <2>1. \A x \in CredsOf(ps, n) : x.dev = p => boot'[x] \notin {"staged", "verified", "switched"}
    BY <1>6, <1>8
  <2> QED
    BY <1>3, <1>4, <1>8, <2>1 DEF DeviceOK, Gone
<1>16. IdentityCommandOK(p)'
  <2>1. cmd'[p].at = "store" /\ cmd'[p].cred = c
    BY <1>12
  <2> QED
    BY <1>3, <1>5, <1>6, <2>1 DEF IdentityCommandOK, SetupPlaces, DeletePlaces
<1> QED
  BY <1>12, <1>13, <1>14, <1>15, <1>16, OthersAreKept DEF IdentityInv

\* Steps that change only what the device stores of its setup.
LEMMA SetupStoreKept ==
  ASSUME NEW ps, NEW n \in Nat, NEW p \in ps, None \notin CredsOf(ps, n), IdentityInv(ps, n),
         D(ps, n)!SetupStore(p) \/ D(ps, n)!SetupActivate(p)
  PROVE  IdentityInv(ps, n)'
<1>1. /\ UNCHANGED <<installs, account, active, boot, ident, token, deletion, logins, secrets, shown>>
      /\ \/ /\ cmd[p].at = "store" /\ cmd' = [cmd EXCEPT ![p] = [cmd[p] EXCEPT !.at = "stage"]]
            /\ cred' = [cred EXCEPT ![p] = cmd[p].cred] /\ install' = install
         \/ /\ cmd[p].at = "activate" /\ cmd' = [cmd EXCEPT ![p] = [cmd[p] EXCEPT !.at = "switch"]]
            /\ install' = [install EXCEPT ![p] = cmd[p].cred] /\ cred' = cred
  BY DEF D!SetupStore, D!SetupActivate, D!Then, D!Go, D!serverVars, D!identVars, D!secretVars, Itself
<1>2. /\ SetupTypes(ps, n) /\ DeviceOK(ps, n, p) /\ IdentityCommandOK(p) /\ cmd \in [ps -> Commands(ps, n)]
      /\ cred \in [ps -> CredsOf(ps, n) \cup {None}] /\ install \in [ps -> CredsOf(ps, n) \cup {None}]
  BY DEF IdentityInv, SetupTypes
<1>3. cmd[p] \in SetupCommands(ps, n) /\ cmd[p].cred \in CredsOf(ps, n) /\ cmd[p].cred.dev = p
  BY <1>1, <1>2, CommandFacts DEF IdentityCommandOK, SetupPlaces
<1>4. PICK at \in {"stage", "switch"} : cmd' = [cmd EXCEPT ![p] = [cmd[p] EXCEPT !.at = at]]
  BY <1>1
<1>5. PICK k \in Commands(ps, n) : k = [cmd[p] EXCEPT !.at = at] /\ k.at = at /\ k.cred = cmd[p].cred
  <2>1. PICK q \in SetupCommands(ps, n) : q = cmd[p]
    BY <1>3
  <2>2. at \in SetupPlaces
    BY DEF SetupPlaces
  <2>3. \E k \in Commands(ps, n) : k = [q EXCEPT !.at = at] /\ k.at = at /\ k.cred = q.cred
    BY <2>1, <2>2, SetupThen
  <2> QED
    BY <2>1, <2>3
<1>6. /\ cmd' \in [ps -> Commands(ps, n)] /\ cmd'[p] = k
      /\ \A d \in ps : d # p => cmd'[d] = cmd[d] /\ cred'[d] = cred[d] /\ install'[d] = install[d]
      /\ cred' \in [ps -> CredsOf(ps, n) \cup {None}] /\ install' \in [ps -> CredsOf(ps, n) \cup {None}]
  BY <1>1, <1>2, <1>3, <1>4, <1>5
<1>7. cred'[p] = cmd[p].cred /\ install'[p] \in {None, cmd[p].cred} /\ (install'[p] = None => install[p] = None)
  <2>1. CASE cmd[p].at = "store"
    BY <1>1, <1>2, <1>3, <2>1 DEF IdentityCommandOK
  <2>2. CASE cmd[p].at = "activate"
    BY <1>1, <1>2, <1>3, <2>2 DEF IdentityCommandOK, SetupPlaces
  <2> QED
    BY <1>1, <2>1, <2>2
<1>8. ident[p] # None => install'[p] = install[p]
  <2>1. CASE cmd[p].at = "store"
    BY <1>1, <2>1
  <2>2. CASE cmd[p].at = "activate"
    <3>1. cred[p] = cmd[p].cred
      BY <1>2, <2>2 DEF IdentityCommandOK, SetupPlaces
    <3> QED
      BY <1>1, <1>2, <1>3, <2>2, <3>1 DEF DeviceOK
  <2> QED
    BY <1>1, <2>1, <2>2
<1>9. ServerTypes(ps, n)' /\ SetupTypes(ps, n)' /\ IdentTypes(ps, n)' /\ RegistryOK(ps, n)'
  BY <1>1, <1>6 DEF IdentityInv, ServerTypes, SetupTypes, IdentTypes, RegistryOK
<1>10. Elsewhere(ps, n, p)
  BY <1>1, <1>6 DEF Elsewhere, Gone
<1>11. \A c \in CredsOf(ps, n) :
         c.dev = p /\ boot[c] \in {"staged", "verified", "switched"} => c = cmd[p].cred \/ Gone(p)
  <2>1. CASE cmd[p].at = "store"
    <3>1. boot[cmd[p].cred] = "planned"
      BY <1>2, <2>1 DEF IdentityCommandOK
    <3> QED
      BY <1>2, <1>3, <3>1 DEF DeviceOK
  <2>2. CASE cmd[p].at = "activate"
    BY <1>2, <2>2 DEF DeviceOK, IdentityCommandOK, SetupPlaces
  <2> QED
    BY <1>1, <2>1, <2>2
<1>12. DeviceOK(ps, n, p)'
  <2>1. \A c \in CredsOf(ps, n) :
         c.dev = p /\ boot'[c] \in {"staged", "verified", "switched"} => cred'[p] = c \/ Gone(p)'
    BY <1>1, <1>7, <1>11 DEF Gone
  <2>2. /\ cred'[p] # None => cred'[p].dev = p
        /\ install'[p] # None => install'[p].dev = p /\ cred'[p] \in {None, install'[p]}
    BY <1>3, <1>7
  <2>3. ident'[p] # None => install'[p] # None /\ ~installs'[install'[p]].sub
    BY <1>1, <1>2, <1>8 DEF DeviceOK
  <2> QED
    BY <1>1, <1>2, <2>1, <2>2, <2>3 DEF DeviceOK, Gone
<1>13. IdentityCommandOK(p)'
  BY <1>3, <1>5, <1>6, <1>7 DEF IdentityCommandOK, SetupPlaces, DeletePlaces
<1> QED
  BY <1>6, <1>9, <1>10, <1>12, <1>13, OthersAreKept DEF IdentityInv

LEMMA RegisterKept ==
  ASSUME NEW ps, NEW n \in Nat, NEW p \in ps, None \notin Users, IdentityInv(ps, n), D(ps, n)!Register(p)
  PROVE  IdentityInv(ps, n)'
<1>1. /\ UNCHANGED <<account, active, boot, cred, install, ident, token, deletion, logins, secrets, shown>>
      /\ cmd[p].at = "register" /\ cmd' = [cmd EXCEPT ![p] = [cmd[p] EXCEPT !.at = "registered"]]
      /\ installs' = IF installs[cmd[p].cred].state = "none"
                     THEN [installs EXCEPT ![cmd[p].cred].state = "live"] ELSE installs
  BY DEF D!Register, D!Then, D!Go, D!setupVars, D!identVars, D!secretVars
<1>2. /\ ServerTypes(ps, n) /\ RegistryOK(ps, n) /\ DeviceOK(ps, n, p) /\ IdentityCommandOK(p)
      /\ cmd \in [ps -> Commands(ps, n)] /\ SetupTypes(ps, n)
  BY DEF IdentityInv
<1>3. cmd[p] \in SetupCommands(ps, n) /\ cmd[p].cred \in CredsOf(ps, n) /\ cmd[p].cred.dev = p
      /\ cred[p] = cmd[p].cred
  BY <1>1, <1>2, CommandFacts DEF IdentityCommandOK, SetupPlaces
<1>4. PICK k \in Commands(ps, n) : k = [cmd[p] EXCEPT !.at = "registered"] /\ k.at = "registered" /\ k.cred = cmd[p].cred
  <2>1. PICK q \in SetupCommands(ps, n) : q = cmd[p]
    BY <1>3
  <2>2. "registered" \in SetupPlaces
    BY DEF SetupPlaces
  <2>3. \E k \in Commands(ps, n) : k = [q EXCEPT !.at = "registered"] /\ k.at = "registered" /\ k.cred = q.cred
    BY <2>1, <2>2, SetupThen
  <2> QED
    BY <2>1, <2>3
<1>5. cmd' \in [ps -> Commands(ps, n)] /\ cmd'[p] = k /\ \A d \in ps : d # p => cmd'[d] = cmd[d]
  BY <1>1, <1>2, <1>4
<1>6. /\ installs' \in [CredsOf(ps, n) -> InstallRows]
      /\ \A c \in CredsOf(ps, n) :
           /\ installs'[c].user = installs[c].user /\ installs'[c].sub = installs[c].sub
           /\ installs'[c].state = installs[c].state \/ (installs[c].state = "none" /\ installs'[c].state = "live")
  BY <1>1, <1>2, <1>3 DEF ServerTypes, InstallRows
<1>7. ServerTypes(ps, n)' /\ SetupTypes(ps, n)' /\ IdentTypes(ps, n)'
  BY <1>1, <1>6 DEF IdentityInv, ServerTypes, SetupTypes, IdentTypes
<1>8. RegistryOK(ps, n)'
  BY <1>1, <1>2, <1>6 DEF RegistryOK
<1>9. Elsewhere(ps, n, p)
  BY <1>1, <1>5, <1>6 DEF Elsewhere, Gone
<1>10. DeviceOK(ps, n, p)'
  <2>1. ident'[p] # None => install'[p] # None /\ ~installs'[install'[p]].sub
    BY <1>1, <1>2, <1>6 DEF DeviceOK, SetupTypes
  <2> QED
    BY <1>1, <1>2, <2>1 DEF DeviceOK, Gone
<1>11. IdentityCommandOK(p)'
  BY <1>1, <1>3, <1>4, <1>5 DEF IdentityCommandOK, SetupPlaces, DeletePlaces
<1> QED
  BY <1>5, <1>7, <1>8, <1>9, <1>10, <1>11, OthersAreKept DEF IdentityInv

LEMMA SetupEndKept ==
  ASSUME NEW ps, NEW n \in Nat, NEW p \in ps, IdentityInv(ps, n),
         D(ps, n)!SetupComplete(p) \/ D(ps, n)!SetupResume(p)
  PROVE  IdentityInv(ps, n)'
<1>0. /\ SetupTypes(ps, n) /\ DeviceOK(ps, n, p) /\ IdentityCommandOK(p) /\ cmd \in [ps -> Commands(ps, n)]
      /\ cred \in [ps -> CredsOf(ps, n) \cup {None}]
  BY DEF IdentityInv, SetupTypes
<1>1. CASE D(ps, n)!SetupComplete(p)
  <2>1. /\ UNCHANGED <<installs, account, active, cred, install, ident, token, deletion, logins, secrets, shown>>
        /\ cmd[p].at = "check" /\ cmd' = [cmd EXCEPT ![p] = [at |-> "idle"]]
        /\ \/ boot' = boot
           \/ boot[cmd[p].cred] = "switched" /\ boot' = [boot EXCEPT ![cmd[p].cred] = "complete"]
    BY <1>1 DEF D!SetupComplete, D!Finished, D!Go, D!Idle, D!serverVars, D!identVars, D!secretVars
  <2>2. CASE boot' = boot
    BY <2>1, <2>2, StopKept
  <2>3. CASE boot[cmd[p].cred] = "switched" /\ boot' = [boot EXCEPT ![cmd[p].cred] = "complete"]
    <3>1. cmd[p].cred \in CredsOf(ps, n) /\ cmd[p].cred.dev = p /\ cred[p] = cmd[p].cred
      BY <1>0, <2>1, CommandFacts DEF IdentityCommandOK, SetupPlaces
    <3>2. [at |-> "idle"] \in Commands(ps, n) /\ cmd'[p].at = "idle"
      BY <1>0, <2>1, IdleCommand
    <3>3. IdentityCommandOK(p)'
      BY <3>2 DEF IdentityCommandOK, SetupPlaces, DeletePlaces
    <3>4. "complete" \in Journals \ {"none"}
      BY DEF Journals
    <3> QED
      BY <2>1, <2>3, <3>1, <3>2, <3>3, <3>4, JournalMoves
  <2> QED
    BY <2>1, <2>2, <2>3
<1>2. CASE D(ps, n)!SetupResume(p)
  <2>1. PICK j : j = D(ps, n)!Journal(p)
    OBVIOUS
  <2>2. PICK at \in {"register", "activate", "check"} : cmd' = [cmd EXCEPT ![p] = [at |-> at, cred |-> j]]
    BY <1>2, <2>1 DEF D!SetupResume, D!Go, Itself
  <2>3. /\ UNCHANGED <<installs, account, active, boot, cred, install, ident, token, deletion, logins, secrets, shown>>
        /\ j # None /\ cred[p] = j
    BY <1>2, <2>1 DEF D!SetupResume, D!serverVars, D!setupVars, D!identVars, D!secretVars, Itself
  <2>4. j \in CredsOf(ps, n) /\ j.dev = p
    BY <1>0, <2>1, <2>3, JournalIsOpen
  <2>5. [at |-> at, cred |-> j] \in Commands(ps, n)
    <3>1. [at |-> at, cred |-> j] \in SetupCommands(ps, n)
      BY <2>4 DEF SetupCommands, SetupPlaces
    <3> QED
      BY <3>1 DEF Commands
  <2>6. cmd'[p].at = at /\ cmd'[p].cred = j
    BY <1>0, <2>2
  <2>7. IdentityCommandOK(p)'
    BY <2>3, <2>4, <2>6 DEF IdentityCommandOK, SetupPlaces, DeletePlaces
  <2> QED
    BY <2>2, <2>3, <2>5, <2>7, OnlyCommandMoves
<1> QED
  BY <1>1, <1>2

\* Steps of a command that change rows of its own device only.
LEMMA DeviceMoves ==
  ASSUME NEW ps, NEW n, NEW p \in ps, IdentityInv(ps, n), NEW k \in Commands(ps, n),
         cmd' = [cmd EXCEPT ![p] = k], IdentityCommandOK(p)', DeviceOK(ps, n, p)',
         UNCHANGED <<installs, account, active, boot>>,
         cred' \in [ps -> CredsOf(ps, n) \cup {None}], install' \in [ps -> CredsOf(ps, n) \cup {None}],
         IdentTypes(ps, n)',
         \A d \in ps : d # p => /\ cred'[d] = cred[d] /\ install'[d] = install[d]
                                /\ ident'[d] = ident[d] /\ deletion'[d] = deletion[d]
  PROVE  IdentityInv(ps, n)'
<1>0. cmd \in [ps -> Commands(ps, n)]
  BY DEF IdentityInv
<1>1. cmd' \in [ps -> Commands(ps, n)] /\ \A d \in ps : d # p => cmd'[d] = cmd[d]
  BY <1>0
<1>2. ServerTypes(ps, n)' /\ SetupTypes(ps, n)' /\ RegistryOK(ps, n)'
  BY DEF IdentityInv, ServerTypes, SetupTypes, RegistryOK
<1>3. Elsewhere(ps, n, p)
  BY <1>1 DEF Elsewhere, Gone
<1> QED
  BY <1>1, <1>2, <1>3, OthersAreKept DEF IdentityInv

\* What is known of a device and its command before a step of it.
LEMMA DeviceFacts ==
  ASSUME NEW ps, NEW n, NEW p \in ps, IdentityInv(ps, n)
  PROVE  /\ ServerTypes(ps, n) /\ SetupTypes(ps, n) /\ IdentTypes(ps, n) /\ RegistryOK(ps, n)
         /\ DeviceOK(ps, n, p) /\ IdentityCommandOK(p)
         /\ cmd \in [ps -> Commands(ps, n)] /\ cmd[p] \in Commands(ps, n)
         /\ cred \in [ps -> CredsOf(ps, n) \cup {None}] /\ install \in [ps -> CredsOf(ps, n) \cup {None}]
         /\ ident \in [ps -> IdentRows(ps, n) \cup {None}] /\ token \in [ps -> TokensOf(ps, n) \cup {None}]
         /\ deletion \in [ps -> {"none", "planned", "staged", "verified", "switched"}]
         /\ logins \in [ps -> 0..n] /\ secrets \in 0..n /\ shown \subseteq 1..n
BY DEF IdentityInv, SetupTypes, IdentTypes

LEMMA PersistKept ==
  ASSUME NEW ps, NEW n \in Nat, NEW p \in ps, IdentityInv(ps, n),
         D(ps, n)!PersistToken(p) \/ D(ps, n)!PersistIdentity(p)
  PROVE  IdentityInv(ps, n)'
<1>0. /\ ServerTypes(ps, n) /\ SetupTypes(ps, n) /\ IdentTypes(ps, n) /\ RegistryOK(ps, n)
      /\ DeviceOK(ps, n, p) /\ IdentityCommandOK(p)
      /\ cmd \in [ps -> Commands(ps, n)] /\ cmd[p] \in Commands(ps, n)
      /\ cred \in [ps -> CredsOf(ps, n) \cup {None}] /\ install \in [ps -> CredsOf(ps, n) \cup {None}]
      /\ ident \in [ps -> IdentRows(ps, n) \cup {None}] /\ token \in [ps -> TokensOf(ps, n) \cup {None}]
      /\ deletion \in [ps -> {"none", "planned", "staged", "verified", "switched"}]
      /\ logins \in [ps -> 0..n] /\ secrets \in 0..n /\ shown \subseteq 1..n
  BY DeviceFacts
<1>1. /\ UNCHANGED <<installs, account, active, boot, cred, install, deletion, logins, secrets, shown>>
      /\ \/ /\ cmd[p].at = "persist" /\ token' = [token EXCEPT ![p] = cmd[p].token] /\ ident' = ident
            /\ cmd' = [cmd EXCEPT ![p] = [cmd[p] EXCEPT !.at = "identity"]]
         \/ /\ cmd[p].at = "identity" /\ token' = token
            /\ ident' = [ident EXCEPT ![p] = [user |-> cmd[p].token.user, token |-> cmd[p].token]]
            /\ cmd' = [cmd EXCEPT ![p] = [cmd[p] EXCEPT !.at = "show"]]
  BY DEF D!PersistToken, D!PersistIdentity, D!Then, D!Go, D!serverVars, D!setupVars, D!secretVars, Itself
<1>2. cmd[p] \in LoginCommands(ps, n) \cup ClaimCommands(ps, n)
  BY <1>0, <1>1, CommandFacts
<1>3. cmd[p].token \in TokensOf(ps, n) /\ cmd[p].token.user \in Users
  BY <1>2 DEF LoginCommands, ClaimCommands, TokensOf
<1>4. PICK at \in {"identity", "show"} :
         /\ cmd' = [cmd EXCEPT ![p] = [cmd[p] EXCEPT !.at = at]]
         /\ at = "identity" => cmd[p].at = "persist"
  BY <1>1
<1>5. PICK k \in Commands(ps, n) : k = [cmd[p] EXCEPT !.at = at] /\ k.at = at
  <2>1. PICK q \in LoginCommands(ps, n) \cup ClaimCommands(ps, n) : q = cmd[p]
    BY <1>2
  <2>2. \E x \in Commands(ps, n) : x = [q EXCEPT !.at = at] /\ x.at = at
    BY <2>1, SessionThen
  <2> QED
    BY <2>1, <2>2
<1>6. cmd' = [cmd EXCEPT ![p] = k] /\ cmd'[p].at = at
  BY <1>0, <1>4, <1>5
<1>7. /\ ident' \in [ps -> IdentRows(ps, n) \cup {None}] /\ token' \in [ps -> TokensOf(ps, n) \cup {None}]
      /\ \A d \in ps : d # p => ident'[d] = ident[d]
  <2>1. [user |-> cmd[p].token.user, token |-> cmd[p].token] \in IdentRows(ps, n)
    BY <1>3 DEF IdentRows
  <2> QED
    BY <1>0, <1>1, <1>3, <2>1
<1>8. IdentTypes(ps, n)'
  BY <1>0, <1>1, <1>7 DEF IdentTypes
<1>9. install[p] # None /\ ~installs[install[p]].sub
  BY <1>0, <1>1 DEF IdentityCommandOK
<1>10. DeviceOK(ps, n, p)'
  BY <1>0, <1>1, <1>9 DEF DeviceOK, Gone
<1>11. IdentityCommandOK(p)'
  BY <1>1, <1>6, <1>9 DEF IdentityCommandOK, SetupPlaces, DeletePlaces
<1> QED
  BY <1>0, <1>1, <1>6, <1>7, <1>8, <1>10, <1>11, DeviceMoves

LEMMA ShowKept ==
  ASSUME NEW ps, NEW n \in Nat, NEW p \in ps, IdentityInv(ps, n), D(ps, n)!Show(p)
  PROVE  IdentityInv(ps, n)'
<1>0. /\ ServerTypes(ps, n) /\ SetupTypes(ps, n) /\ IdentTypes(ps, n) /\ RegistryOK(ps, n)
      /\ DeviceOK(ps, n, p) /\ IdentityCommandOK(p)
      /\ cmd \in [ps -> Commands(ps, n)] /\ cmd[p] \in Commands(ps, n)
      /\ cred \in [ps -> CredsOf(ps, n) \cup {None}] /\ install \in [ps -> CredsOf(ps, n) \cup {None}]
      /\ ident \in [ps -> IdentRows(ps, n) \cup {None}] /\ token \in [ps -> TokensOf(ps, n) \cup {None}]
      /\ deletion \in [ps -> {"none", "planned", "staged", "verified", "switched"}]
      /\ logins \in [ps -> 0..n] /\ secrets \in 0..n /\ shown \subseteq 1..n
  BY DeviceFacts
<1>1. /\ UNCHANGED <<installs, account, active, boot, cred, install, ident, token, deletion, logins, secrets>>
      /\ cmd[p].at = "show" /\ cmd' = [cmd EXCEPT ![p] = [at |-> "idle"]]
      /\ shown' = IF cmd[p].secret # 0 THEN shown \cup {cmd[p].secret} ELSE shown
  BY DEF D!Show, D!Finished, D!Idle, D!Go, D!serverVars, D!setupVars, D!identVars
<1>2. cmd[p].secret \in 0..n
  <2>1. cmd[p] \in LoginCommands(ps, n) \cup ClaimCommands(ps, n) \cup BackupCommands(n)
    BY <1>0, <1>1, CommandFacts
  <2> QED
    BY <2>1 DEF LoginCommands, ClaimCommands, BackupCommands
<1>3. shown' \subseteq 1..n
  BY <1>0, <1>1, <1>2
<1>4. IdentTypes(ps, n)'
  BY <1>0, <1>1, <1>3 DEF IdentTypes
<1>5. [at |-> "idle"] \in Commands(ps, n) /\ cmd'[p].at = "idle"
  BY <1>0, <1>1, IdleCommand
<1>6. IdentityCommandOK(p)'
  BY <1>5 DEF IdentityCommandOK, SetupPlaces, DeletePlaces
<1>7. DeviceOK(ps, n, p)'
  BY <1>0, <1>1 DEF DeviceOK, Gone
<1> QED
  BY <1>0, <1>1, <1>4, <1>5, <1>6, <1>7, DeviceMoves

LEMMA ForgetKept ==
  ASSUME NEW ps, NEW n \in Nat, NEW p \in ps, IdentityInv(ps, n),
         D(ps, n)!ForgetToken(p) \/ D(ps, n)!ForgetSession(p)
  PROVE  IdentityInv(ps, n)'
<1>0. /\ ServerTypes(ps, n) /\ SetupTypes(ps, n) /\ IdentTypes(ps, n) /\ RegistryOK(ps, n)
      /\ DeviceOK(ps, n, p) /\ IdentityCommandOK(p)
      /\ cmd \in [ps -> Commands(ps, n)] /\ cmd[p] \in Commands(ps, n)
      /\ cred \in [ps -> CredsOf(ps, n) \cup {None}] /\ install \in [ps -> CredsOf(ps, n) \cup {None}]
      /\ ident \in [ps -> IdentRows(ps, n) \cup {None}] /\ token \in [ps -> TokensOf(ps, n) \cup {None}]
      /\ deletion \in [ps -> {"none", "planned", "staged", "verified", "switched"}]
      /\ logins \in [ps -> 0..n] /\ secrets \in 0..n /\ shown \subseteq 1..n
  BY DeviceFacts
<1>1. /\ UNCHANGED <<installs, account, active, boot, cred, install, deletion, logins, secrets, shown>>
      /\ \/ /\ cmd[p].at = "forget" /\ token' = [token EXCEPT ![p] = None] /\ ident' = ident
            /\ cmd' = [cmd EXCEPT ![p] = [cmd[p] EXCEPT !.at = "logout"]]
         \/ /\ cmd[p].at = "logout" /\ token' = token
            /\ ident' = [ident EXCEPT ![p] = [ident[p] EXCEPT !.token = None]]
            /\ cmd' = [cmd EXCEPT ![p] = [at |-> "idle"]]
  BY DEF D!ForgetToken, D!ForgetSession, D!Then, D!Go, D!Finished, D!Idle, D!serverVars, D!setupVars,
         D!secretVars, Itself
<1>2. ident[p] # None /\ ident[p] \in IdentRows(ps, n) /\ cmd[p] \in BareCommands
  BY <1>0, <1>1, CommandFacts DEF IdentityCommandOK
<1>3. cmd[p].at = "forget" => [cmd[p] EXCEPT !.at = "logout"] = [at |-> "logout"]
  BY <1>2 DEF BareCommands
<1>4. PICK at \in {"idle", "logout"} : cmd' = [cmd EXCEPT ![p] = [at |-> at]] /\ (at = "logout" => ident' = ident)
  BY <1>1, <1>3
<1>5. [at |-> at] \in Commands(ps, n) /\ cmd'[p].at = at
  BY <1>0, <1>4, IdleCommand
<1>6. /\ ident' \in [ps -> IdentRows(ps, n) \cup {None}] /\ token' \in [ps -> TokensOf(ps, n) \cup {None}]
      /\ \A d \in ps : d # p => ident'[d] = ident[d]
  <2>1. [ident[p] EXCEPT !.token = None] \in IdentRows(ps, n)
    BY <1>2 DEF IdentRows
  <2> QED
    BY <1>0, <1>1, <2>1
<1>7. IdentTypes(ps, n)'
  BY <1>0, <1>1, <1>6 DEF IdentTypes
<1>8. DeviceOK(ps, n, p)'
  BY <1>0, <1>1, <1>2 DEF DeviceOK, Gone
<1>9. IdentityCommandOK(p)'
  BY <1>2, <1>4, <1>5 DEF IdentityCommandOK, SetupPlaces, DeletePlaces
<1> QED
  BY <1>0, <1>1, <1>4, <1>5, <1>6, <1>7, <1>8, <1>9, DeviceMoves

LEMMA DeletePlanKept ==
  ASSUME NEW ps, NEW n \in Nat, NEW p \in ps, IdentityInv(ps, n),
         D(ps, n)!DeletePlan(p) \/ D(ps, n)!DeleteResume(p)
  PROVE  IdentityInv(ps, n)'
<1>0. /\ ServerTypes(ps, n) /\ SetupTypes(ps, n) /\ IdentTypes(ps, n) /\ RegistryOK(ps, n)
      /\ DeviceOK(ps, n, p) /\ IdentityCommandOK(p)
      /\ cmd \in [ps -> Commands(ps, n)] /\ cmd[p] \in Commands(ps, n)
      /\ cred \in [ps -> CredsOf(ps, n) \cup {None}] /\ install \in [ps -> CredsOf(ps, n) \cup {None}]
      /\ ident \in [ps -> IdentRows(ps, n) \cup {None}] /\ token \in [ps -> TokensOf(ps, n) \cup {None}]
      /\ deletion \in [ps -> {"none", "planned", "staged", "verified", "switched"}]
      /\ logins \in [ps -> 0..n] /\ secrets \in 0..n /\ shown \subseteq 1..n
  BY DeviceFacts
<1>1. PICK at \in {"delete", "clear", "token", "finish"} :
         /\ cmd' = [cmd EXCEPT ![p] = [at |-> at, token |-> token[p]]]
         /\ at = "delete" => token[p] # None
         /\ at # "delete" => deletion[p] \in {"staged", "verified", "switched"} /\ deletion' = deletion
  <2>1. CASE D(ps, n)!DeletePlan(p)
    BY <2>1 DEF D!DeletePlan, D!HasSession, D!Go, Itself
  <2>2. CASE D(ps, n)!DeleteResume(p)
    <3>1. /\ deletion[p] \in {"planned", "staged", "verified", "switched"} /\ deletion' = deletion
          /\ deletion[p] = "planned" => token[p] # None
          /\ cmd' = [cmd EXCEPT ![p] = [at |-> CASE deletion[p] = "planned" -> "delete"
                       [] deletion[p] = "staged" -> "clear"
                       [] deletion[p] = "verified" -> "token"
                       [] OTHER -> "finish", token |-> token[p]]]
      BY <1>0, <2>2 DEF D!DeleteResume, D!HasSession, D!Go, D!identVars, Itself
    <3> QED
      BY <3>1
  <2> QED
    BY <2>1, <2>2
<1>2. /\ UNCHANGED <<installs, account, active, boot, cred, install, ident, token, logins, secrets, shown>>
      /\ deletion' = deletion \/ deletion' = [deletion EXCEPT ![p] = "planned"]
  BY DEF D!DeletePlan, D!DeleteResume, D!serverVars, D!setupVars, D!identVars, D!secretVars, Itself
<1>3. [at |-> at, token |-> token[p]] \in Commands(ps, n)
  <2>1. [at |-> at, token |-> token[p]] \in DeleteCommands(ps, n)
    BY <1>0 DEF DeleteCommands, DeletePlaces
  <2> QED
    BY <2>1 DEF Commands
<1>4. cmd'[p].at = at /\ cmd'[p].token = token[p]
  BY <1>0, <1>1
<1>5. /\ deletion' \in [ps -> {"none", "planned", "staged", "verified", "switched"}]
      /\ \A d \in ps : d # p => deletion'[d] = deletion[d]
      /\ deletion'[p] \in {deletion[p], "planned"}
  BY <1>0, <1>2
<1>6. IdentTypes(ps, n)'
  BY <1>0, <1>2, <1>5 DEF IdentTypes
<1>7. DeviceOK(ps, n, p)'
  BY <1>0, <1>2, <1>5 DEF DeviceOK, Gone
<1>8. at # "delete" => Gone(p)'
  BY <1>0, <1>1, <1>2 DEF DeviceOK, Gone
<1>9. IdentityCommandOK(p)'
  BY <1>1, <1>4, <1>8 DEF IdentityCommandOK, SetupPlaces, DeletePlaces
<1> QED
  BY <1>0, <1>1, <1>2, <1>3, <1>5, <1>6, <1>7, <1>9, DeviceMoves

LEMMA DeleteJournalKept ==
  ASSUME NEW ps, NEW n \in Nat, NEW p \in ps, IdentityInv(ps, n),
         \/ D(ps, n)!DeleteStaged(p) \/ D(ps, n)!DeleteVerified(p)
         \/ D(ps, n)!DeleteSwitched(p) \/ D(ps, n)!DeleteFinish(p)
  PROVE  IdentityInv(ps, n)'
<1>0. /\ ServerTypes(ps, n) /\ SetupTypes(ps, n) /\ IdentTypes(ps, n) /\ RegistryOK(ps, n)
      /\ DeviceOK(ps, n, p) /\ IdentityCommandOK(p)
      /\ cmd \in [ps -> Commands(ps, n)] /\ cmd[p] \in Commands(ps, n)
      /\ cred \in [ps -> CredsOf(ps, n) \cup {None}] /\ install \in [ps -> CredsOf(ps, n) \cup {None}]
      /\ ident \in [ps -> IdentRows(ps, n) \cup {None}] /\ token \in [ps -> TokensOf(ps, n) \cup {None}]
      /\ deletion \in [ps -> {"none", "planned", "staged", "verified", "switched"}]
      /\ logins \in [ps -> 0..n] /\ secrets \in 0..n /\ shown \subseteq 1..n
  BY DeviceFacts
<1>1. /\ UNCHANGED <<installs, account, active, boot, cred, install, ident, token, logins, secrets, shown>>
      /\ cmd[p].at \in DeletePlaces \ {"delete"}
      /\ \/ deletion' = deletion /\ cmd' = [cmd EXCEPT ![p] = [at |-> "idle"]]
         \/ \E to \in {"staged", "verified", "switched", "none"}, next \in {"clear", "token", "finish", "idle"} :
              deletion' = [deletion EXCEPT ![p] = to] /\ cmd' = [cmd EXCEPT ![p] = [at |-> next]]
  BY DEF D!DeleteStaged, D!DeleteVerified, D!DeleteSwitched, D!DeleteFinish, D!DeleteJournal, D!Go,
         D!Finished, D!Idle, D!serverVars, D!setupVars, D!secretVars, Itself, DeletePlaces
<1>2. Gone(p)
  BY <1>0, <1>1 DEF IdentityCommandOK
<1>3. CASE deletion' = deletion /\ cmd' = [cmd EXCEPT ![p] = [at |-> "idle"]]
  BY <1>1, <1>3, StopKept
<1>4. ASSUME NEW to \in {"staged", "verified", "switched", "none"}, NEW next \in {"clear", "token", "finish", "idle"},
             deletion' = [deletion EXCEPT ![p] = to], cmd' = [cmd EXCEPT ![p] = [at |-> next]]
      PROVE  IdentityInv(ps, n)'
  <2>1. [at |-> next] \in Commands(ps, n)
    BY IdleCommand DEF DeletePlaces
  <2>2. cmd'[p].at = next /\ Gone(p)'
    BY <1>0, <1>1, <1>2, <1>4 DEF Gone
  <2>3. IdentityCommandOK(p)'
    BY <2>2 DEF IdentityCommandOK, SetupPlaces, DeletePlaces
  <2>4. /\ deletion' \in [ps -> {"none", "planned", "staged", "verified", "switched"}]
        /\ \A d \in ps : d # p => deletion'[d] = deletion[d]
    BY <1>0, <1>4
  <2>5. IdentTypes(ps, n)'
    BY <1>0, <1>1, <2>4 DEF IdentTypes
  <2>6. DeviceOK(ps, n, p)'
    BY <1>0, <1>1, <2>2 DEF DeviceOK, Gone
  <2> QED
    BY <1>0, <1>1, <1>4, <2>1, <2>3, <2>4, <2>5, <2>6, DeviceMoves
<1> QED
  BY <1>1, <1>3, <1>4

LEMMA DropKept ==
  ASSUME NEW ps, NEW n \in Nat, NEW p \in ps, IdentityInv(ps, n),
         \/ D(ps, n)!DropToken(p) \/ D(ps, n)!DropCredential(p)
         \/ D(ps, n)!DropIdentity(p) \/ D(ps, n)!DropInstallation(p)
  PROVE  IdentityInv(ps, n)'
<1>0. /\ ServerTypes(ps, n) /\ SetupTypes(ps, n) /\ IdentTypes(ps, n) /\ RegistryOK(ps, n)
      /\ DeviceOK(ps, n, p) /\ IdentityCommandOK(p)
      /\ cmd \in [ps -> Commands(ps, n)] /\ cmd[p] \in Commands(ps, n)
      /\ cred \in [ps -> CredsOf(ps, n) \cup {None}] /\ install \in [ps -> CredsOf(ps, n) \cup {None}]
      /\ ident \in [ps -> IdentRows(ps, n) \cup {None}] /\ token \in [ps -> TokensOf(ps, n) \cup {None}]
      /\ deletion \in [ps -> {"none", "planned", "staged", "verified", "switched"}]
      /\ logins \in [ps -> 0..n] /\ secrets \in 0..n /\ shown \subseteq 1..n
  BY DeviceFacts
<1>1. PICK at \in {"credential", "clear_identity", "clear_installation", "switch_delete"} :
        /\ UNCHANGED <<installs, account, active, boot, deletion, logins, secrets, shown>>
        /\ cmd[p].at \in DeletePlaces \ {"delete"}
        /\ cmd' = [cmd EXCEPT ![p] = [cmd[p] EXCEPT !.at = at]]
        /\ at = "credential" => token' = [token EXCEPT ![p] = None] /\ UNCHANGED <<cred, ident, install>>
        /\ at = "clear_identity" => cred' = [cred EXCEPT ![p] = None] /\ UNCHANGED <<token, ident, install>>
        /\ at = "clear_installation" => ident' = [ident EXCEPT ![p] = None] /\ UNCHANGED <<token, cred, install>>
        /\ at = "switch_delete" => /\ install' = [install EXCEPT ![p] = None] /\ UNCHANGED <<token, cred, ident>>
                                   /\ cmd[p].at = "clear_installation"
  <2>1. CASE D(ps, n)!DropToken(p)
    BY <2>1 DEF D!DropToken, D!Then, D!Go, D!serverVars, D!setupVars, D!secretVars, Itself, DeletePlaces
  <2>2. CASE D(ps, n)!DropCredential(p)
    BY <2>2 DEF D!DropCredential, D!Then, D!Go, D!serverVars, D!identVars, D!secretVars, Itself, DeletePlaces
  <2>3. CASE D(ps, n)!DropIdentity(p)
    BY <2>3 DEF D!DropIdentity, D!Then, D!Go, D!serverVars, D!setupVars, D!secretVars, Itself, DeletePlaces
  <2>4. CASE D(ps, n)!DropInstallation(p)
    BY <2>4 DEF D!DropInstallation, D!Then, D!Go, D!serverVars, D!identVars, D!secretVars, Itself, DeletePlaces
  <2> QED
    BY <2>1, <2>2, <2>3, <2>4
<1>2. Gone(p) /\ cmd[p] \in BareCommands \cup DeleteCommands(ps, n)
  BY <1>0, <1>1, CommandFacts DEF IdentityCommandOK
<1>3. PICK k \in Commands(ps, n) : k = [cmd[p] EXCEPT !.at = at] /\ k.at = at
  <2>1. PICK q \in BareCommands \cup DeleteCommands(ps, n) : q = cmd[p]
    BY <1>2
  <2>2. at \in DeletePlaces \ {"delete"}
    BY DEF DeletePlaces
  <2>3. PICK next \in DeletePlaces \ {"delete"} : next = at
    BY <2>2
  <2>4. q \in BareCommands \/ q \in DeleteCommands(ps, n)
    BY <2>1
  <2>5. \E x \in Commands(ps, n) : x = [q EXCEPT !.at = next] /\ x.at = next
    BY <2>4, DeleteThen
  <2> QED
    BY <2>1, <2>3, <2>5
<1>4. cmd' = [cmd EXCEPT ![p] = k] /\ cmd'[p].at = at /\ Gone(p)'
  BY <1>0, <1>1, <1>2, <1>3 DEF Gone
<1>5. /\ cred' \in [ps -> CredsOf(ps, n) \cup {None}] /\ install' \in [ps -> CredsOf(ps, n) \cup {None}]
      /\ ident' \in [ps -> IdentRows(ps, n) \cup {None}] /\ token' \in [ps -> TokensOf(ps, n) \cup {None}]
      /\ \A d \in ps : d # p => cred'[d] = cred[d] /\ install'[d] = install[d] /\ ident'[d] = ident[d]
  BY <1>0, <1>1
<1>6. IdentTypes(ps, n)'
  BY <1>0, <1>1, <1>5 DEF IdentTypes
<1>7. /\ cred'[p] \in {cred[p], None} /\ install'[p] \in {install[p], None} /\ ident'[p] \in {ident[p], None}
      /\ install'[p] # install[p] => ident'[p] = None
      /\ at = "clear_installation" => ident'[p] = None
  BY <1>0, <1>1 DEF IdentityCommandOK
<1>8. DeviceOK(ps, n, p)'
  <2>1. ident'[p] # None => install'[p] # None /\ ~installs'[install'[p]].sub
    BY <1>0, <1>1, <1>7 DEF DeviceOK
  <2>2. \A c1, c2 \in CredsOf(ps, n) :
         /\ c1.dev = p /\ boot'[c1] \notin {"none", "complete"}
         /\ c2.dev = p /\ boot'[c2] \notin {"none", "complete"}
         => c1 = c2
    BY <1>0, <1>1 DEF DeviceOK
  <2>3. /\ cred'[p] # None => cred'[p].dev = p
        /\ install'[p] # None => install'[p].dev = p /\ cred'[p] \in {None, install'[p]}
    BY <1>0, <1>7 DEF DeviceOK
  <2> QED
    BY <1>4, <2>1, <2>2, <2>3 DEF DeviceOK
<1>9. IdentityCommandOK(p)'
  BY <1>4, <1>7 DEF IdentityCommandOK, SetupPlaces, DeletePlaces
<1> QED
  BY <1>1, <1>4, <1>5, <1>6, <1>8, <1>9, DeviceMoves

\* Steps of the registry for the command of p: a subscription appears only on
\* the installation of p, and only while p has no identity row.
LEMMA RegistryMoves ==
  ASSUME NEW ps, NEW n, NEW p \in ps, IdentityInv(ps, n), NEW k \in Commands(ps, n),
         cmd' = [cmd EXCEPT ![p] = k], IdentityCommandOK(p)', ServerTypes(ps, n)', RegistryOK(ps, n)',
         IdentTypes(ps, n)',
         UNCHANGED <<boot, cred, install, ident, token, deletion>>,
         \A c \in CredsOf(ps, n) : installs'[c].sub => installs[c].sub \/ (c.dev = p /\ ident[p] = None),
         \A d \in ps : Gone(d) => Gone(d)'
  PROVE  IdentityInv(ps, n)'
<1>0. /\ cmd \in [ps -> Commands(ps, n)] /\ DeviceOK(ps, n, p) /\ SetupTypes(ps, n)
      /\ install \in [ps -> CredsOf(ps, n) \cup {None}]
  BY DEF IdentityInv, SetupTypes
<1>1. cmd' \in [ps -> Commands(ps, n)] /\ \A d \in ps : d # p => cmd'[d] = cmd[d]
  BY <1>0
<1>2. SetupTypes(ps, n)'
  BY <1>0 DEF SetupTypes
<1>3. Elsewhere(ps, n, p)
  BY <1>1 DEF Elsewhere
<1>4. DeviceOK(ps, n, p)'
  <2>1. ident[p] # None => install[p] # None /\ ~installs[install[p]].sub /\ install[p] \in CredsOf(ps, n)
    BY <1>0 DEF DeviceOK
  <2>2. ident'[p] # None => install'[p] # None /\ ~installs'[install'[p]].sub
    BY <2>1
  <2>3. Gone(p) => Gone(p)'
    OBVIOUS
  <2> QED
    BY <1>0, <2>2, <2>3 DEF DeviceOK
<1> QED
  BY <1>1, <1>2, <1>3, <1>4, OthersAreKept DEF IdentityInv

LEMMA SubscribeReadKept ==
  ASSUME NEW ps, NEW n \in Nat, NEW p \in ps, None \notin Users, IdentityInv(ps, n),
         D(ps, n)!SubscribeRead(p)
  PROVE  IdentityInv(ps, n)'
<1>0. /\ DeviceOK(ps, n, p) /\ cmd \in [ps -> Commands(ps, n)]
      /\ cred \in [ps -> CredsOf(ps, n) \cup {None}] /\ token \in [ps -> TokensOf(ps, n) \cup {None}]
  BY DeviceFacts
<1>1. /\ UNCHANGED <<installs, account, active, boot, cred, install, ident, token, deletion, logins, secrets, shown>>
      /\ cred[p] # None
      /\ \/ ident[p] = None /\ cmd' = [cmd EXCEPT ![p] = [at |-> "subscribe", cred |-> cred[p], user |-> None]]
         \/ /\ ident[p] # None /\ token[p] # None
            /\ cmd' = [cmd EXCEPT ![p] = [at |-> "subscribe", cred |-> cred[p], user |-> token[p].user]]
  BY DEF D!SubscribeRead, D!HasInstallation, D!HasSession, D!Go, D!serverVars, D!setupVars, D!identVars,
         D!secretVars, Itself
<1>2. cred[p] \in CredsOf(ps, n) /\ cred[p].dev = p /\ (token[p] # None => token[p].user \in Users)
  BY <1>0, <1>1 DEF DeviceOK, TokensOf
<1>3. PICK u \in Users \cup {None} :
         /\ cmd' = [cmd EXCEPT ![p] = [at |-> "subscribe", cred |-> cred[p], user |-> u]]
         /\ u = None => ident[p] = None
  BY <1>1, <1>2
<1>4. PICK k : k = [at |-> "subscribe", cred |-> cred[p], user |-> u]
  OBVIOUS
<1>5. k \in SubscribeCommands(ps, n) /\ k.at = "subscribe" /\ k.cred = cred[p] /\ k.user = u
  BY <1>2, <1>4 DEF SubscribeCommands
<1>6. k \in Commands(ps, n)
  BY <1>5 DEF Commands
<1>7. cmd' = [cmd EXCEPT ![p] = k] /\ cmd'[p] = k
  BY <1>0, <1>3, <1>4
<1>8. IdentityCommandOK(p)'
  BY <1>1, <1>2, <1>3, <1>5, <1>7 DEF IdentityCommandOK, SetupPlaces, DeletePlaces
<1> QED
  BY <1>1, <1>6, <1>7, <1>8, OnlyCommandMoves

LEMMA SubscribeCommitKept ==
  ASSUME NEW ps, NEW n \in Nat, NEW p \in ps, IdentityInv(ps, n), D(ps, n)!SubscribeCommit(p)
  PROVE  IdentityInv(ps, n)'
<1>0. /\ ServerTypes(ps, n) /\ IdentTypes(ps, n) /\ RegistryOK(ps, n) /\ IdentityCommandOK(p)
      /\ cmd \in [ps -> Commands(ps, n)] /\ cmd[p] \in Commands(ps, n)
      /\ installs \in [CredsOf(ps, n) -> InstallRows] /\ account \in [Users -> AccountRows(ps, n)]
  BY DeviceFacts DEF ServerTypes
<1>1. PICK on \in BOOLEAN :
        /\ UNCHANGED <<active, boot, cred, install, ident, token, deletion, logins, secrets, shown>>
        /\ cmd[p].at = "subscribe" /\ cmd' = [cmd EXCEPT ![p] = [at |-> "idle"]]
        /\ cmd[p].user = None => installs' = [installs EXCEPT ![cmd[p].cred].sub = on] /\ account' = account
        /\ cmd[p].user # None => account' = [account EXCEPT ![cmd[p].user].sub = on] /\ installs' = installs
  BY DEF D!SubscribeCommit, D!Finished, D!Idle, D!Go, D!setupVars, D!identVars, D!secretVars
<1>2. /\ cmd[p].cred \in CredsOf(ps, n) /\ cmd[p].user \in Users \cup {None} /\ cmd[p].cred.dev = p
      /\ cmd[p].user = None => ident[p] = None
  <2>1. cmd[p] \in SubscribeCommands(ps, n)
    BY <1>0, <1>1, CommandFacts
  <2> QED
    BY <1>0, <1>1, <2>1 DEF SubscribeCommands, IdentityCommandOK
<1>3. /\ installs' \in [CredsOf(ps, n) -> InstallRows]
      /\ \A c \in CredsOf(ps, n) :
           /\ installs'[c].state = installs[c].state /\ installs'[c].user = installs[c].user
           /\ installs'[c].sub => installs[c].sub \/ (c.dev = p /\ ident[p] = None)
  <2>1. CASE cmd[p].user = None
    BY <1>0, <1>1, <1>2, <2>1 DEF InstallRows
  <2>2. CASE cmd[p].user # None
    BY <1>0, <1>1, <2>2
  <2> QED
    BY <2>1, <2>2
<1>4. /\ account' \in [Users -> AccountRows(ps, n)]
      /\ \A u \in Users : account'[u].state = account[u].state /\ account'[u].by = account[u].by
  <2>1. CASE cmd[p].user = None
    BY <1>0, <1>1, <2>1
  <2>2. CASE cmd[p].user # None
    BY <1>0, <1>1, <1>2, <2>2 DEF AccountRows
  <2> QED
    BY <2>1, <2>2
<1>5. ServerTypes(ps, n)' /\ IdentTypes(ps, n)'
  BY <1>0, <1>1, <1>3, <1>4 DEF ServerTypes, IdentTypes
<1>6. RegistryOK(ps, n)'
  <2>1. \A t \in active : t.user \in Users
    BY <1>0 DEF ServerTypes, TokensOf
  <2> QED
    BY <1>0, <1>1, <1>3, <1>4, <2>1 DEF RegistryOK
<1>7. \A d \in ps : Gone(d) => Gone(d)'
  BY <1>4 DEF Gone
<1>8. [at |-> "idle"] \in Commands(ps, n) /\ cmd'[p].at = "idle"
  BY <1>0, <1>1, IdleCommand
<1>9. IdentityCommandOK(p)'
  BY <1>8 DEF IdentityCommandOK, SetupPlaces, DeletePlaces
<1> QED
  BY <1>1, <1>3, <1>5, <1>6, <1>7, <1>8, <1>9, RegistryMoves

LEMMA RevokeKept ==
  ASSUME NEW ps, NEW n \in Nat, NEW p \in ps, IdentityInv(ps, n), D(ps, n)!Revoke(p)
  PROVE  IdentityInv(ps, n)'
<1>0. /\ ServerTypes(ps, n) /\ IdentTypes(ps, n) /\ RegistryOK(ps, n) /\ cmd \in [ps -> Commands(ps, n)]
  BY DeviceFacts
<1>1. /\ UNCHANGED <<installs, account, boot, cred, install, ident, token, deletion, logins, secrets, shown>>
      /\ ident[p] # None /\ active' \subseteq active
      /\ \E at \in {"idle", "forget"} : cmd' = [cmd EXCEPT ![p] = [at |-> at]]
  BY DEF D!Revoke, D!HasSession, D!Go, D!Idle, D!setupVars, D!identVars, D!secretVars, Itself
<1>2. PICK at \in {"idle", "forget"} : cmd' = [cmd EXCEPT ![p] = [at |-> at]]
  BY <1>1
<1>3. [at |-> at] \in Commands(ps, n) /\ cmd'[p].at = at
  BY <1>0, <1>2, IdleCommand
<1>4. ServerTypes(ps, n)' /\ IdentTypes(ps, n)' /\ RegistryOK(ps, n)'
  BY <1>0, <1>1 DEF ServerTypes, IdentTypes, RegistryOK
<1>5. IdentityCommandOK(p)'
  BY <1>1, <1>3 DEF IdentityCommandOK, SetupPlaces, DeletePlaces
<1>6. \A d \in ps : Gone(d) => Gone(d)'
  BY <1>1 DEF Gone
<1> QED
  BY <1>1, <1>2, <1>3, <1>4, <1>5, <1>6, RegistryMoves

LEMMA BackupKept ==
  ASSUME NEW ps, NEW n \in Nat, NEW p \in ps, IdentityInv(ps, n), D(ps, n)!Backup(p)
  PROVE  IdentityInv(ps, n)'
<1>0. /\ ServerTypes(ps, n) /\ IdentTypes(ps, n) /\ RegistryOK(ps, n) /\ cmd \in [ps -> Commands(ps, n)]
      /\ account \in [Users -> AccountRows(ps, n)] /\ secrets \in 0..n
      /\ active \subseteq TokensOf(ps, n)
  BY DeviceFacts DEF ServerTypes
<1>1. /\ UNCHANGED <<installs, active, boot, cred, install, ident, token, deletion, logins, shown>>
      /\ secrets < n /\ secrets' = secrets + 1 /\ token[p] \in active
      /\ account' = [account EXCEPT ![token[p].user].secret = secrets + 1]
      /\ cmd' = [cmd EXCEPT ![p] = [at |-> "show", secret |-> secrets + 1]]
  BY DEF D!Backup, D!Go, D!setupVars, D!identVars, Itself
<1>2. secrets + 1 \in 0..n /\ token[p].user \in Users
  BY <1>0, <1>1 DEF TokensOf
<1>3. /\ account' \in [Users -> AccountRows(ps, n)]
      /\ \A u \in Users : account'[u].state = account[u].state /\ account'[u].by = account[u].by
  BY <1>0, <1>1, <1>2 DEF AccountRows
<1>4. PICK k : k = [at |-> "show", secret |-> secrets + 1]
  OBVIOUS
<1>5. k \in BackupCommands(n) /\ k.at = "show"
  BY <1>2, <1>4 DEF BackupCommands
<1>6. k \in Commands(ps, n) /\ cmd' = [cmd EXCEPT ![p] = k] /\ cmd'[p] = k
  BY <1>0, <1>1, <1>4, <1>5 DEF Commands
<1>7. ServerTypes(ps, n)' /\ IdentTypes(ps, n)'
  BY <1>0, <1>1, <1>2, <1>3 DEF ServerTypes, IdentTypes
<1>8. RegistryOK(ps, n)'
  <2>1. \A t \in active : t.user \in Users
    BY <1>0 DEF TokensOf
  <2> QED
    BY <1>0, <1>1, <1>3, <2>1 DEF RegistryOK
<1>9. IdentityCommandOK(p)'
  BY <1>5, <1>6 DEF IdentityCommandOK, SetupPlaces, DeletePlaces
<1>10. \A d \in ps : Gone(d) => Gone(d)'
  BY <1>3 DEF Gone
<1> QED
  BY <1>1, <1>6, <1>7, <1>8, <1>9, <1>10, RegistryMoves

\* The transaction of claim, login and recovery.
LEMMA LinkKept ==
  ASSUME NEW ps, NEW n \in Nat, NEW p \in ps, IdentityInv(ps, n), None \notin Users,
         NEW c \in CredsOf(ps, n), NEW u \in Users, NEW t \in TokensOf(ps, n),
         NEW s \in 0..n, NEW b \in BOOLEAN, NEW k \in Commands(ps, n),
         c = install[p], install[p] # None, installs[c].state = "live",
         account[u].state # "deleted", t.user = u, k.at = "persist",
         installs' = [installs EXCEPT ![c] = [state |-> installs[c].state, user |-> u, sub |-> FALSE]],
         account' = [account EXCEPT ![u] = [state |-> "live", secret |-> s, by |-> account[u].by, sub |-> b]],
         active' = active \cup {t}, cmd' = [cmd EXCEPT ![p] = k], IdentTypes(ps, n)',
         UNCHANGED <<boot, cred, install, ident, token, deletion>>
  PROVE  IdentityInv(ps, n)'
<1>0. /\ ServerTypes(ps, n) /\ RegistryOK(ps, n) /\ cmd \in [ps -> Commands(ps, n)]
      /\ installs \in [CredsOf(ps, n) -> InstallRows] /\ account \in [Users -> AccountRows(ps, n)]
      /\ active \subseteq TokensOf(ps, n)
  BY DeviceFacts DEF ServerTypes
<1>1. /\ installs' \in [CredsOf(ps, n) -> InstallRows]
      /\ installs'[c].state = "live" /\ installs'[c].user = u /\ ~installs'[c].sub
      /\ \A o \in CredsOf(ps, n) : o # c => installs'[o] = installs[o]
  <2>1. [state |-> installs[c].state, user |-> u, sub |-> FALSE] \in InstallRows
    BY <1>0 DEF InstallRows
  <2> QED
    BY <1>0, <2>1
<1>2. /\ account' \in [Users -> AccountRows(ps, n)]
      /\ account'[u].state = "live" /\ account'[u].by = account[u].by
      /\ \A v \in Users : v # u => account'[v] = account[v]
  <2>1. account[u].by \in ps \cup {None}
    BY <1>0 DEF AccountRows
  <2>2. [state |-> "live", secret |-> s, by |-> account[u].by, sub |-> b] \in AccountRows(ps, n)
    BY <2>1 DEF AccountRows
  <2> QED
    BY <1>0, <2>2
<1>3. ServerTypes(ps, n)'
  BY <1>0, <1>1, <1>2 DEF ServerTypes
<1>4. RegistryOK(ps, n)'
  <2>1. \A x \in active : x.user \in Users
    BY <1>0 DEF TokensOf
  <2>2. \A x \in active' : account'[x.user].state = "live"
    BY <1>0, <1>2, <2>1 DEF RegistryOK
  <2>3. \A v \in Users : account'[v].by # None => account'[v].state = "deleted"
    BY <1>0, <1>2 DEF RegistryOK
  <2>4. \A o \in CredsOf(ps, n) : installs'[o].state = "none" => installs'[o].user = None
    BY <1>0, <1>1 DEF RegistryOK
  <2>5. \A v \in Users, o \in CredsOf(ps, n) :
         account'[v].state = "deleted" /\ installs'[o].user = v => installs'[o].state # "live"
    BY <1>0, <1>1, <1>2 DEF RegistryOK
  <2> QED
    BY <2>2, <2>3, <2>4, <2>5 DEF RegistryOK
<1>5. \A d \in ps : Gone(d) => Gone(d)'
  <2>1. \A v \in Users : account'[v].by = account[v].by
    BY <1>2
  <2> QED
    BY <2>1 DEF Gone
<1>6. \A o \in CredsOf(ps, n) : installs'[o].sub => installs[o].sub \/ (o.dev = p /\ ident[p] = None)
  BY <1>1
<1>7. IdentityCommandOK(p)'
  <2>1. cmd'[p] = k
    BY <1>0
  <2> QED
    BY <1>1, <2>1 DEF IdentityCommandOK, SetupPlaces, DeletePlaces
<1> QED
  BY <1>3, <1>4, <1>5, <1>6, <1>7, RegistryMoves

LEMMA ClaimKept ==
  ASSUME NEW ps, NEW n \in Nat, NEW p \in ps, IdentityInv(ps, n), None \notin Users, D(ps, n)!Claim(p)
  PROVE  IdentityInv(ps, n)'
<1>0. /\ IdentTypes(ps, n) /\ DeviceOK(ps, n, p) /\ logins \in [ps -> 0..n] /\ secrets \in 0..n
      /\ install \in [ps -> CredsOf(ps, n) \cup {None}]
      /\ account \in [Users -> AccountRows(ps, n)] /\ installs \in [CredsOf(ps, n) -> InstallRows]
  BY DeviceFacts DEF ServerTypes
<1>1. /\ UNCHANGED <<boot, cred, install, ident, token, deletion, shown>>
      /\ install[p] # None /\ cred[p] # None /\ installs[cred[p]].state = "live"
      /\ logins[p] < n /\ secrets < n /\ secrets' = secrets + 1
      /\ logins' = [logins EXCEPT ![p] = logins[p] + 1]
  BY DEF D!Claim, D!HasInstallation, D!Authenticated, D!CanLogin, D!setupVars, D!identVars, Itself
<1>2. PICK u \in Users :
         /\ account[u].state = "free"
         /\ installs' = [installs EXCEPT ![cred[p]] = [state |-> installs[cred[p]].state, user |-> u, sub |-> FALSE]]
         /\ account' = [account EXCEPT ![u] = [state |-> "live", secret |-> secrets + 1, by |-> account[u].by,
                                               sub |-> account[u].sub \/ installs[cred[p]].sub]]
         /\ active' = active \cup {[dev |-> p, n |-> logins[p] + 1, user |-> u]}
         /\ cmd' = [cmd EXCEPT ![p] = [at |-> "persist", token |-> [dev |-> p, n |-> logins[p] + 1, user |-> u],
                                       secret |-> secrets + 1]]
  BY DEF D!Claim, D!Link, D!NewToken, D!Go, Itself
<1>3. PICK c \in CredsOf(ps, n) : c = install[p] /\ c = cred[p]
  BY <1>0, <1>1 DEF DeviceOK
<1>4. logins[p] + 1 \in 1..n /\ secrets + 1 \in 0..n
  BY <1>0, <1>1
<1>5. PICK t : t = [dev |-> p, n |-> logins[p] + 1, user |-> u]
  OBVIOUS
<1>6. t \in TokensOf(ps, n) /\ t.user = u
  BY <1>4, <1>5 DEF TokensOf
<1>7. PICK k : k = [at |-> "persist", token |-> t, secret |-> secrets + 1]
  OBVIOUS
<1>8. k \in ClaimCommands(ps, n) /\ k.at = "persist"
  BY <1>4, <1>6, <1>7 DEF ClaimCommands
<1>9. k \in Commands(ps, n)
  BY <1>8 DEF Commands
<1>10. PICK b \in BOOLEAN : b = (account[u].sub \/ installs[c].sub)
  OBVIOUS
<1>11. IdentTypes(ps, n)'
  <2>1. logins' \in [ps -> 0..n] /\ secrets' \in 0..n
    BY <1>0, <1>1, <1>4
  <2> QED
    BY <1>0, <1>1, <2>1 DEF IdentTypes
<1>12. PICK s \in 0..n : s = secrets + 1
  BY <1>4
<1>13. /\ installs' = [installs EXCEPT ![c] = [state |-> installs[c].state, user |-> u, sub |-> FALSE]]
       /\ account' = [account EXCEPT ![u] = [state |-> "live", secret |-> s, by |-> account[u].by, sub |-> b]]
       /\ active' = active \cup {t} /\ cmd' = [cmd EXCEPT ![p] = k]
  BY <1>2, <1>3, <1>5, <1>7, <1>10, <1>12
<1>14. installs[c].state = "live" /\ account[u].state # "deleted"
  BY <1>1, <1>2, <1>3
<1> QED
  BY <1>1, <1>3, <1>6, <1>8, <1>9, <1>11, <1>13, <1>14, LinkKept

LEMMA LoginReadKept ==
  ASSUME NEW ps, NEW n \in Nat, NEW p \in ps, IdentityInv(ps, n), D(ps, n)!LoginRead(p)
  PROVE  IdentityInv(ps, n)'
<1>0. /\ IdentTypes(ps, n) /\ DeviceOK(ps, n, p) /\ logins \in [ps -> 0..n] /\ secrets \in 0..n
      /\ cmd \in [ps -> Commands(ps, n)]
      /\ install \in [ps -> CredsOf(ps, n) \cup {None}] /\ cred \in [ps -> CredsOf(ps, n) \cup {None}]
  BY DeviceFacts
<1>1. /\ UNCHANGED <<installs, account, active, boot, cred, install, ident, token, deletion, shown>>
      /\ install[p] # None /\ cred[p] # None /\ logins[p] < n
      /\ logins' = [logins EXCEPT ![p] = logins[p] + 1]
  BY DEF D!LoginRead, D!HasInstallation, D!CanLogin, D!serverVars, D!setupVars, D!identVars, Itself
<1>2. PICK u \in Users, s \in {0} \cup (IF secrets < n THEN {secrets + 1} ELSE {}) :
         /\ secrets' = IF s # 0 THEN s ELSE secrets
         /\ cmd' = [cmd EXCEPT ![p] = [at |-> "login", cred |-> cred[p],
                                       token |-> [dev |-> p, n |-> logins[p] + 1, user |-> u], secret |-> s]]
  BY DEF D!LoginRead, D!Live, D!NewToken, D!Go, Itself
<1>3. s \in 0..n /\ secrets' \in 0..n /\ logins[p] + 1 \in 1..n
  BY <1>0, <1>1, <1>2
<1>4. cred[p] = install[p] /\ cred[p] \in CredsOf(ps, n)
  BY <1>0, <1>1 DEF DeviceOK
<1>5. PICK t : t = [dev |-> p, n |-> logins[p] + 1, user |-> u]
  OBVIOUS
<1>6. t \in TokensOf(ps, n)
  BY <1>3, <1>5 DEF TokensOf
<1>7. PICK k : k = [at |-> "login", cred |-> cred[p], token |-> t, secret |-> s]
  OBVIOUS
<1>8. k \in LoginCommands(ps, n) /\ k.at = "login" /\ k.cred = cred[p]
  BY <1>3, <1>4, <1>6, <1>7 DEF LoginCommands
<1>9. k \in Commands(ps, n) /\ cmd' = [cmd EXCEPT ![p] = k] /\ cmd'[p] = k
  BY <1>0, <1>2, <1>5, <1>7, <1>8 DEF Commands
<1>10. IdentTypes(ps, n)'
  <2>1. logins' \in [ps -> 0..n]
    BY <1>0, <1>1, <1>3
  <2> QED
    BY <1>0, <1>1, <1>3, <2>1 DEF IdentTypes
<1>11. IdentityCommandOK(p)'
  BY <1>1, <1>4, <1>8, <1>9 DEF IdentityCommandOK, SetupPlaces, DeletePlaces
<1>12. DeviceOK(ps, n, p)'
  BY <1>0, <1>1 DEF DeviceOK, Gone
<1> QED
  BY <1>0, <1>1, <1>9, <1>10, <1>11, <1>12, DeviceMoves

LEMMA LoginCommitKept ==
  ASSUME NEW ps, NEW n \in Nat, NEW p \in ps, None \notin CredsOf(ps, n), None \notin Users,
         IdentityInv(ps, n), D(ps, n)!LoginCommit(p)
  PROVE  IdentityInv(ps, n)'
<1>0. /\ IdentTypes(ps, n) /\ IdentityCommandOK(p) /\ cmd[p] \in Commands(ps, n)
      /\ account \in [Users -> AccountRows(ps, n)] /\ installs \in [CredsOf(ps, n) -> InstallRows]
  BY DeviceFacts DEF ServerTypes
<1>1. /\ UNCHANGED <<boot, cred, install, ident, token, deletion, logins, secrets, shown>>
      /\ cmd[p].at = "login"
  BY DEF D!LoginCommit, D!setupVars, D!identVars, D!secretVars
<1>2. PICK q \in LoginCommands(ps, n) : q = cmd[p]
  BY <1>0, <1>1, CommandFacts
<1>3. /\ q.cred \in CredsOf(ps, n) /\ q.token \in TokensOf(ps, n) /\ q.token.user \in Users /\ q.secret \in 0..n
      /\ q.cred = install[p] /\ install[p] # None
  BY <1>0, <1>1, <1>2 DEF LoginCommands, TokensOf, IdentityCommandOK
<1>4. PICK c \in CredsOf(ps, n), t \in TokensOf(ps, n), u \in Users, s \in 0..n :
         c = q.cred /\ t = q.token /\ u = q.token.user /\ s = q.secret
  BY <1>3
<1>5. CASE ~(account[u].state = "live" /\ D(ps, n)!Linkable(c, u))
  <2>1. UNCHANGED <<installs, account, active>> /\ cmd' = [cmd EXCEPT ![p] = [at |-> "idle"]]
    BY <1>2, <1>4, <1>5 DEF D!LoginCommit, D!Finished, D!Idle, D!Go, D!serverVars
  <2> QED
    BY <1>1, <2>1, StopKept
<1>6. CASE account[u].state = "live" /\ D(ps, n)!Linkable(c, u)
  <2>1. PICK a : a = IF s # 0 THEN [account[u] EXCEPT !.secret = s] ELSE account[u]
    OBVIOUS
  <2>2. /\ D(ps, n)!Link(c, u, t, a) /\ cmd' = [cmd EXCEPT ![p] = [q EXCEPT !.at = "persist"]]
    BY <1>2, <1>4, <1>6, <2>1 DEF D!LoginCommit, D!Then, D!Go
  <2>3. a.state = "live" /\ a.secret \in 0..n /\ a.by = account[u].by
    BY <1>0, <1>6, <2>1 DEF AccountRows
  <2>4. PICK x \in Commands(ps, n) : x = [q EXCEPT !.at = "persist"] /\ x.at = "persist"
    <3>1. q \in LoginCommands(ps, n) \cup ClaimCommands(ps, n)
      OBVIOUS
    <3> QED
      BY <3>1, SessionThen
  <2>5. PICK b \in BOOLEAN : b = (a.sub \/ installs[c].sub)
    OBVIOUS
  <2>6. PICK r \in 0..n : r = a.secret
    BY <2>3
  <2>7. /\ installs' = [installs EXCEPT ![c] = [state |-> installs[c].state, user |-> u, sub |-> FALSE]]
        /\ account' = [account EXCEPT ![u] = [state |-> a.state, secret |-> a.secret, by |-> a.by,
                                              sub |-> a.sub \/ installs[c].sub]]
        /\ active' = active \cup {t}
    BY <2>2 DEF D!Link
  <2>8. account' = [account EXCEPT ![u] = [state |-> "live", secret |-> r, by |-> account[u].by, sub |-> b]]
    BY <2>3, <2>5, <2>6, <2>7
  <2>9. IdentTypes(ps, n)'
    BY <1>0, <1>1 DEF IdentTypes
  <2>10. /\ installs[c].state = "live" /\ c = install[p] /\ t.user = u /\ account[u].state # "deleted"
         /\ cmd' = [cmd EXCEPT ![p] = x]
    BY <1>3, <1>4, <1>6, <2>2, <2>4 DEF D!Linkable
  <2>11. /\ installs' = [installs EXCEPT ![c] = [state |-> installs[c].state, user |-> u, sub |-> FALSE]]
         /\ active' = active \cup {t} /\ x.at = "persist" /\ install[p] # None
    BY <1>3, <2>4, <2>7
  <2>12. UNCHANGED <<boot, cred, install, ident, token, deletion>>
    BY <1>1
  <2> QED
    BY <2>8, <2>9, <2>10, <2>11, <2>12, LinkKept
<1> QED
  BY <1>5, <1>6

LEMMA DeleteSendKept ==
  ASSUME NEW ps, NEW n \in Nat, NEW p \in ps, None \notin ps, None \notin Users, IdentityInv(ps, n),
         D(ps, n)!DeleteSend(p)
  PROVE  IdentityInv(ps, n)'
<1>0. /\ ServerTypes(ps, n) /\ IdentTypes(ps, n) /\ RegistryOK(ps, n) /\ IdentityCommandOK(p)
      /\ cmd[p] \in Commands(ps, n) /\ cmd \in [ps -> Commands(ps, n)] /\ active \subseteq TokensOf(ps, n)
      /\ account \in [Users -> AccountRows(ps, n)] /\ installs \in [CredsOf(ps, n) -> InstallRows]
  BY DeviceFacts DEF ServerTypes
<1>1. /\ UNCHANGED <<boot, cred, install, ident, token, deletion, logins, secrets, shown>>
      /\ cmd[p].at = "delete"
  BY DEF D!DeleteSend, D!setupVars, D!identVars, D!secretVars
<1>2. PICK q : q = cmd[p]
  OBVIOUS
<1>3. q \in BareCommands \cup DeleteCommands(ps, n)
  BY <1>0, <1>1, <1>2, CommandFacts DEF DeletePlaces
<1>4. PICK t : t = q.token
  OBVIOUS
<1>5. \/ UNCHANGED <<installs, account, active>> /\ cmd' = [cmd EXCEPT ![p] = [at |-> "idle"]]
      \/ /\ account[t.user].by = p /\ UNCHANGED <<installs, account, active>>
         /\ cmd' = [cmd EXCEPT ![p] = [q EXCEPT !.at = "stage_delete"]]
      \/ /\ t \in active /\ D(ps, n)!Deleted(t.user, p)
         /\ cmd' = [cmd EXCEPT ![p] = [q EXCEPT !.at = "stage_delete"]]
  BY <1>2, <1>4 DEF D!DeleteSend, D!Then, D!Go, D!Finished, D!Idle, D!serverVars, Itself
<1>6. CASE UNCHANGED <<installs, account, active>> /\ cmd' = [cmd EXCEPT ![p] = [at |-> "idle"]]
  BY <1>1, <1>6, StopKept
<1>7. PICK k \in Commands(ps, n) : k = [q EXCEPT !.at = "stage_delete"] /\ k.at = "stage_delete"
  <2>1. q \in BareCommands \/ q \in DeleteCommands(ps, n)
    BY <1>3
  <2>2. PICK next \in DeletePlaces \ {"delete"} : next = "stage_delete"
    BY DEF DeletePlaces
  <2>3. \E x \in Commands(ps, n) : x = [q EXCEPT !.at = next] /\ x.at = next
    BY <2>1, <2>2, DeleteThen
  <2> QED
    BY <2>2, <2>3
<1>8. ASSUME cmd' = [cmd EXCEPT ![p] = k], Gone(p)'
      PROVE  IdentityCommandOK(p)'
  <2>1. cmd'[p] = k
    BY <1>0, <1>8
  <2> QED
    BY <1>7, <1>8, <2>1 DEF IdentityCommandOK, SetupPlaces, DeletePlaces
<1>9. CASE /\ account[t.user].by = p /\ UNCHANGED <<installs, account, active>>
           /\ cmd' = [cmd EXCEPT ![p] = [q EXCEPT !.at = "stage_delete"]]
  <2>1. t.user \in Users
    <3>1. q \in DeleteCommands(ps, n) /\ t # None
      BY <1>0, <1>1, <1>2, <1>4, CommandFacts DEF IdentityCommandOK
    <3> QED
      BY <1>4, <3>1 DEF DeleteCommands, TokensOf
  <2>2. Gone(p)'
    BY <1>9, <2>1 DEF Gone
  <2>3. cmd' = [cmd EXCEPT ![p] = k]
    BY <1>7, <1>9
  <2> QED
    BY <1>1, <1>8, <1>9, <2>2, <2>3, OnlyCommandMoves
<1>10. CASE /\ t \in active /\ D(ps, n)!Deleted(t.user, p)
            /\ cmd' = [cmd EXCEPT ![p] = [q EXCEPT !.at = "stage_delete"]]
  <2>1. PICK u \in Users : u = t.user
    BY <1>0, <1>10 DEF TokensOf
  <2>2. /\ account' = [account EXCEPT ![u] = [state |-> "deleted", secret |-> 0, sub |-> FALSE, by |-> p]]
        /\ active' = {x \in active : x.user # u}
    BY <1>10, <2>1 DEF D!Deleted
  <2>3. installs' = [c \in CredsOf(ps, n) |-> IF installs[c].user = u
                                    THEN [state |-> "revoked", user |-> u, sub |-> FALSE]
                                    ELSE installs[c]]
    BY <1>10, <2>1, IdentitySets DEF D!Deleted
  <2>4. account[u].state = "live" /\ account[u].by = None
    BY <1>0, <1>10, <2>1 DEF RegistryOK
  <2>5. /\ account' \in [Users -> AccountRows(ps, n)]
        /\ account'[u].state = "deleted" /\ account'[u].by = p
        /\ \A v \in Users : v # u => account'[v] = account[v]
    <3>1. [state |-> "deleted", secret |-> 0, sub |-> FALSE, by |-> p] \in AccountRows(ps, n)
      BY DEF AccountRows
    <3> QED
      BY <1>0, <2>2, <3>1
  <2>6. /\ installs' \in [CredsOf(ps, n) -> InstallRows]
        /\ \A c \in CredsOf(ps, n) :
             /\ installs[c].user = u => /\ installs'[c].state = "revoked" /\ installs'[c].user = u
                                        /\ ~installs'[c].sub
             /\ installs[c].user # u => installs'[c] = installs[c]
    <3>1. [state |-> "revoked", user |-> u, sub |-> FALSE] \in InstallRows
      BY DEF InstallRows
    <3> QED
      BY <1>0, <2>3, <3>1
  <2>7. ServerTypes(ps, n)' /\ IdentTypes(ps, n)'
    BY <1>0, <1>1, <2>2, <2>5, <2>6 DEF ServerTypes, IdentTypes
  <2>8. RegistryOK(ps, n)'
    <3>1. \A x \in active' : account'[x.user].state = "live"
      <4>1. \A x \in active : x.user \in Users
        BY <1>0 DEF TokensOf
      <4> QED
        BY <1>0, <2>2, <2>5, <4>1 DEF RegistryOK
    <3>2. \A v \in Users : account'[v].by # None => account'[v].state = "deleted"
      BY <1>0, <2>5 DEF RegistryOK
    <3>3. \A c \in CredsOf(ps, n) : installs'[c].state = "none" => installs'[c].user = None
      BY <1>0, <2>6 DEF RegistryOK
    <3>4. \A v \in Users, c \in CredsOf(ps, n) :
           account'[v].state = "deleted" /\ installs'[c].user = v => installs'[c].state # "live"
      BY <1>0, <2>5, <2>6 DEF RegistryOK
    <3> QED
      BY <3>1, <3>2, <3>3, <3>4 DEF RegistryOK
  <2>9. Gone(p)' /\ \A d \in ps : Gone(d) => Gone(d)'
    BY <2>4, <2>5 DEF Gone
  <2>10. cmd' = [cmd EXCEPT ![p] = k]
    BY <1>7, <1>10
  <2>11. \A c \in CredsOf(ps, n) : installs'[c].sub => installs[c].sub \/ (c.dev = p /\ ident[p] = None)
    BY <2>6
  <2> QED
    BY <1>1, <1>8, <2>7, <2>8, <2>9, <2>10, <2>11, RegistryMoves
<1> QED
  BY <1>5, <1>6, <1>7, <1>9, <1>10

LEMMA IdentityKept ==
  ASSUME NEW ps, NEW n \in Nat, None \notin ps, None \notin Users, None \notin CredsOf(ps, n),
         IdentityInv(ps, n), D(ps, n)!IdentityNext \/ UNCHANGED identityVars
  PROVE  IdentityInv(ps, n)'
<1>1. CASE UNCHANGED identityVars
  <2>1. /\ installs' = installs /\ account' = account /\ active' = active /\ boot' = boot /\ cred' = cred
        /\ install' = install /\ ident' = ident /\ token' = token /\ deletion' = deletion
        /\ logins' = logins /\ secrets' = secrets /\ shown' = shown /\ cmd' = cmd
    BY <1>1 DEF identityVars
  <2> QED
    BY <2>1 DEF IdentityInv, ServerTypes, SetupTypes, IdentTypes, RegistryOK, DeviceOK, IdentityCommandOK, Gone
<1>2. ASSUME NEW p \in ps,
             \/ D(ps, n)!CommandStart(p) \/ D(ps, n)!SetupStep(p) \/ D(ps, n)!DeleteStep(p)
             \/ D(ps, n)!SessionStep(p) \/ D(ps, n)!Stop(p)
      PROVE  IdentityInv(ps, n)'
  <2>1. CASE D(ps, n)!CommandStart(p)
    BY <2>1, SetupPlanKept, SetupEndKept, ClaimKept, LoginReadKept, BackupKept, RevokeKept,
       SubscribeReadKept, DeletePlanKept DEF D!CommandStart
  <2>2. CASE D(ps, n)!SetupStep(p)
    <3>1. CASE D(ps, n)!SetupStage(p) \/ D(ps, n)!SetupVerified(p) \/ D(ps, n)!SetupSwitched(p)
      <4>1. /\ "stage" \in SetupPlaces \ {"store"} /\ "register" \in SetupPlaces \ {"store"}
            /\ "registered" \in SetupPlaces \ {"store"} /\ "activate" \in SetupPlaces \ {"store"}
            /\ "switch" \in SetupPlaces \ {"store"} /\ "check" \in SetupPlaces \ {"store"}
        BY DEF SetupPlaces
      <4> QED
        BY <3>1, <4>1, AdvanceJournal DEF D!SetupStage, D!SetupVerified, D!SetupSwitched
    <3>2. CASE \/ D(ps, n)!SetupStore(p) \/ D(ps, n)!Register(p) \/ D(ps, n)!SetupActivate(p)
               \/ D(ps, n)!SetupComplete(p)
      BY <3>2, SetupStoreKept, RegisterKept, SetupEndKept
    <3> QED
      BY <2>2, <3>1, <3>2 DEF D!SetupStep
  <2>3. CASE D(ps, n)!DeleteStep(p)
    BY <2>3, DeleteSendKept, DeleteJournalKept, DropKept DEF D!DeleteStep
  <2>4. CASE D(ps, n)!SessionStep(p)
    BY <2>4, LoginCommitKept, PersistKept, ShowKept, ForgetKept, SubscribeCommitKept DEF D!SessionStep
  <2>5. CASE D(ps, n)!Stop(p)
    BY <2>5, StopKept DEF D!Stop, D!Finished, D!Go, D!Idle, D!serverVars, D!setupVars, D!identVars, D!secretVars
  <2> QED
    BY <1>2, <2>1, <2>2, <2>3, <2>4, <2>5
<1> QED
  BY <1>1, <1>2 DEF D!IdentityNext

LEMMA IdentityInvSafe ==
  ASSUME NEW ps, NEW n \in Nat, IdentityInv(ps, n)
  PROVE  /\ D(ps, n)!IdentityTypeOK /\ D(ps, n)!DeletedIsInert /\ D(ps, n)!SetupResumable
         /\ D(ps, n)!AnonymousStateAdopted
<1>0. /\ ServerTypes(ps, n) /\ SetupTypes(ps, n) /\ IdentTypes(ps, n) /\ RegistryOK(ps, n)
      /\ \A d \in ps : DeviceOK(ps, n, d)
  BY DEF IdentityInv
<1>1. D(ps, n)!IdentityTypeOK
  <2>1. \A d \in ps : cred[d] \in CredsOf(ps, n) \cup {None} /\ install[d] \in CredsOf(ps, n) \cup {None}
    BY <1>0 DEF SetupTypes
  <2>2. \A d \in ps : ident[d] # None => ident[d].user \in Users /\ ident[d].token \in TokensOf(ps, n) \cup {None}
    BY <1>0 DEF IdentTypes, IdentRows
  <2> QED
    BY <1>0, <2>1, <2>2, IdentitySets DEF D!IdentityTypeOK, ServerTypes, SetupTypes, IdentTypes,
       InstallRows, AccountRows, Journals
<1>2. D(ps, n)!DeletedIsInert
  <2>1. \A t \in active : t.user \in Users
    BY <1>0 DEF ServerTypes, TokensOf
  <2>2. \A u \in Users : account[u].state = "deleted" => \A t \in active : t.user # u
    BY <1>0, <2>1 DEF RegistryOK
  <2> QED
    BY <1>0, <2>2, IdentitySets DEF D!DeletedIsInert, RegistryOK
<1>3. D(ps, n)!SetupResumable
  <2> SUFFICES ASSUME NEW d \in ps, NEW j, j = D(ps, n)!Journal(d), j # None, boot[j] # "planned"
               PROVE  cred[d] = j \/ \E u \in Users : account[u].by = d
    BY IdentitySets DEF D!SetupResumable
  <2>1. j \in CredsOf(ps, n) /\ j.dev = d /\ boot[j] \notin {"none", "complete"}
    BY <1>0, JournalIsOpen
  <2>2. boot[j] \in {"staged", "verified", "switched"}
    BY <1>0, <2>1 DEF SetupTypes, Journals
  <2> QED
    BY <1>0, <2>1, <2>2 DEF DeviceOK, Gone
<1>4. D(ps, n)!AnonymousStateAdopted
  BY <1>0, IdentitySets DEF D!AnonymousStateAdopted, DeviceOK
<1> QED
  BY <1>1, <1>2, <1>3, <1>4

-------------------------------------------------------------------------------
(* The derived view: the inductive invariant *)

Shown == views[shownRev]
Trees == DOMAIN origin

\* u is t or was edited from it, when f tells which tree each was edited from.
Follows(f, t, u) ==
    \A S \in SUBSET DOMAIN f :
        t \in S /\ (\A s \in DOMAIN f : f[s] \in S => s \in S) => u \in S

ViewTypes ==
    /\ \E k \in 0..MaxTrees : Trees = 0..k
    /\ origin \in [Trees -> Trees]
    /\ {canonTree, shownRev, matRev, headRev, capturedTree, agreed} \subseteq Trees
    /\ queuedRev \in Trees \cup {None} /\ paused \in BOOLEAN
    /\ views \in [0..MaxTrees -> Trees \cup {Headless, Partial} \cup {None}]
    /\ wb = None \/ wb \in [state : {"planned", "staged", "verified", "switched"}, tree : Trees]
    /\ viewSync \in [at : {"idle", "before", "recover", "read", "write", "refresh", "copy",
                           "scan", "upload", "materialize", "project"},
                     target : Trees \cup {None}]

\* What is known of both sides and of the writeback at each step of a sync.
ViewAt ==
    /\ viewSync.at \in {"recover", "read", "write", "refresh", "scan", "upload", "materialize"}
         => Shown \notin {None, Headless}
    /\ viewSync.at \in {"read", "refresh", "copy", "scan", "upload", "materialize", "project"} => wb = None
    /\ viewSync.at \in {"scan", "upload", "materialize"} /\ ~ paused => canonTree = agreed /\ Shown = agreed
    /\ viewSync.at \in {"upload", "materialize"} /\ ~ paused => capturedTree = canonTree
    /\ viewSync.at \in {"refresh", "copy"} => canonTree # agreed /\ viewSync.target = canonTree
    /\ viewSync.at = "refresh" => Shown = agreed
    /\ viewSync.at = "copy" => Shown = None

\* The harnesses show the view of the materialized revision; only between a
\* materialization and its projection do they still show the one before.
Projected ==
    matRev # shownRev =>
        /\ viewSync.at = "project"
        /\ canonTree = matRev /\ headRev = matRev /\ capturedTree = matRev
        /\ queuedRev = None /\ views[matRev] = None /\ Shown = agreed

\* The trees follow one another: the sides come from the baseline, and the
\* baseline from what is materialized.
InLine ==
    /\ Follows(origin, agreed, canonTree) /\ Follows(origin, capturedTree, canonTree)
    /\ Shown \in Trees => Follows(origin, agreed, Shown)
    /\ matRev = shownRev => Follows(origin, matRev, agreed)
    /\ queuedRev # None => queuedRev = capturedTree
    /\ queuedRev = None => Follows(origin, capturedTree, headRev)

\* A half-made copy is only there while the canonical side is ahead of it, and
\* an open writeback carries the one side that changed.
SideChanged ==
    /\ Shown \in {Headless, Partial} => canonTree # agreed /\ wb = None
    /\ wb # None => /\ Shown = wb.tree
                    /\ IF wb.state = "switched" THEN canonTree = wb.tree
                       ELSE canonTree = agreed /\ wb.tree # agreed

\* A save the registry would take is the tree on show, on the canonical side and
\* in the view; a pause lasts while both sides differ from the baseline and from
\* one another.  The first is what a user who edits before the upload breaks.
Waiting ==
    /\ queuedRev # None /\ headRev = matRev =>
         /\ canonTree = capturedTree /\ Shown \in {None, canonTree} /\ wb = None /\ ~ paused
         /\ viewSync.at \notin {"refresh", "copy", "write"}
    /\ paused => /\ Shown \notin {None, Headless, canonTree, agreed} /\ canonTree # agreed /\ wb = None
                 /\ viewSync.at \notin {"refresh", "copy", "write", "scan"}

\* A tree that is not materialized yet has no view of its own yet.
Unseen(t) == t # matRev /\ views[t] = None
NewTrees ==
    /\ \A r \in 0..MaxTrees : views[r] # None => r \in Trees
    /\ canonTree # capturedTree => Unseen(canonTree)
    /\ queuedRev # None => Unseen(queuedRev)
    /\ Shown \in Trees /\ Shown # agreed => Unseen(Shown)
    /\ headRev # matRev => views[headRev] = None

\* Every tree is followed by one that a side shows, the queue or the head.
Saved ==
    \A t \in Trees : \E u \in {canonTree, Shown, headRev, queuedRev} \cap Trees :
        Follows(origin, t, u)

ViewInv ==
    ViewTypes /\ ViewAt /\ Projected /\ InLine /\ SideChanged /\ Waiting /\ NewTrees /\ Saved

LEMMA FollowsSelf == \A f : \A t \in DOMAIN f : Follows(f, t, t)
  BY DEF Follows

LEMMA FollowsOn ==
  ASSUME NEW f, NEW t, NEW u, NEW v, Follows(f, t, u), Follows(f, u, v)
  PROVE  Follows(f, t, v)
  BY DEF Follows

\* A new tree follows the one it was edited from, and the others stay in line.
LEMMA FollowsNew ==
  ASSUME NEW k \in Nat, NEW f \in [0..k -> 0..k], NEW from \in 0..k, NEW g,
         g = [s \in 0..k \cup {k + 1} |-> IF s \in 0..k THEN f[s] ELSE from]
  PROVE  /\ \A t, u \in 0..k : Follows(f, t, u) => Follows(g, t, u)
         /\ Follows(g, from, k + 1)
         /\ \A t \in 0..k : Follows(f, t, from) => Follows(g, t, k + 1)
<1>0. DOMAIN f = 0..k /\ DOMAIN g = 0..k \cup {k + 1} /\ k + 1 \notin 0..k
  OBVIOUS
<1>1. ASSUME NEW t \in 0..k, NEW u \in 0..k, Follows(f, t, u)
      PROVE  Follows(g, t, u)
  <2> SUFFICES ASSUME NEW S \in SUBSET DOMAIN g, t \in S, \A s \in DOMAIN g : g[s] \in S => s \in S
               PROVE  u \in S
    BY DEF Follows
  <2> DEFINE T == S \cap (0..k)
  <2>1. T \in SUBSET DOMAIN f /\ t \in T
    BY <1>0
  <2>2. \A s \in DOMAIN f : f[s] \in T => s \in T
    BY <1>0
  <2> HIDE DEF T
  <2>3. u \in T
    BY <1>1, <2>1, <2>2 DEF Follows
  <2> QED
    BY <2>3 DEF T
<1>2. Follows(g, from, k + 1)
  <2>1. g[k + 1] = from
    BY <1>0
  <2> QED
    BY <1>0, <2>1 DEF Follows
<1>3. ASSUME NEW t \in 0..k, Follows(f, t, from)
      PROVE  Follows(g, t, k + 1)
  BY <1>1, <1>2, <1>3, FollowsOn
<1> QED
  BY <1>1, <1>2, <1>3

LEMMA DerivesIsFollows == \A t, u : DV!Derives(t, u) <=> Follows(origin, t, u)
  BY DEF DV!Derives, Follows, DV!Made

LEMMA ViewInitial == DV!DerivedInit => ViewInv
<1> SUFFICES ASSUME DV!DerivedInit PROVE ViewInv
  OBVIOUS
<1> USE ViewAssumption DEF DV!DerivedInit, DV!Quiet, Trees, Shown
<1>1. Trees = 0..0 /\ Trees = {0} /\ origin[0] = 0 /\ 0 \in 0..MaxTrees /\ Shown = 0
  OBVIOUS
<1>2. Follows(origin, 0, 0)
  BY <1>1, FollowsSelf
<1>3. ViewTypes
  BY <1>1 DEF ViewTypes
<1>4. ViewAt /\ Projected /\ SideChanged /\ Waiting
  BY <1>1 DEF ViewAt, Projected, SideChanged, Waiting
<1>5. InLine /\ Saved
  BY <1>1, <1>2 DEF InLine, Saved
<1>6. NewTrees
  BY <1>1 DEF NewTrees, Unseen
<1> QED
  BY <1>3, <1>4, <1>5, <1>6 DEF ViewInv

\* The next tree is the successor of the latest.
LEMMA MakeFacts ==
  ASSUME ViewTypes, NEW from \in Trees, DV!Make(from)
  PROVE  \E k \in Nat :
           /\ Trees = 0..k /\ k + 1 \in 0..MaxTrees /\ DV!NextTree = k + 1
           /\ Trees' = 0..(k + 1) /\ origin' \in [0..(k + 1) -> 0..(k + 1)]
           /\ \A t, u \in Trees : Follows(origin, t, u) => Follows(origin', t, u)
           /\ \A t \in Trees : Follows(origin, t, from) => Follows(origin', t, k + 1)
           /\ Follows(origin', k + 1, k + 1)
<1>1. PICK k \in 0..MaxTrees : Trees = 0..k
  BY DEF ViewTypes
<1>2. k \in Nat /\ k < MaxTrees
  BY <1>1, ViewAssumption DEF DV!Make, DV!Made, Trees
<1>3. DV!NextTree = k + 1
  <2> DEFINE P(n) == n \notin DV!Made /\ \A m \in 0..(n - 1) : m \in DV!Made
  <2>1. DV!Made = 0..k
    BY <1>1 DEF DV!Made, Trees
  <2>2. k + 1 \in 0..MaxTrees /\ P(k + 1)
    BY <1>2, <2>1, ViewAssumption
  <2>3. \A n \in 0..MaxTrees : P(n) => n = k + 1
    <3> SUFFICES ASSUME NEW n \in 0..MaxTrees, P(n) PROVE n = k + 1
      OBVIOUS
    <3>1. n > k
      BY <1>2, <2>1, ViewAssumption
    <3>2. n - 1 \in 0..(n - 1)
      BY <1>2, <3>1, ViewAssumption
    <3>3. n - 1 \in 0..k
      BY <2>1, <3>2
    <3> QED
      BY <1>2, <3>1, <3>3, ViewAssumption
  <2> HIDE DEF P
  <2>4. DV!NextTree = CHOOSE n \in 0..MaxTrees : P(n)
    BY DEF DV!NextTree, P
  <2> QED
    BY <2>2, <2>3, <2>4
<1>4. /\ origin' = [s \in 0..k \cup {k + 1} |-> IF s \in 0..k THEN origin[s] ELSE from]
      /\ origin \in [0..k -> 0..k] /\ from \in 0..k
  BY <1>1, <1>3 DEF DV!Make, DV!Made, Trees, ViewTypes
<1>5. 0..k \cup {k + 1} = 0..(k + 1)
  BY <1>2
<1>6. Trees' = 0..(k + 1) /\ origin' \in [0..(k + 1) -> 0..(k + 1)]
  <2>1. ASSUME NEW s \in 0..(k + 1)
        PROVE  (IF s \in 0..k THEN origin[s] ELSE from) \in 0..(k + 1)
    <3>1. (IF s \in 0..k THEN origin[s] ELSE from) \in 0..k
      BY <1>4
    <3> QED
      BY <1>5, <3>1
  <2>2. origin' = [s \in 0..(k + 1) |-> IF s \in 0..k THEN origin[s] ELSE from]
    BY <1>4, <1>5
  <2> QED
    BY <2>1, <2>2 DEF Trees
<1>7. /\ \A t, u \in 0..k : Follows(origin, t, u) => Follows(origin', t, u)
      /\ \A t \in 0..k : Follows(origin, t, from) => Follows(origin', t, k + 1)
  <2>1. \A f \in [0..k -> 0..k], a \in 0..k : \A g :
          g = [s \in 0..k \cup {k + 1} |-> IF s \in 0..k THEN f[s] ELSE a]
            => /\ \A t, u \in 0..k : Follows(f, t, u) => Follows(g, t, u)
               /\ \A t \in 0..k : Follows(f, t, a) => Follows(g, t, k + 1)
    BY <1>2, FollowsNew
  <2>2. \A g : g = [s \in 0..k \cup {k + 1} |-> IF s \in 0..k THEN origin[s] ELSE from]
            => /\ \A t, u \in 0..k : Follows(origin, t, u) => Follows(g, t, u)
               /\ \A t \in 0..k : Follows(origin, t, from) => Follows(g, t, k + 1)
    BY <1>4, <2>1, Zenon
  <2> QED
    BY <1>4, <2>2, Zenon
<1>8. Follows(origin', k + 1, k + 1)
  BY <1>2, <1>6, FollowsSelf DEF Trees
<1> QED
  <2>1. k + 1 \in 0..MaxTrees /\ k \in Nat
    BY <1>2, ViewAssumption
  <2> QED
    BY <1>1, <1>3, <1>6, <1>7, <1>8, <2>1

LEMMA ViewFacts ==
  ASSUME ViewTypes
  PROVE  /\ Trees \subseteq 0..MaxTrees /\ Trees \subseteq Nat
         /\ None \notin Trees /\ Headless \notin Trees /\ Partial \notin Trees
         /\ canonTree \in Trees /\ shownRev \in Trees /\ matRev \in Trees /\ headRev \in Trees
         /\ capturedTree \in Trees /\ agreed \in Trees
         /\ \A r \in 0..MaxTrees : views[r] \in Trees \cup {Headless, Partial, None}
         /\ \A r \in 0..MaxTrees : \A v : [views EXCEPT ![r] = v][r] = v
         /\ \A step : [viewSync EXCEPT !.at = step] = [at |-> step, target |-> viewSync.target]
         /\ viewSync.target \in Trees \cup {None}
         /\ wb # None => /\ wb.tree \in Trees
                         /\ wb.state \in {"planned", "staged", "verified", "switched"}
                         /\ \A st : [wb EXCEPT !.state = st] = [state |-> st, tree |-> wb.tree]
<1>1. PICK k \in 0..MaxTrees : Trees = 0..k
  BY DEF ViewTypes
<1>2. /\ Trees \subseteq 0..MaxTrees /\ Trees \subseteq Nat
      /\ None \notin Trees /\ Headless \notin Trees /\ Partial \notin Trees
  BY <1>1, ViewAssumption
<1>3. \A r \in 0..MaxTrees : views[r] \in Trees \cup {Headless, Partial, None}
  BY DEF ViewTypes
<1>4. \A r \in 0..MaxTrees : \A v : [views EXCEPT ![r] = v][r] = v
  BY DEF ViewTypes
<1>5. /\ \A step : [viewSync EXCEPT !.at = step] = [at |-> step, target |-> viewSync.target]
      /\ viewSync.target \in Trees \cup {None}
  BY DEF ViewTypes
<1>6. wb # None => /\ wb.tree \in Trees
                   /\ wb.state \in {"planned", "staged", "verified", "switched"}
                   /\ \A st : [wb EXCEPT !.state = st] = [state |-> st, tree |-> wb.tree]
  BY DEF ViewTypes
<1> QED
  BY <1>2, <1>3, <1>4, <1>5, <1>6 DEF ViewTypes

SyncSteps == {"idle", "before", "recover", "read", "write", "refresh", "copy", "scan", "upload",
              "materialize", "project"}

\* A step of the sync that makes no tree keeps the types.
LEMMA ViewTypesKept ==
  ASSUME ViewTypes, origin' = origin,
         canonTree' \in Trees, shownRev' \in Trees, matRev' \in Trees, headRev' \in Trees,
         capturedTree' \in Trees, agreed' \in Trees, queuedRev' \in Trees \cup {None}, paused' \in BOOLEAN,
         views' \in [0..MaxTrees -> Trees \cup {Headless, Partial} \cup {None}],
         wb' \in {None, wb} \/ wb' \in [state : {"planned", "staged", "verified", "switched"}, tree : Trees],
         viewSync' = viewSync \/ viewSync' \in [at : SyncSteps, target : Trees \cup {None}]
  PROVE  ViewTypes'
<1>1. Trees' = Trees
  BY DEF Trees
<1> QED
  BY <1>1 DEF ViewTypes, SyncSteps

LEMMA SyncStepType ==
  ASSUME NEW step \in SyncSteps, NEW t \in Trees \cup {None}
  PROVE  [at |-> step, target |-> t] \in [at : SyncSteps, target : Trees \cup {None}]
  OBVIOUS

LEMMA EditCanonicalKept == ASSUME ViewInv, DV!EditCanonical PROVE ViewInv'
<1> USE DEF ViewInv
<1>0. ViewTypes /\ ViewAt /\ Projected /\ InLine /\ SideChanged /\ Waiting /\ NewTrees /\ Saved
  OBVIOUS
<1>1. /\ viewSync.at = "idle" /\ wb = None /\ DV!Make(canonTree) /\ canonTree' = DV!NextTree
      /\ ~ (queuedRev # None /\ headRev = matRev)
      /\ UNCHANGED <<views, shownRev, matRev, headRev, queuedRev, capturedTree, paused, agreed, wb, viewSync>>
  BY DEF DV!EditCanonical, DV!MayEdit, DV!Uploads, DV!Registry
<1>2. PICK k \in Nat :
           /\ Trees = 0..k /\ k + 1 \in 0..MaxTrees /\ DV!NextTree = k + 1
           /\ Trees' = 0..(k + 1) /\ origin' \in [0..(k + 1) -> 0..(k + 1)]
           /\ \A t, u \in Trees : Follows(origin, t, u) => Follows(origin', t, u)
           /\ \A t \in Trees : Follows(origin, t, canonTree) => Follows(origin', t, k + 1)
           /\ Follows(origin', k + 1, k + 1)
  BY <1>1, MakeFacts, ViewFacts
<1>3. Trees \subseteq Trees' /\ k + 1 \in Trees' /\ k + 1 \notin Trees /\ canonTree' = k + 1
  BY <1>1, <1>2
<1>4. Shown' = Shown /\ Shown \notin Trees' \ Trees
  <2>1. Shown \in Trees \cup {Headless, Partial, None}
    BY ViewFacts DEF Shown
  <2>2. Trees' \subseteq Nat
    BY <1>2
  <2> QED
    BY <1>1, <2>1, <2>2, ViewAssumption DEF Shown
<1>5. ViewTypes'
  <2>1. views' \in [0..MaxTrees -> Trees' \cup {Headless, Partial} \cup {None}]
    BY <1>1, <1>3 DEF ViewTypes
  <2>2. viewSync' \in [at : {"idle", "before", "recover", "read", "write", "refresh", "copy",
                           "scan", "upload", "materialize", "project"}, target : Trees' \cup {None}]
    BY <1>1, <1>3 DEF ViewTypes
  <2> QED
    BY <1>1, <1>2, <1>3, <2>1, <2>2 DEF ViewTypes
<1>6. ViewAt' /\ Projected'
  BY <1>1, <1>4 DEF ViewAt, Projected
<1>7. InLine'
  BY <1>1, <1>2, <1>3, <1>4, ViewFacts DEF InLine
<1>8. SideChanged'
  BY <1>1, <1>3, <1>4, ViewFacts DEF SideChanged
<1>9. NewTrees'
  <2>1. \A r \in 0..MaxTrees : views'[r] # None => r \in Trees'
    BY <1>1, <1>3 DEF NewTrees
  <2>2. views[k + 1] = None /\ k + 1 # matRev /\ k + 1 # capturedTree
    BY <1>2, <1>3, ViewFacts DEF NewTrees
  <2> QED
    BY <1>1, <1>3, <1>4, <2>1, <2>2 DEF NewTrees, Unseen
<1>10. Saved'
  <2> SUFFICES ASSUME NEW t \in Trees'
               PROVE  \E u \in {canonTree', Shown', headRev', queuedRev'} \cap Trees' : Follows(origin', t, u)
    BY DEF Saved
  <2>1. CASE t = k + 1
    BY <1>2, <1>3, <2>1
  <2>2. CASE t \in Trees
    <3>1. PICK u \in {canonTree, Shown, headRev, queuedRev} \cap Trees : Follows(origin, t, u)
      BY <2>2 DEF Saved
    <3>2. CASE u = canonTree
      BY <1>2, <1>3, <2>2, <3>1, <3>2
    <3>3. CASE u # canonTree
      BY <1>1, <1>2, <1>3, <1>4, <2>2, <3>1, <3>3
    <3> QED
      BY <3>2, <3>3
  <2> QED
    BY <1>2, <2>1, <2>2
<1>11. Waiting'
  BY <1>1, <1>3, <1>4, ViewFacts DEF Waiting
<1> QED
  BY <1>5, <1>6, <1>7, <1>8, <1>9, <1>10, <1>11

LEMMA EditViewKept == ASSUME ViewInv, DV!EditView PROVE ViewInv'
<1> USE DEF ViewInv
<1>0. ViewTypes /\ ViewAt /\ Projected /\ InLine /\ SideChanged /\ Waiting /\ NewTrees /\ Saved
  OBVIOUS
<1>1. /\ viewSync.at = "idle" /\ wb = None /\ Shown \in Trees /\ DV!Make(Shown)
      /\ views' = [views EXCEPT ![shownRev] = DV!NextTree]
      /\ ~ (queuedRev # None /\ headRev = matRev)
      /\ UNCHANGED <<canonTree, shownRev, matRev, headRev, queuedRev, capturedTree, paused, agreed, wb, viewSync>>
  BY DEF DV!EditView, DV!MayEdit, DV!Uploads, DV!Registry, Shown, Trees, DV!Made
<1>2. PICK k \in Nat :
           /\ Trees = 0..k /\ k + 1 \in 0..MaxTrees /\ DV!NextTree = k + 1
           /\ Trees' = 0..(k + 1) /\ origin' \in [0..(k + 1) -> 0..(k + 1)]
           /\ \A t, u \in Trees : Follows(origin, t, u) => Follows(origin', t, u)
           /\ \A t \in Trees : Follows(origin, t, Shown) => Follows(origin', t, k + 1)
           /\ Follows(origin', k + 1, k + 1)
  BY <1>1, MakeFacts, ViewFacts
<1>3. /\ Trees \subseteq Trees' /\ k + 1 \in Trees' /\ k + 1 \notin Trees
      /\ views' = [views EXCEPT ![shownRev] = k + 1] /\ shownRev \in 0..MaxTrees
      /\ matRev = shownRev
  BY <1>0, <1>1, <1>2, ViewFacts DEF Projected
<1>4. /\ Shown' = k + 1
      /\ \A r \in 0..MaxTrees \ {shownRev} : views'[r] = views[r]
  BY <1>1, <1>3, ViewFacts DEF Shown, ViewTypes
<1>5. ViewTypes'
  <2>1. views' \in [0..MaxTrees -> Trees' \cup {Headless, Partial} \cup {None}]
    BY <1>1, <1>3 DEF ViewTypes
  <2>2. viewSync' \in [at : {"idle", "before", "recover", "read", "write", "refresh", "copy",
                           "scan", "upload", "materialize", "project"}, target : Trees' \cup {None}]
    BY <1>1, <1>3 DEF ViewTypes
  <2> QED
    BY <1>1, <1>2, <1>3, <2>1, <2>2 DEF ViewTypes
<1>6. ViewAt' /\ Projected'
  BY <1>1, <1>3 DEF ViewAt, Projected
<1>7. InLine'
  BY <1>1, <1>2, <1>3, <1>4, ViewFacts DEF InLine
<1>8. SideChanged'
  BY <1>1, <1>3, <1>4, ViewFacts, ViewAssumption DEF SideChanged
<1>9. NewTrees'
  <2>1. \A r \in 0..MaxTrees : views'[r] # None => r \in Trees'
    BY <1>1, <1>3, <1>4, ViewFacts DEF NewTrees
  <2>2. views'[k + 1] = None /\ k + 1 # matRev
    BY <1>2, <1>3, <1>4, ViewFacts DEF NewTrees
  <2> QED
    BY <1>1, <1>3, <1>4, <2>1, <2>2, ViewFacts DEF NewTrees, Unseen
<1>10. Saved'
  <2> SUFFICES ASSUME NEW t \in Trees'
               PROVE  \E u \in {canonTree', Shown', headRev', queuedRev'} \cap Trees' : Follows(origin', t, u)
    BY DEF Saved
  <2>1. CASE t = k + 1
    BY <1>2, <1>3, <1>4, <2>1
  <2>2. CASE t \in Trees
    <3>1. PICK u \in {canonTree, Shown, headRev, queuedRev} \cap Trees : Follows(origin, t, u)
      BY <2>2 DEF Saved
    <3>2. CASE u = Shown
      BY <1>2, <1>3, <1>4, <2>2, <3>1, <3>2
    <3>3. CASE u # Shown
      BY <1>1, <1>2, <1>3, <1>4, <2>2, <3>1, <3>3
    <3> QED
      BY <3>2, <3>3
  <2> QED
    BY <1>2, <2>1, <2>2
<1>11. Waiting'
  BY <1>1, <1>3, <1>4, ViewFacts, ViewAssumption DEF Waiting
<1> QED
  BY <1>5, <1>6, <1>7, <1>8, <1>9, <1>10, <1>11

LEMMA RemoteSaveKept == ASSUME ViewInv, DV!RemoteSave PROVE ViewInv'
<1> USE DEF ViewInv
<1>0. ViewTypes /\ ViewAt /\ Projected /\ InLine /\ SideChanged /\ Waiting /\ NewTrees /\ Saved
  OBVIOUS
<1>1. /\ viewSync.at = "idle" /\ queuedRev = None /\ canonTree = headRev /\ Shown = headRev
      /\ DV!Make(headRev) /\ headRev' = DV!NextTree
      /\ UNCHANGED <<canonTree, views, shownRev, matRev, queuedRev, capturedTree, paused, agreed, wb, viewSync>>
  BY DEF DV!RemoteSave, DV!Sides, Shown
<1>2. PICK k \in Nat :
           /\ Trees = 0..k /\ k + 1 \in 0..MaxTrees /\ DV!NextTree = k + 1
           /\ Trees' = 0..(k + 1) /\ origin' \in [0..(k + 1) -> 0..(k + 1)]
           /\ \A t, u \in Trees : Follows(origin, t, u) => Follows(origin', t, u)
           /\ \A t \in Trees : Follows(origin, t, headRev) => Follows(origin', t, k + 1)
           /\ Follows(origin', k + 1, k + 1)
  BY <1>1, MakeFacts, ViewFacts
<1>3. Trees \subseteq Trees' /\ k + 1 \in Trees' /\ k + 1 \notin Trees /\ headRev' = k + 1
  BY <1>1, <1>2
<1>4. Shown' = Shown /\ matRev = shownRev /\ Shown \in Trees
  BY <1>0, <1>1, ViewFacts DEF Shown, Projected
<1>5. ViewTypes'
  <2>1. views' \in [0..MaxTrees -> Trees' \cup {Headless, Partial} \cup {None}]
    BY <1>1, <1>3 DEF ViewTypes
  <2>2. viewSync' \in [at : {"idle", "before", "recover", "read", "write", "refresh", "copy",
                           "scan", "upload", "materialize", "project"}, target : Trees' \cup {None}]
    BY <1>1, <1>3 DEF ViewTypes
  <2>3. wb' = None \/ wb' \in [state : {"planned", "staged", "verified", "switched"}, tree : Trees']
    BY <1>1, <1>3 DEF ViewTypes
  <2> QED
    BY <1>1, <1>2, <1>3, <2>1, <2>2, <2>3 DEF ViewTypes
<1>6. ViewAt' /\ Projected'
  BY <1>1, <1>4 DEF ViewAt, Projected
<1>7. InLine'
  BY <1>1, <1>2, <1>3, <1>4, ViewFacts DEF InLine
<1>8. SideChanged'
  BY <1>1, <1>3, <1>4, ViewFacts DEF SideChanged
<1>9. NewTrees'
  <2>1. \A r \in 0..MaxTrees : views'[r] # None => r \in Trees'
    BY <1>1, <1>3 DEF NewTrees
  <2>2. views[k + 1] = None /\ k + 1 # matRev
    BY <1>2, <1>3, ViewFacts DEF NewTrees
  <2> QED
    BY <1>1, <1>3, <1>4, <2>1, <2>2 DEF NewTrees, Unseen
<1>10. Saved'
  <2> SUFFICES ASSUME NEW t \in Trees'
               PROVE  \E u \in {canonTree', Shown', headRev', queuedRev'} \cap Trees' : Follows(origin', t, u)
    BY DEF Saved
  <2>1. CASE t = k + 1
    BY <1>2, <1>3, <2>1
  <2>2. CASE t \in Trees
    <3>1. PICK u \in {canonTree, Shown, headRev, queuedRev} \cap Trees : Follows(origin, t, u)
      BY <2>2 DEF Saved
    <3>2. u \in {canonTree', Shown', headRev', queuedRev'} \cap Trees' \/ u = headRev
      BY <1>1, <1>3, <1>4, <3>1
    <3> QED
      BY <1>1, <1>2, <1>3, <2>2, <3>1, <3>2
  <2> QED
    BY <1>2, <2>1, <2>2
<1>11. Waiting'
  BY <1>1, <1>3, <1>4, ViewFacts DEF Waiting
<1> QED
  BY <1>5, <1>6, <1>7, <1>8, <1>9, <1>10, <1>11

-------------------------------------------------------------------------------
(* The derived view: steps of a sync *)

LEMMA ViewQuiet ==
  ASSUME ViewInv, DV!Start \/ DV!RecoveryDone \/ UNCHANGED derivedVars
  PROVE  ViewInv'
<1> USE DEF ViewInv
<1>0. ViewTypes /\ ViewAt /\ Projected /\ InLine /\ SideChanged /\ Waiting /\ NewTrees /\ Saved
  OBVIOUS
<1>1. UNCHANGED <<origin, canonTree, views, shownRev, matRev, headRev, queuedRev, capturedTree, paused, agreed, wb>>
  BY DEF DV!Start, DV!RecoveryDone, DV!Sides, DV!Registry, derivedVars
<1>2. \/ viewSync.at = "idle" /\ viewSync' = [at |-> "before", target |-> viewSync.target]
      \/ wb = None /\ viewSync.at = "recover" /\ viewSync' = [at |-> "read", target |-> viewSync.target]
      \/ viewSync' = viewSync
  BY ViewFacts DEF DV!Start, DV!RecoveryDone, DV!Go, derivedVars
<1>3. Trees' = Trees /\ Shown' = Shown
  BY <1>1 DEF Trees, Shown
<1>4. ViewTypes'
  <2>1. viewSync' = viewSync \/ viewSync' \in [at : SyncSteps, target : Trees \cup {None}]
    BY <1>2, ViewFacts, SyncStepType DEF SyncSteps
  <2>2. views' \in [0..MaxTrees -> Trees \cup {Headless, Partial} \cup {None}]
    BY <1>1 DEF ViewTypes
  <2> QED
    BY <1>1, <2>1, <2>2, ViewTypesKept DEF ViewTypes
<1>5. ViewAt'
  BY <1>1, <1>2, <1>3 DEF ViewAt
<1>6. Projected'
  BY <1>1, <1>2, <1>3 DEF Projected
<1>8. Waiting'
  BY <1>1, <1>2, <1>3 DEF Waiting
<1>7. InLine' /\ SideChanged' /\ Saved' /\ NewTrees'
  BY <1>1, <1>3 DEF InLine, SideChanged, Saved, NewTrees, Unseen
<1> QED
  BY <1>4, <1>5, <1>6, <1>7, <1>8

LEMMA ViewStops == ASSUME ViewInv, DV!StopSync PROVE ViewInv'
<1> USE DEF ViewInv
<1>0. ViewTypes /\ ViewAt /\ Projected /\ InLine /\ SideChanged /\ Waiting /\ NewTrees /\ Saved
  OBVIOUS
<1>1. /\ UNCHANGED <<origin, canonTree, shownRev, matRev, headRev, queuedRev, capturedTree, paused, agreed, wb>>
      /\ viewSync' = [at |-> "idle", target |-> None]
      /\ matRev = shownRev
  BY DEF DV!StopSync, DV!Registry, Projected, DV!Quiet
<1>2. \/ views' = views
      \/ /\ viewSync.at = "copy"
         /\ \E torn \in {Headless, Partial} : views' = [views EXCEPT ![matRev] = torn]
  BY DEF DV!StopSync, DV!Torn
<1>3. CASE views' = views
  <2>1. Trees' = Trees /\ Shown' = Shown
    BY <1>1, <1>3 DEF Trees, Shown
  <2>2. ViewTypes'
    BY <1>1, <1>3, <2>1 DEF ViewTypes
  <2>3. ViewAt' /\ Projected' /\ Waiting'
    BY <1>1, <2>1 DEF ViewAt, Projected, Waiting
  <2>4. InLine' /\ SideChanged' /\ Saved' /\ NewTrees'
    BY <1>1, <1>3, <2>1 DEF InLine, SideChanged, Saved, NewTrees, Unseen
  <2> QED
    BY <2>2, <2>3, <2>4
<1>4. ASSUME NEW torn \in {Headless, Partial}, viewSync.at = "copy", views' = [views EXCEPT ![matRev] = torn]
      PROVE  ViewInv'
  <2>1. /\ Trees' = Trees /\ Shown' = torn /\ Shown' \notin Trees /\ Shown = None
        /\ wb = None /\ canonTree # agreed
        /\ \A r \in 0..MaxTrees \ {matRev} : views'[r] = views[r]
    BY <1>1, <1>4, ViewFacts DEF Trees, Shown, ViewAt, ViewTypes
  <2>2. ViewTypes'
    <3>1. views' \in [0..MaxTrees -> Trees \cup {Headless, Partial} \cup {None}]
      BY <1>4 DEF ViewTypes
    <3> QED
      BY <1>1, <2>1, <3>1 DEF ViewTypes
  <2>3. ViewAt' /\ Projected' /\ SideChanged' /\ InLine' /\ Waiting'
    BY <1>1, <1>4, <2>1 DEF ViewAt, Projected, SideChanged, InLine, Waiting
  <2>4. NewTrees'
    <3>1. \A t \in Trees : Unseen(t) => t # matRev' /\ views'[t] = None
      BY <1>1, <2>1, ViewFacts DEF Unseen
    <3>2. \A r \in 0..MaxTrees : views'[r] # None => r \in Trees
      BY <2>1, ViewFacts DEF NewTrees
    <3>3. headRev # matRev => views'[headRev] = None
      BY <2>1, ViewFacts DEF NewTrees
    <3> QED
      BY <1>1, <2>1, <3>1, <3>2, <3>3, ViewFacts DEF NewTrees, Unseen, ViewTypes
  <2>5. Saved'
    BY <1>1, <2>1, ViewFacts DEF Saved
  <2> QED
    BY <2>2, <2>3, <2>4, <2>5
<1> QED
  BY <1>2, <1>3, <1>4

LEMMA ProjectKept == ASSUME ViewInv, DV!Project PROVE ViewInv'
<1> USE DEF ViewInv
<1>0. ViewTypes /\ ViewAt /\ Projected /\ InLine /\ SideChanged /\ Waiting /\ NewTrees /\ Saved
  OBVIOUS
<1>1. /\ UNCHANGED <<origin, canonTree, matRev, headRev, queuedRev, capturedTree, paused, wb>>
      /\ viewSync.at \in {"before", "project"} /\ matRev \in 0..MaxTrees /\ Trees' = Trees
  BY ViewFacts DEF DV!Project, DV!Registry, Trees
<1>2. CASE views[matRev] = Headless
  <2>1. UNCHANGED <<views, shownRev, agreed>> /\ viewSync' = [at |-> "idle", target |-> None]
    BY <1>2 DEF DV!Project, DV!Quiet
  <2>2. matRev = shownRev /\ Shown' = Shown
    BY <1>1, <1>2, <2>1, ViewAssumption DEF Projected, Shown
  <2>3. ViewTypes'
    BY <1>1, <2>1 DEF ViewTypes
  <2>4. ViewAt' /\ Projected' /\ Waiting'
    BY <1>1, <2>1, <2>2 DEF ViewAt, Projected, Waiting
  <2>5. InLine' /\ SideChanged' /\ Saved' /\ NewTrees'
    BY <1>1, <2>1, <2>2 DEF InLine, SideChanged, Saved, NewTrees, Unseen
  <2> QED
    BY <2>3, <2>4, <2>5
<1>3. CASE views[matRev] # Headless
  <2>1. /\ views' = [views EXCEPT ![matRev] = IF views[matRev] = None THEN canonTree ELSE views[matRev]]
        /\ shownRev' = matRev
        /\ agreed' = IF views[matRev] = None THEN canonTree ELSE agreed
        /\ \/ viewSync.at = "before" /\ viewSync' = [at |-> "recover", target |-> viewSync.target]
           \/ viewSync.at = "project" /\ viewSync' = [at |-> "idle", target |-> None]
    BY <1>1, <1>3, ViewFacts DEF DV!Project, DV!Quiet, DV!Go
  <2>2. /\ Shown' = IF views[matRev] = None THEN canonTree ELSE views[matRev]
        /\ \A r \in 0..MaxTrees \ {matRev} : views'[r] = views[r]
    BY <1>1, <2>1, ViewFacts DEF Shown, ViewTypes
  <2>3. ViewTypes'
    <3>1. views' \in [0..MaxTrees -> Trees \cup {Headless, Partial} \cup {None}]
      BY <1>1, <2>1, ViewFacts DEF ViewTypes
    <3> QED
      BY <1>1, <2>1, <3>1, ViewFacts DEF ViewTypes
  <2>4. matRev' = shownRev' /\ Shown' # None /\ Shown' # Headless
    BY <1>1, <1>3, <2>1, <2>2, ViewFacts
  <2>5. CASE views[matRev] = None
    <3>1. Shown' = canonTree /\ agreed' = canonTree
      BY <2>1, <2>2, <2>5
    <3>2. wb = None
      BY <2>5, <1>1, ViewFacts DEF SideChanged, Projected, Shown, ViewAt
    <3>3. ViewAt' /\ Projected' /\ SideChanged'
      BY <1>1, <2>1, <2>4, <3>1, <3>2, ViewFacts DEF ViewAt, Projected, SideChanged
    <3>7. ~ paused
      BY <2>5 DEF Waiting, Projected, Shown
    <3>8. Waiting'
      BY <1>1, <2>1, <3>1, <3>2, <3>7 DEF Waiting
    <3>4. InLine'
      <4>1. Follows(origin, canonTree, canonTree)
        BY FollowsSelf, ViewFacts DEF Trees
      <4>2. Follows(origin, matRev, canonTree)
        BY <4>1, FollowsOn DEF InLine, Projected
      <4> QED
        BY <1>1, <2>4, <3>1, <4>1, <4>2 DEF InLine
    <3>5. NewTrees'
      <4>1. \A t \in Trees : Unseen(t) => t # matRev' /\ views'[t] = None
        BY <1>1, <2>2, ViewFacts DEF Unseen
      <4>2. \A r \in 0..MaxTrees : views'[r] # None => r \in Trees
        BY <2>2, ViewFacts DEF NewTrees
      <4>3. headRev # matRev => views'[headRev] = None
        BY <2>2, ViewFacts DEF NewTrees
      <4> QED
        BY <1>1, <2>2, <3>1, <4>1, <4>2, <4>3, ViewFacts DEF NewTrees, Unseen, ViewTypes
    <3>6. Saved'
      <4> SUFFICES ASSUME NEW t \in Trees
                   PROVE  \E u \in {canonTree, canonTree, headRev, queuedRev} \cap Trees : Follows(origin, t, u)
        BY <1>1, <3>1 DEF Saved
      <4>1. PICK u \in {canonTree, Shown, headRev, queuedRev} \cap Trees : Follows(origin, t, u)
        BY DEF Saved
      <4>2. u = Shown => Follows(origin, t, canonTree)
        BY <4>1, <2>5, FollowsOn, ViewFacts DEF Projected, Shown, InLine
      <4> QED
        BY <4>1, <4>2, ViewFacts
    <3> QED
      BY <2>3, <3>3, <3>4, <3>5, <3>6, <3>8
  <2>6. CASE views[matRev] # None
    <3>1. matRev = shownRev /\ Shown' = Shown /\ agreed' = agreed /\ views' = views
      BY <2>1, <2>2, <2>6 DEF Projected, Shown, ViewTypes
    <3>2. ViewAt' /\ Projected' /\ Waiting'
      BY <1>1, <2>1, <2>4, <3>1 DEF ViewAt, Projected, Waiting
    <3>3. InLine' /\ SideChanged' /\ Saved' /\ NewTrees'
      BY <1>1, <2>1, <3>1 DEF InLine, SideChanged, Saved, NewTrees, Unseen
    <3> QED
      BY <2>3, <3>2, <3>3
  <2> QED
    BY <2>5, <2>6
<1> QED
  BY <1>2, <1>3

LEMMA WritebackMoves ==
  ASSUME ViewInv, DV!Stage \/ DV!DiscardPlanned \/ DV!VerifyStaged
  PROVE  ViewInv'
<1> USE DEF ViewInv
<1>0. ViewTypes /\ ViewAt /\ Projected /\ InLine /\ SideChanged /\ Waiting /\ NewTrees /\ Saved
  OBVIOUS
<1>1. UNCHANGED <<origin, canonTree, views, shownRev, matRev, headRev, queuedRev, capturedTree, paused, agreed, viewSync>>
  BY DEF DV!Stage, DV!DiscardPlanned, DV!VerifyStaged, DV!Sides, DV!Registry
<1>2. /\ wb # None /\ wb.state # "switched" /\ viewSync.at \in {"recover", "write"}
      /\ \/ wb' = None
         \/ \E st \in {"staged", "verified"} : wb' = [state |-> st, tree |-> wb.tree]
  BY ViewFacts DEF DV!Stage, DV!DiscardPlanned, DV!VerifyStaged
<1>3. Trees' = Trees /\ Shown' = Shown
  BY <1>1 DEF Trees, Shown
<1>4. wb' # None => wb'.state \in {"staged", "verified"} /\ wb'.tree = wb.tree
  BY <1>2
<1>5. ViewTypes'
  <2>1. wb' \in {None, wb} \/ wb' \in [state : {"planned", "staged", "verified", "switched"}, tree : Trees]
    BY <1>2, ViewFacts
  <2>2. views' \in [0..MaxTrees -> Trees \cup {Headless, Partial} \cup {None}]
    BY <1>1 DEF ViewTypes
  <2> QED
    BY <1>1, <2>1, <2>2, ViewTypesKept DEF ViewTypes
<1>6. ViewAt' /\ Projected' /\ Waiting'
  BY <1>1, <1>2, <1>3 DEF ViewAt, Projected, Waiting
<1>7. SideChanged'
  BY <1>1, <1>2, <1>3, <1>4 DEF SideChanged
<1>8. InLine' /\ Saved' /\ NewTrees'
  BY <1>1, <1>3 DEF InLine, Saved, NewTrees, Unseen
<1> QED
  BY <1>5, <1>6, <1>7, <1>8

LEMMA SwitchKept == ASSUME ViewInv, DV!Switch PROVE ViewInv'
<1> USE DEF ViewInv
<1>0. ViewTypes /\ ViewAt /\ Projected /\ InLine /\ SideChanged /\ Waiting /\ NewTrees /\ Saved
  OBVIOUS
<1>1. /\ UNCHANGED <<origin, views, shownRev, matRev, headRev, queuedRev, capturedTree, paused, agreed, viewSync>>
      /\ viewSync.at \in {"recover", "write"} /\ wb # None /\ wb.state = "verified" /\ canonTree' = wb.tree
      /\ wb' = [state |-> "switched", tree |-> wb.tree]
  BY ViewFacts DEF DV!Switch, DV!Registry
<1>2. /\ Trees' = Trees /\ Shown' = Shown /\ Shown = wb.tree /\ wb.tree \in Trees
      /\ canonTree = agreed /\ wb.tree # agreed /\ matRev = shownRev
  BY <1>1, ViewFacts DEF Trees, Shown, SideChanged, Projected
<1>3. wb'.state = "switched" /\ wb'.tree = wb.tree
  BY <1>1
<1>4. wb' # None
  BY <1>1, <1>2, ViewFacts, ViewAssumption
<1>5. ViewTypes'
  <2>1. wb' \in [state : {"planned", "staged", "verified", "switched"}, tree : Trees]
    BY <1>1, <1>2
  <2>2. views' \in [0..MaxTrees -> Trees \cup {Headless, Partial} \cup {None}]
    BY <1>1 DEF ViewTypes
  <2> QED
    BY <1>1, <1>2, <2>1, <2>2, ViewTypesKept DEF ViewTypes
<1>6. ViewAt' /\ Projected' /\ SideChanged' /\ Waiting'
  BY <1>1, <1>2, <1>3, ViewFacts DEF ViewAt, Projected, SideChanged, Waiting
<1>7. Follows(origin, agreed, wb.tree) /\ Follows(origin, capturedTree, wb.tree)
  BY <1>2, FollowsOn DEF InLine
<1>8. InLine'
  BY <1>1, <1>2, <1>7 DEF InLine
<1>9. NewTrees'
  BY <1>1, <1>2 DEF NewTrees, Unseen
<1>10. Saved'
  <2> SUFFICES ASSUME NEW t \in Trees
               PROVE  \E u \in {wb.tree, Shown, headRev, queuedRev} \cap Trees : Follows(origin, t, u)
    BY <1>1, <1>2 DEF Saved
  <2>1. PICK u \in {canonTree, Shown, headRev, queuedRev} \cap Trees : Follows(origin, t, u)
    BY DEF Saved
  <2>2. u = canonTree => Follows(origin, t, wb.tree)
    BY <1>2, <1>7, <2>1, FollowsOn
  <2> QED
    BY <1>2, <2>1, <2>2
<1> QED
  BY <1>5, <1>6, <1>8, <1>9, <1>10

LEMMA CompleteKept == ASSUME ViewInv, DV!CompleteWriteback PROVE ViewInv'
<1> USE DEF ViewInv
<1>0. ViewTypes /\ ViewAt /\ Projected /\ InLine /\ SideChanged /\ Waiting /\ NewTrees /\ Saved
  OBVIOUS
<1>1. /\ UNCHANGED <<origin, canonTree, views, shownRev, matRev, headRev, queuedRev, capturedTree, paused>>
      /\ wb # None /\ wb.state = "switched" /\ agreed' = wb.tree /\ wb' = None
      /\ \/ viewSync.at = "write" /\ viewSync' = [at |-> "scan", target |-> viewSync.target]
         \/ viewSync.at = "recover" /\ viewSync' = viewSync
  BY ViewFacts DEF DV!CompleteWriteback, DV!Registry, DV!Sides, DV!Go
<1>2. /\ Trees' = Trees /\ Shown' = Shown /\ Shown = wb.tree /\ wb.tree \in Trees
      /\ canonTree = wb.tree /\ matRev = shownRev
  BY <1>1, ViewFacts DEF Trees, Shown, SideChanged, Projected
<1>5. ViewTypes'
  <2>1. viewSync' = viewSync \/ viewSync' \in [at : SyncSteps, target : Trees \cup {None}]
    BY <1>1, ViewFacts, SyncStepType DEF SyncSteps
  <2>2. views' \in [0..MaxTrees -> Trees \cup {Headless, Partial} \cup {None}]
    BY <1>1 DEF ViewTypes
  <2> QED
    BY <1>1, <1>2, <2>1, <2>2, ViewTypesKept DEF ViewTypes
<1>6. ViewAt' /\ Projected' /\ SideChanged' /\ Waiting'
  BY <1>1, <1>2, ViewFacts DEF ViewAt, Projected, SideChanged, Waiting
<1>7. /\ Follows(origin, wb.tree, wb.tree) /\ Follows(origin, matRev, wb.tree)
  BY <1>2, FollowsSelf, FollowsOn DEF InLine, Trees
<1>8. InLine'
  BY <1>1, <1>2, <1>7 DEF InLine
<1>9. NewTrees' /\ Saved'
  BY <1>1, <1>2 DEF NewTrees, Unseen, Saved
<1> QED
  BY <1>5, <1>6, <1>8, <1>9

\* Two changed sides are left as they are.
LEMMA CompareKept == ASSUME ViewInv, DV!Compare PROVE ViewInv'
<1> USE DEF ViewInv
<1>0. ViewTypes /\ ViewAt /\ Projected /\ InLine /\ SideChanged /\ Waiting /\ NewTrees /\ Saved
  OBVIOUS
<1>1. /\ UNCHANGED <<origin, canonTree, views, shownRev, matRev, headRev, queuedRev, capturedTree>>
      /\ viewSync.at = "read" /\ wb = None /\ matRev = shownRev
      /\ Trees' = Trees /\ Shown' = Shown /\ Shown = views[matRev] /\ Shown # None /\ Shown # Headless
  BY DEF DV!Compare, DV!Sides, ViewAt, Projected, Shown, Trees
<1>2. CASE Shown = canonTree
  <2>1. agreed' = canonTree /\ wb' = None /\ paused' = paused /\ viewSync' = [at |-> "scan", target |-> viewSync.target]
    BY <1>1, <1>2, ViewFacts DEF DV!Compare, DV!Go
  <2>2. ViewTypes'
    <3>1. viewSync' = viewSync \/ viewSync' \in [at : SyncSteps, target : Trees \cup {None}]
      BY <2>1, ViewFacts, SyncStepType DEF SyncSteps
    <3>2. views' \in [0..MaxTrees -> Trees \cup {Headless, Partial} \cup {None}]
      BY <1>1 DEF ViewTypes
    <3> QED
      BY <1>1, <2>1, <3>1, <3>2, ViewTypesKept, ViewFacts DEF ViewTypes
  <2>3. ViewAt' /\ Projected' /\ SideChanged' /\ Waiting'
    BY <1>1, <1>2, <2>1, ViewFacts DEF ViewAt, Projected, SideChanged, Waiting
  <2>4. /\ Follows(origin, canonTree, canonTree) /\ Follows(origin, matRev, canonTree)
    BY <1>1, FollowsSelf, FollowsOn, ViewFacts DEF InLine, Trees
  <2>5. InLine'
    BY <1>1, <1>2, <2>1, <2>4 DEF InLine
  <2>6. NewTrees' /\ Saved'
    BY <1>1, <1>2, <2>1 DEF NewTrees, Unseen, Saved
  <2> QED
    BY <2>2, <2>3, <2>5, <2>6
<1>3. CASE Shown # canonTree
  <2> DEFINE d == DV!Decision(canonTree # agreed, Shown # agreed)
  <2>1. /\ agreed' = agreed
        /\ wb' = IF d = "write" THEN [state |-> "planned", tree |-> Shown] ELSE wb
        /\ paused' = (paused \/ d = "paused")
        /\ viewSync' = [at |-> IF d = "paused" THEN "upload" ELSE d,
                        target |-> IF d = "refresh" THEN canonTree ELSE None]
    BY <1>1, <1>3 DEF DV!Compare
  <2>2. \/ canonTree # agreed /\ Shown # agreed /\ d = "paused"
        \/ canonTree = agreed /\ Shown # agreed /\ d = "write"
        \/ canonTree # agreed /\ Shown = agreed /\ d = "refresh"
    <3>1. /\ DV!Decision(TRUE, TRUE) = "paused" /\ DV!Decision(FALSE, TRUE) = "write"
          /\ DV!Decision(TRUE, FALSE) = "refresh"
      BY DEF DV!Decision
    <3>2. CASE canonTree = agreed
      <4>1. (canonTree # agreed) = FALSE /\ (Shown # agreed) = TRUE
        BY <1>3, <3>2
      <4> QED
        BY <3>1, <4>1
    <3>3. CASE canonTree # agreed /\ Shown = agreed
      <4>1. (canonTree # agreed) = TRUE /\ (Shown # agreed) = FALSE
        BY <3>3
      <4> QED
        BY <3>1, <4>1
    <3>4. CASE canonTree # agreed /\ Shown # agreed
      <4>1. (canonTree # agreed) = TRUE /\ (Shown # agreed) = TRUE
        BY <3>4
      <4> QED
        BY <3>1, <4>1
    <3> QED
      BY <3>2, <3>3, <3>4
  <2> HIDE DEF d
  <2>3. Shown \notin {Headless, Partial} \/ canonTree # agreed
    BY DEF SideChanged
  <2>4. d = "write" => Shown \in Trees
    BY <1>1, <2>2, <2>3, ViewFacts DEF Shown
  <2>5. ViewTypes'
    <3>1. viewSync' = viewSync \/ viewSync' \in [at : SyncSteps, target : Trees \cup {None}]
      BY <2>1, <2>2, ViewFacts, SyncStepType DEF SyncSteps
    <3>2. views' \in [0..MaxTrees -> Trees \cup {Headless, Partial} \cup {None}]
      BY <1>1 DEF ViewTypes
    <3>3. wb' \in {None, wb} \/ wb' \in [state : {"planned", "staged", "verified", "switched"}, tree : Trees]
      BY <2>1, <2>4
    <3> QED
      BY <1>1, <2>1, <3>1, <3>2, <3>3, ViewTypesKept, ViewFacts DEF ViewTypes
  <2>6. wb' # None => d = "write" /\ wb'.state = "planned" /\ wb'.tree = Shown
    BY <1>1, <2>1
  <2>7. ViewAt' /\ Projected' /\ SideChanged'
    BY <1>1, <1>3, <2>1, <2>2, <2>4, <2>6, ViewFacts DEF ViewAt, Projected, SideChanged
  <2>9. ~ (queuedRev # None /\ headRev = matRev) /\ (paused' => d = "paused")
    BY <1>1, <1>3, <2>1, <2>2 DEF Waiting
  <2>10. Waiting'
    BY <1>1, <1>3, <2>1, <2>2, <2>9 DEF Waiting
  <2>8. InLine' /\ NewTrees' /\ Saved'
    BY <1>1, <2>1 DEF InLine, NewTrees, Unseen, Saved
  <2> QED
    BY <2>5, <2>7, <2>8, <2>10
<1> QED
  BY <1>2, <1>3

\* The view is removed and copied again: what it showed is the baseline, which
\* the canonical side follows.
LEMMA RefreshKept == ASSUME ViewInv, DV!RemoveView \/ DV!CopyView PROVE ViewInv'
<1> USE DEF ViewInv
<1>0. ViewTypes /\ ViewAt /\ Projected /\ InLine /\ SideChanged /\ Waiting /\ NewTrees /\ Saved
  OBVIOUS
<1>1. /\ UNCHANGED <<origin, canonTree, shownRev, matRev, headRev, queuedRev, capturedTree, paused, wb>>
      /\ viewSync.at \in {"refresh", "copy"} /\ matRev = shownRev /\ matRev \in 0..MaxTrees
      /\ wb = None /\ Trees' = Trees /\ canonTree # agreed /\ viewSync.target = canonTree
  BY ViewFacts DEF DV!RemoveView, DV!CopyView, DV!Registry, ViewAt, Projected, Trees
<1>2. \/ /\ views' = [views EXCEPT ![matRev] = None] /\ agreed' = agreed /\ Shown = agreed
         /\ viewSync' = [at |-> "copy", target |-> canonTree]
      \/ /\ views' = [views EXCEPT ![matRev] = canonTree] /\ agreed' = canonTree /\ Shown = None
         /\ viewSync' = [at |-> "scan", target |-> canonTree]
  BY <1>1, ViewFacts DEF DV!RemoveView, DV!CopyView, DV!Go, ViewAt
<1>3. \A r \in 0..MaxTrees \ {matRev} : views'[r] = views[r]
  BY <1>2 DEF ViewTypes
<1>4. ViewTypes'
  <2>1. viewSync' \in [at : SyncSteps, target : Trees \cup {None}]
    BY <1>2, ViewFacts, SyncStepType DEF SyncSteps
  <2>2. views' \in [0..MaxTrees -> Trees \cup {Headless, Partial} \cup {None}]
    BY <1>2, ViewFacts DEF ViewTypes
  <2> QED
    BY <1>1, <1>2, <2>1, <2>2, ViewTypesKept, ViewFacts DEF ViewTypes
<1>5. NewTrees'
  <2>1. \A t \in Trees : Unseen(t) => t # matRev' /\ views'[t] = None
    BY <1>1, <1>3, ViewFacts DEF Unseen
  <2>2. \A r \in 0..MaxTrees : views'[r] # None => r \in Trees
    BY <1>3, ViewFacts DEF NewTrees
  <2>3. headRev # matRev => views'[headRev] = None
    BY <1>3, ViewFacts DEF NewTrees
  <2>4. Shown' \in {None, agreed'}
    BY <1>1, <1>2, ViewFacts DEF Shown
  <2> QED
    BY <1>1, <2>1, <2>2, <2>3, <2>4, ViewFacts DEF NewTrees, Unseen, ViewTypes
<1>6. CASE DV!RemoveView
  <2>1. /\ Shown' = None /\ agreed' = agreed /\ Shown = agreed
        /\ viewSync' = [at |-> "copy", target |-> canonTree]
    BY <1>1, <1>6, ViewFacts DEF DV!RemoveView, Shown, ViewAt, DV!Go
  <2>2. ViewAt' /\ Projected' /\ SideChanged' /\ Waiting'
    BY <1>1, <2>1, ViewAssumption DEF ViewAt, Projected, SideChanged, Waiting
  <2>3. InLine'
    BY <1>1, <2>1, ViewFacts DEF InLine
  <2>4. Saved'
    <3> SUFFICES ASSUME NEW t \in Trees
                 PROVE  \E u \in {canonTree, None, headRev, queuedRev} \cap Trees : Follows(origin, t, u)
      BY <1>1, <2>1 DEF Saved
    <3>1. PICK u \in {canonTree, Shown, headRev, queuedRev} \cap Trees : Follows(origin, t, u)
      BY DEF Saved
    <3>2. u = Shown => Follows(origin, t, canonTree)
      BY <2>1, <3>1, FollowsOn DEF InLine
    <3> QED
      BY <3>1, <3>2, ViewFacts
  <2> QED
    BY <1>4, <1>5, <2>2, <2>3, <2>4
<1>7. CASE DV!CopyView
  <2>1. /\ Shown' = canonTree /\ agreed' = canonTree /\ Shown = None
        /\ viewSync' = [at |-> "scan", target |-> canonTree]
    BY <1>1, <1>7, ViewFacts DEF DV!CopyView, Shown, ViewAt, DV!Go
  <2>2. ViewAt' /\ Projected' /\ SideChanged' /\ Waiting'
    BY <1>1, <2>1, ViewFacts DEF ViewAt, Projected, SideChanged, Waiting
  <2>3. Follows(origin, canonTree, canonTree) /\ Follows(origin, matRev, canonTree)
    BY <1>1, FollowsSelf, FollowsOn, ViewFacts DEF InLine, Trees
  <2>4. InLine'
    BY <1>1, <2>1, <2>3 DEF InLine
  <2>5. Saved'
    BY <1>1, <2>1, ViewFacts DEF Saved
  <2> QED
    BY <1>4, <1>5, <2>2, <2>4, <2>5
<1> QED
  BY <1>6, <1>7

LEMMA ScanKept == ASSUME ViewInv, DV!Scan PROVE ViewInv'
<1> USE DEF ViewInv
<1>0. ViewTypes /\ ViewAt /\ Projected /\ InLine /\ SideChanged /\ Waiting /\ NewTrees /\ Saved
  OBVIOUS
<1>1. /\ UNCHANGED <<origin, canonTree, views, shownRev, matRev, headRev, agreed, wb>>
      /\ viewSync.at = "scan" /\ Trees' = Trees /\ Shown' = Shown /\ matRev = shownRev
      /\ queuedRev' = IF canonTree = capturedTree THEN queuedRev ELSE canonTree
      /\ ~ paused /\ paused' = FALSE
      /\ canonTree = agreed /\ Shown = agreed /\ wb = None
      /\ capturedTree' = canonTree /\ viewSync' = [at |-> "upload", target |-> viewSync.target]
  BY ViewFacts DEF DV!Scan, DV!Sides, DV!Go, Projected, Trees, Shown, Waiting, ViewAt
<1>2. ViewTypes'
  <2>1. viewSync' \in [at : SyncSteps, target : Trees \cup {None}]
    BY <1>1, ViewFacts, SyncStepType DEF SyncSteps
  <2>2. views' \in [0..MaxTrees -> Trees \cup {Headless, Partial} \cup {None}]
    BY <1>1 DEF ViewTypes
  <2> QED
    BY <1>1, <2>1, <2>2, ViewTypesKept, ViewFacts DEF ViewTypes
<1>3. ViewAt' /\ Projected' /\ SideChanged' /\ Waiting'
  BY <1>1, ViewFacts DEF ViewAt, Projected, SideChanged, Waiting
<1>4. Follows(origin, canonTree, canonTree)
  BY FollowsSelf, ViewFacts DEF Trees
<1>5. InLine'
  BY <1>1, <1>4, ViewFacts DEF InLine
<1>6. NewTrees'
  BY <1>1 DEF NewTrees, Unseen
<1>7. Saved'
  <2> SUFFICES ASSUME NEW t \in Trees
               PROVE  \E u \in {canonTree, Shown, headRev, queuedRev'} \cap Trees : Follows(origin, t, u)
    BY <1>1 DEF Saved
  <2>1. PICK u \in {canonTree, Shown, headRev, queuedRev} \cap Trees : Follows(origin, t, u)
    BY DEF Saved
  <2>2. u = queuedRev => Follows(origin, t, canonTree)
    BY <2>1, FollowsOn, ViewFacts DEF InLine
  <2> QED
    BY <2>1, <2>2, ViewFacts
<1> QED
  BY <1>2, <1>3, <1>5, <1>6, <1>7

LEMMA UploadKept == ASSUME ViewInv, DV!Upload PROVE ViewInv'
<1> USE DEF ViewInv
<1>0. ViewTypes /\ ViewAt /\ Projected /\ InLine /\ SideChanged /\ Waiting /\ NewTrees /\ Saved
  OBVIOUS
<1>1. /\ UNCHANGED <<origin, canonTree, views, shownRev, matRev, capturedTree, agreed, wb>>
      /\ viewSync.at = "upload" /\ Trees' = Trees /\ Shown' = Shown /\ matRev = shownRev
      /\ \/ /\ queuedRev # None /\ headRev = matRev /\ headRev' = queuedRev /\ queuedRev' = None
            /\ ~ paused
         \/ UNCHANGED <<headRev, queuedRev>>
      /\ paused' = paused
      /\ viewSync' = [at |-> "materialize", target |-> viewSync.target]
  BY ViewFacts DEF DV!Upload, DV!Uploads, DV!Sides, DV!Go, Projected, Trees, Shown, Waiting, ViewTypes
<1>2. ViewTypes'
  <2>1. viewSync' \in [at : SyncSteps, target : Trees \cup {None}]
    BY <1>1, ViewFacts, SyncStepType DEF SyncSteps
  <2>2. views' \in [0..MaxTrees -> Trees \cup {Headless, Partial} \cup {None}]
    BY <1>1 DEF ViewTypes
  <2>3. queuedRev \in Trees \cup {None} /\ paused \in BOOLEAN
    BY DEF ViewTypes
  <2> QED
    BY <1>1, <2>1, <2>2, <2>3, ViewTypesKept, ViewFacts
<1>3. ViewAt' /\ Projected' /\ SideChanged' /\ Waiting'
  BY <1>1, ViewFacts DEF ViewAt, Projected, SideChanged, Waiting
<1>4. queuedRev # None => Follows(origin, capturedTree, queuedRev)
  BY FollowsSelf, ViewFacts DEF Trees, InLine
<1>5. InLine'
  BY <1>1, <1>4, ViewFacts DEF InLine
<1>6. NewTrees'
  BY <1>1 DEF NewTrees, Unseen
<1>7. Saved'
  <2> SUFFICES ASSUME NEW t \in Trees
               PROVE  \E u \in {canonTree, Shown, headRev', queuedRev'} \cap Trees : Follows(origin, t, u)
    BY <1>1 DEF Saved
  <2>1. PICK u \in {canonTree, Shown, headRev, queuedRev} \cap Trees : Follows(origin, t, u)
    BY DEF Saved
  <2>2. CASE UNCHANGED <<headRev, queuedRev>>
    BY <2>1, <2>2
  <2>3. CASE headRev = matRev /\ headRev' = queuedRev
    <3>1. u = headRev => Follows(origin, t, canonTree)
      BY <1>1, <2>1, <2>3, FollowsOn DEF InLine
    <3> QED
      BY <2>1, <2>3, <3>1, ViewFacts
  <2> QED
    BY <1>1, <2>2, <2>3
<1> QED
  BY <1>2, <1>3, <1>5, <1>6, <1>7

LEMMA MaterializeKept == ASSUME ViewInv, DV!Materialize PROVE ViewInv'
<1> USE DEF ViewInv
<1>0. ViewTypes /\ ViewAt /\ Projected /\ InLine /\ SideChanged /\ Waiting /\ NewTrees /\ Saved
  OBVIOUS
<1>1. /\ UNCHANGED <<origin, views, shownRev, headRev, queuedRev, paused, agreed, wb>>
      /\ viewSync.at = "materialize" /\ Trees' = Trees /\ Shown' = Shown /\ matRev = shownRev
      /\ \/ /\ queuedRev = None /\ matRev # headRev /\ ~ paused
            /\ canonTree' = headRev /\ matRev' = headRev /\ capturedTree' = headRev
         \/ UNCHANGED <<canonTree, matRev, capturedTree>>
      /\ viewSync' = [at |-> "project", target |-> viewSync.target]
      /\ ~ paused => capturedTree = canonTree /\ canonTree = agreed /\ Shown = agreed
      /\ wb = None
  BY ViewFacts DEF DV!Materialize, DV!Go, Projected, Trees, Shown, ViewAt
<1>2. ViewTypes'
  <2>1. viewSync' \in [at : SyncSteps, target : Trees \cup {None}]
    BY <1>1, ViewFacts, SyncStepType DEF SyncSteps
  <2>2. views' \in [0..MaxTrees -> Trees \cup {Headless, Partial} \cup {None}]
    BY <1>1 DEF ViewTypes
  <2>3. queuedRev \in Trees \cup {None} /\ paused \in BOOLEAN
    BY DEF ViewTypes
  <2> QED
    BY <1>1, <2>1, <2>2, <2>3, ViewTypesKept, ViewFacts
<1>3. CASE UNCHANGED <<canonTree, matRev, capturedTree>>
  <2>1. ViewAt' /\ Projected' /\ SideChanged' /\ Waiting'
    BY <1>1, <1>3 DEF ViewAt, Projected, SideChanged, Waiting
  <2>2. InLine' /\ NewTrees' /\ Saved'
    BY <1>1, <1>3 DEF InLine, NewTrees, Unseen, Saved
  <2> QED
    BY <1>2, <2>1, <2>2
<1>4. CASE /\ queuedRev = None /\ matRev # headRev /\ ~ paused
           /\ canonTree' = headRev /\ matRev' = headRev /\ capturedTree' = headRev
  <2>1. ViewAt' /\ Projected' /\ SideChanged' /\ Waiting'
    BY <1>1, <1>4, ViewFacts DEF ViewAt, Projected, SideChanged, NewTrees, Waiting
  <2>2. Follows(origin, agreed, headRev) /\ Follows(origin, headRev, headRev)
    BY <1>1, <1>4, FollowsSelf, ViewFacts DEF InLine, Trees
  <2>3. InLine'
    BY <1>1, <1>4, <2>2 DEF InLine
  <2>4. NewTrees'
    BY <1>1, <1>4 DEF NewTrees, Unseen
  <2>5. Saved'
    <3> SUFFICES ASSUME NEW t \in Trees
                 PROVE  \E u \in {headRev, Shown, headRev, queuedRev} \cap Trees : Follows(origin, t, u)
      BY <1>1, <1>4 DEF Saved
    <3>1. PICK u \in {canonTree, Shown, headRev, queuedRev} \cap Trees : Follows(origin, t, u)
      BY DEF Saved
    <3> QED
      BY <1>1, <1>4, <3>1
  <2> QED
    BY <1>2, <2>1, <2>3, <2>4, <2>5
<1> QED
  BY <1>1, <1>3, <1>4

LEMMA ViewKept == ASSUME ViewInv, DV!DerivedNext \/ UNCHANGED derivedVars PROVE ViewInv'
<1>1. CASE DV!EditCanonical \/ DV!EditView \/ DV!RemoteSave
  BY <1>1, EditCanonicalKept, EditViewKept, RemoteSaveKept
<1>2. CASE DV!Start \/ DV!RecoveryDone \/ UNCHANGED derivedVars \/ DV!StopSync
  BY <1>2, ViewQuiet, ViewStops
<1>3. CASE DV!Project \/ DV!Compare \/ DV!RemoveView \/ DV!CopyView
  BY <1>3, ProjectKept, CompareKept, RefreshKept
<1>4. CASE DV!Stage \/ DV!DiscardPlanned \/ DV!VerifyStaged \/ DV!Switch \/ DV!CompleteWriteback
  BY <1>4, WritebackMoves, SwitchKept, CompleteKept
<1>5. CASE DV!Scan \/ DV!Upload \/ DV!Materialize
  BY <1>5, ScanKept, UploadKept, MaterializeKept
<1> QED
  BY <1>1, <1>2, <1>3, <1>4, <1>5 DEF DV!DerivedNext, DV!ViewStep

LEMMA ViewInvSafe == ViewInv => DV!DerivedTypeOK /\ DV!NoSaveLost
<1> SUFFICES ASSUME ViewInv PROVE DV!DerivedTypeOK /\ DV!NoSaveLost
  OBVIOUS
<1>1. ViewTypes /\ Saved
  BY DEF ViewInv
<1>2. DV!DerivedTypeOK
  BY <1>1, ViewFacts DEF ViewTypes, DV!DerivedTypeOK, Trees, DV!Made, DV!Torn
<1>3. DV!NoSaveLost
  BY <1>1, DerivesIsFollows DEF Saved, DV!NoSaveLost, DV!Made, Trees, Shown
<1> QED
  BY <1>2, <1>3

-------------------------------------------------------------------------------
(* The names in the harness roots: the inductive invariant *)

\* A link that resolves when c holds the canonical links, and one of the skill
\* s; the names that entries occupy without resolving.
Live(c, e) == e \notin {None, User} /\ (e.path = <<>> \/ <<e.skill, e.path>> \in c)
Own(c, s, e) == Live(c, e) /\ e.skill = s
Passable(c, s, e) == e \in {None, User} \/ Own(c, s, e)
Held(ents, c) == {n \in PN!Names : \E r \in Roots : ents[r][n] # None /\ ~ Live(c, ents[r][n])}

\* The name of a skill collides with a reserved one or with another skill's,
\* the names that stay canonical, and a name as the allocator gives it.
Clash(rows, held, s) ==
    rows[s].slug \in held \/ \E t \in PN!Ids \ {s} : rows[t] # None /\ rows[t].slug = rows[s].slug
Stays(rows, held) ==
    held \cup {rows[t].slug : t \in {u \in PN!Ids : rows[u] # None /\ ~ Clash(rows, held, u)}}
Fits(rows, held, s, n) ==
    IF Clash(rows, held, s) THEN n \in PN!Aliases(s, rows[s].slug) /\ n \notin Stays(rows, held)
    ELSE n = rows[s].slug

Steps == {"idle", "recover", "plan", "stale", "link", "body"}

RowTypes ==
    /\ skillRow \in [PN!Ids -> PN!SkillRows \cup {None}]
    /\ \A s \in PN!Managed : skillRow[s].slug \in SlugsOf(s)
EntryTypes == canon \subseteq PN!Ids \X PN!Slugs /\ entry \in [Roots -> [PN!Names -> PN!Links \cup {None, User}]]
ProjTypes ==
    /\ proj = [at |-> proj.at, inner |-> proj.inner, plan |-> proj.plan, todo |-> proj.todo,
               linked |-> proj.linked, clean |-> proj.clean]
    /\ proj.at \in Steps /\ proj.inner \in BOOLEAN /\ proj.clean \in BOOLEAN
    /\ proj.todo \subseteq PN!Ids /\ proj.linked \subseteq Roots
NamesTypes ==
    /\ RowTypes /\ EntryTypes /\ ProjTypes /\ job \in PN!Jobs \cup {None}
    /\ userHas \subseteq Roots \X UserNames /\ fresh \in BOOLEAN

\* The user's entries are exactly the ones she made.
Hers == \A r \in Roots, n \in PN!Names : entry[r][n] = User <=> <<r, n>> \in userHas

\* Every managed skill has its canonical link, but one whose removal has taken
\* the link and not yet the row.
Canonicals ==
    \A s \in PN!Managed :
        \/ <<s, skillRow[s].slug>> \in canon
        \/ job # None /\ job.skill = s /\ job.slug = None /\ job.state = "verified"

\* What an open journal knows of its skill's row, and at which steps of a
\* command one may be open.
RemoveRow == skillRow[job.skill] = IF job.state = "switched" THEN None ELSE job.old
RenamedRow ==
    /\ job.slug \in SlugsOf(job.skill) /\ job.slug # job.old.slug
    /\ job.state \in {"planned", "staged"} => skillRow[job.skill] = job.old
    /\ job.state # "planned" => <<job.skill, job.slug>> \in canon
    /\ job.state = "verified" => skillRow[job.skill] = [slug |-> job.slug, name |-> job.old.name]
    /\ job.state = "switched" => skillRow[job.skill] # None /\ skillRow[job.skill].slug = job.slug
JobRow ==
    /\ job # None => /\ IF job.slug = None THEN RemoveRow ELSE RenamedRow
                     /\ job.state \in {"verified", "switched"} => ~ fresh
    /\ proj.at = "body" => job = None
    /\ proj.at \in {"plan", "stale", "link"} => job = None \/ (job.slug # None /\ job.state = "switched")

\* Only the user's entries are in the way of an open journal.
JobFree ==
    job # None /\ job.old.name # None =>
        \A r \in Roots :
            /\ entry[r][job.old.name] \in {None, User} \/ Live(canon, entry[r][job.old.name])
            /\ job.slug = None /\ job.state # "planned" => entry[r][job.old.name] \in {None, User}

\* In the body of a command, and while it recovers what the body began, the
\* names the rows record show the skills themselves or nothing of Denju's.
BodyLinks ==
    proj.at = "body" \/ (proj.at = "recover" /\ proj.inner) =>
        \A s \in PN!Managed : skillRow[s].name # None =>
            \A r \in Roots : Passable(canon, s, entry[r][skillRow[s].name])

\* The plan gives every skill a name of its own; without a disturbance it fits
\* what the roots hold, and it repeats the names of an undisturbed reconcile.
PlanOK ==
    proj.at \in {"stale", "link"} =>
        /\ proj.plan \in [PN!Managed -> PN!Names]
        /\ \A s, t \in PN!Managed : proj.plan[s] = proj.plan[t] => s = t
        /\ proj.clean => \A s \in PN!Managed : Fits(skillRow, Held(entry, canon), s, proj.plan[s])
        /\ proj.todo \subseteq PN!Managed
        /\ proj.at = "stale" => proj.linked = {}
        /\ proj.at = "stale" => \A s \in proj.todo : skillRow[s].name \notin {None, proj.plan[s]}
        /\ fresh => \A s \in PN!Managed : skillRow[s].name = proj.plan[s]

Least(S) == CHOOSE s \in S : \A t \in S : s <= t

\* The names already given, and the roots already linked under the next one.
Linked(s, r) == s \notin proj.todo \/ (s = Least(proj.todo) /\ r \in proj.linked)
Given ==
    proj.at = "link" =>
        \A s \in PN!Managed :
            /\ s \notin proj.todo => skillRow[s].name = proj.plan[s]
            /\ \A r \in Roots : Linked(s, r) => /\ Passable(canon, s, entry[r][proj.plan[s]])
                                                /\ proj.clean => Own(canon, s, entry[r][proj.plan[s]])

\* After an undisturbed reconcile the allocator would give every name again.
Settled ==
    fresh => \A s \in PN!Managed :
        /\ skillRow[s].name # None /\ Fits(skillRow, Held(entry, canon), s, skillRow[s].name)
        /\ \A r \in Roots : Own(canon, s, entry[r][skillRow[s].name])
        /\ \A t \in PN!Managed : skillRow[t].name = skillRow[s].name => s = t

NamesInv ==
    /\ NamesTypes /\ Hers /\ Canonicals /\ JobRow /\ JobFree /\ BodyLinks /\ PlanOK /\ Given
    /\ Settled

LEMMA HarnessTerms ==
  /\ \A e : PN!Resolves(e) <=> Live(canon, e)
  /\ PN!Reserved = Held(entry, canon)
  /\ \A r, n : PN!Removable(r, n) <=> (entry[r][n] = None \/ Live(canon, entry[r][n]))
  /\ PN!Turn = Least(proj.todo)
<1>1. \A e : PN!Resolves(e) <=> Live(canon, e)
  BY DEF PN!Resolves, PN!IsLink, PN!View, Live
<1>2. PN!Reserved = Held(entry, canon)
  BY <1>1 DEF PN!Reserved, Held
<1>3. \A r, n : PN!Removable(r, n) <=> (entry[r][n] = None \/ Live(canon, entry[r][n]))
  BY <1>1 DEF PN!Removable
<1>4. PN!Turn = Least(proj.todo)
  BY DEF PN!Turn, Least
<1> QED
  BY <1>1, <1>2, <1>3, <1>4

LEMMA AllocatorTerms ==
  ASSUME NEW held
  PROVE  /\ \A s : PN!Collides(s, held) <=> Clash(skillRow, held, s)
         /\ PN!Kept(held) = Stays(skillRow, held)
<1>1. \A s : PN!Collides(s, held) <=> Clash(skillRow, held, s)
  BY DEF PN!Collides, PN!Managed, Clash
<1>2. PN!Kept(held) = Stays(skillRow, held)
  <2>1. {t \in PN!Managed : ~ PN!Collides(t, held)}
          = {u \in PN!Ids : skillRow[u] # None /\ ~ Clash(skillRow, held, u)}
    BY <1>1 DEF PN!Managed
  <2> QED
    BY <2>1 DEF PN!Kept, Stays
<1> QED
  BY <1>1, <1>2

LEMMA LeastIn ==
  ASSUME NEW S \in SUBSET PN!Ids, S # {}
  PROVE  Least(S) \in S
<1>0. PN!Ids \subseteq Nat
  BY NamesAssumption DEF PN!Ids
<1>1. IsWellFoundedOn(OpToRel(<, Nat), Nat)
  BY NatLessThanWellFounded
<1>2. PICK x \in S : \A y \in S : ~ (<<y, x>> \in OpToRel(<, Nat))
  BY <1>0, <1>1, WFMin
<1>3. ASSUME NEW y \in S PROVE x <= y
  <2>1. <<y, x>> \notin {ss \in Nat \X Nat : ss[1] < ss[2]}
    BY <1>2 DEF OpToRel
  <2> QED
    BY <1>0, <2>1
<1> QED
  BY <1>3 DEF Least

\* What a run of the allocator gives.
LEMMA PlanFits ==
  ASSUME RowTypes, NEW held, NEW plan, PN!Allocated(plan, held)
  PROVE  /\ \A s \in PN!Managed : Fits(skillRow, held, s, plan[s])
         /\ \A s, t \in PN!Managed : plan[s] = plan[t] => s = t
<1> DEFINE sticky == PN!Claimed(held)
           used(s) == Stays(skillRow, held) \cup {skillRow[t].name : t \in sticky}
                        \cup {plan[t] : t \in {u \in PN!Managed : u < s}}
<1>1. \A s \in PN!Managed :
        /\ ~ Clash(skillRow, held, s) => plan[s] = skillRow[s].slug
        /\ s \in sticky => plan[s] = skillRow[s].name
        /\ Clash(skillRow, held, s) /\ s \notin sticky => PN!IsLowestAlias(plan[s], s, used(s))
  BY AllocatorTerms DEF PN!Allocated
<1>2. \A s \in sticky : /\ s \in PN!Managed /\ Clash(skillRow, held, s)
                        /\ skillRow[s].name \in PN!Aliases(s, skillRow[s].slug)
                        /\ skillRow[s].name \notin Stays(skillRow, held)
                        /\ \A t \in sticky : skillRow[t].name = skillRow[s].name => s <= t
  BY AllocatorTerms DEF PN!Claimed, PN!Claims
<1> HIDE DEF sticky
<1>3. ASSUME NEW s \in PN!Managed, Clash(skillRow, held, s), s \notin sticky
      PROVE  /\ plan[s] \in PN!Aliases(s, skillRow[s].slug) /\ plan[s] \notin Stays(skillRow, held)
             /\ \A t \in sticky : plan[s] # skillRow[t].name
             /\ \A t \in PN!Managed : t < s => plan[s] # plan[t]
  <2>1. PN!IsLowestAlias(plan[s], s, used(s))
    BY <1>1, <1>3
  <2>2. plan[s] \in PN!Aliases(s, skillRow[s].slug) /\ plan[s] \notin used(s)
    BY <2>1 DEF PN!IsLowestAlias, PN!Aliases
  <2> QED
    BY <2>2
<1>4. \A s \in PN!Managed : Clash(skillRow, held, s) =>
        plan[s] \in PN!Aliases(s, skillRow[s].slug) /\ plan[s] \notin Stays(skillRow, held)
  <2>1. \A s \in sticky : plan[s] = skillRow[s].name
    BY <1>1, <1>2
  <2> QED
    BY <1>2, <1>3, <2>1
<1>5. \A s \in PN!Managed : Fits(skillRow, held, s, plan[s])
  BY <1>1, <1>4 DEF Fits
<1>6. ASSUME NEW s \in PN!Managed, NEW t \in PN!Managed, plan[s] = plan[t], s # t PROVE FALSE
  <2>0. s \in Nat /\ t \in Nat /\ s \in PN!Ids /\ t \in PN!Ids
    BY NamesAssumption DEF PN!Managed, PN!Ids
  <2>1. CASE ~ Clash(skillRow, held, s) /\ ~ Clash(skillRow, held, t)
    BY <1>1, <1>6, <2>1 DEF Clash, PN!Managed
  <2>2. \A u \in PN!Managed : ~ Clash(skillRow, held, u) => plan[u] \in Stays(skillRow, held)
    BY <1>1 DEF Stays, PN!Managed
  <2>3. CASE Clash(skillRow, held, s) /\ ~ Clash(skillRow, held, t)
    BY <1>4, <1>6, <2>2, <2>3
  <2>4. CASE ~ Clash(skillRow, held, s) /\ Clash(skillRow, held, t)
    BY <1>4, <1>6, <2>2, <2>4
  <2>5. CASE Clash(skillRow, held, s) /\ Clash(skillRow, held, t)
    <3>0. \A u \in sticky : u \in PN!Managed /\ plan[u] = skillRow[u].name
      BY <1>1, <1>2
    <3>1. CASE s \in sticky /\ t \in sticky
      <4>1. s <= t /\ t <= s
        BY <1>2, <1>6, <3>0, <3>1
      <4> QED
        BY <1>6, <2>0, <4>1
    <3>2. \A u \in PN!Managed, v \in sticky : Clash(skillRow, held, u) /\ u \notin sticky => plan[u] # plan[v]
      BY <1>3, <3>0
    <3>3. \A u, v \in PN!Managed : Clash(skillRow, held, u) /\ u \notin sticky /\ v < u => plan[u] # plan[v]
      BY <1>3
    <3>4. CASE s \notin sticky /\ t \notin sticky
      BY <1>6, <2>0, <2>5, <3>3, <3>4
    <3> QED
      BY <1>6, <2>5, <3>1, <3>2, <3>4
  <2> QED
    BY <2>1, <2>3, <2>4, <2>5
<1> QED
  BY <1>5, <1>6

\* Names that fit and are all different are given again.
LEMMA PlanRepeats ==
  ASSUME RowTypes, NEW held, NEW plan, PN!Allocated(plan, held),
         \A s \in PN!Managed : /\ Fits(skillRow, held, s, skillRow[s].name)
                               /\ \A t \in PN!Managed : skillRow[t].name = skillRow[s].name => s = t
  PROVE  \A s \in PN!Managed : plan[s] = skillRow[s].name
<1> SUFFICES ASSUME NEW s \in PN!Managed PROVE plan[s] = skillRow[s].name
  OBVIOUS
<1>1. CASE Clash(skillRow, held, s)
  <2>1. PN!Claims(s, held)
    BY <1>1, AllocatorTerms DEF PN!Claims, Fits
  <2>2. s <= s
    BY NamesAssumption DEF PN!Managed, PN!Ids
  <2>3. s \in PN!Claimed(held)
    BY <2>1, <2>2 DEF PN!Claimed
  <2> QED
    BY <2>3 DEF PN!Allocated
<1>2. CASE ~ Clash(skillRow, held, s)
  BY <1>2, AllocatorTerms DEF PN!Allocated, Fits
<1> QED
  BY <1>1, <1>2

\* Replacing what is free or resolves by the like reserves no name and frees
\* none.
LEMMA HeldKept ==
  ASSUME NEW before, NEW after, NEW c,
         \A r \in Roots, n \in PN!Names :
            \/ after[r][n] = before[r][n]
            \/ /\ before[r][n] = None \/ Live(c, before[r][n])
               /\ after[r][n] = None \/ Live(c, after[r][n])
  PROVE  Held(after, c) = Held(before, c)
  BY DEF Held

\* The allocator reads of the rows which are there and their slugs.
LEMMA FitsKept ==
  ASSUME NEW rows, NEW later, NEW held,
         \A t \in PN!Ids : (later[t] = None <=> rows[t] = None) /\ (rows[t] # None => later[t].slug = rows[t].slug),
         NEW s \in PN!Ids, rows[s] # None, NEW n, Fits(rows, held, s, n)
  PROVE  Fits(later, held, s, n)
<1>1. \A t \in PN!Ids : rows[t] # None => (Clash(later, held, t) <=> Clash(rows, held, t))
  BY DEF Clash
<1>2. {u \in PN!Ids : later[u] # None /\ ~ Clash(later, held, u)}
        = {u \in PN!Ids : rows[u] # None /\ ~ Clash(rows, held, u)}
  BY <1>1
<1>3. Stays(later, held) = Stays(rows, held)
  <2>1. \A t \in {u \in PN!Ids : rows[u] # None /\ ~ Clash(rows, held, u)} : later[t].slug = rows[t].slug
    OBVIOUS
  <2> QED
    BY <1>2, <2>1 DEF Stays
<1> QED
  BY <1>1, <1>3 DEF Fits

LEMMA NamesFacts ==
  ASSUME NamesTypes
  PROVE  /\ PN!Managed \subseteq PN!Ids /\ UserNames \subseteq PN!Names /\ PN!Slugs \subseteq PN!Names
         /\ \A s \in PN!Managed : /\ skillRow[s] \in PN!SkillRows /\ skillRow[s].slug \in PN!Slugs
                                  /\ skillRow[s].name \in PN!Names \cup {None}
         /\ \A r \in Roots, n \in PN!Names : entry[r][n] \in PN!Links \cup {None, User}
         /\ job # None => /\ job.skill \in PN!Ids /\ job.old \in PN!SkillRows
                          /\ job.old.name \in PN!Names \cup {None} /\ job.old.slug \in PN!Slugs
                          /\ job.state \in {"planned", "staged", "verified", "switched"}
                          /\ \A st : [job EXCEPT !.state = st]
                                       = [skill |-> job.skill, old |-> job.old, slug |-> job.slug, state |-> st]
<1>1. PN!Managed \subseteq PN!Ids /\ UserNames \subseteq PN!Names /\ PN!Slugs \subseteq PN!Names
  BY DEF PN!Managed, PN!Names
<1>2. \A s \in PN!Managed : /\ skillRow[s] \in PN!SkillRows /\ skillRow[s].slug \in PN!Slugs
                            /\ skillRow[s].name \in PN!Names \cup {None}
  BY <1>1 DEF PN!Managed, NamesTypes, RowTypes, PN!SkillRows
<1>3. \A r \in Roots, n \in PN!Names : entry[r][n] \in PN!Links \cup {None, User}
  BY DEF NamesTypes, EntryTypes
<1>4. job # None => /\ job.skill \in PN!Ids /\ job.old \in PN!SkillRows
                    /\ job.old.name \in PN!Names \cup {None} /\ job.old.slug \in PN!Slugs
                    /\ job.state \in {"planned", "staged", "verified", "switched"}
                    /\ \A st : [job EXCEPT !.state = st]
                                 = [skill |-> job.skill, old |-> job.old, slug |-> job.slug, state |-> st]
  BY DEF NamesTypes, PN!Jobs, PN!SkillRows
<1> QED
  BY <1>1, <1>2, <1>3, <1>4

LEMMA NamesInitial == PN!NamesInit => NamesInv
<1> SUFFICES ASSUME PN!NamesInit PROVE NamesInv
  OBVIOUS
<1> USE NamesAssumption DEF PN!NamesInit, PN!Rest, PN!NoEntry
<1>1. PN!Managed = {}
  BY DEF PN!Managed
<1>2. \A r \in Roots, n \in PN!Names : entry[r][n] = None
  OBVIOUS
<1>3. NamesTypes
  <2>1. RowTypes /\ EntryTypes
    BY <1>1 DEF RowTypes, EntryTypes
  <2>2. ProjTypes
    BY DEF ProjTypes, Steps
  <2> QED
    BY <2>1, <2>2 DEF NamesTypes
<1>4. Hers
  BY <1>2 DEF Hers
<1>5. Canonicals /\ JobRow /\ JobFree /\ BodyLinks /\ PlanOK /\ Given /\ Settled
  BY <1>1 DEF Canonicals, JobRow, JobFree, BodyLinks, PlanOK, Given, Settled
<1> QED
  BY <1>3, <1>4, <1>5 DEF NamesInv

\* A step of the command that touches neither rows, links nor the journal, and
\* stays out of the reconcile.
LEMMA ProjMoves ==
  ASSUME NamesInv, UNCHANGED <<skillRow, canon, entry, job, userHas>>, fresh' = fresh \/ fresh' = FALSE,
         NEW a \in Steps, NEW i \in BOOLEAN, NEW p, NEW td \in SUBSET PN!Ids, NEW l \in SUBSET Roots,
         NEW c \in BOOLEAN,
         proj' = [at |-> a, inner |-> i, plan |-> p, todo |-> td, linked |-> l, clean |-> c],
         a \notin {"stale", "link"},
         a = "body" => job = None,
         a = "plan" => job = None \/ (job.slug # None /\ job.state = "switched"),
         a = "body" \/ (a = "recover" /\ i) => proj.at = "body" \/ (proj.at = "recover" /\ proj.inner)
  PROVE  NamesInv'
<1> USE DEF NamesInv
<1>1. PN!Managed' = PN!Managed
  BY DEF PN!Managed
<1>2. NamesTypes'
  <2>1. RowTypes' /\ EntryTypes'
    BY <1>1 DEF NamesTypes, RowTypes, EntryTypes
  <2>2. ProjTypes'
    BY DEF ProjTypes
  <2> QED
    BY <2>1, <2>2 DEF NamesTypes
<1>3. Hers' /\ Canonicals' /\ JobFree' /\ Settled'
  BY <1>1 DEF Hers, Canonicals, JobFree, Settled
<1>4. JobRow'
  BY DEF JobRow, RemoveRow, RenamedRow
<1>5. BodyLinks'
  BY <1>1 DEF BodyLinks
<1>6. PlanOK' /\ Given'
  BY DEF PlanOK, Given
<1> QED
  BY <1>2, <1>3, <1>4, <1>5, <1>6

LEMMA NamesQuiet ==
  ASSUME NamesInv,
         PN!StartCommand \/ PN!BodyDone \/ PN!ProjectRenamed \/ PN!Recovered \/ PN!Stop
  PROVE  NamesInv'
<1>1. UNCHANGED <<skillRow, canon, entry, job, userHas, fresh>>
  BY DEF PN!StartCommand, PN!BodyDone, PN!ProjectRenamed, PN!Recovered, PN!Stop
<1>2. ProjTypes
  BY DEF NamesInv, NamesTypes
<1>3. \A x : [proj EXCEPT !.at = x] = [at |-> x, inner |-> proj.inner, plan |-> proj.plan,
                                       todo |-> proj.todo, linked |-> proj.linked, clean |-> proj.clean]
  BY <1>2 DEF ProjTypes
<1>4. CASE PN!StartCommand \/ PN!Stop
  <2>1. \E a \in {"idle", "recover"} :
          proj' = [at |-> a, inner |-> FALSE, plan |-> <<>>, todo |-> {}, linked |-> {}, clean |-> FALSE]
    BY <1>4 DEF PN!StartCommand, PN!Stop, PN!Rest
  <2>2. PICK a \in {"idle", "recover"} :
          proj' = [at |-> a, inner |-> FALSE, plan |-> <<>>, todo |-> {}, linked |-> {}, clean |-> FALSE]
    BY <2>1
  <2>3. {} \in SUBSET PN!Ids /\ {} \in SUBSET Roots /\ FALSE \in BOOLEAN /\ a \in Steps
    BY DEF Steps
  <2> HIDE DEF NamesInv
  <2> QED
    BY <1>1, <2>2, <2>3, ProjMoves
<1>5. ASSUME NEW a \in Steps,
             proj' = [at |-> a, inner |-> proj.inner, plan |-> proj.plan,
                      todo |-> proj.todo, linked |-> proj.linked, clean |-> proj.clean],
             a \notin {"stale", "link"}, a = "body" => job = None,
             a = "plan" => job = None \/ (job.slug # None /\ job.state = "switched"),
             a = "body" \/ (a = "recover" /\ proj.inner) => proj.at = "body" \/ (proj.at = "recover" /\ proj.inner)
      PROVE  NamesInv'
  BY <1>1, <1>2, <1>5, ProjMoves DEF ProjTypes
<1>6. CASE PN!BodyDone
  <2>1. job = None
    BY <1>6 DEF PN!BodyDone, NamesInv, JobRow
  <2> QED
    BY <1>3, <1>5, <1>6, <2>1 DEF PN!BodyDone, Steps
<1>7. CASE PN!ProjectRenamed
  <2>1. job # None /\ job.slug # None /\ job.state = "switched"
    BY <1>7 DEF PN!ProjectRenamed, PN!Recovering
  <2> QED
    BY <1>3, <1>5, <1>7, <2>1 DEF PN!ProjectRenamed, Steps
<1>8. CASE PN!Recovered
  BY <1>3, <1>5, <1>8 DEF PN!Recovered, Steps
<1> QED
  BY <1>4, <1>6, <1>7, <1>8

LEMMA EntryAt ==
  ASSUME EntryTypes, NEW r \in Roots, NEW n \in PN!Names, NEW v \in PN!Links \cup {None, User},
         entry' = [entry EXCEPT ![r][n] = v]
  PROVE  /\ entry' \in [Roots -> [PN!Names -> PN!Links \cup {None, User}]]
         /\ \A q \in Roots, m \in PN!Names : entry'[q][m] = IF q = r /\ m = n THEN v ELSE entry[q][m]
<1>1. entry[r] \in [PN!Names -> PN!Links \cup {None, User}]
  BY DEF EntryTypes
<1>2. [entry[r] EXCEPT ![n] = v] \in [PN!Names -> PN!Links \cup {None, User}]
  BY <1>1
<1>3. entry' = [entry EXCEPT ![r] = [entry[r] EXCEPT ![n] = v]]
  OBVIOUS
<1> QED
  BY <1>1, <1>2, <1>3 DEF EntryTypes

LEMMA DisturbedKept ==
  ASSUME NamesInv, NEW r \in Roots, NEW n \in UserNames, PN!UserAdds(r, n) \/ PN!UserDeletes(r, n)
  PROVE  NamesInv'
<1> USE DEF NamesInv
<1>0. NamesTypes /\ RowTypes /\ EntryTypes /\ ProjTypes
  BY DEF NamesTypes
<1>1. /\ UNCHANGED <<skillRow, canon, job>> /\ fresh' = FALSE
      /\ proj' = [at |-> proj.at, inner |-> proj.inner, plan |-> proj.plan, todo |-> proj.todo,
                  linked |-> proj.linked, clean |-> FALSE]
  BY <1>0 DEF PN!UserAdds, PN!UserDeletes, PN!Disturbed, ProjTypes
<1>2. PICK v \in {None, User} :
        /\ entry' = [entry EXCEPT ![r][n] = v]
        /\ userHas' = IF v = User THEN userHas \cup {<<r, n>>} ELSE userHas \ {<<r, n>>}
  BY NamesAssumption DEF PN!UserAdds, PN!UserDeletes
<1>3. /\ entry' \in [Roots -> [PN!Names -> PN!Links \cup {None, User}]]
      /\ \A q \in Roots, m \in PN!Names : entry'[q][m] = IF q = r /\ m = n THEN v ELSE entry[q][m]
  <2>1. n \in PN!Names /\ v \in PN!Links \cup {None, User}
    BY <1>0, NamesFacts
  <2> QED
    BY <1>0, <1>2, <2>1, EntryAt
<1>4. PN!Managed' = PN!Managed
  BY <1>1 DEF PN!Managed
<1>5. NamesTypes'
  <2>1. RowTypes' /\ EntryTypes' /\ ProjTypes'
    BY <1>0, <1>1, <1>3, <1>4 DEF RowTypes, EntryTypes, ProjTypes
  <2>2. userHas' \subseteq Roots \X UserNames
    <3>1. userHas \subseteq Roots \X UserNames /\ <<r, n>> \in Roots \X UserNames
      BY DEF NamesTypes
    <3> QED
      BY <1>2, <3>1
  <2> QED
    BY <1>1, <2>1, <2>2 DEF NamesTypes
<1>6. Hers'
  BY <1>2, <1>3, NamesAssumption DEF Hers
<1>7. Canonicals' /\ JobRow' /\ Settled'
  BY <1>1, <1>4 DEF Canonicals, JobRow, RemoveRow, RenamedRow, Settled
<1>8. JobFree'
  BY <1>1, <1>3, NamesFacts DEF JobFree
<1>9. BodyLinks'
  BY <1>1, <1>3, <1>4, NamesFacts DEF BodyLinks, Passable
<1>10. PlanOK'
  BY <1>1, <1>4 DEF PlanOK
<1>11. Given'
  <2> SUFFICES ASSUME proj.at = "link", NEW s \in PN!Managed
               PROVE  /\ s \notin proj.todo => skillRow[s].name = proj.plan[s]
                      /\ \A q \in Roots : Linked(s, q) => Passable(canon, s, entry'[q][proj.plan[s]])
    BY <1>1, <1>4 DEF Given, Linked
  <2>1. proj.plan[s] \in PN!Names
    BY DEF PlanOK
  <2> QED
    BY <1>3, <2>1 DEF Given, Passable
<1> QED
  BY <1>5, <1>6, <1>7, <1>8, <1>9, <1>10, <1>11

-------------------------------------------------------------------------------
(* The names: a reconcile *)

LEMMA PlanKept == ASSUME NamesInv, PN!PlanNames PROVE NamesInv'
<1> USE DEF NamesInv
<1>0. NamesTypes /\ RowTypes /\ EntryTypes /\ ProjTypes
  BY DEF NamesTypes
<1>1. PICK plan \in [PN!Managed -> PN!Names] :
        /\ proj.at = "plan" /\ PN!Allocated(plan, Held(entry, canon))
        /\ proj' = [proj EXCEPT !.at = "stale", !.plan = plan, !.todo = PN!StaleNames(plan),
                                !.linked = {}, !.clean = TRUE]
        /\ UNCHANGED <<skillRow, canon, entry, job, userHas, fresh>>
  BY HarnessTerms DEF PN!PlanNames
<1>2. proj' = [at |-> "stale", inner |-> proj.inner, plan |-> plan, todo |-> PN!StaleNames(plan),
               linked |-> {}, clean |-> TRUE]
  BY <1>0, <1>1 DEF ProjTypes
<1>3. /\ PN!Managed' = PN!Managed /\ PN!StaleNames(plan) \subseteq PN!Managed
      /\ \A s \in PN!StaleNames(plan) : skillRow[s].name \notin {None, plan[s]}
  BY <1>1 DEF PN!Managed, PN!StaleNames
<1>4. NamesTypes'
  <2>1. RowTypes' /\ EntryTypes'
    BY <1>0, <1>1, <1>3 DEF RowTypes, EntryTypes
  <2>2. ProjTypes'
    BY <1>0, <1>2, <1>3, NamesFacts DEF ProjTypes, Steps
  <2> QED
    BY <1>1, <2>1, <2>2 DEF NamesTypes
<1>5. Hers' /\ Canonicals' /\ JobFree' /\ Settled'
  BY <1>1, <1>3 DEF Hers, Canonicals, JobFree, Settled
<1>6. JobRow' /\ BodyLinks' /\ Given'
  BY <1>1, <1>2 DEF JobRow, RemoveRow, RenamedRow, BodyLinks, Given
<1>7. PlanOK'
  <2>1. /\ \A s \in PN!Managed : Fits(skillRow, Held(entry, canon), s, plan[s])
        /\ \A s, t \in PN!Managed : plan[s] = plan[t] => s = t
    BY <1>0, <1>1, PlanFits
  <2>2. fresh => \A s \in PN!Managed : skillRow[s].name = plan[s]
    BY <1>0, <1>1, PlanRepeats DEF Settled
  <2> QED
    BY <1>1, <1>2, <1>3, <2>1, <2>2 DEF PlanOK
<1> QED
  BY <1>4, <1>5, <1>6, <1>7

\* Stale links are removed where they resolve, and not at all when the last
\* reconcile was undisturbed.
LEMMA RemoveStaleKept == ASSUME NamesInv, PN!RemoveStale PROVE NamesInv'
<1> USE DEF NamesInv
<1>0. NamesTypes /\ RowTypes /\ EntryTypes /\ ProjTypes
  BY DEF NamesTypes
<1> DEFINE turn == Least(proj.todo)
           m == skillRow[turn].name
<1>1. /\ proj.at = "stale" /\ proj.todo # {}
      /\ entry' = [r \in Roots |-> IF entry[r][m] = None \/ Live(canon, entry[r][m])
                                   THEN [entry[r] EXCEPT ![m] = None] ELSE entry[r]]
      /\ UNCHANGED <<skillRow, canon, job, userHas, fresh>>
      /\ proj' = [at |-> "stale", inner |-> proj.inner, plan |-> proj.plan, todo |-> proj.todo \ {turn},
                  linked |-> proj.linked, clean |-> proj.clean]
  BY <1>0, HarnessTerms DEF PN!RemoveStale, ProjTypes
<1>2. turn \in proj.todo /\ turn \in PN!Managed /\ m \in PN!Names /\ ~ fresh
  <2>1. turn \in proj.todo
    BY <1>0, <1>1, LeastIn DEF ProjTypes
  <2> QED
    BY <1>1, <2>1, NamesFacts DEF PlanOK
<1> HIDE DEF turn, m
<1>3. \A r \in Roots, n \in PN!Names :
        \/ entry'[r][n] = entry[r][n]
        \/ entry'[r][n] = None /\ Live(canon, entry[r][n])
  <2> SUFFICES ASSUME NEW r \in Roots, NEW n \in PN!Names
               PROVE  \/ entry'[r][n] = entry[r][n]
                      \/ entry'[r][n] = None /\ Live(canon, entry[r][n])
    OBVIOUS
  <2>1. entry[r] \in [PN!Names -> PN!Links \cup {None, User}]
    BY <1>0 DEF EntryTypes
  <2> QED
    BY <1>1, <1>2, <2>1
<1>4. entry' \in [Roots -> [PN!Names -> PN!Links \cup {None, User}]]
  <2>1. \A r \in Roots : [entry[r] EXCEPT ![m] = None] \in [PN!Names -> PN!Links \cup {None, User}]
    BY <1>0 DEF EntryTypes
  <2> QED
    BY <1>0, <1>1, <2>1 DEF EntryTypes
<1>5. PN!Managed' = PN!Managed
  BY <1>1 DEF PN!Managed
<1>6. NamesTypes'
  <2>1. RowTypes' /\ EntryTypes' /\ ProjTypes'
    BY <1>0, <1>1, <1>4, <1>5 DEF RowTypes, EntryTypes, ProjTypes
  <2> QED
    BY <1>1, <2>1 DEF NamesTypes
<1>7. Hers'
  <2> SUFFICES ASSUME NEW r \in Roots, NEW n \in PN!Names
               PROVE  entry'[r][n] = User <=> <<r, n>> \in userHas
    BY <1>1 DEF Hers
  <2>1. entry[r][n] = User <=> <<r, n>> \in userHas
    BY DEF Hers
  <2> QED
    BY <1>3, <2>1, NamesAssumption DEF Live
<1>8. Canonicals' /\ JobRow' /\ BodyLinks' /\ Given' /\ Settled'
  BY <1>1, <1>2, <1>5 DEF Canonicals, JobRow, RemoveRow, RenamedRow, BodyLinks, Given, Settled
<1>9. JobFree'
  BY <1>1, <1>3, NamesFacts DEF JobFree
<1>10. PlanOK'
  <2>1. Held(entry', canon) = Held(entry, canon)
    BY <1>3, HeldKept
  <2> QED
    BY <1>1, <1>2, <1>5, <2>1 DEF PlanOK
<1> QED
  BY <1>6, <1>7, <1>8, <1>9, <1>10

LEMMA StaleRemovedKept == ASSUME NamesInv, PN!StaleRemoved PROVE NamesInv'
<1> USE DEF NamesInv
<1>0. NamesTypes /\ RowTypes /\ EntryTypes /\ ProjTypes
  BY DEF NamesTypes
<1>1. /\ proj.at = "stale" /\ DOMAIN proj.plan = PN!Managed
      /\ UNCHANGED <<skillRow, canon, entry, job, userHas, fresh>>
      /\ proj' = [at |-> "link", inner |-> proj.inner, plan |-> proj.plan, todo |-> PN!Managed,
                  linked |-> proj.linked, clean |-> proj.clean]
  BY <1>0 DEF PN!StaleRemoved, ProjTypes, PlanOK
<1>2. PN!Managed' = PN!Managed
  BY <1>1 DEF PN!Managed
<1>3. NamesTypes'
  <2>1. RowTypes' /\ EntryTypes' /\ ProjTypes'
    BY <1>0, <1>1, <1>2, NamesFacts DEF RowTypes, EntryTypes, ProjTypes, Steps
  <2> QED
    BY <1>1, <2>1 DEF NamesTypes
<1>4. Hers' /\ Canonicals' /\ JobFree' /\ Settled'
  BY <1>1, <1>2 DEF Hers, Canonicals, JobFree, Settled
<1>5. JobRow' /\ BodyLinks' /\ PlanOK'
  BY <1>1, <1>2 DEF JobRow, RemoveRow, RenamedRow, BodyLinks, PlanOK
<1>6. Given'
  BY <1>1, <1>2 DEF Given, Linked, PlanOK
<1> QED
  BY <1>3, <1>4, <1>5, <1>6

\* A new link replaces nothing of the user's and resolves.
LEMMA LinkNameKept == ASSUME NamesInv, NEW r \in Roots, PN!Link(r) PROVE NamesInv'
<1> USE DEF NamesInv
<1>0. NamesTypes /\ RowTypes /\ EntryTypes /\ ProjTypes /\ PlanOK /\ Given
  BY DEF NamesTypes
<1> DEFINE turn == Least(proj.todo)
           m == proj.plan[turn]
           new == [skill |-> turn, path |-> IF m = skillRow[turn].slug THEN m ELSE <<>>]
<1>1. /\ proj.at = "link" /\ proj.todo # {} /\ UNCHANGED <<skillRow, canon, job, userHas, fresh>>
      /\ IF entry[r][m] = None \/ Live(canon, entry[r][m])
           THEN /\ entry' = [entry EXCEPT ![r][m] = new]
                /\ proj' = [proj EXCEPT !.linked = @ \cup {r}]
           ELSE proj' = PN!Rest /\ entry' = entry
  BY HarnessTerms DEF PN!Link, PN!View
<1>2. turn \in proj.todo /\ turn \in PN!Managed /\ m \in PN!Names
  <2>1. turn \in proj.todo
    BY <1>0, <1>1, LeastIn DEF ProjTypes
  <2> QED
    BY <1>0, <1>1, <2>1 DEF PlanOK
<1>3. new \in PN!Links /\ new.skill = turn /\ Live(canon, new) /\ new \notin {None, User}
  <2>1. <<turn, skillRow[turn].slug>> \in canon
    BY <1>1, <1>2 DEF Canonicals, JobRow
  <2>2. new \in PN!Links
    BY <1>2, NamesFacts DEF PN!Links, PN!View
  <2>3. new.skill = turn /\ (new.path = <<>> \/ <<turn, new.path>> \in canon)
    BY <2>1
  <2> QED
    BY <2>2, <2>3, NamesAssumption DEF Live
<1> HIDE DEF turn, m, new
<1>4. CASE entry[r][m] # None /\ ~ Live(canon, entry[r][m])
  <2>1. /\ UNCHANGED <<skillRow, canon, entry, job, userHas, fresh>>
        /\ proj' = [at |-> "idle", inner |-> FALSE, plan |-> <<>>, todo |-> {}, linked |-> {}, clean |-> FALSE]
    BY <1>1, <1>4 DEF PN!Rest
  <2>2. {} \in SUBSET PN!Ids /\ {} \in SUBSET Roots /\ FALSE \in BOOLEAN /\ "idle" \in Steps
    BY DEF Steps
  <2>3. NamesInv
    OBVIOUS
  <2> HIDE DEF NamesInv
  <2> QED
    BY <2>1, <2>2, <2>3, ProjMoves
<1>5. CASE entry[r][m] = None \/ Live(canon, entry[r][m])
  <2>1. /\ entry' = [entry EXCEPT ![r][m] = new]
        /\ proj' = [at |-> "link", inner |-> proj.inner, plan |-> proj.plan, todo |-> proj.todo,
                    linked |-> proj.linked \cup {r}, clean |-> proj.clean]
    BY <1>0, <1>1, <1>5 DEF ProjTypes
  <2>2. /\ entry' \in [Roots -> [PN!Names -> PN!Links \cup {None, User}]]
        /\ \A q \in Roots, n \in PN!Names : entry'[q][n] = IF q = r /\ n = m THEN new ELSE entry[q][n]
    BY <1>0, <1>2, <1>3, <2>1, EntryAt
  <2>3. PN!Managed' = PN!Managed
    BY <1>1 DEF PN!Managed
  <2>4. NamesTypes'
    <3>1. RowTypes' /\ EntryTypes'
      BY <1>0, <1>1, <2>2, <2>3 DEF RowTypes, EntryTypes
    <3>2. ProjTypes'
      BY <1>0, <2>1 DEF ProjTypes, Steps
    <3> QED
      BY <1>1, <3>1, <3>2 DEF NamesTypes
  <2>5. Hers'
    <3> SUFFICES ASSUME NEW q \in Roots, NEW n \in PN!Names
                 PROVE  entry'[q][n] = User <=> <<q, n>> \in userHas
      BY <1>1 DEF Hers
    <3>1. entry[q][n] = User <=> <<q, n>> \in userHas
      BY DEF Hers
    <3>2. entry[r][m] # User /\ new # User
      BY <1>3, <1>5, NamesAssumption DEF Live
    <3> QED
      BY <2>2, <3>1, <3>2
  <2>6. Canonicals' /\ JobRow' /\ BodyLinks'
    BY <1>1, <2>1, <2>3 DEF Canonicals, JobRow, RemoveRow, RenamedRow, BodyLinks
  <2>7. JobFree'
    <3> SUFFICES ASSUME job # None, job.old.name # None, NEW q \in Roots
                 PROVE  entry'[q][job.old.name] \in {None, User} \/ Live(canon, entry'[q][job.old.name])
      BY <1>1 DEF JobFree, JobRow
    <3>1. job.old.name \in PN!Names
      BY NamesFacts
    <3> QED
      BY <1>3, <2>2, <3>1 DEF JobFree
  <2>8. Held(entry', canon) = Held(entry, canon)
    BY <1>3, <1>5, <2>2, HeldKept
  <2>9. PlanOK'
    BY <1>0, <1>1, <2>1, <2>3, <2>8 DEF PlanOK
  <2>10. \A s \in PN!Managed : proj.plan[s] \in PN!Names /\ (proj.plan[s] = m => s = turn)
    BY <1>0, <1>1, <1>2 DEF PlanOK, m
  <2>11. proj.plan[turn] = m
    BY DEF m
  <2>12. Given'
    <3> SUFFICES ASSUME NEW s \in PN!Managed, NEW q \in Roots,
                        s \notin proj.todo \/ (s = turn /\ q \in proj.linked \cup {r})
                 PROVE  /\ Passable(canon, s, entry'[q][proj.plan[s]])
                        /\ proj.clean => Own(canon, s, entry'[q][proj.plan[s]])
      BY <1>0, <1>1, <2>1, <2>3 DEF Given, Linked, turn
    <3>1. CASE s = turn /\ q = r
      BY <1>3, <2>2, <2>10, <2>11, <3>1 DEF Passable, Own
    <3>2. CASE ~ (s = turn /\ q = r)
      <4>1. entry'[q][proj.plan[s]] = entry[q][proj.plan[s]]
        BY <2>2, <2>10, <3>2
      <4>2. Linked(s, q)
        BY <3>2 DEF Linked, turn
      <4> QED
        BY <1>0, <1>1, <4>1, <4>2 DEF Given
    <3> QED
      BY <3>1, <3>2
  <2>13. Settled'
    <3> SUFFICES ASSUME fresh, NEW s \in PN!Managed
                 PROVE  \A q \in Roots : Own(canon, s, entry'[q][skillRow[s].name])
      BY <1>1, <2>3, <2>8 DEF Settled
    <3>1. skillRow[s].name = proj.plan[s]
      BY <1>0, <1>1 DEF PlanOK
    <3>2. \A q \in Roots : Own(canon, s, entry[q][proj.plan[s]])
      BY <3>1 DEF Settled
    <3> QED
      BY <1>3, <2>2, <2>10, <3>1, <3>2 DEF Own
  <2> QED
    BY <2>4, <2>5, <2>6, <2>7, <2>9, <2>12, <2>13
<1> QED
  BY <1>4, <1>5

LEMMA SetNameKept == ASSUME NamesInv, PN!SetName PROVE NamesInv'
<1> USE DEF NamesInv
<1>0. NamesTypes /\ RowTypes /\ EntryTypes /\ ProjTypes /\ PlanOK /\ Given
  BY DEF NamesTypes
<1> DEFINE turn == Least(proj.todo)
<1>1. /\ proj.at = "link" /\ proj.todo # {} /\ proj.linked = Roots
      /\ UNCHANGED <<canon, entry, job, userHas, fresh>>
      /\ skillRow' = [skillRow EXCEPT ![turn].name = proj.plan[turn]]
      /\ proj' = [at |-> "link", inner |-> proj.inner, plan |-> proj.plan, todo |-> proj.todo \ {turn},
                  linked |-> {}, clean |-> proj.clean]
  BY <1>0, HarnessTerms DEF PN!SetName, ProjTypes
<1>2. turn \in proj.todo /\ turn \in PN!Managed /\ proj.plan[turn] \in PN!Names /\ turn \in PN!Ids
  <2>1. turn \in proj.todo
    BY <1>0, <1>1, LeastIn DEF ProjTypes
  <2> QED
    BY <1>0, <1>1, <2>1, NamesFacts DEF PlanOK
<1>3. turn = Least(proj.todo)
  OBVIOUS
<1> HIDE DEF turn
<1>4. /\ \A s \in PN!Ids \ {turn} : skillRow'[s] = skillRow[s]
      /\ skillRow'[turn] = [slug |-> skillRow[turn].slug, name |-> proj.plan[turn]]
      /\ skillRow' \in [PN!Ids -> PN!SkillRows \cup {None}]
  <2>1. [skillRow[turn] EXCEPT !.name = proj.plan[turn]] = [slug |-> skillRow[turn].slug, name |-> proj.plan[turn]]
    BY <1>2, NamesFacts DEF PN!SkillRows
  <2>2. [slug |-> skillRow[turn].slug, name |-> proj.plan[turn]] \in PN!SkillRows
    BY <1>2, NamesFacts DEF PN!SkillRows
  <2> QED
    BY <1>0, <1>1, <1>2, <2>1, <2>2 DEF RowTypes
<1>5. /\ \A t \in PN!Ids : /\ skillRow'[t] = None <=> skillRow[t] = None
                           /\ skillRow[t] # None => skillRow'[t].slug = skillRow[t].slug
      /\ PN!Managed' = PN!Managed
  <2>1. skillRow'[turn] # None /\ skillRow[turn] # None
    BY <1>2, <1>4, NamesFacts, NamesAssumption DEF PN!SkillRows, PN!Managed
  <2>2. \A t \in PN!Ids : /\ skillRow'[t] = None <=> skillRow[t] = None
                          /\ skillRow[t] # None => skillRow'[t].slug = skillRow[t].slug
    BY <1>4, <2>1
  <2> QED
    BY <2>2 DEF PN!Managed
<1>6. NamesTypes'
  <2>1. RowTypes'
    BY <1>0, <1>4, <1>5, NamesFacts DEF RowTypes, PN!Managed
  <2>2. EntryTypes' /\ ProjTypes'
    BY <1>0, <1>1 DEF EntryTypes, ProjTypes
  <2> QED
    BY <1>1, <2>1, <2>2 DEF NamesTypes
<1>7. Hers' /\ JobFree' /\ BodyLinks'
  BY <1>1 DEF Hers, JobFree, BodyLinks
<1>8. Canonicals'
  BY <1>1, <1>5, NamesFacts DEF Canonicals, PN!Managed
<1>9. JobRow'
  <2>1. job = None \/ (job.slug # None /\ job.state = "switched")
    BY <1>1 DEF JobRow
  <2> QED
    BY <1>1, <1>5, <2>1, NamesFacts DEF JobRow, RemoveRow, RenamedRow
<1>10. PlanOK'
  <2>1. \A h : \A s \in PN!Managed : Fits(skillRow, h, s, proj.plan[s]) => Fits(skillRow', h, s, proj.plan[s])
    BY <1>5, FitsKept, NamesFacts DEF PN!Managed
  <2>2. fresh => \A s \in PN!Managed : skillRow'[s].name = proj.plan[s]
    BY <1>0, <1>1, <1>4, NamesFacts DEF PlanOK
  <2> QED
    BY <1>0, <1>1, <1>5, <2>1, <2>2 DEF PlanOK
<1>11. Given'
  <2> SUFFICES ASSUME NEW s \in PN!Managed
               PROVE  /\ s \notin proj.todo \ {turn} => skillRow'[s].name = proj.plan[s]
                      /\ \A r \in Roots : s \notin proj.todo \ {turn} =>
                           /\ Passable(canon, s, entry[r][proj.plan[s]])
                           /\ proj.clean => Own(canon, s, entry[r][proj.plan[s]])
    BY <1>1, <1>5 DEF Given, Linked
  <2>1. \A r \in Roots : s \notin proj.todo \ {turn} => Linked(s, r)
    BY <1>1, <1>3 DEF Linked
  <2> QED
    BY <1>0, <1>1, <1>4, <2>1, NamesFacts DEF Given
<1>12. Settled'
  <2> SUFFICES ASSUME fresh
               PROVE  \A s \in PN!Managed :
                        /\ skillRow'[s].name # None /\ Fits(skillRow', Held(entry, canon), s, skillRow'[s].name)
                        /\ \A r \in Roots : Own(canon, s, entry[r][skillRow'[s].name])
                        /\ \A t \in PN!Managed : skillRow'[t].name = skillRow'[s].name => s = t
    BY <1>1, <1>5 DEF Settled
  <2>1. \A s \in PN!Managed : skillRow'[s].name = skillRow[s].name
    BY <1>0, <1>1, <1>2, <1>4, NamesFacts DEF PlanOK
  <2>2. \A s \in PN!Managed : Fits(skillRow', Held(entry, canon), s, skillRow[s].name)
    BY <1>5, FitsKept, NamesFacts DEF PN!Managed, Settled
  <2> QED
    BY <2>1, <2>2 DEF Settled
<1> QED
  BY <1>6, <1>7, <1>8, <1>9, <1>10, <1>11, <1>12

\* The end of a reconcile: every skill has its name, and its links unless the
\* user disturbed them.
LEMMA ReconciledKept == ASSUME NamesInv, PN!Reconciled PROVE NamesInv'
<1> USE DEF NamesInv
<1>0. NamesTypes /\ RowTypes /\ EntryTypes /\ ProjTypes /\ PlanOK /\ Given
  BY DEF NamesTypes
<1>1. /\ proj.at = "link" /\ proj.todo = {} /\ fresh' = proj.clean /\ job' = None
      /\ UNCHANGED <<skillRow, canon, entry, userHas>>
  BY DEF PN!Reconciled
<1>2. PICK a \in {"recover", "idle", "body"}, i \in BOOLEAN :
        proj' = [at |-> a, inner |-> i, plan |-> <<>>, todo |-> {}, linked |-> {}, clean |-> FALSE]
  BY <1>0 DEF PN!Reconciled, PN!Rest, ProjTypes
<1>3. PN!Managed' = PN!Managed
  BY <1>1 DEF PN!Managed
<1>4. \A s \in PN!Managed : /\ skillRow[s].name = proj.plan[s] /\ proj.plan[s] \in PN!Names
                            /\ \A r \in Roots : /\ Passable(canon, s, entry[r][proj.plan[s]])
                                                /\ proj.clean => Own(canon, s, entry[r][proj.plan[s]])
  BY <1>0, <1>1 DEF Given, Linked, PlanOK
<1>5. NamesTypes'
  <2>1. RowTypes' /\ EntryTypes'
    BY <1>0, <1>1, <1>3 DEF RowTypes, EntryTypes
  <2>2. ProjTypes'
    BY <1>2 DEF ProjTypes, Steps
  <2>3. fresh' \in BOOLEAN
    BY <1>0, <1>1 DEF ProjTypes
  <2> QED
    BY <1>1, <2>1, <2>2, <2>3 DEF NamesTypes
<1>6. Hers' /\ JobRow' /\ JobFree' /\ PlanOK' /\ Given'
  BY <1>1, <1>2 DEF Hers, JobRow, JobFree, PlanOK, Given
<1>7. Canonicals'
  BY <1>1, <1>3 DEF Canonicals, JobRow
<1>8. BodyLinks'
  BY <1>1, <1>3, <1>4 DEF BodyLinks
<1>9. Settled'
  BY <1>0, <1>1, <1>3, <1>4, NamesAssumption DEF Settled, PlanOK
<1> QED
  BY <1>5, <1>6, <1>7, <1>8, <1>9

-------------------------------------------------------------------------------
(* The names: the body of a command and its journals *)

LEMMA ArriveKept ==
  ASSUME NamesInv, NEW s \in PN!Ids, NEW g \in PN!Slugs, PN!Arrive(s, g)
  PROVE  NamesInv'
<1> USE DEF NamesInv
<1>0. NamesTypes /\ RowTypes /\ EntryTypes /\ ProjTypes
  BY DEF NamesTypes
<1>1. /\ proj.at = "body" /\ job = None /\ skillRow[s] = None /\ g \in SlugsOf(s)
      /\ skillRow' = [skillRow EXCEPT ![s] = [slug |-> g, name |-> None]]
      /\ canon' = canon \cup {<<s, g>>} /\ fresh' = FALSE /\ UNCHANGED <<entry, job, proj, userHas>>
  BY DEF PN!Arrive, JobRow
<1>2. [slug |-> g, name |-> None] \in PN!SkillRows /\ [slug |-> g, name |-> None] # None
  BY NamesAssumption DEF PN!SkillRows
<1>3. /\ \A t \in PN!Ids \ {s} : skillRow'[t] = skillRow[t]
      /\ skillRow'[s] = [slug |-> g, name |-> None]
      /\ skillRow' \in [PN!Ids -> PN!SkillRows \cup {None}]
      /\ PN!Managed' = PN!Managed \cup {s} /\ s \notin PN!Managed
  BY <1>0, <1>1, <1>2 DEF RowTypes, PN!Managed
<1>4. NamesTypes'
  <2>1. RowTypes'
    BY <1>0, <1>1, <1>3, NamesFacts DEF RowTypes
  <2>2. EntryTypes' /\ ProjTypes'
    BY <1>0, <1>1 DEF EntryTypes, ProjTypes
  <2> QED
    BY <1>1, <2>1, <2>2 DEF NamesTypes
<1>5. Hers' /\ JobRow' /\ JobFree' /\ PlanOK' /\ Given' /\ Settled'
  BY <1>1 DEF Hers, JobRow, JobFree, PlanOK, Given, Settled
<1>6. Canonicals'
  BY <1>1, <1>3, NamesFacts DEF Canonicals
<1>7. BodyLinks'
  <2>1. \A t, e : Passable(canon, t, e) => Passable(canon', t, e)
    BY <1>1 DEF Passable, Own, Live
  <2> SUFFICES ASSUME NEW t \in PN!Managed', skillRow'[t].name # None, NEW r \in Roots
               PROVE  Passable(canon', t, entry[r][skillRow'[t].name])
    BY <1>1 DEF BodyLinks
  <2>2. t \in PN!Managed /\ skillRow'[t] = skillRow[t]
    BY <1>3, NamesFacts
  <2>3. Passable(canon, t, entry[r][skillRow[t].name])
    BY <1>1, <2>2 DEF BodyLinks
  <2> QED
    BY <2>1, <2>2, <2>3
<1> QED
  BY <1>4, <1>5, <1>6, <1>7

\* A journal is opened where nothing but the user's entries can be in its way.
LEMMA OpenKept ==
  ASSUME NamesInv, NEW s \in PN!Ids, NEW g \in PN!Slugs, PN!OpenRemove(s) \/ PN!OpenRename(s, g)
  PROVE  NamesInv'
<1> USE DEF NamesInv
<1>0. NamesTypes /\ RowTypes /\ EntryTypes /\ ProjTypes
  BY DEF NamesTypes
<1>1. /\ proj.at = "body" /\ job = None /\ skillRow[s] # None
      /\ UNCHANGED <<skillRow, canon, entry, userHas, fresh>>
      /\ proj' = [at |-> "recover", inner |-> proj.inner, plan |-> proj.plan, todo |-> proj.todo,
                  linked |-> proj.linked, clean |-> proj.clean]
  BY <1>0 DEF PN!OpenRemove, PN!OpenRename, JobRow, ProjTypes
<1>2. PICK h \in {g, None} :
        /\ job' = [skill |-> s, old |-> skillRow[s], slug |-> h, state |-> "planned"]
        /\ h # None => h \in SlugsOf(s) \ {skillRow[s].slug}
  BY DEF PN!OpenRemove, PN!OpenRename
<1>3. s \in PN!Managed /\ skillRow[s] \in PN!SkillRows /\ PN!Managed' = PN!Managed
  BY <1>0, <1>1 DEF PN!Managed, RowTypes
<1>4. /\ job' \in PN!Jobs /\ job' # None
      /\ job'.skill = s /\ job'.old = skillRow[s] /\ job'.slug = h /\ job'.state = "planned"
  <2>1. job' \in PN!Jobs
    BY <1>2, <1>3 DEF PN!Jobs
  <2> QED
    BY <1>2, <2>1, NamesAssumption
<1>5. NamesTypes'
  <2>1. RowTypes' /\ EntryTypes'
    BY <1>0, <1>1, <1>3 DEF RowTypes, EntryTypes
  <2>2. ProjTypes'
    BY <1>0, <1>1 DEF ProjTypes, Steps
  <2> QED
    BY <1>1, <1>4, <2>1, <2>2 DEF NamesTypes
<1>6. Hers' /\ PlanOK' /\ Given' /\ Settled'
  BY <1>1, <1>3 DEF Hers, PlanOK, Given, Settled
<1>7. Canonicals'
  BY <1>1, <1>3 DEF Canonicals
<1>8. JobRow'
  BY <1>1, <1>2, <1>4 DEF JobRow, RemoveRow, RenamedRow
<1>9. JobFree'
  BY <1>1, <1>3, <1>4 DEF JobFree, BodyLinks, Passable, Own
<1>10. BodyLinks'
  BY <1>1, <1>3 DEF BodyLinks
<1> QED
  BY <1>5, <1>6, <1>7, <1>8, <1>9, <1>10

\* The links under the recorded name in some roots, where nothing of the user's
\* is among them.
LEMMA OldLinks ==
  ASSUME NamesTypes, job # None, NEW done \in SUBSET Roots,
         \A r \in done : job.old.name # None => PN!Removable(r, job.old.name)
  PROVE  /\ PN!OldLinksRemoved(done) \in [Roots -> [PN!Names -> PN!Links \cup {None, User}]]
         /\ \A r \in Roots, n \in PN!Names :
              PN!OldLinksRemoved(done)[r][n] = IF n = job.old.name /\ r \in done THEN None ELSE entry[r][n]
         /\ \A r \in done : job.old.name # None => entry[r][job.old.name] # User
<1>1. \A r \in Roots : entry[r] \in [PN!Names -> PN!Links \cup {None, User}]
  BY DEF NamesTypes, EntryTypes
<1>2. \A r \in Roots : [entry[r] EXCEPT ![job.old.name] = None] \in [PN!Names -> PN!Links \cup {None, User}]
  BY <1>1
<1>3. \A r \in Roots, n \in PN!Names :
        PN!OldLinksRemoved(done)[r][n] = IF n = job.old.name /\ r \in done THEN None ELSE entry[r][n]
  <2> SUFFICES ASSUME NEW r \in Roots, NEW n \in PN!Names
               PROVE  PN!OldLinksRemoved(done)[r][n] = IF n = job.old.name /\ r \in done THEN None ELSE entry[r][n]
    OBVIOUS
  <2>1. entry[r] \in [PN!Names -> PN!Links \cup {None, User}]
    BY <1>1
  <2>2. PN!OldLinksRemoved(done)[r] = IF job.old.name = None \/ r \notin done THEN entry[r]
                                ELSE [entry[r] EXCEPT ![job.old.name] = None]
    BY DEF PN!OldLinksRemoved
  <2> QED
    BY <2>1, <2>2, NamesAssumption
<1>4. \A r \in done : job.old.name # None => entry[r][job.old.name] # User
  BY HarnessTerms, NamesAssumption DEF Live
<1> QED
  BY <1>1, <1>2, <1>3, <1>4 DEF PN!OldLinksRemoved

\* A command that ends with some links taken away.
LEMMA EndsKept ==
  ASSUME NamesInv, UNCHANGED <<skillRow, canon, job, userHas>>, fresh' = FALSE, proj' = PN!Rest,
         EntryTypes', Hers', JobFree'
  PROVE  NamesInv'
<1> USE DEF NamesInv
<1>0. NamesTypes /\ RowTypes /\ JobRow
  BY DEF NamesTypes
<1>1. PN!Managed' = PN!Managed
  BY DEF PN!Managed
<1>2. proj' = [at |-> "idle", inner |-> FALSE, plan |-> <<>>, todo |-> {}, linked |-> {}, clean |-> FALSE]
  BY DEF PN!Rest
<1>3. NamesTypes'
  <2>1. RowTypes'
    BY <1>0, <1>1 DEF RowTypes
  <2>2. ProjTypes'
    BY <1>2 DEF ProjTypes, Steps
  <2> QED
    BY <1>0, <2>1, <2>2 DEF NamesTypes
<1>4. Canonicals' /\ BodyLinks' /\ PlanOK' /\ Given' /\ Settled'
  BY <1>1, <1>2 DEF Canonicals, BodyLinks, PlanOK, Given, Settled
<1>5. JobRow'
  BY <1>0, <1>2 DEF JobRow, RemoveRow, RenamedRow
<1> QED
  BY <1>3, <1>4, <1>5

LEMMA RefusalKept ==
  ASSUME NamesInv, UNCHANGED <<skillRow, canon, entry, job, userHas>>, fresh' = FALSE, proj' = PN!Rest
  PROVE  NamesInv'
<1>1. EntryTypes' /\ Hers' /\ JobFree'
  BY DEF NamesInv, NamesTypes, EntryTypes, Hers, JobFree
<1> QED
  BY <1>1, EndsKept

LEMMA RemovalEndsKept ==
  ASSUME NamesInv, job # None, PN!RemovalEnds, UNCHANGED <<skillRow, userHas>>, fresh' = FALSE
  PROVE  NamesInv'
<1> USE DEF NamesInv
<1>0. NamesTypes /\ EntryTypes
  BY DEF NamesTypes
<1>1. PICK done \in SUBSET Roots :
        /\ \A r \in done : job.old.name # None => PN!Removable(r, job.old.name)
        /\ entry' = PN!OldLinksRemoved(done)
  BY DEF PN!RemovalEnds
<1>2. /\ entry' \in [Roots -> [PN!Names -> PN!Links \cup {None, User}]]
      /\ \A r \in Roots, n \in PN!Names :
           entry'[r][n] = IF n = job.old.name /\ r \in done THEN None ELSE entry[r][n]
      /\ \A r \in done : job.old.name # None => entry[r][job.old.name] # User
  BY <1>0, <1>1, OldLinks
<1>3. UNCHANGED <<canon, job>> /\ proj' = PN!Rest
  BY DEF PN!RemovalEnds
<1>4. EntryTypes'
  BY <1>0, <1>2, <1>3 DEF EntryTypes
<1>5. Hers'
  <2> SUFFICES ASSUME NEW r \in Roots, NEW n \in PN!Names
               PROVE  entry'[r][n] = User <=> <<r, n>> \in userHas
    BY DEF Hers
  <2>1. entry[r][n] = User <=> <<r, n>> \in userHas
    BY DEF Hers
  <2> QED
    BY <1>2, <2>1, NamesAssumption
<1>6. JobFree'
  <2>1. job.old.name # None => job.old.name \in PN!Names
    BY NamesFacts
  <2> QED
    BY <1>2, <1>3, <2>1 DEF JobFree
<1> QED
  BY <1>3, <1>4, <1>5, <1>6, EndsKept

\* The links of a view that is gone dangle; no journal is open then.
LEMMA LoseViewKept == ASSUME NamesInv, NEW s \in PN!Ids, PN!LoseView(s) PROVE NamesInv'
<1> USE DEF NamesInv
<1> DEFINE n == skillRow[s].name
           gone == [skill |-> s, path |-> None]
<1>0. NamesTypes /\ EntryTypes /\ \A r \in Roots : entry[r] \in [PN!Names -> PN!Links \cup {None, User}]
  BY DEF NamesTypes, EntryTypes
<1>1. /\ proj.at = "body" /\ UNCHANGED <<skillRow, canon, job, userHas>>
      /\ entry' = [r \in Roots |-> IF entry[r][n] = [skill |-> s, path |-> PN!View]
                                     THEN [entry[r] EXCEPT ![n] = gone] ELSE entry[r]]
      /\ proj' = PN!Rest /\ fresh' = FALSE
  BY DEF PN!LoseView
<1>2. gone \in PN!Links /\ gone \notin {None, User} /\ [skill |-> s, path |-> PN!View] \in PN!Links
  BY NamesAssumption DEF PN!Links
<1> HIDE DEF n, gone
<1>3. \A r \in Roots : [entry[r] EXCEPT ![n] = gone] \in [PN!Names -> PN!Links \cup {None, User}]
  BY <1>0, <1>2
<1>4. EntryTypes'
  BY <1>0, <1>1, <1>3 DEF EntryTypes
<1>5. Hers'
  <2> SUFFICES ASSUME NEW r \in Roots, NEW m \in PN!Names
               PROVE  entry'[r][m] = User <=> <<r, m>> \in userHas
    BY <1>1 DEF Hers
  <2>1. entry[r][m] = User <=> <<r, m>> \in userHas
    BY DEF Hers
  <2>2. entry'[r] = IF entry[r][n] = [skill |-> s, path |-> PN!View]
                      THEN [entry[r] EXCEPT ![n] = gone] ELSE entry[r]
    BY <1>1
  <2>3. entry'[r][m] = entry[r][m] \/ (m = n /\ entry'[r][m] = gone /\ entry[r][m] \in PN!Links)
    BY <1>0, <1>2, <2>2
  <2> QED
    BY <1>2, <2>1, <2>3, NamesAssumption
<1>6. JobFree'
  BY <1>1 DEF JobFree, JobRow
<1> QED
  BY <1>1, <1>4, <1>5, <1>6, EndsKept

\* What a journal's step to another state leaves to show.
LEMMA JournalSteps ==
  ASSUME NamesInv, proj.at = "recover", proj' = proj, userHas' = userHas, fresh' = FALSE,
         job # None, NEW st \in {"planned", "staged", "verified", "switched"},
         job' = [job EXCEPT !.state = st],
         RowTypes', EntryTypes', Hers', Canonicals', JobFree', BodyLinks',
         IF job.slug = None THEN RemoveRow' ELSE RenamedRow'
  PROVE  NamesInv'
<1> USE DEF NamesInv
<1>1. job' = [skill |-> job.skill, old |-> job.old, slug |-> job.slug, state |-> st]
  BY NamesFacts
<1>2. job' \in PN!Jobs /\ job' # None
  <2>1. job \in PN!Jobs
    BY DEF NamesTypes
  <2>2. job' \in PN!Jobs
    BY <1>1, <2>1 DEF PN!Jobs
  <2> QED
    BY <2>2, NamesAssumption
<1>3. NamesTypes'
  BY <1>2 DEF NamesTypes, ProjTypes
<1>4. JobRow'
  BY <1>1, <1>2 DEF JobRow
<1>5. PlanOK' /\ Given' /\ Settled'
  BY DEF PlanOK, Given, Settled
<1> QED
  BY <1>3, <1>4, <1>5

LEMMA RemoveLinksKept == ASSUME NamesInv, PN!RemoveLinks PROVE NamesInv'
<1> USE DEF NamesInv
<1>0. NamesTypes /\ RowTypes /\ EntryTypes /\ JobRow
  BY DEF NamesTypes
<1>1. /\ proj.at = "recover" /\ job # None /\ job.slug = None /\ job.state = "planned" /\ fresh' = FALSE
      /\ UNCHANGED <<skillRow, userHas>>
      /\ \/ /\ PN!OldLinksRemovable /\ entry' = PN!OldLinksRemoved(Roots) /\ canon' = canon
            /\ job' = [job EXCEPT !.state = "staged"] /\ proj' = proj
         \/ PN!RemovalEnds
  BY DEF PN!RemoveLinks, PN!Recovering, PN!Advance
<1>2. CASE PN!RemovalEnds
  BY <1>1, <1>2, RemovalEndsKept
<1>3. CASE /\ PN!OldLinksRemovable /\ entry' = PN!OldLinksRemoved(Roots) /\ canon' = canon
           /\ job' = [job EXCEPT !.state = "staged"] /\ proj' = proj
  <2>1. /\ entry' \in [Roots -> [PN!Names -> PN!Links \cup {None, User}]]
        /\ \A r \in Roots, n \in PN!Names : entry'[r][n] = IF n = job.old.name THEN None ELSE entry[r][n]
        /\ \A r \in Roots : job.old.name # None => entry[r][job.old.name] # User
    BY <1>0, <1>1, <1>3, OldLinks DEF PN!OldLinksRemovable
  <2>2. /\ job' = [job EXCEPT !.state = "staged"] /\ proj' = proj
        /\ job' = [skill |-> job.skill, old |-> job.old, slug |-> job.slug, state |-> "staged"]
        /\ PN!Managed' = PN!Managed
    BY <1>1, <1>3, NamesFacts DEF PN!Managed
  <2>3. RowTypes' /\ EntryTypes'
    BY <1>0, <1>1, <1>3, <2>1, <2>2 DEF RowTypes, EntryTypes
  <2>4. Hers'
    <3> SUFFICES ASSUME NEW r \in Roots, NEW n \in PN!Names
                 PROVE  entry'[r][n] = User <=> <<r, n>> \in userHas
      BY <1>1 DEF Hers
    <3>1. entry[r][n] = User <=> <<r, n>> \in userHas
      BY DEF Hers
    <3> QED
      BY <2>1, <3>1, NamesAssumption
  <2>5. Canonicals'
    BY <1>1, <1>3, <2>2 DEF Canonicals
  <2>6. JobFree'
    BY <1>1, <1>3, <2>1, <2>2, NamesFacts DEF JobFree
  <2>7. BodyLinks'
    BY <1>1, <1>3, <2>1, <2>2, NamesFacts DEF BodyLinks, Passable
  <2>8. RemoveRow'
    BY <1>0, <1>1, <2>2 DEF JobRow, RemoveRow
  <2> QED
    BY <1>1, <2>2, <2>3, <2>4, <2>5, <2>6, <2>7, <2>8, JournalSteps
<1> QED
  BY <1>1, <1>2, <1>3

\* Taking away a canonical link leaves the other skills' links in place.
LEMMA CanonicalGone ==
  ASSUME NamesTypes, job # None, canon' = canon \ {<<job.skill, job.old.slug>>},
         NEW s, NEW e \in PN!Links \cup {None, User}, s # job.skill, Passable(canon, s, e)
  PROVE  Passable(canon', s, e)
  BY DEF Passable, Own, Live

LEMMA RemoveCanonicalKept == ASSUME NamesInv, PN!RemoveCanonical PROVE NamesInv'
<1> USE DEF NamesInv
<1>0. NamesTypes /\ RowTypes /\ EntryTypes /\ JobRow
  BY DEF NamesTypes
<1>1. /\ proj.at = "recover" /\ job # None /\ job.slug = None /\ job.state = "staged" /\ fresh' = FALSE
      /\ UNCHANGED <<skillRow, entry, proj, userHas>>
      /\ canon' = canon \ {<<job.skill, job.old.slug>>}
      /\ job' = [job EXCEPT !.state = "verified"]
  BY DEF PN!RemoveCanonical, PN!Recovering, PN!Advance
<1>2. /\ job' = [skill |-> job.skill, old |-> job.old, slug |-> job.slug, state |-> "verified"]
      /\ PN!Managed' = PN!Managed /\ job' # None
  <2>1. job' = [skill |-> job.skill, old |-> job.old, slug |-> job.slug, state |-> "verified"]
    BY <1>1, NamesFacts
  <2>2. job' \in PN!Jobs
    BY <1>0, <1>1, <2>1 DEF PN!Jobs, NamesTypes
  <2> QED
    BY <1>1, <2>1, <2>2, NamesAssumption DEF PN!Managed
<1>3. RowTypes' /\ EntryTypes' /\ Hers'
  BY <1>0, <1>1, <1>2 DEF RowTypes, EntryTypes, Hers
<1>4. Canonicals'
  BY <1>1, <1>2 DEF Canonicals
<1>5. JobFree'
  BY <1>1, <1>2 DEF JobFree
<1>6. BodyLinks'
  <2> SUFFICES ASSUME proj.inner, NEW s \in PN!Managed, skillRow[s].name # None, NEW r \in Roots
               PROVE  Passable(canon', s, entry[r][skillRow[s].name])
    BY <1>1, <1>2 DEF BodyLinks
  <2>1. CASE s = job.skill
    BY <1>0, <1>1, <2>1 DEF JobRow, RemoveRow, JobFree, Passable
  <2>2. CASE s # job.skill
    BY <1>0, <1>1, <2>2, CanonicalGone, NamesFacts DEF BodyLinks
  <2> QED
    BY <2>1, <2>2
<1>7. RemoveRow'
  BY <1>0, <1>1, <1>2 DEF JobRow, RemoveRow
<1> QED
  BY <1>1, <1>3, <1>4, <1>5, <1>6, <1>7, JournalSteps

LEMMA DeleteRowKept == ASSUME NamesInv, PN!DeleteRow PROVE NamesInv'
<1> USE DEF NamesInv
<1>0. NamesTypes /\ RowTypes /\ EntryTypes /\ JobRow
  BY DEF NamesTypes
<1>1. /\ proj.at = "recover" /\ job # None /\ job.slug = None /\ job.state = "verified" /\ fresh' = FALSE
      /\ UNCHANGED <<canon, entry, proj, userHas>>
      /\ skillRow' = [skillRow EXCEPT ![job.skill] = None]
      /\ job' = [job EXCEPT !.state = "switched"]
  BY DEF PN!DeleteRow, PN!Recovering, PN!Advance
<1>2. /\ job' = [skill |-> job.skill, old |-> job.old, slug |-> job.slug, state |-> "switched"]
      /\ job.skill \in PN!Ids
  BY <1>1, NamesFacts
<1>3. /\ skillRow' \in [PN!Ids -> PN!SkillRows \cup {None}] /\ skillRow'[job.skill] = None
      /\ PN!Managed' = PN!Managed \ {job.skill}
      /\ \A t \in PN!Managed \ {job.skill} : skillRow'[t] = skillRow[t]
  BY <1>0, <1>1, <1>2 DEF RowTypes, PN!Managed
<1>4. RowTypes' /\ EntryTypes' /\ Hers'
  BY <1>0, <1>1, <1>3 DEF RowTypes, EntryTypes, Hers
<1>5. Canonicals'
  BY <1>1, <1>2, <1>3 DEF Canonicals
<1>6. JobFree'
  BY <1>1, <1>2 DEF JobFree
<1>7. BodyLinks'
  BY <1>1, <1>3 DEF BodyLinks
<1>8. RemoveRow'
  BY <1>2, <1>3 DEF RemoveRow
<1> QED
  BY <1>1, <1>4, <1>5, <1>6, <1>7, <1>8, JournalSteps

LEMMA RemoveDoneKept == ASSUME NamesInv, PN!RemoveDone PROVE NamesInv'
<1> USE DEF NamesInv
<1>0. NamesTypes /\ RowTypes /\ EntryTypes /\ ProjTypes
  BY DEF NamesTypes
<1>1. /\ proj.at = "recover" /\ job.state = "switched" /\ job' = None
      /\ UNCHANGED <<skillRow, canon, entry, proj, userHas, fresh>>
  BY DEF PN!RemoveDone, PN!Recovering
<1>2. PN!Managed' = PN!Managed
  BY <1>1 DEF PN!Managed
<1>3. NamesTypes'
  BY <1>0, <1>1, <1>2 DEF NamesTypes, RowTypes, EntryTypes, ProjTypes
<1>4. Hers' /\ Canonicals' /\ JobRow' /\ JobFree' /\ BodyLinks'
  BY <1>1, <1>2 DEF Hers, Canonicals, JobRow, JobFree, BodyLinks
<1>5. PlanOK' /\ Given' /\ Settled'
  BY <1>1, <1>2 DEF PlanOK, Given, Settled
<1> QED
  BY <1>3, <1>4, <1>5

LEMMA LinkNewNameKept == ASSUME NamesInv, PN!LinkNewName PROVE NamesInv'
<1>a. CASE PN!Elsewhere(job.skill, job.slug)
  BY <1>a, RefusalKept DEF PN!LinkNewName
<1>b. CASE ~ PN!Elsewhere(job.skill, job.slug)
  <2> USE DEF NamesInv
  <2>0. NamesTypes /\ RowTypes /\ EntryTypes /\ JobRow
    BY DEF NamesTypes
  <2>1. /\ proj.at = "recover" /\ job # None /\ job.slug # None /\ job.state = "planned" /\ fresh' = FALSE
        /\ UNCHANGED <<skillRow, entry, proj, userHas>>
        /\ canon' = canon \cup {<<job.skill, job.slug>>}
        /\ job' = [job EXCEPT !.state = "staged"]
    BY <1>b DEF PN!LinkNewName, PN!Recovering, PN!Advance
  <2>2. /\ job' = [skill |-> job.skill, old |-> job.old, slug |-> job.slug, state |-> "staged"]
        /\ job.skill \in PN!Ids /\ job.slug \in PN!Slugs /\ PN!Managed' = PN!Managed
    BY <2>0, <2>1, NamesFacts DEF PN!Managed, NamesTypes, PN!Jobs
  <2>3. \A t, e : Passable(canon, t, e) => Passable(canon', t, e)
    BY <2>1 DEF Passable, Own, Live
  <2>4. \A e : Live(canon, e) => Live(canon', e)
    BY <2>1 DEF Live
  <2>5. RowTypes' /\ EntryTypes' /\ Hers'
    BY <2>0, <2>1, <2>2 DEF RowTypes, EntryTypes, Hers
  <2>6. Canonicals'
    BY <2>1, <2>2 DEF Canonicals
  <2>7. JobFree'
    BY <2>1, <2>2, <2>4 DEF JobFree
  <2>8. BodyLinks'
    BY <2>1, <2>2, <2>3 DEF BodyLinks
  <2>9. RenamedRow'
    BY <2>0, <2>1, <2>2 DEF JobRow, RenamedRow
  <2> QED
    BY <2>1, <2>5, <2>6, <2>7, <2>8, <2>9, JournalSteps
<1> QED
  BY <1>a, <1>b

LEMMA RenameRowKept == ASSUME NamesInv, PN!RenameRow PROVE NamesInv'
<1> USE DEF NamesInv
<1>0. NamesTypes /\ RowTypes /\ EntryTypes /\ JobRow
  BY DEF NamesTypes
<1>1. /\ proj.at = "recover" /\ job # None /\ job.slug # None /\ job.state = "staged" /\ fresh' = FALSE
      /\ UNCHANGED <<canon, entry, proj, userHas>>
      /\ skillRow' = [skillRow EXCEPT ![job.skill].slug = job.slug]
      /\ job' = [job EXCEPT !.state = "verified"]
  BY DEF PN!RenameRow, PN!Recovering, PN!Advance
<1>2. /\ job' = [skill |-> job.skill, old |-> job.old, slug |-> job.slug, state |-> "verified"]
      /\ job.skill \in PN!Ids /\ job.slug \in PN!Slugs /\ skillRow[job.skill] = job.old
      /\ job.old \in PN!SkillRows /\ job.slug \in SlugsOf(job.skill) /\ <<job.skill, job.slug>> \in canon
  BY <1>0, <1>1, NamesFacts DEF NamesTypes, PN!Jobs, JobRow, RenamedRow
<1>3. /\ [job.old EXCEPT !.slug = job.slug] = [slug |-> job.slug, name |-> job.old.name]
      /\ [slug |-> job.slug, name |-> job.old.name] \in PN!SkillRows
  BY <1>2 DEF PN!SkillRows
<1>4. /\ skillRow' \in [PN!Ids -> PN!SkillRows \cup {None}]
      /\ skillRow'[job.skill] = [slug |-> job.slug, name |-> job.old.name]
      /\ \A t \in PN!Ids \ {job.skill} : skillRow'[t] = skillRow[t]
  BY <1>0, <1>1, <1>2, <1>3 DEF RowTypes
<1>5. PN!Managed' = PN!Managed /\ \A t \in PN!Managed : skillRow'[t].name = skillRow[t].name
  BY <1>2, <1>3, <1>4, NamesAssumption DEF PN!Managed
<1>6. RowTypes' /\ EntryTypes' /\ Hers'
  BY <1>0, <1>1, <1>2, <1>4, <1>5, NamesFacts DEF RowTypes, EntryTypes, Hers
<1>7. Canonicals'
  BY <1>1, <1>2, <1>4, <1>5, NamesFacts DEF Canonicals
<1>8. JobFree'
  BY <1>1, <1>2 DEF JobFree
<1>9. BodyLinks'
  BY <1>1, <1>5 DEF BodyLinks
<1>10. RenamedRow'
  BY <1>0, <1>1, <1>2, <1>4 DEF JobRow, RenamedRow
<1> QED
  BY <1>1, <1>6, <1>7, <1>8, <1>9, <1>10, JournalSteps

LEMMA RemoveOldNameKept == ASSUME NamesInv, PN!RemoveOldName PROVE NamesInv'
<1> USE DEF NamesInv
<1>0. NamesTypes /\ RowTypes /\ EntryTypes /\ JobRow
  BY DEF NamesTypes
<1>1. /\ proj.at = "recover" /\ job # None /\ job.slug # None /\ job.state = "verified" /\ fresh' = FALSE
      /\ UNCHANGED <<skillRow, userHas>>
      /\ \/ /\ PN!OldLinksRemovable
            /\ entry' = PN!OldLinksRemoved(Roots) /\ canon' = canon \ {<<job.skill, job.old.slug>>}
            /\ job' = [job EXCEPT !.state = "switched"] /\ proj' = proj
         \/ PN!RemovalEnds
  BY DEF PN!RemoveOldName, PN!Recovering, PN!Advance
<1>2. CASE PN!RemovalEnds
  BY <1>1, <1>2, RemovalEndsKept
<1>3. CASE /\ PN!OldLinksRemovable
           /\ entry' = PN!OldLinksRemoved(Roots) /\ canon' = canon \ {<<job.skill, job.old.slug>>}
           /\ job' = [job EXCEPT !.state = "switched"] /\ proj' = proj
  <2>1. /\ entry' \in [Roots -> [PN!Names -> PN!Links \cup {None, User}]]
        /\ \A r \in Roots, n \in PN!Names : entry'[r][n] = IF n = job.old.name THEN None ELSE entry[r][n]
        /\ \A r \in Roots : job.old.name # None => entry[r][job.old.name] # User
    BY <1>0, <1>1, <1>3, OldLinks DEF PN!OldLinksRemovable
  <2>2. /\ job' = [job EXCEPT !.state = "switched"] /\ proj' = proj
        /\ canon' = canon \ {<<job.skill, job.old.slug>>}
        /\ job' = [skill |-> job.skill, old |-> job.old, slug |-> job.slug, state |-> "switched"]
        /\ PN!Managed' = PN!Managed
    BY <1>1, <1>3, NamesFacts DEF PN!Managed
  <2>3. /\ skillRow[job.skill] = [slug |-> job.slug, name |-> job.old.name] /\ job.slug # job.old.slug
        /\ <<job.skill, job.slug>> \in canon /\ job.slug \in SlugsOf(job.skill)
        /\ skillRow[job.skill].slug = job.slug /\ skillRow[job.skill].name = job.old.name
        /\ skillRow[job.skill] # None
    <3>1. /\ skillRow[job.skill] = [slug |-> job.slug, name |-> job.old.name] /\ job.slug # job.old.slug
          /\ <<job.skill, job.slug>> \in canon /\ job.slug \in SlugsOf(job.skill)
      BY <1>0, <1>1 DEF JobRow, RenamedRow
    <3>2. skillRow[job.skill] \in PN!SkillRows
      BY <1>0, <1>1, <3>1, NamesFacts DEF NamesTypes, PN!Jobs, PN!SkillRows
    <3> QED
      BY <3>1, <3>2, NamesAssumption
  <2>4. RowTypes' /\ EntryTypes'
    BY <1>0, <1>1, <2>1, <2>2 DEF RowTypes, EntryTypes
  <2>5. Hers'
    <3> SUFFICES ASSUME NEW r \in Roots, NEW n \in PN!Names
                 PROVE  entry'[r][n] = User <=> <<r, n>> \in userHas
      BY <1>1 DEF Hers
    <3>1. entry[r][n] = User <=> <<r, n>> \in userHas
      BY DEF Hers
    <3> QED
      BY <2>1, <3>1, NamesAssumption
  <2>6. Canonicals'
    BY <1>1, <2>2, <2>3 DEF Canonicals
  <2>7. JobFree'
    BY <1>1, <2>1, <2>2, NamesFacts DEF JobFree
  <2>8. BodyLinks'
    <3> SUFFICES ASSUME proj.inner, NEW s \in PN!Managed, skillRow[s].name # None, NEW r \in Roots
                 PROVE  Passable(canon', s, entry'[r][skillRow[s].name])
      BY <1>1, <2>2 DEF BodyLinks
    <3>1. skillRow[s].name \in PN!Names
      BY NamesFacts
    <3>2. CASE skillRow[s].name = job.old.name
      BY <2>1, <3>1, <3>2 DEF Passable
    <3>3. CASE skillRow[s].name # job.old.name
      <4>1. s # job.skill /\ entry'[r][skillRow[s].name] = entry[r][skillRow[s].name]
        BY <2>1, <2>3, <3>1, <3>3
      <4>2. Passable(canon, s, entry[r][skillRow[s].name]) /\ entry[r][skillRow[s].name] \in PN!Links \cup {None, User}
        BY <1>1, <3>1, NamesFacts DEF BodyLinks
      <4> QED
        BY <1>0, <1>1, <2>2, <4>1, <4>2, CanonicalGone
    <3> QED
      BY <3>2, <3>3
  <2>9. RenamedRow'
    BY <1>1, <2>2, <2>3 DEF RenamedRow
  <2> QED
    BY <1>1, <2>2, <2>4, <2>5, <2>6, <2>7, <2>8, <2>9, JournalSteps
<1> QED
  BY <1>1, <1>2, <1>3

LEMMA NamesStutter == ASSUME NamesInv, UNCHANGED nameVars PROVE NamesInv'
<1> USE DEF NamesInv
<1>1. UNCHANGED <<skillRow, canon, entry, job, proj, userHas, fresh>>
  BY DEF nameVars
<1>2. PN!Managed' = PN!Managed
  BY <1>1 DEF PN!Managed
<1>3. NamesTypes' /\ Hers' /\ Canonicals'
  BY <1>1, <1>2 DEF NamesTypes, RowTypes, EntryTypes, ProjTypes, Hers, Canonicals
<1>4. JobRow' /\ JobFree' /\ BodyLinks'
  BY <1>1, <1>2 DEF JobRow, RemoveRow, RenamedRow, JobFree, BodyLinks
<1>5. PlanOK' /\ Given' /\ Settled'
  BY <1>1, <1>2 DEF PlanOK, Given, Linked, Settled
<1> QED
  BY <1>3, <1>4, <1>5

LEMMA NamesKept == ASSUME NamesInv, PN!NamesNext \/ UNCHANGED nameVars PROVE NamesInv'
<1>1. CASE PN!StartCommand \/ PN!BodyDone \/ PN!ProjectRenamed \/ PN!Recovered \/ PN!Stop
  BY <1>1, NamesQuiet
<1>2. CASE PN!PlanNames \/ PN!RemoveStale \/ PN!StaleRemoved \/ PN!SetName \/ PN!Reconciled
  BY <1>2, PlanKept, RemoveStaleKept, StaleRemovedKept, SetNameKept, ReconciledKept
<1>3. CASE \E r \in Roots : PN!Link(r)
  BY <1>3, LinkNameKept
<1>4. CASE \E s \in PN!Ids, g \in PN!Slugs : PN!Arrive(s, g) \/ PN!OpenRename(s, g)
  BY <1>4, ArriveKept, OpenKept
<1>10. CASE \E s \in PN!Ids : PN!LoseView(s)
  BY <1>10, LoseViewKept
<1>5. CASE \E s \in PN!Ids : PN!OpenRemove(s)
  <2>1. PICK s \in PN!Ids : PN!OpenRemove(s)
    BY <1>5
  <2>2. PICK g : g \in PN!Slugs
    BY <2>1, NamesFacts DEF PN!OpenRemove, NamesInv, PN!Managed
  <2> QED
    BY <2>1, <2>2, OpenKept
<1>6. CASE PN!RemoveLinks \/ PN!RemoveCanonical \/ PN!DeleteRow \/ PN!RemoveDone
  BY <1>6, RemoveLinksKept, RemoveCanonicalKept, DeleteRowKept, RemoveDoneKept
<1>7. CASE PN!LinkNewName \/ PN!RenameRow \/ PN!RemoveOldName
  BY <1>7, LinkNewNameKept, RenameRowKept, RemoveOldNameKept
<1>8. CASE \E r \in Roots, n \in UserNames : PN!UserAdds(r, n) \/ PN!UserDeletes(r, n)
  BY <1>8, DisturbedKept
<1>9. CASE UNCHANGED nameVars
  BY <1>9, NamesStutter
<1> QED
  BY <1>1, <1>2, <1>3, <1>4, <1>5, <1>6, <1>7, <1>8, <1>9, <1>10 DEF PN!NamesNext

LEMMA NamesInvSafe == NamesInv => PN!NamesTypeOK /\ PN!Exposed /\ PN!UserKept /\ PN!Unstuck
<1> SUFFICES ASSUME NamesInv PROVE PN!NamesTypeOK /\ PN!Exposed /\ PN!UserKept /\ PN!Unstuck
  OBVIOUS
<1> USE DEF NamesInv
<1>1. PN!NamesTypeOK
  BY NamesFacts DEF PN!NamesTypeOK, NamesTypes, RowTypes, EntryTypes, ProjTypes, Steps, PN!Managed
<1>2. PN!Exposed
  BY HarnessTerms DEF PN!Exposed, Settled, Own
<1>3. PN!UserKept
  <2> SUFFICES ASSUME NEW u \in userHas PROVE entry[u[1]][u[2]] = User
    BY DEF PN!UserKept
  <2>1. u \in Roots \X UserNames
    BY DEF NamesTypes
  <2>2. u[1] \in Roots /\ u[2] \in PN!Names /\ u = <<u[1], u[2]>>
    BY <2>1, NamesFacts
  <2> QED
    BY <2>2 DEF Hers
<1>4. PN!Unstuck
  <2> SUFFICES ASSUME userHas = {}, job # None, job.old.name # None, NEW r \in Roots
               PROVE  PN!Removable(r, job.old.name)
    BY DEF PN!Unstuck, PN!OldLinksRemovable
  <2>1. job.old.name \in PN!Names
    BY NamesFacts
  <2>2. entry[r][job.old.name] # User
    BY <2>1 DEF Hers
  <2> QED
    BY <2>2, HarnessTerms DEF JobFree
<1> QED
  BY <1>1, <1>2, <1>3, <1>4

-------------------------------------------------------------------------------
(* The parts together *)

PartInv ==
    /\ part = "device" => IdentityInv(Solo, Many)
    /\ part = "devices" => IdentityInv(Clis, Few)
    /\ part = "forks" => ForkInv
    /\ part = "manager_upgrade" => UpgradeInv("manager", "standalone", TRUE)
    /\ part = "session_upgrade" => UpgradeInv("session", "npm", FALSE)
    /\ part = "imports" => ImportInv(Clis, FALSE)
    /\ part = "import_service" => ImportInv(Solo, TRUE)
    /\ part = "view" => ViewInv
    /\ part = "names" => NamesInv

LEMMA PartInitial == Init => PartInv
<1> SUFFICES ASSUME Init PROVE PartInv
  OBVIOUS
<1>1. /\ part = "device" => D(Solo, Many)!IdentityInit
      /\ part = "devices" => D(Clis, Few)!IdentityInit
      /\ LF!ForkInit /\ DV!DerivedInit /\ PN!NamesInit
      /\ part = "manager_upgrade" => U("manager", "standalone", TRUE)!UpgradeInit
      /\ part = "session_upgrade" => U("session", "npm", FALSE)!UpgradeInit
      /\ part = "imports" => I(Clis, FALSE)!ImportInit
      /\ part = "import_service" => I(Solo, TRUE)!ImportInit
  BY DEF Init
<1>2. /\ part = "device" => IdentityInv(Solo, Many)
      /\ part = "devices" => IdentityInv(Clis, Few)
  BY <1>1, IdentityInitial, IdentityAssumption
<1>3. /\ part = "manager_upgrade" => UpgradeInv("manager", "standalone", TRUE)
      /\ part = "session_upgrade" => UpgradeInv("session", "npm", FALSE)
  BY <1>1, UpgradeInitial
<1>4. /\ part = "imports" => ImportInv(Clis, FALSE)
      /\ part = "import_service" => ImportInv(Solo, TRUE)
  BY <1>1, ImportInitial
<1> QED
  BY <1>1, <1>2, <1>3, <1>4, ForkInitial, ViewInitial, NamesInitial DEF PartInv

LEMMA PartKept ==
  ASSUME PartInv,
         [Next]_<<part, identityVars, forkVars, upgradeVars, derivedVars, nameVars, importVars>>
  PROVE  PartInv'
<1>1. /\ part' = part
      /\ part = "device" => D(Solo, Many)!IdentityNext \/ UNCHANGED identityVars
      /\ part = "devices" => D(Clis, Few)!IdentityNext \/ UNCHANGED identityVars
      /\ part = "forks" => LF!ForkNext \/ UNCHANGED forkVars
      /\ part = "manager_upgrade" => U("manager", "standalone", TRUE)!UpgradeNext \/ UNCHANGED upgradeVars
      /\ part = "session_upgrade" => U("session", "npm", FALSE)!UpgradeNext \/ UNCHANGED upgradeVars
      /\ part = "imports" => I(Clis, FALSE)!ImportNext \/ UNCHANGED importVars
      /\ part = "import_service" => I(Solo, TRUE)!ImportNext \/ UNCHANGED importVars
      /\ part = "view" => DV!DerivedNext \/ UNCHANGED derivedVars
      /\ part = "names" => PN!NamesNext \/ UNCHANGED nameVars
  BY DEF Next
<1>2. CASE part = "device" \/ part = "devices"
  <2>1. None \notin CredsOf(Solo, Many) /\ None \notin CredsOf(Clis, Few)
    BY IdentityAssumption, IdentitySets
  <2>2. /\ part = "device" => IdentityInv(Solo, Many)'
        /\ part = "devices" => IdentityInv(Clis, Few)'
    BY <1>1, <2>1, IdentityKept, IdentityAssumption DEF PartInv
  <2> QED
    BY <1>1, <1>2, <2>2 DEF PartInv
<1>3. CASE part = "forks"
  BY <1>1, <1>3, ForkKept DEF PartInv
<1>4. CASE part = "manager_upgrade" \/ part = "session_upgrade"
  <2>1. /\ part = "manager_upgrade" => UpgradeInv("manager", "standalone", TRUE)'
        /\ part = "session_upgrade" => UpgradeInv("session", "npm", FALSE)'
    BY <1>1, UpgradeKept DEF PartInv
  <2> QED
    BY <1>1, <1>4, <2>1 DEF PartInv
<1>5. CASE part = "imports" \/ part = "import_service"
  <2>1. /\ part = "imports" => ImportInv(Clis, FALSE)'
        /\ part = "import_service" => ImportInv(Solo, TRUE)'
    BY <1>1, ImportKept, ProcessAssumption DEF PartInv
  <2> QED
    BY <1>1, <1>5, <2>1 DEF PartInv
<1>6. CASE part = "view"
  BY <1>1, <1>6, ViewKept DEF PartInv
<1>7. CASE part = "names"
  BY <1>1, <1>7, NamesKept DEF PartInv
<1>8. CASE part \notin {"device", "devices", "forks", "manager_upgrade", "session_upgrade",
                       "imports", "import_service", "view", "names"}
  BY <1>1, <1>8 DEF PartInv
<1> QED
  BY <1>2, <1>3, <1>4, <1>5, <1>6, <1>7, <1>8

\* The inductive invariant of each part holds throughout, for every number of
\* devices, setups, sessions, revisions, names, edits, roots and daemons: of the
\* identity commands (setup.rs, identity.rs), of local forks (forks.rs,
\* fork_ops.rs, fork_resolve.rs), of imports (owned.rs), of the upgrade
\* (upgrade.rs), of the derived view and its writeback and of the names in the
\* harness roots (projection.rs, lifecycle.rs).
THEOREM Invariance == Spec => []PartInv
<1>1. Init => PartInv
  BY PartInitial
<1>2. PartInv /\ [Next]_<<part, identityVars, forkVars, upgradeVars, derivedVars, nameVars, importVars>> => PartInv'
  BY PartKept
<1> QED
  BY <1>1, <1>2, PTL DEF Spec

\* A deleted account cannot act, although logins and recoveries commit after
\* they read it; a setup stopped at any step can be taken up again; and an
\* identified device leaves no subscription on its anonymous installation.
THEOREM IdentitySafe == Spec => []IdentitySafety
<1>1. PartInv => IdentitySafety
  BY IdentityInvSafe, IdentityAssumption DEF PartInv, IdentitySafety
<1> QED
  BY <1>1, Invariance, PTL

\* Every revision captured for a local fork is kept until the user discards
\* it, wherever promotion, resolution or sync is interrupted; and an imported
\* directory is removed only when its content is stored.
THEOREM NewSkillSafe == Spec => []NewSkillSafety
<1>1. PartInv => NewSkillSafety
  <2> SUFFICES ASSUME PartInv PROVE NewSkillSafety
    OBVIOUS
  <2>1. part = "forks" => LF!ForkTypeOK /\ LF!ForkWorkKept
    BY DEF PartInv, ForkInv
  <2>2. part = "imports" =>
          I(Clis, FALSE)!ImportTypeOK /\ I(Clis, FALSE)!RemovedIsStored /\ I(Clis, FALSE)!NoWorkLost
    BY ImportInvSafe, ProcessAssumption DEF PartInv
  <2>3. part = "import_service" =>
          I(Solo, TRUE)!ImportTypeOK /\ I(Solo, TRUE)!RemovedIsStored /\ I(Solo, TRUE)!ImportNeverBlocksItself
    BY ImportInvSafe, ProcessAssumption DEF PartInv
  <2> QED
    BY <2>1, <2>2, <2>3 DEF NewSkillSafety
<1> QED
  BY <1>1, Invariance, PTL

\* An executable that did not prove itself has its predecessor beside it,
\* success means the new one is installed and, under a manager, is the only one
\* that runs, and what a command reports in place opens the database, for any
\* number of daemons, restarts and repeated upgrades.
THEOREM UpgradeSafe == Spec => []UpgradeSafety
<1>1. PartInv => UpgradeSafety
  BY UpgradeInvSound DEF PartInv, UpgradeSafety
<1> QED
  BY <1>1, Invariance, PTL

\* A reconcile that ends undisturbed exposes every skill, in every root, under
\* a name of its own; no command touches an entry of the user's; only those
\* hold up a removal or a rename; and no save through the canonical path or an
\* alias is lost, wherever syncs, copies and writebacks are interrupted.  For
\* any skills, slugs, owners, roots, suffixes and number of saves.
THEOREM HarnessSafe == Spec => []HarnessSafety
<1>1. PartInv => HarnessSafety
  BY ViewInvSafe, NamesInvSafe DEF PartInv, HarnessSafety
<1> QED
  BY <1>1, Invariance, PTL

\* The upgrade's for every installation source and service kind, with or without a
\* migration of the database, except a session daemon whose new version
\* migrates: a rollback does not stop a new daemon that has no pid file yet,
\* which then migrates the database under the program that was put back.
THEOREM UpgradeSoundEverywhere ==
  ASSUME NEW k, NEW s, NEW m \in BOOLEAN, k = "manager" \/ ~m
  PROVE  U(k, s, m)!UpgradeSpec => [](U(k, s, m)!UpgradeTypeOK /\ U(k, s, m)!UpgradeSound)
<1>1. U(k, s, m)!UpgradeInit => UpgradeInv(k, s, m)
  BY UpgradeInitial
<1>2. UpgradeInv(k, s, m) /\ [U(k, s, m)!UpgradeNext]_(U(k, s, m)!upgradeVars) => UpgradeInv(k, s, m)'
  BY UpgradeKept DEF U!upgradeVars, upgradeVars
<1>3. UpgradeInv(k, s, m) => U(k, s, m)!UpgradeTypeOK /\ U(k, s, m)!UpgradeSound
  BY UpgradeInvSound
<1> QED
  BY <1>1, <1>2, <1>3, PTL DEF U!UpgradeSpec
===============================================================================
