------------------------------- MODULE Upgrade ------------------------------
(***************************************************************************)
(* The executable, the background service and `denju upgrade` on one       *)
(* device (apps/denju/src/upgrade.rs, setup.rs; denju-local service.rs,    *)
(* db.rs).                                                                 *)
(*                                                                         *)
(* One command at a time replaces the executable, restarts the service and *)
(* asks the new executable for its health, or undoes all three; setup and  *)
(* doctor start the service too.  The service is kept by a service manager *)
(* or, where there is none, is a process of the session known by the pid   *)
(* file it writes.  Every start of either program opens the state          *)
(* database, which migrates it to the program's schema and refuses a newer *)
(* one.  Downloads, installs, starts and health probes may fail, and the   *)
(* command may be cut off at any step.                                     *)
(***************************************************************************)
EXTENDS Naturals, FiniteSets

CONSTANTS
    Kind,       \* "manager" or "session": how the service is kept
    Source,     \* "standalone" or "npm": how the executable is installed
    Migrates,   \* whether the new version has a newer schema
    MaxDaemons, \* bound on the daemons ever started
    MaxRuns,    \* bound on the commands
    None

VARIABLES
    exe,     \* what the executable's path holds: "old", "new" or "bad"
    saved,   \* the backup beside it, or None
    schema,  \* version of the state database's schema: 1 or 2
    daemons, \* running daemons: their number and version
    started, \* daemons started so far
    pid,     \* the number in run/daemon.pid, or None
    cli,     \* the command in progress
    runs     \* commands so far

upgradeVars == <<exe, saved, schema, daemons, started, pid, cli, runs>>

Versions == {"old", "new", "bad"}
Daemons == [id : 1..MaxDaemons, version : {"old", "new"}, ready : BOOLEAN]
Idle == [at |-> "idle", next |-> "idle", end |-> "none"]

UpgradeTypeOK ==
    /\ exe \in Versions /\ saved \in Versions \cup {None} /\ schema \in 1..2
    /\ daemons \subseteq Daemons /\ started \in 0..MaxDaemons
    /\ pid \in 1..MaxDaemons \cup {None} /\ runs \in 0..MaxRuns
    /\ cli \in [at : {"idle", "backup", "install", "version", "stop", "start",
                      "health", "keep", "rollback", "forget", "check",
                      "restored", "reconcile"},
                next : {"idle", "health", "restored", "reconcile"},
                end : {"none", "upgraded", "restored", "failed"}]

-----------------------------------------------------------------------------
SchemaOf(v) == IF v = "new" /\ Migrates THEN 2 ELSE 1

(* open_connection: UnsupportedSchema, or every missing migration.         *)
Opens(v) == v # "bad" /\ schema <= SchemaOf(v)
Migrated(v) == IF schema < SchemaOf(v) THEN SchemaOf(v) ELSE schema

At(step) == cli' = [cli EXCEPT !.at = step]
Done(end) == cli' = [Idle EXCEPT !.end = end]

-----------------------------------------------------------------------------
(* upgrade: the manifest and the asset are fetched and verified first, so  *)
(* the bytes are what the manifest names; what they report may differ.     *)
UpgradeStart ==
    /\ cli.at = "idle" /\ runs < MaxRuns /\ exe = "old"
    /\ runs' = runs + 1
    /\ cli' = [at |-> IF Source = "npm" THEN "install" ELSE "backup",
               next |-> "health", end |-> "none"]
    /\ UNCHANGED <<exe, saved, schema, daemons, started, pid>>

(* setup on a device that is set up, and doctor when the service does not  *)
(* run by what ServiceManager::status reports.                             *)
StatusRunning ==
    IF Kind = "session" THEN pid # None ELSE daemons # {}

SetupStart ==
    /\ cli.at = "idle" /\ runs < MaxRuns /\ Opens(exe)
    /\ runs' = runs + 1 /\ schema' = Migrated(exe)
    /\ cli' = [at |-> "stop", next |-> "reconcile", end |-> "none"]
    /\ UNCHANGED <<exe, saved, daemons, started, pid>>

DoctorStart ==
    /\ cli.at = "idle" /\ runs < MaxRuns /\ Opens(exe) /\ ~StatusRunning
    /\ runs' = runs + 1 /\ schema' = Migrated(exe)
    /\ cli' = [at |-> "stop", next |-> "idle", end |-> "none"]
    /\ UNCHANGED <<exe, saved, daemons, started, pid>>

(* fs::copy(target, backup)                                                *)
Backup ==
    /\ cli.at = "backup"
    /\ saved' = exe
    /\ At("install")
    /\ UNCHANGED <<exe, schema, daemons, started, pid, runs>>

(* install_verified_bytes, a rename over the target; or package_install of *)
(* the latest version, whose failure is reported without a rollback.       *)
Install ==
    /\ cli.at = "install"
    /\ \/ \E v \in {"new", "bad"} : exe' = v /\ At("version")
       \/ UNCHANGED exe /\ IF Source = "npm" THEN Done("failed") ELSE At("rollback")
    /\ UNCHANGED <<saved, schema, daemons, started, pid, runs>>

(* binary_version against the manifest's version.                          *)
CheckVersion ==
    /\ cli.at = "version"
    /\ IF exe = "new" THEN At("stop") ELSE At("rollback")
    /\ UNCHANGED <<exe, saved, schema, daemons, started, pid, runs>>

-----------------------------------------------------------------------------
(* ServiceManager::install_and_start.  stop_matching_session_daemon sends  *)
(* SIGTERM, which the daemon does not handle: it ends without its          *)
(* RunFileGuard, the pid file stays, and the wait for the file fails.      *)
Named == {d \in daemons : d.id = pid}
Failed == IF cli.next = "health" THEN At("rollback") ELSE Done("failed")

StopService ==
    /\ cli.at = "stop"
    /\ IF Kind = "session" /\ Named # {}
         THEN daemons' = daemons \ Named /\ Failed
         ELSE UNCHANGED daemons /\ At("start")
    /\ UNCHANGED <<exe, saved, schema, started, pid, runs>>

(* The manager replaces the process it keeps; a session daemon is spawned. *)
(* (The manager is launchd or systemd: on Windows a task that cannot be    *)
(* ended is ignored, and its process stays.)                               *)
Started(v) == [id |-> started + 1, version |-> v, ready |-> FALSE]

StartService ==
    /\ cli.at = "start"
    /\ \/ /\ exe # "bad" /\ started < MaxDaemons
          /\ daemons' = {Started(exe)} \cup IF Kind = "session" THEN daemons ELSE {}
          /\ started' = started + 1
          /\ IF cli.next = "idle" THEN Done("none") ELSE At(cli.next)
       \/ UNCHANGED <<daemons, started>> /\ Failed
    /\ UNCHANGED <<exe, saved, schema, pid, runs>>

(* reconcile_existing installs and starts the service a second time.       *)
Reconcile ==
    /\ cli.at = "reconcile"
    /\ cli' = [cli EXCEPT !.at = "stop", !.next = "idle"]
    /\ UNCHANGED <<exe, saved, schema, daemons, started, pid, runs>>

(* upgrade-health of the installed executable: it opens the database and   *)
(* asks the registry.                                                      *)
Health ==
    /\ cli.at = "health"
    /\ \/ Opens(exe) /\ schema' = Migrated(exe) /\ At("keep")
       \/ /\ schema' \in {schema} \cup (IF Opens(exe) THEN {Migrated(exe)} ELSE {})
          /\ At("rollback")
    /\ UNCHANGED <<exe, saved, daemons, started, pid, runs>>

Keep ==
    /\ cli.at = "keep"
    /\ saved' = None
    /\ Done("upgraded")
    /\ UNCHANGED <<exe, schema, daemons, started, pid, runs>>

-----------------------------------------------------------------------------
(* Mutant: the backup is deleted before its bytes are installed.           *)
RollbackForgets ==
    /\ cli.at = "rollback"
    /\ saved' = None
    /\ cli' = [cli EXCEPT !.at = "forget", !.next = "restored"]
    /\ UNCHANGED <<exe, schema, daemons, started, pid, runs>>

(* rollback_executable reinstalls the backup and then deletes it;          *)
(* rollback_package_upgrade installs the previous package again.           *)
Rollback ==
    /\ cli.at = "rollback"
    /\ \/ exe' = "old" /\ cli' = [cli EXCEPT !.at = "forget", !.next = "restored"]
       \/ UNCHANGED exe /\ Done("failed")
    /\ UNCHANGED <<saved, schema, daemons, started, pid, runs>>

Forget ==
    /\ cli.at = "forget"
    /\ saved' = None
    /\ At("stop")
    /\ UNCHANGED <<exe, schema, daemons, started, pid, runs>>

(* run_restored_binary_health: a failure is another error.                 *)
Restored ==
    /\ cli.at = "restored"
    /\ \/ Opens(exe) /\ schema' = Migrated(exe) /\ Done("restored")
       \/ UNCHANGED schema /\ Done("failed")
    /\ UNCHANGED <<exe, saved, daemons, started, pid, runs>>

(* The command is cut off.                                                 *)
CutOff ==
    /\ cli.at # "idle"
    /\ Done("failed")
    /\ UNCHANGED <<exe, saved, schema, daemons, started, pid, runs>>

-----------------------------------------------------------------------------
(* daemon(): the database, then the pid file.                              *)
DaemonOpens(d) ==
    /\ ~d.ready /\ Opens(d.version)
    /\ schema' = Migrated(d.version)
    /\ daemons' = (daemons \ {d}) \cup {[d EXCEPT !.ready = TRUE]}
    /\ pid' = d.id
    /\ UNCHANGED <<exe, saved, started, cli, runs>>

DaemonRefuses(d) ==
    /\ ~d.ready /\ ~Opens(d.version)
    /\ daemons' = daemons \ {d}
    /\ UNCHANGED <<exe, saved, schema, started, pid, cli, runs>>

(* An error or ctrl-C ends the loop; the guard removes the pid file.       *)
DaemonEnds(d) ==
    /\ d.ready
    /\ daemons' = daemons \ {d}
    /\ pid' = None
    /\ UNCHANGED <<exe, saved, schema, started, cli, runs>>

(* The manager starts what it keeps again, from the executable's path.     *)
ManagerStarts ==
    /\ Kind = "manager" /\ daemons = {} /\ exe # "bad" /\ started < MaxDaemons
    /\ daemons' = {Started(exe)} /\ started' = started + 1
    /\ UNCHANGED <<exe, saved, schema, pid, cli, runs>>

(* The machine restarts or the session ends; the pid file stays.           *)
Reboot ==
    /\ daemons # {}
    /\ daemons' = {} /\ Done("failed")
    /\ UNCHANGED <<exe, saved, schema, started, pid, runs>>

-----------------------------------------------------------------------------
(* A device that is set up, with its daemon.                               *)
UpgradeInit ==
    /\ exe = "old" /\ saved = None /\ schema = 1
    /\ daemons = {[id |-> 1, version |-> "old", ready |-> TRUE]}
    /\ started = 1 /\ pid = 1 /\ cli = Idle /\ runs = 0

UpgradeNext ==
    \/ UpgradeStart \/ SetupStart \/ DoctorStart \/ Backup \/ Install \/ CheckVersion
    \/ StopService \/ StartService \/ Reconcile \/ Health \/ Keep \/ Rollback \/ Forget
    \/ Restored \/ CutOff \/ ManagerStarts \/ Reboot
    \/ \E d \in daemons : DaemonOpens(d) \/ DaemonRefuses(d) \/ DaemonEnds(d)

UpgradeSpec == UpgradeInit /\ [][UpgradeNext]_upgradeVars

-----------------------------------------------------------------------------
(* Whatever fails and wherever the command is cut off: an executable that  *)
(* did not report the version it was installed as has the previous one     *)
(* beside it until that is back, an upgrade that reports success leaves    *)
(* the new executable, with no older daemon behind it where a manager      *)
(* keeps it (a session daemon that has not written its number yet is not   *)
(* found), and the database is never ahead of an executable that reported  *)
(* success or its restoration.                                             *)
UpgradeSound ==
    /\ Source = "standalone" /\ exe = "bad" => saved = "old"
    /\ cli.end = "upgraded" =>
         exe = "new" /\ (Kind = "manager" => \A d \in daemons : d.version = "new")
    /\ cli.end \in {"upgraded", "restored"} => Opens(exe)

(* "A failed health check rolls the installation back to the previous      *)
(* binary/package version": once the bytes are back, the program runs.     *)
RolledBackRuns == cli.at = "restored" => Opens(exe)

(* There is one background service.                                        *)
OneDaemon == Cardinality({d \in daemons : d.ready}) <= 1

(* A service that can be started is not refused because it is running.     *)
RestartWorks == [][cli.at = "stop" => cli'.at # "rollback"]_upgradeVars
=============================================================================
