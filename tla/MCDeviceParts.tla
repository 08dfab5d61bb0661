---------------------------- MODULE MCDeviceParts ---------------------------
(***************************************************************************)
(* The parts of a device that do not share rows with each other at this    *)
(* level of detail, each checked on its own: `part' is fixed by the        *)
(* initial state and the variables of the other parts do not move.         *)
(***************************************************************************)
EXTENDS Integers, Sequences, FiniteSets, TLC

CONSTANTS
    None, Users, Solo, Clis, Many, Few, \* DeviceIdentity
    ForkNames, First, MaxRevs, MaxFaults, \* LocalForks
    Absent, MaxOps, MaxWork,            \* Import
    MaxDaemons, MaxRuns,                \* Upgrade
    Headless, Partial, MaxTrees,        \* DerivedView
    NumSkills, Owned, OwnerOf(_), SlugsOf(_),\* ProjectionNames
    Roots, UserNames, Suffixes, User

VARIABLES
    part,
    installs, account, active, boot, cred, install, ident, token, deletion,
    logins, secrets, shown, cmd,
    claimed, upstream, removing, localFork, follows, source, taken, preparing,
    importOp, promoted, copy, sync, target, faults, captured, dropped,
    exe, saved, schema, daemons, started, pid, cli, runs,
    origin, canonTree, views, shownRev, matRev, headRev, queuedRev,
    capturedTree, paused, agreed, wb, viewSync,
    skillRow, canon, entry, job, proj, userHas, fresh,
    work, made, dir, aside, journals, imports, revs, row, link, shownTree, base,
    removed, importer

identityVars == <<installs, account, active, boot, cred, install, ident, token,
                  deletion, logins, secrets, shown, cmd>>
forkVars == <<claimed, upstream, removing, localFork, follows, source, taken,
              preparing, importOp, promoted, copy, sync, target, faults,
              captured, dropped>>
upgradeVars == <<exe, saved, schema, daemons, started, pid, cli, runs>>
derivedVars == <<origin, canonTree, views, shownRev, matRev, headRev, queuedRev,
                 capturedTree, paused, agreed, wb, viewSync>>
nameVars == <<skillRow, canon, entry, job, proj, userHas, fresh>>
importVars == <<work, made, dir, aside, journals, imports, revs, row, link,
                shownTree, base, removed, importer>>

(* A device runs one command at a time and is named by it.  One device     *)
(* with an interrupted setup behind it, and two devices.                   *)
Itself(p) == p
D(procs, most) == INSTANCE DeviceIdentity WITH Procs <- procs, DeviceOf <- Itself,
          MaxSetups <- most, MaxLogins <- most, MaxSecrets <- most

LF == INSTANCE LocalForks WITH account <- follows, Names <- ForkNames,
          Others <- TRUE, Service <- FALSE

(* Two commands on one directory; a command and the service.               *)
I(procs, service) == INSTANCE Import WITH ImportProcs <- procs, Background <- service,
          Watchful <- TRUE

(* A service manager and a replaced file; a session daemon and npm.        *)
U(kind, from, migrates) == INSTANCE Upgrade WITH Kind <- kind, Source <- from,
          Migrates <- migrates

DV == INSTANCE DerivedView WITH Careful <- TRUE, Patient <- TRUE, LateStop <- FALSE,
          TornCopy <- TRUE

(* Bob's own skill is called x or ada-x; the latter is the alias of Ada's  *)
(* x, to which he subscribes.                                              *)
Owner(s) == IF s = 1 THEN "ada" ELSE "bob"
SlugsFor(s) == IF s = 1 THEN {<<"x">>} ELSE {<<"x">>, <<"ada", "x">>}
EntriesOfUser == {<<"x">>}
TwoAliases == << <<>>, <<"2">> >>
PN == INSTANCE ProjectionNames

ASSUME IdentityAssumption ==
    /\ Many \in Nat /\ Few \in Nat
    /\ None \notin Users /\ None \notin Solo /\ None \notin Clis
    /\ None \notin D(Solo, Many)!Creds /\ None \notin D(Clis, Few)!Creds

(* At most one command of the part with the service.                       *)
ASSUME ProcessAssumption == Clis # {} /\ Solo # {} /\ \A p, q \in Solo : p = q

ASSUME ForkAssumption ==
    /\ First \in ForkNames /\ MaxRevs \in Nat \ {0} /\ MaxFaults \in Nat
    /\ None \notin LF!ForkRows /\ None \notin LF!ImportOps /\ None \notin LF!Promotions

ASSUME ImportAssumption ==
    MaxOps \in Nat /\ MaxWork \in Nat \ {0} /\ Absent \notin Nat

ASSUME UpgradeAssumption == MaxDaemons \in Nat \ {0} /\ MaxRuns \in Nat

ASSUME ViewAssumption ==
    /\ MaxTrees \in Nat
    /\ None \notin Nat /\ Headless \notin Nat /\ Partial \notin Nat
    /\ None # Headless /\ None # Partial /\ Headless # Partial
    /\ None \notin [state : {"planned", "staged", "verified", "switched"}, tree : Nat]

ASSUME NamesAssumption ==
    /\ NumSkills \in Nat /\ None # User
    /\ None \notin PN!Names /\ None \notin PN!SkillRows /\ None \notin PN!Jobs
    /\ None \notin PN!Links /\ User \notin PN!Links /\ None # PN!View

(* The parts that have two instances share their variables.                *)
Init ==
    /\ LF!ForkInit /\ DV!DerivedInit /\ PN!NamesInit
    /\ part \in {"device", "devices", "session_upgrade", "manager_upgrade", "forks",
                "view", "names", "imports", "import_service"}
    /\ IF part = "devices" THEN D(Clis, Few)!IdentityInit ELSE D(Solo, Many)!IdentityInit
    /\ IF part = "session_upgrade"
         THEN U("session", "npm", FALSE)!UpgradeInit
         ELSE U("manager", "standalone", TRUE)!UpgradeInit
    /\ IF part = "imports" THEN I(Clis, FALSE)!ImportInit ELSE I(Solo, TRUE)!ImportInit

Next ==
    \/ /\ \/ part = "device" /\ D(Solo, Many)!IdentityNext
          \/ part = "devices" /\ D(Clis, Few)!IdentityNext
       /\ UNCHANGED <<part, forkVars, upgradeVars, derivedVars, nameVars, importVars>>
    \/ /\ part = "forks" /\ LF!ForkNext
       /\ UNCHANGED <<part, identityVars, upgradeVars, derivedVars, nameVars, importVars>>
    \/ /\ \/ part = "manager_upgrade" /\ U("manager", "standalone", TRUE)!UpgradeNext
          \/ part = "session_upgrade" /\ U("session", "npm", FALSE)!UpgradeNext
       /\ UNCHANGED <<part, identityVars, forkVars, derivedVars, nameVars, importVars>>
    \/ /\ part = "view" /\ DV!DerivedNext
       /\ UNCHANGED <<part, identityVars, forkVars, upgradeVars, nameVars, importVars>>
    \/ /\ part = "names" /\ PN!NamesNext
       /\ UNCHANGED <<part, identityVars, forkVars, upgradeVars, derivedVars, importVars>>
    \/ /\ \/ part = "imports" /\ I(Clis, FALSE)!ImportNext
          \/ part = "import_service" /\ I(Solo, TRUE)!ImportNext
       /\ UNCHANGED <<part, identityVars, forkVars, upgradeVars, derivedVars, nameVars>>

Spec == Init /\ [][Next]_<<part, identityVars, forkVars, upgradeVars, derivedVars,
                         nameVars, importVars>>

(* The roots are alike to every part.                                      *)
RootSymmetry == Permutations(Roots)

(* A deleted account cannot act, an interrupted setup can be taken up      *)
(* again, and a device that knows its identity left nothing behind on the  *)
(* anonymous installation (setup.rs, identity.rs, deletion.rs).            *)
IdentitySafety ==
    /\ part = "device" =>
         /\ D(Solo, Many)!IdentityTypeOK /\ D(Solo, Many)!DeletedIsInert
         /\ D(Solo, Many)!SetupResumable /\ D(Solo, Many)!AnonymousStateAdopted
    /\ part = "devices" =>
         /\ D(Clis, Few)!IdentityTypeOK /\ D(Clis, Few)!DeletedIsInert
         /\ D(Clis, Few)!SetupResumable /\ D(Clis, Few)!AnonymousStateAdopted

(* What becomes a skill of the user's own is kept: every revision captured *)
(* for a local fork until the user drops it (forks.rs, fork_ops.rs), and   *)
(* what an imported directory holds, which is deleted only when it is      *)
(* stored, whatever is interrupted, edited or run twice (owned.rs).        *)
NewSkillSafety ==
    /\ part = "forks" => LF!ForkTypeOK /\ LF!ForkWorkKept
    /\ part = "imports" =>
         /\ I(Clis, FALSE)!ImportTypeOK /\ I(Clis, FALSE)!RemovedIsStored
         /\ I(Clis, FALSE)!NoWorkLost
    /\ part = "import_service" =>
         /\ I(Solo, TRUE)!ImportTypeOK /\ I(Solo, TRUE)!RemovedIsStored
         /\ I(Solo, TRUE)!ImportNeverBlocksItself

(* An executable that did not prove itself has its predecessor beside it,  *)
(* success means the new one is installed and, under a manager, runs       *)
(* alone, and what a command reports in place opens the database           *)
(* (upgrade.rs).                                                           *)
UpgradeSafety ==
    /\ part = "session_upgrade" =>
         /\ U("session", "npm", FALSE)!UpgradeTypeOK
         /\ U("session", "npm", FALSE)!UpgradeSound
    /\ part = "manager_upgrade" =>
         /\ U("manager", "standalone", TRUE)!UpgradeTypeOK
         /\ U("manager", "standalone", TRUE)!UpgradeSound

(* A reconcile that ends undisturbed exposes every skill under a name of   *)
(* its own, no entry of the user's is ever touched, only those hold up a   *)
(* removal (projection.rs, lifecycle.rs), and no save made through the     *)
(* canonical path or an alias is lost when the sides are reconciled.       *)
HarnessSafety ==
    /\ part = "names" => PN!NamesTypeOK /\ PN!Exposed /\ PN!UserKept /\ PN!Unstuck
    /\ part = "view" => DV!DerivedTypeOK /\ DV!NoSaveLost
=============================================================================
