--------------------------- MODULE DeviceIdentity ---------------------------
(***************************************************************************)
(* How a device becomes an installation of the registry and how it is      *)
(* claimed, logged in, recovered and deleted: `denju setup` with its       *)
(* bootstrap journal (apps/denju/src/setup.rs), the identity commands and  *)
(* the account deletion journal (apps/denju/src/identity.rs), and the      *)
(* registry's side of them (identity.rs, identity_support.rs,              *)
(* identity_delete.rs and create_installation in lib.rs).                  *)
(*                                                                         *)
(* A credential stands for the installation it registers and for the       *)
(* operation identifier of the setup that made it: setup makes all three   *)
(* together.  A token stands for a session.  There is one username; an     *)
(* account of Users is one life of it, claimed once and deleted at most    *)
(* once.  One public skill stands for what a device or an account          *)
(* subscribes to.  Passwords are abstracted: whoever runs a command knows  *)
(* the current one.  Recovery secrets are numbered, and `shown` holds the  *)
(* ones a command has printed.                                             *)
(*                                                                         *)
(* A command is a process of Procs; it may be killed, or lose the answer   *)
(* of the registry, between any two of its steps (Stop).                   *)
(***************************************************************************)
EXTENDS Integers, FiniteSets

CONSTANTS Procs,        \* command line processes
          DeviceOf(_),  \* the device a process runs on
          Users,        \* the lives of the username
          MaxSetups,    \* setups of a device
          MaxLogins,    \* sessions of a device
          MaxSecrets,   \* recovery secrets ever made
          None

VARIABLES installs,  \* registry: installations, by credential
          account,   \* registry: users rows
          active,    \* registry: sessions that are not revoked
          boot,      \* device: setup_bootstrap journals, by credential
          cred,      \* device: the stored installation credential
          install,   \* device: the installation row (its credential)
          ident,     \* device: the identity row
          token,     \* device: the stored session credential
          deletion,  \* device: the account_delete_local journal
          logins,    \* device: sessions asked for so far
          secrets,   \* recovery secrets made so far
          shown,     \* recovery secrets printed
          cmd        \* the command each process is running

serverVars == <<installs, account, active>>
setupVars == <<boot, cred, install>>
identVars == <<ident, token, deletion>>
secretVars == <<secrets, shown>>
identityVars == <<serverVars, setupVars, identVars, logins, secretVars, cmd>>

Devices == {DeviceOf(p) : p \in Procs}
Creds == [dev : Devices, n : 1..MaxSetups]
Tokens == [dev : Devices, n : 1..MaxLogins, user : Users]
Idle == [at |-> "idle"]

IdentityTypeOK ==
    /\ installs \in [Creds -> [state : {"none", "live", "revoked"}, user : Users \cup {None}, sub : BOOLEAN]]
    /\ account \in [Users -> [state : {"free", "live", "deleted"}, secret : 0..MaxSecrets,
                              sub : BOOLEAN, by : Devices \cup {None}]]
    /\ active \subseteq Tokens
    /\ boot \in [Creds -> {"none", "planned", "staged", "verified", "switched", "complete"}]
    /\ \A d \in Devices : cred[d] \in Creds \cup {None} /\ install[d] \in Creds \cup {None}
    /\ \A d \in Devices : ident[d] # None => ident[d].user \in Users /\ ident[d].token \in Tokens \cup {None}
    /\ token \in [Devices -> Tokens \cup {None}]
    /\ deletion \in [Devices -> {"none", "planned", "staged", "verified", "switched"}]
    /\ secrets \in 0..MaxSecrets /\ shown \subseteq 1..MaxSecrets

IdentityInit ==
    /\ installs = [c \in Creds |-> [state |-> "none", user |-> None, sub |-> FALSE]]
    /\ account = [u \in Users |-> [state |-> "free", secret |-> 0, sub |-> FALSE, by |-> None]]
    /\ active = {}
    /\ boot = [c \in Creds |-> "none"]
    /\ cred = [d \in Devices |-> None] /\ install = [d \in Devices |-> None]
    /\ ident = [d \in Devices |-> None] /\ token = [d \in Devices |-> None]
    /\ deletion = [d \in Devices |-> "none"]
    /\ logins = [d \in Devices |-> 0]
    /\ secrets = 0 /\ shown = {}
    /\ cmd = [p \in Procs |-> Idle]

Go(p, at) == cmd' = [cmd EXCEPT ![p] = at]
Then(p, at) == Go(p, [cmd[p] EXCEPT !.at = at])
Finished(p) == Go(p, Idle)

-----------------------------------------------------------------------------
(* denju setup *)

\* bootstrap_journal: the newest setup that is not complete.
Open(d) == {c \in Creds : c.dev = d /\ boot[c] \notin {"none", "complete"}}
Journal(d) == IF Open(d) = {} THEN None
              ELSE CHOOSE c \in Open(d) : \A o \in Open(d) : o.n <= c.n
Used(d) == {c.n : c \in {x \in Creds : x.dev = d /\ boot[x] # "none"}}
Planned(d) == Journal(d) # None /\ boot[Journal(d)] = "planned"

\* A journal that is only planned is discarded; with no installation row
\* setup then makes a credential and plans its own.  create_bootstrap_journal
\* inserts a row.  The discarded identifier is not used again.
SetupPlan(p) ==
    LET d == DeviceOf(p)  IN
    /\ cmd[p].at = "idle" /\ install[d] = None
    /\ Journal(d) = None \/ Planned(d)
    /\ \E n \in 1..MaxSetups :
         LET c == [dev |-> d, n |-> n]
             gone == [k \in Creds |-> IF Planned(d) /\ k = Journal(d) THEN "complete" ELSE boot[k]] IN
         /\ n = Cardinality(Used(d)) + 1
         /\ boot' = [gone EXCEPT ![c] = "planned"]
         /\ Go(p, [at |-> "store", cred |-> c])
    /\ UNCHANGED <<serverVars, cred, install, identVars, logins, secretVars>>

\* CredentialManager::store.
SetupStore(p) ==
    /\ cmd[p].at = "store"
    /\ cred' = [cred EXCEPT ![DeviceOf(p)] = cmd[p].cred]
    /\ Then(p, "stage")
    /\ UNCHANGED <<serverVars, boot, install, identVars, logins, secretVars>>

\* update_bootstrap: a conditional update of this setup's row; a row that is
\* not in the expected state fails the command.
Advance(p, at, from, to, next) ==
    /\ cmd[p].at = at
    /\ IF boot[cmd[p].cred] = from
       THEN boot' = [boot EXCEPT ![cmd[p].cred] = to] /\ Then(p, next)
       ELSE UNCHANGED boot /\ Finished(p)
    /\ UNCHANGED <<serverVars, cred, install, identVars, logins, secretVars>>

SetupStage(p) == Advance(p, "stage", "planned", "staged", "register")
SetupVerified(p) == Advance(p, "registered", "staged", "verified", "activate")
SetupSwitched(p) == Advance(p, "switch", "verified", "switched", "check")

\* create_installation: the operation identifier makes it idempotent.
Register(p) ==
    LET c == cmd[p].cred  IN
    /\ cmd[p].at = "register"
    /\ installs' = IF installs[c].state = "none" THEN [installs EXCEPT ![c].state = "live"] ELSE installs
    /\ Then(p, "registered")
    /\ UNCHANGED <<account, active, setupVars, identVars, logins, secretVars>>

\* activate_verified_bootstrap: save_installation.
SetupActivate(p) ==
    /\ cmd[p].at = "activate"
    /\ install' = [install EXCEPT ![DeviceOf(p)] = cmd[p].cred]
    /\ Then(p, "switch")
    /\ UNCHANGED <<serverVars, boot, cred, identVars, logins, secretVars>>

\* verify_switched_bootstrap: the stored credential must be the one of this
\* setup.
SetupComplete(p) ==
    LET c == cmd[p].cred  IN
    /\ cmd[p].at = "check"
    /\ boot' = IF cred[DeviceOf(p)] = c /\ install[DeviceOf(p)] # None /\ boot[c] = "switched"
               THEN [boot EXCEPT ![c] = "complete"] ELSE boot
    /\ Finished(p)
    /\ UNCHANGED <<serverVars, cred, install, identVars, logins, secretVars>>

\* resume_bootstrap: the stored credential must be the journal's.
SetupResume(p) ==
    LET d == DeviceOf(p)
        c == Journal(d)  IN
    /\ cmd[p].at = "idle" /\ c # None
    /\ boot[c] # "planned" /\ cred[d] = c
    /\ Go(p, [at |-> CASE boot[c] = "staged" -> "register"
                       [] boot[c] = "verified" -> "activate"
                       [] OTHER -> "check", cred |-> c])
    /\ UNCHANGED <<serverVars, setupVars, identVars, logins, secretVars>>

-----------------------------------------------------------------------------
(* The registry's side of a session *)

\* installation_context: the installation row and the stored credential.
HasInstallation(d) == install[d] # None /\ cred[d] # None
\* session_context: an identity row with a session, and the stored token.
HasSession(d) ==
    /\ HasInstallation(d)
    /\ ident[d] # None
    /\ ident[d].token # None /\ token[d] # None

Authenticated(d) == installs[cred[d]].state = "live"
Live == {u \in Users : account[u].state = "live"}

\* link_installation_to_user, adopt_installation_subscriptions and
\* insert_session, in the transaction of claim, login and recovery.
Linkable(c, u) == installs[c].state = "live" /\ installs[c].user \in {None, u}
Link(c, u, t, a) ==
    /\ installs' = [installs EXCEPT ![c] = [state |-> @.state, user |-> u, sub |-> FALSE]]
    /\ account' = [account EXCEPT ![u] = [state |-> a.state, secret |-> a.secret, by |-> a.by,
                                          sub |-> a.sub \/ installs[c].sub]]
    /\ active' = active \cup {t}

NewToken(d, u) == [dev |-> d, n |-> logins[d] + 1, user |-> u]
CanLogin(d) == logins[d] < MaxLogins

\* claim and claim_identity.  The device has no identity row, the
\* installation no user, and the username is free.
Claim(p) ==
    LET d == DeviceOf(p)
        c == cred[d]  IN
    /\ cmd[p].at = "idle" /\ HasInstallation(d) /\ ident[d] = None
    /\ Authenticated(d) /\ installs[c].user = None
    /\ Live = {} /\ CanLogin(d) /\ secrets < MaxSecrets
    /\ \E u \in Users :
         /\ account[u].state = "free"
         /\ Link(c, u, NewToken(d, u), [state |-> "live", secret |-> secrets + 1, by |-> account[u].by,
                                          sub |-> account[u].sub])
         /\ Go(p, [at |-> "persist", token |-> NewToken(d, u), secret |-> secrets + 1])
    /\ logins' = [logins EXCEPT ![d] = @ + 1]
    /\ secrets' = secrets + 1
    /\ UNCHANGED <<setupVars, identVars, shown>>

\* login and recovery_reset read the account by its name, without a lock;
\* the recovery secret is one the user was shown.
LoginRead(p) ==
    LET d == DeviceOf(p)  IN
    /\ cmd[p].at = "idle" /\ HasInstallation(d) /\ Authenticated(d) /\ CanLogin(d)
    /\ \E u \in Live, secret \in {0} \cup (IF secrets < MaxSecrets THEN {secrets + 1} ELSE {}) :
         /\ secret # 0 => account[u].secret \in shown
         /\ secrets' = IF secret # 0 THEN secret ELSE secrets
         /\ Go(p, [at |-> "login", cred |-> cred[d], token |-> NewToken(d, u), secret |-> secret])
    /\ logins' = [logins EXCEPT ![d] = @ + 1]
    /\ UNCHANGED <<serverVars, setupVars, identVars, shown>>

\* Mutant: the account is not checked again under the lock.
LoginCommitStale(p) ==
    /\ cmd[p].at = "login"
    /\ IF Linkable(cmd[p].cred, cmd[p].token.user)
       THEN Link(cmd[p].cred, cmd[p].token.user, cmd[p].token, account[cmd[p].token.user]) /\ Then(p, "persist")
       ELSE UNCHANGED serverVars /\ Finished(p)
    /\ UNCHANGED <<setupVars, identVars, logins, secretVars>>

\* The transaction locks the users row, which must still be live, links the
\* installation and inserts the session; recovery replaces the secret.
LoginCommit(p) ==
    LET c == cmd[p].cred
        u == cmd[p].token.user
        secret == cmd[p].secret  IN
    /\ cmd[p].at = "login"
    /\ IF account[u].state = "live" /\ Linkable(c, u)
       THEN /\ Link(c, u, cmd[p].token,
                    IF secret # 0 THEN [account[u] EXCEPT !.secret = secret] ELSE account[u])
            /\ Then(p, "persist")
       ELSE UNCHANGED serverVars /\ Finished(p)
    /\ UNCHANGED <<setupVars, identVars, logins, secretVars>>

\* persist_session: the credential, then the identity row.
PersistToken(p) ==
    /\ cmd[p].at = "persist"
    /\ token' = [token EXCEPT ![DeviceOf(p)] = cmd[p].token]
    /\ Then(p, "identity")
    /\ UNCHANGED <<serverVars, setupVars, ident, deletion, logins, secretVars>>

PersistIdentity(p) ==
    /\ cmd[p].at = "identity"
    /\ ident' = [ident EXCEPT ![DeviceOf(p)] = [user |-> cmd[p].token.user, token |-> cmd[p].token]]
    /\ Then(p, "show")
    /\ UNCHANGED <<serverVars, setupVars, token, deletion, logins, secretVars>>

\* The follows are adopted and the device is synchronized; only then is the
\* outcome, with the secret, returned and printed.  A failure before it is Stop.
Show(p) ==
    /\ cmd[p].at = "show"
    /\ shown' = IF cmd[p].secret # 0 THEN shown \cup {cmd[p].secret} ELSE shown
    /\ Finished(p)
    /\ UNCHANGED <<serverVars, setupVars, identVars, logins, secrets>>

\* identity_backup: a session and the password replace the secret.
Backup(p) ==
    LET d == DeviceOf(p)  IN
    /\ cmd[p].at = "idle" /\ HasSession(d) /\ token[d] \in active
    /\ secrets < MaxSecrets
    /\ secrets' = secrets + 1
    /\ account' = [account EXCEPT ![token[d].user].secret = secrets + 1]
    /\ Go(p, [at |-> "show", secret |-> secrets + 1])
    /\ UNCHANGED <<installs, active, setupVars, identVars, logins, shown>>

\* revoke_device: any session of the user; when it is the device's own, the
\* stored token and the row's session are removed.
Revoke(p) ==
    LET d == DeviceOf(p)  IN
    /\ cmd[p].at = "idle" /\ HasSession(d) /\ token[d] \in active
    /\ \E t \in active :
         /\ t.user = token[d].user
         /\ active' = active \ {t}
         /\ Go(p, IF t = ident[d].token THEN [at |-> "forget"] ELSE Idle)
    /\ UNCHANGED <<installs, account, setupVars, identVars, logins, secretVars>>

ForgetToken(p) ==
    /\ cmd[p].at = "forget"
    /\ token' = [token EXCEPT ![DeviceOf(p)] = None]
    /\ Then(p, "logout")
    /\ UNCHANGED <<serverVars, setupVars, ident, deletion, logins, secretVars>>

ForgetSession(p) ==
    /\ cmd[p].at = "logout"
    /\ ident' = [ident EXCEPT ![DeviceOf(p)].token = None]
    /\ Finished(p)
    /\ UNCHANGED <<serverVars, setupVars, token, deletion, logins, secretVars>>

-----------------------------------------------------------------------------
(* Subscriptions of a device *)

\* load_active_bearer and subscription_subject: the identity's session when
\* there is an identity row, else the installation.
SubscribeRead(p) ==
    LET d == DeviceOf(p)  IN
    /\ cmd[p].at = "idle" /\ HasInstallation(d)
    /\ IF ident[d] = None
       THEN Authenticated(d) /\ Go(p, [at |-> "subscribe", cred |-> cred[d], user |-> None])
       ELSE /\ HasSession(d) /\ token[d] \in active
            /\ Go(p, [at |-> "subscribe", cred |-> cred[d], user |-> token[d].user])
    /\ UNCHANGED <<serverVars, setupVars, identVars, logins, secretVars>>

\* subscribe or unsubscribe, in a transaction of its own.
SubscribeCommit(p) ==
    LET c == cmd[p].cred
        u == cmd[p].user  IN
    /\ cmd[p].at = "subscribe"
    /\ \E on \in BOOLEAN :
         IF u = None
         THEN installs' = [installs EXCEPT ![c].sub = on] /\ UNCHANGED account
         ELSE account' = [account EXCEPT ![u].sub = on] /\ UNCHANGED installs
    /\ Finished(p)
    /\ UNCHANGED <<active, setupVars, identVars, logins, secretVars>>

-----------------------------------------------------------------------------
(* denju identity delete *)

\* delete_account: without a journal, plan one for the identity of the row.
DeletePlan(p) ==
    LET d == DeviceOf(p)  IN
    /\ cmd[p].at = "idle" /\ deletion[d] = "none" /\ HasSession(d)
    /\ deletion' = [deletion EXCEPT ![d] = "planned"]
    /\ Go(p, [at |-> "delete", token |-> token[d]])
    /\ UNCHANGED <<serverVars, setupVars, ident, token, logins, secretVars>>

\* resume_account_delete: a planned deletion needs the session.
DeleteResume(p) ==
    LET d == DeviceOf(p)  IN
    /\ cmd[p].at = "idle" /\ deletion[d] # "none"
    /\ deletion[d] = "planned" => HasSession(d)
    /\ Go(p, [at |-> CASE deletion[d] = "planned" -> "delete"
                       [] deletion[d] = "staged" -> "clear"
                       [] deletion[d] = "verified" -> "token"
                       [] OTHER -> "finish", token |-> token[d]])
    /\ UNCHANGED <<serverVars, setupVars, identVars, logins, secretVars>>

\* What delete_account leaves of the account of u: nothing of it can act.
Deleted(u, d) ==
    /\ account' = [account EXCEPT ![u] = [state |-> "deleted", secret |-> 0, sub |-> FALSE, by |-> d]]
    /\ active' = {t \in active : t.user # u}
    /\ installs' = [c \in Creds |-> IF installs[c].user = u
                                    THEN [state |-> "revoked", user |-> u, sub |-> FALSE]
                                    ELSE installs[c]]

\* The registry's delete_account.  The operation identifier is the
\* journal's, and the replay is looked up with a revoked session too.
DeleteSend(p) ==
    LET d == DeviceOf(p)
        t == cmd[p].token  IN
    /\ cmd[p].at = "delete"
    /\ \/ account[t.user].by = d /\ UNCHANGED serverVars /\ Then(p, "stage_delete")
       \/ account[t.user].by # d /\ t \in active /\ Deleted(t.user, d) /\ Then(p, "stage_delete")
       \/ account[t.user].by # d /\ t \notin active /\ UNCHANGED serverVars /\ Finished(p)
    /\ UNCHANGED <<setupVars, identVars, logins, secretVars>>

DeleteJournal(p, at, from, to, next) ==
    LET d == DeviceOf(p)  IN
    /\ cmd[p].at = at
    /\ IF deletion[d] = from
       THEN deletion' = [deletion EXCEPT ![d] = to] /\ Go(p, [at |-> next])
       ELSE UNCHANGED deletion /\ Finished(p)
    /\ UNCHANGED <<serverVars, setupVars, ident, token, logins, secretVars>>

DeleteStaged(p) == DeleteJournal(p, "stage_delete", "planned", "staged", "clear")
\* clear_local_managed_state, then the journal.
DeleteVerified(p) == DeleteJournal(p, "clear", "staged", "verified", "token")
DeleteSwitched(p) == DeleteJournal(p, "switch_delete", "verified", "switched", "finish")
DeleteFinish(p) == DeleteJournal(p, "finish", "switched", "none", "idle")

\* delete_session, delete_installation, clear_identity, clear_installation.
DropToken(p) ==
    /\ cmd[p].at = "token"
    /\ token' = [token EXCEPT ![DeviceOf(p)] = None]
    /\ Then(p, "credential")
    /\ UNCHANGED <<serverVars, setupVars, ident, deletion, logins, secretVars>>

DropCredential(p) ==
    /\ cmd[p].at = "credential"
    /\ cred' = [cred EXCEPT ![DeviceOf(p)] = None]
    /\ Then(p, "clear_identity")
    /\ UNCHANGED <<serverVars, boot, install, identVars, logins, secretVars>>

DropIdentity(p) ==
    /\ cmd[p].at = "clear_identity"
    /\ ident' = [ident EXCEPT ![DeviceOf(p)] = None]
    /\ Then(p, "clear_installation")
    /\ UNCHANGED <<serverVars, setupVars, token, deletion, logins, secretVars>>

DropInstallation(p) ==
    /\ cmd[p].at = "clear_installation"
    /\ install' = [install EXCEPT ![DeviceOf(p)] = None]
    /\ Then(p, "switch_delete")
    /\ UNCHANGED <<serverVars, boot, cred, identVars, logins, secretVars>>

-----------------------------------------------------------------------------

\* The process is killed, or a call of the command fails.
Stop(p) ==
    /\ cmd[p].at # "idle"
    /\ Finished(p)
    /\ UNCHANGED <<serverVars, setupVars, identVars, logins, secretVars>>

SetupStep(p) == \/ SetupStore(p) \/ SetupStage(p) \/ Register(p) \/ SetupVerified(p)
                \/ SetupActivate(p) \/ SetupSwitched(p) \/ SetupComplete(p)
DeleteStep(p) == \/ DeleteSend(p) \/ DeleteStaged(p) \/ DeleteVerified(p) \/ DropToken(p)
                 \/ DropCredential(p) \/ DropIdentity(p) \/ DropInstallation(p)
                 \/ DeleteSwitched(p) \/ DeleteFinish(p)
SessionStep(p) == \/ LoginCommit(p) \/ PersistToken(p) \/ PersistIdentity(p) \/ Show(p)
                  \/ ForgetToken(p) \/ ForgetSession(p) \/ SubscribeCommit(p)
CommandStart(p) == \/ SetupPlan(p) \/ SetupResume(p) \/ Claim(p) \/ LoginRead(p) \/ Backup(p)
                   \/ Revoke(p) \/ SubscribeRead(p) \/ DeletePlan(p) \/ DeleteResume(p)

IdentityNext == \E p \in Procs : CommandStart(p) \/ SetupStep(p) \/ DeleteStep(p) \/ SessionStep(p) \/ Stop(p)

IdentitySpec == IdentityInit /\ [][IdentityNext]_identityVars

-----------------------------------------------------------------------------

\* A deleted account cannot act: none of its sessions and none of the
\* installations linked to it is valid, although a login or a recovery reads
\* the account before the deletion and commits after it, and a device whose
\* answer was lost still holds its credentials.
DeletedIsInert ==
    \A u \in Users : account[u].state = "deleted" =>
        /\ \A t \in active : t.user # u
        /\ \A c \in Creds : installs[c].user = u => installs[c].state # "live"

\* An interrupted setup can always be taken up again: once its journal is
\* past planned, the credential store holds the credential of that journal,
\* wherever the earlier process stopped (resume_bootstrap and
\* verify_switched_bootstrap refuse another one for good).  The exception is
\* a device that was claimed over a setup still interrupted and then deleted
\* its account: the credential is gone and setup can only fail.
SetupResumable ==
    \A d \in Devices : Journal(d) # None /\ boot[Journal(d)] # "planned" =>
        cred[d] = Journal(d) \/ \E u \in Users : account[u].by = d

\* Anonymous state is adopted: a device that knows its identity has no
\* subscription left on the anonymous installation, where its synchronization
\* no longer looks, although the answer of an earlier claim may have been
\* lost and the device went on subscribing anonymously after it.
AnonymousStateAdopted ==
    \A d \in Devices : ident[d] # None /\ install[d] # None => ~installs[install[d]].sub

\* Claim shows the recovery secret: a device that holds the identity row of
\* a claim, with no command running, had the current secret printed.
SecretShown ==
    \A d \in Devices : (ident[d] # None /\ ident[d].token \in active /\ \A p \in Procs : cmd[p].at = "idle")
        => account[ident[d].user].secret \in shown

\* A planned deletion can still be finished: the device can log in again, or
\* the registry holds the outcome of this very deletion.
DeletionCanFinish ==
    \A d \in Devices : deletion[d] = "planned" =>
        \/ installs[cred[d]].state = "live"
        \/ token[d] # None /\ account[token[d].user].by = d

\* A deletion removes only credentials the registry no longer accepts.
DropsOnlyRevoked ==
    \A p \in Procs : cmd[p].at = "credential" /\ cred[DeviceOf(p)] # None
        => installs[cred[DeviceOf(p)]].state # "live"

=============================================================================
