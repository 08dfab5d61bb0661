--------------------------- MODULE TeamAuthority ---------------------------
(***************************************************************************)
(* One team of the registry: its roles, invitations, nominations of a new  *)
(* owner, the members' private workspaces and private subscriptions, and   *)
(* the accounts behind them.                                               *)
(*                                                                         *)
(* Requests run as the database role denju_app, so the row policies of     *)
(* 0017_security_rls.sql are part of every statement: a row that the       *)
(* policy hides is not locked, updated or deleted.  CanChangeRow and       *)
(* CanChangeSubscription are those policies.                               *)
(*                                                                         *)
(* A request that holds the rows it decides on is one step.  Two are not:  *)
(* a join locks only the invitation while it inserts the membership, and   *)
(* provisioning reads the authority in one statement and commits later.    *)
(***************************************************************************)
EXTENDS Naturals

CONSTANTS
    Users,     \* accounts
    Founder,   \* the one that created the team
    Sessions,  \* clients; a person may have several
    UserOf,    \* Sessions -> Users
    Sharing,   \* users to whom the private skill is also shared directly
    Invites,   \* invitation codes ever made
    Codes,     \* ownership transfer codes ever made
    None

VARIABLES
    live,      \* the namespaces row and what cascades from it
    open,      \* teams.members_can_publish
    role,      \* Users -> the role in team_memberships, or None
    alive,     \* users whose deleted_at is null
    invite,    \* Invites -> its row of team_invites, or None
    transfer,  \* Codes -> its row of team_owner_transfers, or None
    ws,        \* users with a skill_private_workspaces row of a team skill
    sub,       \* users with an account_subscriptions row of a private team skill
    tx,        \* Sessions -> the transaction between its statements
    admitted   \* history: Invites -> the users it let in

vars == <<live, open, role, alive, invite, transfer, ws, sub, tx, admitted>>

Roles == {"owner", "maintainer", "member"}
Idle == [at |-> "idle", invite |-> None]

InviteRows == [by : Users, role : {"maintainer", "member"},
               used : BOOLEAN, revoked : BOOLEAN, expired : BOOLEAN]
TransferRows == [from : Users, to : Users,
                 state : {"pending", "accepted", "cancelled"}]

TypeOK ==
    /\ live \in BOOLEAN /\ open \in BOOLEAN
    /\ role \in [Users -> Roles \cup {None}]
    /\ alive \subseteq Users /\ ws \subseteq Users /\ sub \subseteq Users
    /\ invite \in [Invites -> InviteRows \cup {None}]
    /\ transfer \in [Codes -> TransferRows \cup {None}]
    /\ tx \in [Sessions -> [at : {"idle", "join", "provision"},
                            invite : Invites \cup {None}]]
    /\ admitted \in [Invites -> SUBSET Users]

-----------------------------------------------------------------------------
Members == {u \in Users : role[u] # None}
IsOwner(u) == role[u] = "owner"

(* role_can_publish: owners and maintainers, and members when allowed.     *)
CanPublish(u) ==
    \/ role[u] \in {"owner", "maintainer"}
    \/ role[u] = "member" /\ open

(* The policies team_memberships_update and _delete, which also filter the *)
(* rows a SELECT ... FOR UPDATE of the actor returns.                      *)
CanChangeRow(actor, u) == actor = u \/ IsOwner(actor)

(* The policy account_subscriptions_actor: only one's own rows.            *)
CanChangeSubscription(actor, u) == actor = u

(* Mutant: the join does not lock its row.                                 *)
InviteLockedNever(i) == FALSE

(* The row lock a join holds on its invitation until it commits.           *)
InviteLocked(i) == \E s \in Sessions : tx[s].invite = i

(* A free session of a living account starts a request.                    *)
Acts(s) == tx[s].at = "idle" /\ UserOf[s] \in alive

-----------------------------------------------------------------------------
(* create_team_invite: the owner invites anyone, a maintainer members.     *)
CreateInvite(s, i, r) ==
    LET u == UserOf[s] IN
    /\ Acts(s) /\ live /\ invite[i] = None
    /\ IsOwner(u) \/ (role[u] = "maintainer" /\ r = "member")
    /\ invite' = [invite EXCEPT ![i] = [by |-> u, role |-> r, used |-> FALSE,
                                        revoked |-> FALSE, expired |-> FALSE]]
    /\ UNCHANGED <<live, open, role, alive, transfer, ws, sub, tx, admitted>>

(* revoke_team_invite: by the owner or the member that made it.  A code    *)
(* already used or revoked stays what it is.                               *)
RevokeInvite(s, i) ==
    LET u == UserOf[s] IN
    /\ Acts(s) /\ live /\ u \in Members
    /\ invite[i] # None /\ ~InviteLocked(i)
    /\ IsOwner(u) \/ invite[i].by = u
    /\ ~invite[i].used /\ ~invite[i].revoked
    /\ invite' = [invite EXCEPT ![i].revoked = TRUE]
    /\ UNCHANGED <<live, open, role, alive, transfer, ws, sub, tx, admitted>>

(* INVITE_LIFETIME_SECONDS pass.                                           *)
ExpireInvite(i) ==
    /\ invite[i] # None /\ ~invite[i].expired
    /\ invite' = [invite EXCEPT ![i].expired = TRUE]
    /\ UNCHANGED <<live, open, role, alive, transfer, ws, sub, tx, admitted>>

(* join_team up to its checks: the invitation's row is locked, read again  *)
(* after any wait, and must be neither expired, used nor revoked.          *)
JoinStart(s, i) ==
    /\ Acts(s) /\ invite[i] # None /\ ~InviteLocked(i)
    /\ ~invite[i].expired /\ ~invite[i].used /\ ~invite[i].revoked
    /\ role[UserOf[s]] = None
    /\ tx' = [tx EXCEPT ![s] = [at |-> "join", invite |-> i]]
    /\ UNCHANGED <<live, open, role, alive, invite, transfer, ws, sub, admitted>>

(* The rest of join_team: the membership is inserted and the code spent.   *)
(* The foreign keys ask only that the rows of team and user exist, and an  *)
(* account's row outlives its deletion.                                    *)
JoinCommit(s) ==
    LET u == UserOf[s] i == tx[s].invite IN
    /\ tx[s].at = "join" /\ role[u] = None
    /\ role' = [role EXCEPT ![u] = invite[i].role]
    /\ invite' = [invite EXCEPT ![i].used = TRUE]
    /\ admitted' = [admitted EXCEPT ![i] = @ \cup {u}]
    /\ tx' = [tx EXCEPT ![s] = Idle]
    /\ UNCHANGED <<live, open, alive, transfer, ws, sub>>

(* A transaction fails and leaves nothing.                                 *)
Abort(s) ==
    /\ tx[s].at # "idle"
    /\ tx' = [tx EXCEPT ![s] = Idle]
    /\ UNCHANGED <<live, open, role, alive, invite, transfer, ws, sub, admitted>>

-----------------------------------------------------------------------------
(* change_team_member_role: a demotion below the right to publish deletes  *)
(* the member's team workspaces in the same transaction.                   *)
ChangeRole(s, v, r) ==
    LET u == UserOf[s] IN
    /\ Acts(s) /\ live /\ IsOwner(u) /\ v \in Members /\ ~IsOwner(v)
    /\ v \in alive /\ role[v] # r
    /\ role' = [role EXCEPT ![v] = r]
    /\ ws' = IF r = "member" /\ ~open THEN ws \ {v} ELSE ws
    /\ UNCHANGED <<live, open, alive, invite, transfer, sub, tx, admitted>>

(* remove_team_membership_subscriptions: the private subscription goes     *)
(* unless a share grants it too, and if the actor may delete that row.     *)
Unsubscribed(actor, v) ==
    IF v \notin Sharing /\ CanChangeSubscription(actor, v) THEN {v} ELSE {}

Depart(actor, v) ==
    /\ ws' = ws \ {v}
    /\ sub' = sub \ Unsubscribed(actor, v)
    /\ role' = [role EXCEPT ![v] = None]

(* remove_team_member                                                      *)
RemoveMember(s, v) ==
    /\ Acts(s) /\ live /\ IsOwner(UserOf[s])
    /\ v \in Members \cap alive /\ ~IsOwner(v)
    /\ Depart(UserOf[s], v)
    /\ UNCHANGED <<live, open, alive, invite, transfer, tx, admitted>>

(* leave_team                                                              *)
Leave(s) ==
    /\ Acts(s) /\ live /\ UserOf[s] \in Members /\ ~IsOwner(UserOf[s])
    /\ Depart(UserOf[s], UserOf[s])
    /\ UNCHANGED <<live, open, alive, invite, transfer, tx, admitted>>

(* update_team_settings: closing publication takes the members' workspaces *)
UpdateSettings(s) ==
    /\ Acts(s) /\ live /\ IsOwner(UserOf[s])
    /\ open' = ~open
    /\ ws' = IF open THEN {u \in ws : role[u] # "member"} ELSE ws
    /\ UNCHANGED <<live, role, alive, invite, transfer, sub, tx, admitted>>

-----------------------------------------------------------------------------
(* create_team_owner_transfer: a pending nomination is replaced.           *)
Nominate(s, c, v) ==
    LET u == UserOf[s] IN
    /\ Acts(s) /\ live /\ IsOwner(u) /\ transfer[c] = None
    /\ v \in Members \cap alive /\ ~IsOwner(v)
    /\ transfer' = [d \in Codes |->
         IF d = c THEN [from |-> u, to |-> v, state |-> "pending"]
         ELSE IF transfer[d] # None /\ transfer[d].state = "pending"
              THEN [transfer[d] EXCEPT !.state = "cancelled"]
              ELSE transfer[d]]
    /\ UNCHANGED <<live, open, role, alive, invite, ws, sub, tx, admitted>>

(* What the statements of accept_team_owner_transfer do.  Its first reads  *)
(* the owner's membership FOR UPDATE and fails without a row.              *)
Handover(u, t) ==
    LET owners == {o \in Users : IsOwner(o) /\ CanChangeRow(u, o)} IN
    IF owners = {t.from} /\ u \in Members
    THEN [role EXCEPT ![t.from] = "maintainer", ![u] = "owner"]
    ELSE role

(* accept_team_owner_transfer, by the nominated member with the code.      *)
AcceptTransfer(s, c) ==
    LET u == UserOf[s] IN
    /\ Acts(s) /\ live /\ transfer[c] # None
    /\ transfer[c].state = "pending" /\ transfer[c].to = u
    /\ role' = Handover(u, transfer[c])
    /\ transfer' = IF role' # role
                   THEN [transfer EXCEPT ![c].state = "accepted"] ELSE transfer
    /\ UNCHANGED <<live, open, alive, invite, ws, sub, tx, admitted>>

(* delete_team: the cascade waits for a join that holds an invitation, and *)
(* private skills stay as tombstones, with their workspaces.               *)
DeleteTeam(s) ==
    /\ Acts(s) /\ live /\ IsOwner(UserOf[s])
    /\ ~\E i \in Invites : InviteLocked(i)
    /\ live' = FALSE
    /\ role' = [u \in Users |-> None]
    /\ invite' = [i \in Invites |-> None]
    /\ transfer' = [c \in Codes |-> None]
    /\ UNCHANGED <<open, alive, ws, sub, tx, admitted>>

-----------------------------------------------------------------------------
(* The subscription of a member, or of a holder of a share, to the private *)
(* team skill.                                                             *)
Subscribe(s) ==
    LET u == UserOf[s] IN
    /\ Acts(s) /\ live /\ u \in Members \cup Sharing
    /\ sub' = sub \cup {u}
    /\ UNCHANGED <<live, open, role, alive, invite, transfer, ws, tx, admitted>>

(* The INSERT ... SELECT of the private catalogue, or of a publication,    *)
(* sees the authority of its own snapshot ...                              *)
ProvisionStart(s) ==
    LET u == UserOf[s] IN
    /\ Acts(s) /\ live /\ CanPublish(u) /\ u \notin ws
    /\ tx' = [tx EXCEPT ![s] = [at |-> "provision", invite |-> None]]
    /\ UNCHANGED <<live, open, role, alive, invite, transfer, ws, sub, admitted>>

(* ... and its row appears when the transaction commits.                   *)
ProvisionCommit(s) ==
    /\ tx[s].at = "provision"
    /\ ws' = ws \cup {UserOf[s]}
    /\ tx' = [tx EXCEPT ![s] = Idle]
    /\ UNCHANGED <<live, open, role, alive, invite, transfer, sub, admitted>>

(* delete_account: refused to a team's owner; memberships, workspaces,     *)
(* unused invitations and subscriptions go.                                *)
DeleteAccount(s) ==
    LET u == UserOf[s]
        made == {i \in Invites : invite[i] # None /\ invite[i].by = u
                                 /\ ~invite[i].used /\ ~invite[i].revoked} IN
    /\ Acts(s) /\ ~IsOwner(u)
    /\ ~\E i \in made : InviteLocked(i)
    /\ alive' = alive \ {u}
    /\ role' = [role EXCEPT ![u] = None]
    /\ ws' = IF u \in Members THEN ws \ {u} ELSE ws
    /\ sub' = sub \ {u}
    /\ invite' = [i \in Invites |-> IF i \in made
                    THEN [invite[i] EXCEPT !.revoked = TRUE] ELSE invite[i]]
    /\ UNCHANGED <<live, open, transfer, tx, admitted>>

-----------------------------------------------------------------------------
(* create_team                                                             *)
Init ==
    /\ live = TRUE /\ open = FALSE
    /\ role = [u \in Users |-> IF u = Founder THEN "owner" ELSE None]
    /\ alive = Users
    /\ invite = [i \in Invites |-> None]
    /\ transfer = [c \in Codes |-> None]
    /\ ws = {} /\ sub = {}
    /\ tx = [s \in Sessions |-> Idle]
    /\ admitted = [i \in Invites |-> {}]

Next ==
    \/ \E s \in Sessions, i \in Invites, r \in {"maintainer", "member"} :
          CreateInvite(s, i, r)
    \/ \E s \in Sessions, i \in Invites : RevokeInvite(s, i) \/ JoinStart(s, i)
    \/ \E i \in Invites : ExpireInvite(i)
    \/ \E s \in Sessions, v \in Users, r \in {"maintainer", "member"} :
          ChangeRole(s, v, r)
    \/ \E s \in Sessions, v \in Users : RemoveMember(s, v)
    \/ \E s \in Sessions, c \in Codes, v \in Users : Nominate(s, c, v)
    \/ \E s \in Sessions, c \in Codes : AcceptTransfer(s, c)
    \/ \E s \in Sessions :
          \/ JoinCommit(s) \/ Abort(s) \/ Leave(s) \/ UpdateSettings(s)
          \/ DeleteTeam(s) \/ Subscribe(s) \/ ProvisionStart(s)
          \/ ProvisionCommit(s) \/ DeleteAccount(s)

Spec == Init /\ [][Next]_vars

(* The nominated member keeps trying the code it was given.                *)
FairSpec ==
    /\ Spec
    /\ \A s \in Sessions, c \in Codes : WF_vars(AcceptTransfer(s, c))

-----------------------------------------------------------------------------
(* A team that exists has exactly one owner, whatever its members, its     *)
(* owner and the deletion of accounts do to each other.                    *)
TeamHasOwner == live => \E o \in Users : {u \in Users : IsOwner(u)} = {o}

(* An invitation lets in at most one person, and nobody once it was        *)
(* revoked, although joins, revocations and the deletion of its author's   *)
(* account overlap.                                                        *)
InviteAdmitsOnce ==
    \A i \in Invites :
        /\ \A u, v \in admitted[i] : u = v
        /\ invite[i] # None => ~(invite[i].used /\ invite[i].revoked)

(* A nomination that stays pending, with a nominee that keeps trying to    *)
(* accept it, makes the nominee the owner.                                 *)
NominationAccepted ==
    \A s \in Sessions, c \in Codes :
        [](transfer[c] # None /\ transfer[c].state = "pending"
             /\ transfer[c].to = UserOf[s]
           => <>(transfer[c] = None \/ transfer[c].state # "pending"
                   \/ UserOf[s] \notin Members \cap alive \/ tx[s].at # "idle"
                   \/ ~live))

(* Whoever is no longer a member keeps no subscription to the private      *)
(* skill that only the membership allowed.                                 *)
DepartedKeepNothing == sub \subseteq Members \cup Sharing \cup (IF live THEN {} ELSE Users)

(* A deleted account is no member.                                         *)
DeletedAreNoMembers == Members \subseteq alive

(* A member without the right to publish has no workspace of a team skill. *)
WorkspaceNeedsAuthority == live => \A u \in ws : CanPublish(u)
=============================================================================
