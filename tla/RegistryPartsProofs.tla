------------------------- MODULE RegistryPartsProofs --------------------------
(* Proofs about the parts of the registry, for every value of their          *)
(* constants: teams and invitations, the names of skills, proposals, the     *)
(* drafts of a team skill.                                                   *)
EXTENDS MCRegistryParts, SequenceTheorems, FiniteSetTheorems, TLAPS

-------------------------------------------------------------------------------
(* Teams: the inductive invariant *)

OneOwner == live => \E o \in Users : \A u \in Users : role[u] = "owner" <=> u = o

\* A join that has passed its checks holds its invitation alone, and the
\* invitation stays what it was when it was read.
JoinsHold ==
    /\ \A s \in Sessions : tx[s].at = "join" <=> tx[s].invite # None
    /\ \A s \in Sessions : tx[s].invite # None =>
         LET i == invite[tx[s].invite] IN i # None /\ ~i.used /\ ~i.revoked
    /\ \A s, t \in Sessions : tx[s].invite # None /\ tx[s].invite = tx[t].invite => s = t

\* A used invitation stays used for as long as the team exists.
Admits ==
    \A i \in Invites :
        /\ admitted[i] # {} => ~live \/ (invite[i] # None /\ invite[i].used)
        /\ \A u, v \in admitted[i] : u = v
        /\ invite[i] # None => live /\ ~(invite[i].used /\ invite[i].revoked)

TeamInv == TA!TypeOK /\ OneOwner /\ JoinsHold /\ Admits


LEMMA TeamTypes ==
  ASSUME TA!TypeOK
  PROVE  /\ \A s \in Sessions : UserOf[s] \in Users
         /\ \A s \in Sessions : tx[s].at \in {"idle", "join", "provision"} /\ tx[s].invite \in Invites \cup {None}
         /\ \A i \in Invites : invite[i] # None =>
              /\ invite[i] \in TA!InviteRows /\ invite[i].role \in {"maintainer", "member"}
              /\ invite[i].used \in BOOLEAN /\ invite[i].revoked \in BOOLEAN
         /\ "owner" # None /\ TA!Idle.at = "idle" /\ TA!Idle.invite = None
  BY TeamAssumption DEF TA!TypeOK, TA!InviteRows, TA!Roles, TA!Idle

LEMMA TeamInit == TA!Init => TeamInv
<1> SUFFICES ASSUME TA!Init PROVE TeamInv
  OBVIOUS
<1>1. TA!Idle \in [at : {"idle", "join", "provision"}, invite : Invites \cup {None}]
  BY DEF TA!Idle
<1>2. TA!TypeOK
  BY <1>1 DEF TA!Init, TA!TypeOK, TA!Roles
<1>3. OneOwner
  BY TeamAssumption DEF TA!Init, OneOwner, TA!Roles
<1>4. JoinsHold
  BY DEF TA!Init, JoinsHold, TA!Idle
<1>5. Admits
  BY DEF TA!Init, Admits
<1> QED
  BY <1>2, <1>3, <1>4, <1>5 DEF TeamInv

\* Roles change, and the owner's does not.
LEMMA RolesStep ==
  ASSUME TeamInv, UNCHANGED <<live, invite, transfer, tx, admitted>>, open' \in BOOLEAN,
         role' \in [Users -> TA!Roles \cup {None}],
         \A u \in Users : role[u] = "owner" <=> role'[u] = "owner",
         alive' = alive, ws' \subseteq Users, sub' \subseteq Users
  PROVE  TeamInv'
<1>1. TA!TypeOK'
  BY DEF TeamInv, TA!TypeOK
<1>2. OneOwner' /\ JoinsHold' /\ Admits'
  BY DEF TeamInv, OneOwner, JoinsHold, Admits
<1> QED
  BY <1>1, <1>2 DEF TeamInv

LEMMA MembersStep ==
  ASSUME TeamInv, NEW s \in Sessions,
         \/ TA!Leave(s) \/ TA!UpdateSettings(s) \/ TA!Subscribe(s)
         \/ \E v \in Users : TA!RemoveMember(s, v)
         \/ \E v \in Users, r \in {"maintainer", "member"} : TA!ChangeRole(s, v, r)
  PROVE  TeamInv'
<1>1. /\ TA!TypeOK /\ UserOf[s] \in Users /\ None # "owner"
      /\ role \in [Users -> TA!Roles \cup {None}] /\ ws \subseteq Users /\ sub \subseteq Users
      /\ open \in BOOLEAN
  BY TeamTypes DEF TeamInv, TA!TypeOK
<1>2. ASSUME NEW v \in Users, ~TA!IsOwner(v), NEW r \in (TA!Roles \ {"owner"}) \cup {None},
             role' = [role EXCEPT ![v] = r]
      PROVE  /\ role' \in [Users -> TA!Roles \cup {None}]
             /\ \A u \in Users : role[u] = "owner" <=> role'[u] = "owner"
  BY <1>1, <1>2 DEF TA!IsOwner
<1>3. CASE TA!Leave(s)
  <2>1. /\ role' \in [Users -> TA!Roles \cup {None}]
        /\ \A u \in Users : role[u] = "owner" <=> role'[u] = "owner"
    BY <1>1, <1>2, <1>3 DEF TA!Leave, TA!Depart
  <2> QED
    BY <1>1, <1>3, <2>1, RolesStep DEF TA!Leave, TA!Depart
<1>4. CASE TA!UpdateSettings(s) \/ TA!Subscribe(s)
  <2>1. open' \in BOOLEAN /\ ws' \subseteq Users /\ sub' \subseteq Users /\ UNCHANGED role
    BY <1>1, <1>4 DEF TA!UpdateSettings, TA!Subscribe
  <2> QED
    BY <1>1, <1>4, <2>1, RolesStep DEF TA!UpdateSettings, TA!Subscribe
<1>5. ASSUME NEW v \in Users, TA!RemoveMember(s, v)
      PROVE  TeamInv'
  <2>1. /\ role' \in [Users -> TA!Roles \cup {None}]
        /\ \A u \in Users : role[u] = "owner" <=> role'[u] = "owner"
    BY <1>1, <1>2, <1>5 DEF TA!RemoveMember, TA!Depart
  <2> QED
    BY <1>1, <1>5, <2>1, RolesStep DEF TA!RemoveMember, TA!Depart
<1>6. ASSUME NEW v \in Users, NEW r \in {"maintainer", "member"}, TA!ChangeRole(s, v, r)
      PROVE  TeamInv'
  <2>1. r \in (TA!Roles \ {"owner"}) \cup {None}
    BY DEF TA!Roles
  <2>2. /\ role' \in [Users -> TA!Roles \cup {None}]
        /\ \A u \in Users : role[u] = "owner" <=> role'[u] = "owner"
    BY <1>2, <1>6, <2>1 DEF TA!ChangeRole
  <2> QED
    BY <1>1, <1>6, <2>2, RolesStep DEF TA!ChangeRole
<1> QED
  BY <1>3, <1>4, <1>5, <1>6

\* One invitation changes, and a join that holds it sees nothing of it.
LEMMA InviteStep ==
  ASSUME TeamInv, NEW i \in Invites, NEW n \in TA!InviteRows, invite' = [invite EXCEPT ![i] = n], live,
         UNCHANGED <<live, open, role, alive, transfer, ws, sub, tx, admitted>>,
         ~(n.used /\ n.revoked), admitted[i] # {} => n.used,
         (\E s \in Sessions : tx[s].invite = i) => ~n.used /\ ~n.revoked
  PROVE  TeamInv'
<1>1. TA!TypeOK /\ OneOwner /\ JoinsHold /\ Admits /\ n # None
  BY TeamAssumption DEF TeamInv
<1>2. /\ invite' \in [Invites -> TA!InviteRows \cup {None}] /\ invite'[i] = n
      /\ \A k \in Invites \ {i} : invite'[k] = invite[k]
  BY <1>1 DEF TA!TypeOK
<1>3. TA!TypeOK'
  BY <1>1, <1>2 DEF TA!TypeOK
<1>4. OneOwner'
  BY <1>1 DEF OneOwner
<1>5. JoinsHold'
  <2>1. \A s \in Sessions : tx[s].invite \in Invites \cup {None}
    BY <1>1, TeamTypes
  <2> QED
    BY <1>1, <1>2, <2>1 DEF JoinsHold
<1>6. Admits'
  BY <1>1, <1>2 DEF Admits
<1> QED
  BY <1>3, <1>4, <1>5, <1>6 DEF TeamInv

LEMMA InvitationStep ==
  ASSUME TeamInv, NEW i \in Invites,
         \/ TA!ExpireInvite(i)
         \/ \E s \in Sessions : TA!RevokeInvite(s, i)
         \/ \E s \in Sessions, r \in {"maintainer", "member"} : TA!CreateInvite(s, i, r)
  PROVE  TeamInv'
<1>1. TA!TypeOK /\ JoinsHold /\ Admits /\ invite \in [Invites -> TA!InviteRows \cup {None}]
  BY DEF TeamInv, TA!TypeOK
<1>2. CASE TA!ExpireInvite(i)
  <2>1. invite[i] # None /\ invite[i] \in TA!InviteRows /\ invite' = [invite EXCEPT ![i] = [invite[i] EXCEPT !.expired = TRUE]]
    BY <1>1, <1>2 DEF TA!ExpireInvite
  <2> DEFINE n == [invite[i] EXCEPT !.expired = TRUE]
  <2>2. n \in TA!InviteRows /\ n.used = invite[i].used /\ n.revoked = invite[i].revoked
    BY <2>1 DEF TA!InviteRows
  <2>3. live /\ ~(n.used /\ n.revoked) /\ (admitted[i] # {} => n.used)
    BY <1>1, <2>1, <2>2 DEF Admits
  <2>4. (\E s \in Sessions : tx[s].invite = i) => ~n.used /\ ~n.revoked
    BY <1>1, <2>1, <2>2, TeamAssumption DEF JoinsHold
  <2>5. PICK m : m = n
    OBVIOUS
  <2> QED
    BY <1>2, <2>1, <2>2, <2>3, <2>4, <2>5, InviteStep DEF TA!ExpireInvite
<1>3. ASSUME NEW s \in Sessions, TA!RevokeInvite(s, i)
      PROVE  TeamInv'
  <2>1. /\ invite[i] # None /\ invite[i] \in TA!InviteRows /\ live
        /\ invite' = [invite EXCEPT ![i] = [invite[i] EXCEPT !.revoked = TRUE]]
        /\ ~invite[i].used /\ ~TA!InviteLocked(i)
    BY <1>1, <1>3 DEF TA!RevokeInvite
  <2> DEFINE n == [invite[i] EXCEPT !.revoked = TRUE]
  <2>2. n \in TA!InviteRows /\ n.used = invite[i].used
    BY <2>1 DEF TA!InviteRows
  <2>3. ~(n.used /\ n.revoked) /\ (admitted[i] # {} => n.used)
    BY <1>1, <2>1, <2>2 DEF Admits
  <2>4. ~\E t \in Sessions : tx[t].invite = i
    BY <2>1 DEF TA!InviteLocked
  <2>5. PICK m : m = n
    OBVIOUS
  <2> QED
    BY <1>3, <2>1, <2>2, <2>3, <2>4, <2>5, InviteStep DEF TA!RevokeInvite
<1>4. ASSUME NEW s \in Sessions, NEW r \in {"maintainer", "member"}, TA!CreateInvite(s, i, r)
      PROVE  TeamInv'
  <2> DEFINE n == [by |-> UserOf[s], role |-> r, used |-> FALSE, revoked |-> FALSE, expired |-> FALSE]
  <2>1. live /\ invite[i] = None /\ invite' = [invite EXCEPT ![i] = n]
    BY <1>4 DEF TA!CreateInvite
  <2>2. n \in TA!InviteRows /\ ~n.used /\ ~n.revoked
    BY <1>1, TeamTypes DEF TA!InviteRows
  <2>3. admitted[i] = {}
    BY <1>1, <2>1 DEF Admits
  <2> HIDE DEF n
  <2> QED
    BY <1>4, <2>1, <2>2, <2>3, InviteStep DEF TA!CreateInvite
<1> QED
  BY <1>2, <1>3, <1>4

\* A session's transaction ends, or begins to provision.
LEMMA SessionStep ==
  ASSUME TeamInv, NEW s \in Sessions, NEW t, t \in [at : {"idle", "provision"}, invite : {None}],
         tx' = [tx EXCEPT ![s] = t], ws' \subseteq Users,
         UNCHANGED <<live, open, role, alive, invite, transfer, sub, admitted>>
  PROVE  TeamInv'
<1>1. TA!TypeOK /\ OneOwner /\ JoinsHold /\ Admits
  BY DEF TeamInv
<1>2. /\ tx' \in [Sessions -> [at : {"idle", "join", "provision"}, invite : Invites \cup {None}]]
      /\ tx'[s].at # "join" /\ tx'[s].invite = None /\ \A q \in Sessions \ {s} : tx'[q] = tx[q]
  BY <1>1 DEF TA!TypeOK
<1>3. TA!TypeOK'
  BY <1>1, <1>2 DEF TA!TypeOK
<1>4. OneOwner' /\ Admits'
  BY <1>1 DEF OneOwner, Admits
<1>5. JoinsHold'
  BY <1>1, <1>2 DEF JoinsHold
<1> QED
  BY <1>3, <1>4, <1>5 DEF TeamInv

LEMMA TransactionStep ==
  ASSUME TeamInv, NEW s \in Sessions,
         TA!Abort(s) \/ TA!ProvisionStart(s) \/ TA!ProvisionCommit(s)
  PROVE  TeamInv'
<1>1. ws \subseteq Users /\ UserOf[s] \in Users
  BY TeamTypes DEF TeamInv, TA!TypeOK
<1>2. TA!Idle \in [at : {"idle", "provision"}, invite : {None}]
  BY DEF TA!Idle
<1>3. CASE TA!Abort(s)
  BY <1>1, <1>2, <1>3, SessionStep DEF TA!Abort
<1>4. CASE TA!ProvisionStart(s)
  <2>1. [at |-> "provision", invite |-> None] \in [at : {"idle", "provision"}, invite : {None}]
    OBVIOUS
  <2> QED
    BY <1>1, <1>4, <2>1, SessionStep DEF TA!ProvisionStart
<1>5. CASE TA!ProvisionCommit(s)
  <2>1. ws' \subseteq Users
    BY <1>1, <1>5 DEF TA!ProvisionCommit
  <2> QED
    BY <1>2, <1>5, <2>1, SessionStep DEF TA!ProvisionCommit
<1> QED
  BY <1>3, <1>4, <1>5

\* The checks of a join hold until it commits, because it keeps its row locked.
LEMMA JoinStep ==
  ASSUME TeamInv, NEW s \in Sessions, TA!JoinCommit(s) \/ \E i \in Invites : TA!JoinStart(s, i)
  PROVE  TeamInv'
<1>1. TA!TypeOK /\ OneOwner /\ JoinsHold /\ Admits
  BY DEF TeamInv
<1>2. ASSUME NEW i \in Invites, TA!JoinStart(s, i)
      PROVE  TeamInv'
  <2>1. /\ tx' \in [Sessions -> [at : {"idle", "join", "provision"}, invite : Invites \cup {None}]]
        /\ tx'[s].at = "join" /\ tx'[s].invite = i /\ \A q \in Sessions \ {s} : tx'[q] = tx[q]
    BY <1>1, <1>2 DEF TA!TypeOK, TA!JoinStart
  <2>2. /\ UNCHANGED <<live, open, role, alive, invite, transfer, ws, sub, admitted>> /\ i # None
        /\ invite[i] # None /\ ~invite[i].used /\ ~invite[i].revoked
        /\ \A q \in Sessions : tx[q].invite # i
    BY <1>2, TeamAssumption DEF TA!JoinStart, TA!InviteLocked
  <2>3. TA!TypeOK'
    BY <1>1, <2>1, <2>2 DEF TA!TypeOK
  <2>4. OneOwner' /\ Admits'
    BY <1>1, <2>2 DEF OneOwner, Admits
  <2>5. JoinsHold'
    BY <1>1, <2>1, <2>2 DEF JoinsHold
  <2> QED
    BY <2>3, <2>4, <2>5 DEF TeamInv
<1>3. CASE TA!JoinCommit(s)
  <2>1. PICK i : i = tx[s].invite
    OBVIOUS
  <2>2. PICK u : u = UserOf[s]
    OBVIOUS
  <2>3. /\ i \in Invites /\ i # None /\ u \in Users /\ invite[i] # None /\ ~invite[i].used /\ ~invite[i].revoked
        /\ invite[i] \in TA!InviteRows /\ invite[i].role \in {"maintainer", "member"}
        /\ admitted[i] = {} /\ live /\ role[u] = None
    BY <1>1, <1>3, <2>1, <2>2, TeamTypes DEF TA!JoinCommit, JoinsHold, Admits
  <2>4. /\ role' \in [Users -> TA!Roles \cup {None}]
        /\ \A v \in Users : role[v] = "owner" <=> role'[v] = "owner"
    BY <1>1, <1>3, <2>1, <2>2, <2>3, TeamTypes DEF TA!JoinCommit, TA!TypeOK, TA!Roles
  <2>5. /\ invite' = [invite EXCEPT ![i] = [invite[i] EXCEPT !.used = TRUE]]
        /\ [invite[i] EXCEPT !.used = TRUE] \in TA!InviteRows
        /\ [invite[i] EXCEPT !.used = TRUE].used /\ ~[invite[i] EXCEPT !.used = TRUE].revoked
    BY <1>1, <1>3, <2>1, <2>3 DEF TA!JoinCommit, TA!TypeOK, TA!InviteRows
  <2>6. /\ invite' \in [Invites -> TA!InviteRows \cup {None}]
        /\ invite'[i] # None /\ invite'[i].used /\ ~invite'[i].revoked
        /\ \A k \in Invites \ {i} : invite'[k] = invite[k]
    BY <1>1, <2>3, <2>5, TeamAssumption DEF TA!TypeOK
  <2>7. /\ admitted' \in [Invites -> SUBSET Users] /\ admitted'[i] = {u}
        /\ \A k \in Invites \ {i} : admitted'[k] = admitted[k]
    BY <1>1, <1>3, <2>1, <2>2, <2>3 DEF TA!JoinCommit, TA!TypeOK
  <2>8. /\ tx' \in [Sessions -> [at : {"idle", "join", "provision"}, invite : Invites \cup {None}]]
        /\ tx'[s].at = "idle" /\ tx'[s].invite = None /\ \A q \in Sessions \ {s} : tx'[q] = tx[q]
    BY <1>1, <1>3 DEF TA!JoinCommit, TA!TypeOK, TA!Idle
  <2>9. TA!TypeOK'
    BY <1>1, <1>3, <2>4, <2>6, <2>7, <2>8 DEF TA!TypeOK, TA!JoinCommit
  <2>10. OneOwner'
    BY <1>1, <1>3, <2>4 DEF OneOwner, TA!JoinCommit
  <2>11. Admits'
    BY <1>1, <1>3, <2>3, <2>6, <2>7 DEF Admits, TA!JoinCommit
  <2>12. JoinsHold'
    <3>1. \A q \in Sessions \ {s} : tx[q].invite # i /\ tx[q].invite \in Invites \cup {None}
      BY <1>1, <2>1, <2>3, TeamTypes DEF JoinsHold
    <3> QED
      BY <1>1, <2>6, <2>8, <3>1 DEF JoinsHold
  <2> QED
    BY <2>9, <2>10, <2>11, <2>12 DEF TeamInv
<1> QED
  BY <1>2, <1>3

\* A transfer of ownership leaves one owner, whichever rows the policy hides.
LEMMA OwnerStep ==
  ASSUME TeamInv, NEW s \in Sessions, NEW c \in Codes,
         TA!AcceptTransfer(s, c) \/ \E v \in Users : TA!Nominate(s, c, v)
  PROVE  TeamInv'
<1>1. TA!TypeOK /\ OneOwner /\ JoinsHold /\ Admits /\ transfer \in [Codes -> TA!TransferRows \cup {None}]
  BY DEF TeamInv, TA!TypeOK
<1>2. PICK u \in Users : u = UserOf[s]
  BY <1>1, TeamTypes
<1>3. UNCHANGED <<live, open, alive, invite, ws, sub, tx, admitted>>
  BY DEF TA!AcceptTransfer, TA!Nominate
<1>4. JoinsHold' /\ Admits'
  BY <1>1, <1>3 DEF JoinsHold, Admits
<1>5. ASSUME NEW v \in Users, TA!Nominate(s, c, v)
      PROVE  TeamInv'
  <2>1. /\ UNCHANGED role
        /\ transfer' = [d \in Codes |->
             IF d = c THEN [from |-> u, to |-> v, state |-> "pending"]
             ELSE IF transfer[d] # None /\ transfer[d].state = "pending"
                  THEN [transfer[d] EXCEPT !.state = "cancelled"]
                  ELSE transfer[d]]
    BY <1>2, <1>5 DEF TA!Nominate
  <2>2. ASSUME NEW d \in Codes PROVE transfer'[d] \in TA!TransferRows \cup {None}
    <3>1. transfer[d] \in TA!TransferRows => [transfer[d] EXCEPT !.state = "cancelled"] \in TA!TransferRows
      BY DEF TA!TransferRows
    <3>2. [from |-> u, to |-> v, state |-> "pending"] \in TA!TransferRows
      BY DEF TA!TransferRows
    <3>3. transfer[d] \in TA!TransferRows \cup {None}
      BY <1>1
    <3> QED
      BY <2>1, <3>1, <3>2, <3>3
  <2>3. transfer' \in [Codes -> TA!TransferRows \cup {None}]
    BY <2>1, <2>2
  <2>4. TA!TypeOK' /\ OneOwner'
    BY <1>1, <1>3, <2>1, <2>3 DEF TA!TypeOK, OneOwner
  <2> QED
    BY <1>4, <2>4 DEF TeamInv
<1>6. CASE TA!AcceptTransfer(s, c)
  <2>1. PICK t : t = transfer[c]
    OBVIOUS
  <2>2. /\ t \in TA!TransferRows /\ t.from \in Users /\ live /\ role' = TA!Handover(u, t)
        /\ transfer' = transfer \/ transfer' = [transfer EXCEPT ![c] = [t EXCEPT !.state = "accepted"]]
    BY <1>1, <1>2, <1>6, <2>1 DEF TA!AcceptTransfer, TA!TransferRows
  <2>3. transfer' \in [Codes -> TA!TransferRows \cup {None}]
    <3>1. [t EXCEPT !.state = "accepted"] \in TA!TransferRows
      BY <2>2 DEF TA!TransferRows
    <3> QED
      BY <1>1, <2>2, <3>1
  <2>4. \/ role' = role
        \/ TA!IsOwner(t.from) /\ role' = [role EXCEPT ![t.from] = "maintainer", ![u] = "owner"]
    BY <2>2 DEF TA!Handover
  <2>5. role' \in [Users -> TA!Roles \cup {None}]
    BY <1>1, <2>2, <2>4 DEF TA!TypeOK, TA!Roles
  <2>6. TA!TypeOK'
    BY <1>1, <1>3, <2>3, <2>5 DEF TA!TypeOK
  <2>7. PICK o \in Users : \A v \in Users : role[v] = "owner" <=> v = o
    BY <1>1, <2>2 DEF OneOwner
  <2>8. \E n \in Users : \A v \in Users : role'[v] = "owner" <=> v = n
    <3>1. CASE role' = role
      BY <2>7, <3>1
    <3>2. CASE TA!IsOwner(t.from) /\ role' = [role EXCEPT ![t.from] = "maintainer", ![u] = "owner"]
      <4>1. t.from = o
        BY <2>2, <2>7, <3>2 DEF TA!IsOwner
      <4>2. role'[u] = "owner" /\ \A v \in Users \ {u} : role'[v] # "owner"
        BY <1>1, <2>7, <3>2, <4>1 DEF TA!TypeOK
      <4> QED
        BY <4>2
    <3> QED
      BY <2>4, <3>1, <3>2
  <2> QED
    BY <1>4, <2>6, <2>8 DEF TeamInv, OneOwner
<1> QED
  BY <1>5, <1>6

LEMMA DeletionStep ==
  ASSUME TeamInv, NEW s \in Sessions, TA!DeleteTeam(s) \/ TA!DeleteAccount(s)
  PROVE  TeamInv'
<1>1. TA!TypeOK /\ OneOwner /\ JoinsHold /\ Admits /\ UserOf[s] \in Users /\ "owner" # None
  BY TeamTypes DEF TeamInv
<1>2. \A q \in Sessions : tx[q].invite \in Invites \cup {None}
  BY <1>1, TeamTypes
<1>3. CASE TA!DeleteTeam(s)
  <2>1. TA!TypeOK'
    BY <1>1, <1>3 DEF TA!DeleteTeam, TA!TypeOK
  <2>2. ~live' /\ UNCHANGED <<tx, admitted>> /\ \A i \in Invites : invite'[i] = None
    BY <1>3 DEF TA!DeleteTeam
  <2>3. OneOwner' /\ Admits'
    BY <1>1, <2>2 DEF OneOwner, Admits
  <2>4. \A q \in Sessions : tx[q].invite = None
    BY <1>2, <1>3 DEF TA!DeleteTeam, TA!InviteLocked
  <2>5. JoinsHold'
    BY <1>1, <2>2, <2>4 DEF JoinsHold
  <2> QED
    BY <2>1, <2>3, <2>5 DEF TeamInv
<1>4. CASE TA!DeleteAccount(s)
  <2>1. PICK u \in Users : u = UserOf[s]
    BY <1>1
  <2> DEFINE issued == {i \in Invites : invite[i] # None /\ invite[i].by = u /\ ~invite[i].used /\ ~invite[i].revoked}
  <2>2. /\ ~TA!IsOwner(u) /\ ~\E i \in issued : TA!InviteLocked(i)
        /\ alive' = alive \ {u} /\ role' = [role EXCEPT ![u] = None] /\ ws' \subseteq ws /\ sub' = sub \ {u}
        /\ invite' = [i \in Invites |-> IF i \in issued THEN [invite[i] EXCEPT !.revoked = TRUE] ELSE invite[i]]
        /\ UNCHANGED <<live, open, transfer, tx, admitted>>
    BY <1>4, <2>1 DEF TA!DeleteAccount
  <2>3. ASSUME NEW i \in Invites
        PROVE  /\ invite'[i] \in TA!InviteRows \cup {None} /\ (invite'[i] = None <=> invite[i] = None)
               /\ invite[i] # None => /\ invite'[i].used = invite[i].used
                                      /\ invite'[i].revoked => invite[i].revoked \/ i \in issued
    <3>1. invite[i] \in TA!InviteRows \cup {None}
      BY <1>1 DEF TA!TypeOK
    <3>2. CASE i \in issued
      <4>1. invite[i] \in TA!InviteRows /\ invite'[i] = [invite[i] EXCEPT !.revoked = TRUE]
        BY <2>2, <3>1, <3>2
      <4>2. invite'[i] \in TA!InviteRows /\ invite'[i].used = invite[i].used /\ invite'[i] # None
        BY <4>1, TeamAssumption DEF TA!InviteRows
      <4> QED
        BY <3>2, <4>1, <4>2
    <3>3. CASE i \notin issued
      BY <2>2, <3>1, <3>3
    <3> QED
      BY <3>2, <3>3
  <2>4. \A i \in issued : i \in Invites /\ ~invite[i].used /\ \A q \in Sessions : tx[q].invite # i
    BY <2>2 DEF TA!InviteLocked
  <2>5. invite' = [i \in Invites |-> invite'[i]]
    BY <2>2
  <2> HIDE DEF issued
  <2>6. invite' \in [Invites -> TA!InviteRows \cup {None}]
    BY <2>3, <2>5
  <2>7. /\ role' \in [Users -> TA!Roles \cup {None}]
        /\ \A v \in Users : role'[v] = "owner" <=> role[v] = "owner"
    BY <1>1, <2>2 DEF TA!TypeOK, TA!IsOwner
  <2>8. TA!TypeOK'
    BY <1>1, <2>2, <2>6, <2>7 DEF TA!TypeOK
  <2>9. OneOwner'
    BY <1>1, <2>2, <2>7 DEF OneOwner
  <2>10. Admits'
    BY <1>1, <2>2, <2>3, <2>4 DEF Admits
  <2>11. JoinsHold'
    BY <1>1, <1>2, <2>2, <2>3, <2>4 DEF JoinsHold
  <2> QED
    BY <2>8, <2>9, <2>10, <2>11 DEF TeamInv
<1> QED
  BY <1>3, <1>4

LEMMA TeamKept ==
  ASSUME TeamInv, TA!Next \/ UNCHANGED teamVars
  PROVE  TeamInv'
<1>1. CASE UNCHANGED teamVars
  BY <1>1 DEF teamVars, TeamInv, TA!TypeOK, OneOwner, JoinsHold, Admits
<1>2. CASE TA!Next
  BY <1>2, MembersStep, InvitationStep, TransactionStep, JoinStep, OwnerStep, DeletionStep DEF TA!Next
<1> QED
  BY <1>1, <1>2

LEMMA TeamInvSafe ==
  ASSUME TeamInv
  PROVE  TA!TypeOK /\ TA!TeamHasOwner /\ TA!InviteAdmitsOnce
<1>1. ASSUME live PROVE \E o \in Users : {u \in Users : TA!IsOwner(u)} = {o}
  <2>1. PICK o \in Users : \A u \in Users : role[u] = "owner" <=> u = o
    BY <1>1 DEF TeamInv, OneOwner
  <2>2. {u \in Users : TA!IsOwner(u)} = {o}
    BY <2>1 DEF TA!IsOwner
  <2> QED
    BY <2>2
<1>2. TA!InviteAdmitsOnce
  BY DEF TeamInv, Admits, TA!InviteAdmitsOnce
<1> QED
  BY <1>1, <1>2 DEF TeamInv, TA!TeamHasOwner

-------------------------------------------------------------------------------
(* Names: the inductive invariant *)

\* Whoever has a name is the last to have had it, and a living skill that
\* has moved on left a redirect behind.
HolderInv ==
    \A l \in SN!Locators :
        /\ \A r \in SN!Active(l) : holder[l] = r
        /\ holder[l] # None => res[holder[l]] # None
        /\ holder[l] # None /\ SN!Live(holder[l]) => SN!LocatorOf(holder[l]) = l \/ redirect[l] = holder[l]

NamesInv == SN!TypeOK /\ HolderInv

LEMMA NamesInit == SN!Init => NamesInv
  BY NamesAssumption DEF SN!Init, NamesInv, HolderInv, SN!TypeOK, SN!Active, SN!Live

\* A skill gets a name that no other has: by an import, or when it moves from
\* another name and leaves a redirect there.
LEMMA NameStep ==
  ASSUME NamesInv, NEW r \in Skills, NEW to \in SN!Locators,
         SN!Active(to) \subseteq {r}, SN!TypeOK',
         \A x \in Skills \ {r} : res'[x] = res[x],
         SN!Live(r)', SN!LocatorOf(r)' = to,
         holder' = [holder EXCEPT ![to] = r],
         \A l \in SN!Locators \ {to} : redirect'[l] = redirect[l] \/ redirect'[l] = r,
         \/ res[r] = None /\ \A l \in SN!Locators \ {to} : redirect'[l] = redirect[l]
         \/ /\ SN!Live(r) /\ redirect'[SN!LocatorOf(r)] = r
            /\ \A l \in SN!Locators \ {to, SN!LocatorOf(r)} : redirect'[l] = redirect[l]
  PROVE  NamesInv'
<1>1. SN!TypeOK /\ HolderInv
  BY DEF NamesInv
<1>2. /\ holder'[to] = r /\ \A l \in SN!Locators \ {to} : holder'[l] = holder[l]
      /\ \A l \in SN!Locators : holder[l] \in Skills \cup {None}
  BY <1>1 DEF SN!TypeOK
<1>3. /\ res'[r] # None /\ r # None
      /\ \A x \in Skills \ {r} : (SN!Live(x)' <=> SN!Live(x)) /\ SN!LocatorOf(x)' = SN!LocatorOf(x)
  BY NamesAssumption DEF SN!Live, SN!LocatorOf
<1>4. ASSUME NEW l \in SN!Locators, NEW x \in SN!Active(l)'
      PROVE  holder'[l] = x
  <2>1. x \in Skills /\ SN!Live(x)' /\ SN!LocatorOf(x)' = l
    BY <1>4 DEF SN!Active
  <2>2. CASE x = r
    BY <1>2, <2>1, <2>2
  <2>3. CASE x # r
    <3>1. x \in SN!Active(l)
      BY <1>3, <2>1, <2>3 DEF SN!Active
    <3> QED
      BY <1>1, <1>2, <2>3, <3>1 DEF HolderInv
  <2> QED
    BY <2>2, <2>3
<1>5. ASSUME NEW l \in SN!Locators, NEW x \in Skills, holder'[l] = x
      PROVE  /\ res'[x] # None
             /\ SN!Live(x)' => SN!LocatorOf(x)' = l \/ redirect'[l] = x
  <2>1. CASE l = to
    BY <1>2, <1>3, <1>5, <2>1
  <2>2. CASE l # to /\ x = r
    <3>1. holder[l] = r /\ res[r] # None
      BY <1>1, <1>2, <1>3, <1>5, <2>2 DEF HolderInv
    <3>2. SN!Live(r) /\ (SN!LocatorOf(r) = l \/ redirect[l] = r)
      BY <1>1, <1>3, <3>1 DEF HolderInv
    <3>3. redirect'[l] = r
      BY <2>2, <3>1, <3>2
    <3> QED
      BY <1>3, <2>2, <3>3
  <2>3. CASE l # to /\ x # r
    <3>1. holder[l] = x /\ x # None
      BY <1>2, <1>5, <2>3, NamesAssumption
    <3>2. /\ res[x] # None /\ (SN!Live(x) => SN!LocatorOf(x) = l \/ redirect[l] = x)
      BY <1>1, <3>1 DEF HolderInv
    <3>3. res'[x] = res[x] /\ (SN!Live(x)' <=> SN!Live(x)) /\ SN!LocatorOf(x)' = SN!LocatorOf(x)
      BY <1>3, <2>3
    <3>4. CASE redirect'[l] = redirect[l]
      BY <3>2, <3>3, <3>4
    <3>5. CASE redirect'[l] # redirect[l]
      <4>1. SN!Live(r) /\ SN!LocatorOf(r) = l
        BY <2>3, <3>5
      <4>2. r \in SN!Active(l)
        BY <4>1 DEF SN!Active
      <4>3. holder[l] = r
        BY <1>1, <4>2 DEF HolderInv
      <4> QED
        BY <2>3, <3>1, <4>3
    <3> QED
      BY <3>4, <3>5
  <2> QED
    BY <2>1, <2>2, <2>3
<1>6. ASSUME NEW l \in SN!Locators
      PROVE  /\ \A x \in SN!Active(l)' : holder'[l] = x
             /\ holder'[l] # None => res'[holder'[l]] # None
             /\ (holder[l] # None /\ SN!Live(holder[l]) => SN!LocatorOf(holder[l]) = l \/ redirect[l] = holder[l])'
  <2>1. \A x \in SN!Active(l)' : holder'[l] = x
    BY <1>4
  <2>2. holder'[l] \in Skills \cup {None}
    BY DEF SN!TypeOK
  <2>3. CASE holder'[l] = None
    BY <2>1, <2>3
  <2>4. CASE holder'[l] # None
    <3>1. PICK x \in Skills : holder'[l] = x
      BY <2>2, <2>4
    <3>2. res'[x] # None /\ (SN!Live(x)' => SN!LocatorOf(x)' = l \/ redirect'[l] = x)
      BY <1>5, <3>1
    <3> QED
      BY <2>1, <3>1, <3>2 DEF SN!Live, SN!LocatorOf
  <2> QED
    BY <2>3, <2>4
<1>7. HolderInv'
  BY <1>6 DEF HolderInv
<1> QED
  BY <1>7 DEF NamesInv

LEMMA ImportStep ==
  ASSUME NamesInv, NEW a \in SN!Actors, NEW r \in Skills, NEW l \in SN!Locators, SN!Import(a, r, l)
  PROVE  NamesInv'
<1>1. SN!TypeOK
  BY DEF NamesInv
<1> DEFINE n == [ns |-> l[1], slug |-> l[2], gen |-> 1, live |-> TRUE]
<1>2. n \in SN!Rows /\ <<n.ns, n.slug>> = l /\ n # None
  <2>1. 1 \in 1..MaxGen
    BY NamesAssumption
  <2>2. l[1] \in SN!Namespaces /\ l[2] \in Slugs /\ <<l[1], l[2]>> = l
    BY DEF SN!Locators
  <2>3. n \in SN!Rows
    BY <2>1, <2>2 DEF SN!Rows
  <2> QED
    BY <2>2, <2>3, NamesAssumption
<1>3. /\ res' = [res EXCEPT ![r] = n] /\ res[r] = None /\ SN!Active(l) = {}
      /\ holder' = [holder EXCEPT ![l] = r] /\ UNCHANGED <<member, renaming>>
      /\ redirect' = redirect \/ redirect' = [redirect EXCEPT ![l] = None]
  BY DEF SN!Import, SN!Forgotten
<1> HIDE DEF n
<1>4. /\ res' \in [Skills -> SN!Rows \cup {None}] /\ res'[r] = n
      /\ \A x \in Skills \ {r} : res'[x] = res[x]
  BY <1>1, <1>2, <1>3 DEF SN!TypeOK
<1>5. /\ redirect' \in [SN!Locators -> Skills \cup {None}]
      /\ \A k \in SN!Locators \ {l} : redirect'[k] = redirect[k]
  BY <1>1, <1>3 DEF SN!TypeOK
<1>6. SN!TypeOK'
  BY <1>1, <1>3, <1>4, <1>5 DEF SN!TypeOK
<1>7. SN!Live(r)' /\ SN!LocatorOf(r)' = l
  BY <1>2, <1>4 DEF SN!Live, SN!LocatorOf, n
<1> QED
  BY <1>3, <1>4, <1>5, <1>6, <1>7, NameStep

LEMMA RowMoves ==
  ASSUME NamesInv, NEW r \in Skills, NEW ns \in SN!Namespaces, NEW slug0 \in Slugs,
         NEW from \in SN!Locators, NEW to \in SN!Locators, to = <<ns, slug0>>,
         SN!Live(r), SN!LocatorOf(r) = from, SN!Active(to) \subseteq {r}, res[r].gen < MaxGen,
         res' = [res EXCEPT ![r] = [ns |-> ns, slug |-> slug0, gen |-> res[r].gen + 1, live |-> TRUE]],
         holder' = [holder EXCEPT ![to] = r],
         redirect' \in [SN!Locators -> Skills \cup {None}], redirect'[from] = r,
         \A l \in SN!Locators \ {from, to} : redirect'[l] = redirect[l],
         member' \in BOOLEAN, renaming' \in [SN!Actors -> SN!Jobs \cup {None}]
  PROVE  NamesInv'
<1>1. SN!TypeOK
  BY DEF NamesInv
<1>2. res[r] \in SN!Rows
  BY <1>1 DEF SN!TypeOK, SN!Live
<1>3. PICK g : g = res[r].gen + 1
  OBVIOUS
<1>4. g \in 1..MaxGen
  BY <1>2, <1>3, NamesAssumption DEF SN!Rows
<1> DEFINE n == [ns |-> ns, slug |-> slug0, gen |-> g, live |-> TRUE]
<1>5. n \in SN!Rows /\ n.live /\ <<n.ns, n.slug>> = to
  BY <1>4 DEF SN!Rows
<1>6. res' = [res EXCEPT ![r] = n]
  BY <1>3
<1> HIDE DEF n
<1>7. /\ res' \in [Skills -> SN!Rows \cup {None}] /\ res'[r] = n
      /\ \A x \in Skills \ {r} : res'[x] = res[x]
  <2>1. res \in [Skills -> SN!Rows \cup {None}]
    BY <1>1 DEF SN!TypeOK
  <2> QED
    BY <1>5, <1>6, <2>1
<1>8. holder' \in [SN!Locators -> Skills \cup {None}]
  BY <1>1 DEF SN!TypeOK
<1>9. SN!TypeOK'
  BY <1>7, <1>8 DEF SN!TypeOK
<1>10. n # None
  BY <1>5, NamesAssumption
<1>11. SN!Live(r)' /\ SN!LocatorOf(r)' = to
  BY <1>5, <1>7, <1>10 DEF SN!Live, SN!LocatorOf
<1>12. /\ redirect'[SN!LocatorOf(r)] = r
       /\ \A l \in SN!Locators \ {to} : redirect'[l] = redirect[l] \/ redirect'[l] = r
       /\ \A l \in SN!Locators \ {to, SN!LocatorOf(r)} : redirect'[l] = redirect[l]
  OBVIOUS
<1> QED
  BY <1>7, <1>9, <1>11, <1>12, NameStep

\* rename_skill and rename_team_skill: the row that is locked at the commit is
\* the one that was read.
LEMMA RenameStep ==
  ASSUME NamesInv, NEW a \in SN!Actors, SN!RenameCommit(a)
  PROVE  NamesInv'
<1>1. SN!TypeOK
  BY DEF NamesInv
<1>2. PICK j : j = renaming[a]
  OBVIOUS
<1>3. j \in SN!Jobs /\ SN!Renamed(a, j) /\ SN!LocatorOf(j.skill) = j.at
  BY <1>1, <1>2 DEF SN!TypeOK, SN!RenameCommit
<1>4. PICK r \in Skills : r = j.skill
  BY <1>3 DEF SN!Jobs
<1>5. PICK from, ns, new, to : from = j.at /\ ns = j.at[1] /\ new = j.new /\ to = <<ns, new>>
  OBVIOUS
<1>6. from \in SN!Locators /\ ns \in SN!Namespaces /\ new \in Slugs /\ to \in SN!Locators
  BY <1>3, <1>5 DEF SN!Jobs, SN!Locators
<1>7. /\ SN!Live(r) /\ SN!LocatorOf(r) = from /\ res[r].gen < MaxGen /\ SN!Active(to) \subseteq {r}
      /\ res' = [res EXCEPT ![r].slug = new, ![r].gen = @ + 1]
      /\ holder' = [holder EXCEPT ![to] = r] /\ redirect' = SN!RenameRedirects(a, j)
  BY <1>3, <1>4, <1>5 DEF SN!Renamed
<1>8. res[r] \in SN!Rows /\ res[r].ns = ns /\ res[r].live
  BY <1>1, <1>5, <1>7 DEF SN!TypeOK, SN!Live, SN!LocatorOf
<1>9. res' = [res EXCEPT ![r] = [ns |-> ns, slug |-> new, gen |-> res[r].gen + 1, live |-> TRUE]]
  BY <1>1, <1>7, <1>8 DEF SN!TypeOK, SN!Rows
<1>10. /\ redirect' \in [SN!Locators -> Skills \cup {None}] /\ redirect'[from] = r
       /\ \A l \in SN!Locators \ {from, to} : redirect'[l] = redirect[l]
  BY <1>1, <1>4, <1>5, <1>6, <1>7 DEF SN!RenameRedirects, SN!Redirected, SN!Forgotten, SN!TypeOK
<1>11. member' \in BOOLEAN /\ renaming' \in [SN!Actors -> SN!Jobs \cup {None}]
  BY <1>1 DEF SN!TypeOK, SN!RenameCommit
<1> QED
  <2>1. to = <<ns, new>>
    BY <1>5
  <2>2. holder' = [holder EXCEPT ![to] = r] /\ SN!Live(r) /\ SN!LocatorOf(r) = from /\ res[r].gen < MaxGen
    BY <1>7
  <2>3. SN!Active(to) \subseteq {r}
    BY <1>7
  <2> QED
    BY <1>6, <1>9, <1>10, <1>11, <2>1, <2>2, <2>3, RowMoves

\* transfer_resource
LEMMA TransferStep ==
  ASSUME NamesInv, NEW r \in Skills, SN!Transfer(r)
  PROVE  NamesInv'
<1>1. SN!TypeOK
  BY DEF NamesInv
<1>2. PICK from, to, s : from = SN!LocatorOf(r) /\ s = res[r].slug /\ to = <<"team", s>>
  OBVIOUS
<1>3. /\ SN!Live(r) /\ res[r].gen < MaxGen /\ SN!Active(to) = {}
      /\ res' = [res EXCEPT ![r].ns = "team", ![r].gen = @ + 1]
      /\ holder' = [holder EXCEPT ![to] = r] /\ redirect' = [redirect EXCEPT ![from] = r]
      /\ UNCHANGED <<member, renaming>>
  BY <1>2 DEF SN!Transfer, SN!Redirected
<1>4. res[r] \in SN!Rows /\ res[r].live
  BY <1>1, <1>3 DEF SN!TypeOK, SN!Live
<1>5. from \in SN!Locators /\ to \in SN!Locators /\ "team" \in SN!Namespaces /\ s \in Slugs
  BY <1>2, <1>4 DEF SN!Rows, SN!Locators, SN!LocatorOf, SN!Namespaces
<1>6. res' = [res EXCEPT ![r] = [ns |-> "team", slug |-> s, gen |-> res[r].gen + 1, live |-> TRUE]]
  BY <1>1, <1>2, <1>3, <1>4 DEF SN!TypeOK, SN!Rows
<1>7. /\ redirect' \in [SN!Locators -> Skills \cup {None}] /\ redirect'[from] = r
      /\ \A l \in SN!Locators \ {from, to} : redirect'[l] = redirect[l]
  BY <1>1, <1>3, <1>5 DEF SN!TypeOK
<1>8. member' \in BOOLEAN /\ renaming' \in [SN!Actors -> SN!Jobs \cup {None}]
  BY <1>1, <1>3 DEF SN!TypeOK
<1> QED
  BY <1>2, <1>3, <1>5, <1>6, <1>7, <1>8, RowMoves

LEMMA OtherNamesStep ==
  ASSUME NamesInv,
         \/ \E a \in SN!Actors, r \in Skills, new \in Slugs : SN!RenameRead(a, r, new)
         \/ \E a \in SN!Actors : SN!RenameFail(a)
         \/ SN!ChangeMembership \/ UNCHANGED nameVars
  PROVE  NamesInv'
<1>1. SN!TypeOK /\ HolderInv
  BY DEF NamesInv
<1>2. UNCHANGED <<res, redirect, holder>>
  BY DEF SN!RenameRead, SN!RenameFail, SN!ChangeMembership, nameVars
<1>3. HolderInv'
  BY <1>1, <1>2 DEF HolderInv, SN!Active, SN!Live, SN!LocatorOf
<1>4. member' \in BOOLEAN
  BY <1>1 DEF SN!TypeOK, SN!RenameRead, SN!RenameFail, SN!ChangeMembership, nameVars
<1>5. renaming' \in [SN!Actors -> SN!Jobs \cup {None}]
  <2>1. ASSUME NEW a \in SN!Actors, NEW r \in Skills, NEW new \in Slugs, SN!RenameRead(a, r, new)
        PROVE  renaming' \in [SN!Actors -> SN!Jobs \cup {None}]
    <3>1. res[r] \in SN!Rows
      BY <1>1, <2>1 DEF SN!TypeOK, SN!RenameRead, SN!Live
    <3>2. SN!LocatorOf(r) \in SN!Locators /\ res[r].gen \in 1..MaxGen
      BY <3>1 DEF SN!Rows, SN!Locators, SN!LocatorOf
    <3>3. [skill |-> r, at |-> SN!LocatorOf(r), gen |-> res[r].gen, new |-> new] \in SN!Jobs
      BY <3>2 DEF SN!Jobs
    <3> QED
      BY <1>1, <2>1, <3>3 DEF SN!TypeOK, SN!RenameRead
  <2> QED
    BY <1>1, <2>1 DEF SN!TypeOK, SN!RenameFail, SN!ChangeMembership, nameVars
<1> QED
  BY <1>1, <1>2, <1>3, <1>4, <1>5 DEF NamesInv, SN!TypeOK

\* delete_skill: the redirects to the skill go with it.
LEMMA DeleteStep ==
  ASSUME NamesInv, NEW r \in Skills, SN!Delete(r)
  PROVE  NamesInv'
<1>1. SN!TypeOK /\ HolderInv
  BY DEF NamesInv
<1>2. res[r] # None /\ res[r] \in SN!Rows /\ res[r].gen < MaxGen
  BY <1>1 DEF SN!TypeOK, SN!Delete, SN!Live
<1>3. PICK g : g = res[r].gen + 1
  OBVIOUS
<1>4. g \in 1..MaxGen
  BY <1>2, <1>3, NamesAssumption DEF SN!Rows
<1> DEFINE n == [ns |-> res[r].ns, slug |-> res[r].slug, gen |-> g, live |-> FALSE]
<1>5. res' = [res EXCEPT ![r] = n]
  BY <1>1, <1>2, <1>3 DEF SN!TypeOK, SN!Delete, SN!Rows
<1>6. n \in SN!Rows /\ ~n.live /\ n # None
  <2>1. n \in SN!Rows
    BY <1>2, <1>4 DEF SN!Rows
  <2> QED
    BY <2>1, NamesAssumption
<1> HIDE DEF n
<1>7. /\ res' \in [Skills -> SN!Rows \cup {None}] /\ res'[r] = n
      /\ \A x \in Skills \ {r} : res'[x] = res[x]
  <2>1. res \in [Skills -> SN!Rows \cup {None}]
    BY <1>1 DEF SN!TypeOK
  <2> QED
    BY <1>5, <1>6, <2>1
<1>8. /\ redirect' \in [SN!Locators -> Skills \cup {None}]
      /\ \A l \in SN!Locators : redirect[l] # r => redirect'[l] = redirect[l]
      /\ UNCHANGED <<member, renaming, holder>>
  BY <1>1 DEF SN!TypeOK, SN!Delete
<1>9. SN!TypeOK'
  BY <1>1, <1>7, <1>8 DEF SN!TypeOK
<1>10. ~SN!Live(r)' /\ \A x \in Skills \ {r} : (SN!Live(x)' <=> SN!Live(x)) /\ SN!LocatorOf(x)' = SN!LocatorOf(x)
  BY <1>6, <1>7 DEF SN!Live, SN!LocatorOf
<1>11. ASSUME NEW l \in SN!Locators
       PROVE  /\ \A x \in SN!Active(l)' : holder'[l] = x
              /\ holder'[l] # None => res'[holder'[l]] # None
              /\ (holder[l] # None /\ SN!Live(holder[l]) => SN!LocatorOf(holder[l]) = l \/ redirect[l] = holder[l])'
  <2>1. \A x \in SN!Active(l)' : holder'[l] = x
    BY <1>1, <1>8, <1>10 DEF HolderInv, SN!Active
  <2>2. holder[l] \in Skills \cup {None}
    BY <1>1 DEF SN!TypeOK
  <2>3. CASE holder[l] = None
    BY <1>8, <2>1, <2>3
  <2>4. CASE holder[l] # None
    <3>1. PICK x \in Skills : holder[l] = x /\ x # None
      BY <2>2, <2>4
    <3>2. holder'[l] = x /\ res[x] # None /\ (SN!Live(x) => SN!LocatorOf(x) = l \/ redirect[l] = x)
      BY <1>1, <1>8, <3>1 DEF HolderInv
    <3>3. res'[x] # None /\ (SN!Live(x)' => SN!LocatorOf(x)' = l \/ redirect'[l] = x)
      BY <1>6, <1>7, <1>8, <1>10, <3>2
    <3> QED
      BY <2>1, <3>2, <3>3 DEF SN!Live, SN!LocatorOf
  <2> QED
    BY <2>3, <2>4
<1> QED
  BY <1>9, <1>11 DEF NamesInv, HolderInv

LEMMA NamesKept ==
  ASSUME NamesInv, SN!Next \/ UNCHANGED nameVars
  PROVE  NamesInv'
<1>1. CASE UNCHANGED nameVars
  BY <1>1, OtherNamesStep
<1>2. CASE SN!Next
  BY <1>2, ImportStep, RenameStep, TransferStep, DeleteStep, OtherNamesStep DEF SN!Next
<1> QED
  BY <1>1, <1>2

LEMMA NamesInvSafe ==
  ASSUME NamesInv
  PROVE  SN!TypeOK /\ SN!OldNamesFollow
<1>1. SN!TypeOK /\ HolderInv
  BY DEF NamesInv
<1>2. ASSUME NEW l \in SN!Locators
      PROVE  /\ \A r, q \in SN!Active(l) : r = q
             /\ holder[l] # None /\ SN!Live(holder[l]) => SN!Resolve(l) = holder[l]
  <2>1. \A r \in SN!Active(l) : r = holder[l]
    BY <1>1 DEF HolderInv
  <2>2. ASSUME holder[l] # None, SN!Live(holder[l]) PROVE SN!Resolve(l) = holder[l]
    <3>1. CASE SN!Active(l) # {}
      <4>1. (CHOOSE r \in SN!Active(l) : TRUE) \in SN!Active(l)
        BY <3>1
      <4> QED
        BY <2>1, <3>1, <4>1 DEF SN!Resolve
    <3>2. CASE SN!Active(l) = {}
      <4>1. holder[l] \in Skills
        BY <1>1, <2>2 DEF SN!TypeOK
      <4>2. SN!LocatorOf(holder[l]) # l
        BY <2>2, <3>2, <4>1 DEF SN!Active
      <4>3. redirect[l] = holder[l]
        BY <1>1, <2>2, <4>2 DEF HolderInv
      <4> QED
        BY <2>2, <3>2, <4>3 DEF SN!Resolve
    <3> QED
      BY <3>1, <3>2
  <2> QED
    BY <2>1, <2>2
<1> QED
  BY <1>1, <1>2 DEF SN!OldNamesFollow

-------------------------------------------------------------------------------
(* Proposals: the inductive invariant *)

\* Only the last proposal is open, which bounds the generations.
OpenIsLast ==
    /\ \A p \in DOMAIN proposals : PR!Open(p) => p = Len(proposals) /\ proposals[p].gen = 1
    /\ fork.gen <= 1 + made
    /\ target.gen <= 1 + made + Len(proposals)
    /\ (\E p \in DOMAIN proposals : PR!Open(p)) => target.gen <= made + Len(proposals)

\* A generation that a client has read names the head it had.
DetailsTrue ==
    \A c \in Clients : seen[c] # None =>
        /\ seen[c].id \in DOMAIN proposals
        /\ seen[c].targetGen # None =>
             /\ seen[c].targetGen <= target.gen
             /\ seen[c].targetGen = target.gen => seen[c].head = target.head

ProposalInv ==
    /\ PR!TypeOK /\ OpenIsLast /\ DetailsTrue /\ PR!AcceptedAsInspected
    /\ \A a \in accepted : a.saw.id \in DOMAIN proposals

LEMMA ProposalNumbers ==
  /\ MaxHeads \in Nat /\ MaxProposals \in Nat /\ PR!Heads \subseteq Nat /\ PR!Gens \subseteq Nat \ {0}
  /\ \A n : n \in PR!Heads <=> n \in Nat /\ n <= MaxHeads
  /\ \A n : n \in PR!Gens <=> n \in Nat \ {0} /\ n <= MaxHeads + MaxProposals + 2
<1>1. MaxHeads \in Nat /\ MaxProposals \in Nat
  BY ProposalsAssumption
<1> QED
  BY <1>1 DEF PR!Heads, PR!Gens

LEMMA ProposalTypes ==
  ASSUME PR!TypeOK
  PROVE  /\ target.head \in PR!Heads /\ target.gen \in PR!Gens /\ target.release \in PR!Heads
         /\ fork.head \in PR!Heads /\ fork.gen \in PR!Gens /\ fork.base \in PR!Heads
         /\ made \in PR!Heads
         /\ \A p \in DOMAIN proposals : proposals[p] \in PR!ProposalRows /\ p \in 1..MaxProposals
         /\ DOMAIN proposals = 1..Len(proposals) /\ Len(proposals) \in Nat /\ Len(proposals) <= MaxProposals
<1>1. proposals \in Seq(PR!ProposalRows) /\ Len(proposals) <= MaxProposals
  BY DEF PR!TypeOK
<1>2. DOMAIN proposals = 1..Len(proposals) /\ Len(proposals) \in Nat
  BY <1>1
<1>3. \A p \in DOMAIN proposals : proposals[p] \in PR!ProposalRows
  BY <1>1
<1>4. \A p \in DOMAIN proposals : p \in 1..MaxProposals
  BY <1>1, <1>2, ProposalNumbers
<1>5. /\ target.head \in PR!Heads /\ target.gen \in PR!Gens /\ target.release \in PR!Heads
      /\ fork.head \in PR!Heads /\ fork.gen \in PR!Gens /\ fork.base \in PR!Heads
      /\ made \in PR!Heads
  BY DEF PR!TypeOK, PR!Targets, PR!Forks
<1> QED
  BY <1>1, <1>2, <1>3, <1>4, <1>5

LEMMA ProposalInit == PR!Init => ProposalInv
<1> SUFFICES ASSUME PR!Init PROVE ProposalInv
  OBVIOUS
<1>1. 0 \in PR!Heads /\ 1 \in PR!Gens
  BY ProposalNumbers
<1>2. proposals = <<>> /\ accepted = {} /\ made = 0 /\ DOMAIN proposals = {} /\ Len(proposals) = 0
      /\ proposals \in Seq(PR!ProposalRows)
  BY DEF PR!Init
<1>3. target \in PR!Targets /\ fork \in PR!Forks /\ target.gen = 1 /\ fork.gen = 1
  BY <1>1 DEF PR!Init, PR!Targets, PR!Forks, PR!Names
<1>4. PR!TypeOK
  BY <1>1, <1>2, <1>3, ProposalNumbers DEF PR!Init, PR!TypeOK
<1>5. OpenIsLast
  BY <1>2, <1>3 DEF OpenIsLast
<1>6. DetailsTrue
  BY DEF PR!Init, DetailsTrue
<1>7. PR!AcceptedAsInspected /\ \A a \in accepted : a.saw.id \in DOMAIN proposals
  BY <1>2 DEF PR!AcceptedAsInspected
<1> QED
  BY <1>4, <1>5, <1>6, <1>7 DEF ProposalInv

\* The skills move on; a generation never names two heads.
LEMMA SkillsMove ==
  ASSUME ProposalInv, UNCHANGED <<proposals, seen, accepted>>,
         target' \in PR!Targets, fork' \in PR!Forks, made' \in PR!Heads,
         made' >= made, fork'.gen <= 1 + made',
         \/ target'.gen = target.gen /\ target'.head = target.head
         \/ target'.gen = target.gen + 1 /\ made' = made + 1
  PROVE  ProposalInv'
<1>1. PR!TypeOK /\ OpenIsLast /\ DetailsTrue /\ PR!AcceptedAsInspected
      /\ \A a \in accepted : a.saw.id \in DOMAIN proposals
  BY DEF ProposalInv
<1>2. /\ target.gen \in Nat /\ target'.gen \in Nat /\ made \in Nat /\ made' \in Nat /\ Len(proposals) \in Nat
  BY <1>1, ProposalTypes, ProposalNumbers DEF PR!Targets
<1>3. PR!TypeOK'
  BY <1>1 DEF PR!TypeOK
<1>4. OpenIsLast'
  <2>1. /\ \A p \in DOMAIN proposals : PR!Open(p) <=> PR!Open(p)'
        /\ \A p \in DOMAIN proposals : PR!Open(p) => p = Len(proposals) /\ proposals[p].gen = 1
    BY <1>1 DEF OpenIsLast, PR!Open
  <2>2. /\ target'.gen <= 1 + made' + Len(proposals)
        /\ (\E p \in DOMAIN proposals : PR!Open(p)) => target'.gen <= made' + Len(proposals)
    <3>1. PICK g, h, m, n, z : g = target.gen /\ h = target'.gen /\ m = made /\ n = made' /\ z = Len(proposals)
      OBVIOUS
    <3>2. /\ {g, h, m, n, z} \subseteq Nat /\ m <= n /\ (h = g \/ (h = g + 1 /\ n = m + 1))
      BY <1>2, <3>1
    <3>3. g <= 1 + m + z /\ ((\E p \in DOMAIN proposals : PR!Open(p)) => g <= m + z)
      BY <1>1, <3>1 DEF OpenIsLast
    <3>4. h <= 1 + n + z /\ (g <= m + z => h <= n + z)
      BY <3>2, <3>3
    <3> QED
      BY <3>1, <3>3, <3>4
  <2> QED
    BY <2>1, <2>2 DEF OpenIsLast
<1>5. DetailsTrue'
  <2>1. ASSUME NEW c \in Clients, seen[c] # None, seen[c].targetGen # None
        PROVE  /\ seen[c].targetGen <= target'.gen
               /\ seen[c].targetGen = target'.gen => seen[c].head = target'.head
    <3>1. seen[c] \in PR!Details
      BY <1>1, <2>1 DEF PR!TypeOK
    <3>2. seen[c].targetGen \in Nat
      BY <2>1, <3>1, ProposalNumbers DEF PR!Details
    <3>3. seen[c].targetGen <= target.gen /\ (seen[c].targetGen = target.gen => seen[c].head = target.head)
      BY <1>1, <2>1 DEF DetailsTrue
    <3> QED
      BY <1>2, <3>2, <3>3
  <2> QED
    BY <1>1, <2>1 DEF DetailsTrue
<1>6. PR!AcceptedAsInspected' /\ \A a \in accepted' : a.saw.id \in DOMAIN proposals'
  BY <1>1 DEF PR!AcceptedAsInspected
<1> QED
  BY <1>3, <1>4, <1>5, <1>6 DEF ProposalInv

LEMMA SkillsStep ==
  ASSUME ProposalInv,
         \/ PR!TargetSave \/ PR!TargetPublish \/ PR!ForkSave \/ PR!ForkSync \/ PR!ForkRename \/ PR!DeleteSkill
  PROVE  ProposalInv'
<1>1. /\ PR!TypeOK /\ target \in PR!Targets /\ fork \in PR!Forks /\ made \in PR!Heads
      /\ fork.gen <= 1 + made /\ target.gen <= 1 + made + Len(proposals)
  BY DEF ProposalInv, PR!TypeOK, OpenIsLast
<1>2. /\ target.gen \in Nat /\ fork.gen \in Nat /\ made \in Nat /\ target.gen # 0 /\ fork.gen # 0
      /\ target.head \in PR!Heads /\ target.release \in PR!Heads
      /\ Len(proposals) \in Nat /\ Len(proposals) <= MaxProposals /\ MaxHeads \in Nat /\ MaxProposals \in Nat
      /\ made <= MaxHeads
  BY <1>1, ProposalTypes, ProposalNumbers
<1>3. ASSUME made < MaxHeads
      PROVE  /\ made + 1 \in PR!Heads
             /\ target.gen + 1 \in PR!Gens /\ fork.gen + 1 \in PR!Gens /\ fork.gen + 1 <= 1 + (made + 1)
  <2>1. target.gen + 1 <= MaxHeads + MaxProposals + 2 /\ fork.gen + 1 <= MaxHeads + MaxProposals + 2
        /\ made + 1 <= MaxHeads /\ fork.gen + 1 <= 1 + (made + 1)
    BY <1>1, <1>2, <1>3
  <2>2. target.gen + 1 \in Nat \ {0} /\ fork.gen + 1 \in Nat \ {0} /\ made + 1 \in Nat
    BY <1>2
  <2> QED
    BY <2>1, <2>2, ProposalNumbers
<1>4. CASE PR!TargetSave
  <2>1. /\ UNCHANGED <<fork, proposals, seen, accepted>> /\ made' = made + 1 /\ made < MaxHeads
        /\ target' = [target EXCEPT !.head = made + 1, !.gen = target.gen + 1]
    BY <1>4 DEF PR!TargetSave
  <2>2. target' \in PR!Targets /\ target'.gen = target.gen + 1
    BY <1>1, <1>3, <2>1 DEF PR!Targets
  <2> QED
    BY <1>1, <1>2, <1>3, <2>1, <2>2, SkillsMove
<1>5. CASE PR!TargetPublish
  <2>1. /\ UNCHANGED <<fork, proposals, made, seen, accepted>> /\ target' = [target EXCEPT !.release = target.head]
    BY <1>5 DEF PR!TargetPublish
  <2>2. target' \in PR!Targets /\ target'.gen = target.gen /\ target'.head = target.head
    BY <1>1, <1>2, <2>1 DEF PR!Targets
  <2> QED
    BY <1>1, <1>2, <2>1, <2>2, SkillsMove
<1>6. CASE PR!ForkSave \/ PR!ForkSync \/ PR!ForkRename
  <2>1. /\ UNCHANGED <<target, proposals, seen, accepted>> /\ made' = made + 1 /\ made < MaxHeads
    BY <1>6 DEF PR!ForkSave, PR!ForkSync, PR!ForkRename
  <2>2. /\ made + 1 \in PR!Heads /\ fork.gen + 1 \in PR!Gens
    BY <1>3, <2>1
  <2>3. fork' \in PR!Forks /\ fork'.gen = fork.gen + 1
    <3>1. CASE PR!ForkSave
      <4>1. fork' = [fork EXCEPT !.head = made + 1, !.gen = fork.gen + 1]
        BY <3>1 DEF PR!ForkSave
      <4> QED
        BY <1>1, <2>2, <4>1 DEF PR!Forks
    <3>2. CASE PR!ForkSync
      <4>1. fork' = [fork EXCEPT !.head = made + 1, !.gen = fork.gen + 1, !.base = target.release]
        BY <3>2 DEF PR!ForkSync
      <4> QED
        BY <1>1, <1>2, <2>2, <4>1 DEF PR!Forks
    <3>3. CASE PR!ForkRename
      <4>1. PICK n \in PR!Names \ {fork.name} : fork' = [fork EXCEPT !.head = made + 1, !.gen = @ + 1, !.name = n]
        BY <3>3, Zenon DEF PR!ForkRename
      <4> QED
        BY <1>1, <2>2, <4>1 DEF PR!Forks
    <3> QED
      BY <1>6, <3>1, <3>2, <3>3
  <2> QED
    BY <1>1, <1>2, <1>3, <2>1, <2>3, SkillsMove
<1>7. CASE PR!DeleteSkill
  <2>1. /\ UNCHANGED <<proposals, made, seen, accepted>>
        /\ target' = target \/ target' = [target EXCEPT !.live = FALSE]
        /\ fork' = fork \/ fork' = [fork EXCEPT !.live = FALSE]
    BY <1>7 DEF PR!DeleteSkill
  <2>2. target' \in PR!Targets /\ target'.gen = target.gen /\ target'.head = target.head
    BY <1>1, <2>1 DEF PR!Targets
  <2>3. fork' \in PR!Forks /\ fork'.gen = fork.gen
    BY <1>1, <2>1 DEF PR!Forks
  <2> QED
    BY <1>1, <1>2, <2>1, <2>2, <2>3, SkillsMove
<1> QED
  BY <1>4, <1>5, <1>6, <1>7

\* A request that changes only what clients have read.
LEMMA SeenStep ==
  ASSUME ProposalInv, UNCHANGED <<target, fork, proposals, made, accepted>>,
         NEW c \in Clients, NEW d \in PR!Details \cup {None}, seen' = [seen EXCEPT ![c] = d],
         d # None => /\ d.id \in DOMAIN proposals
                     /\ d.targetGen # None => d.targetGen = target.gen /\ d.head = target.head
  PROVE  ProposalInv'
<1>1. PR!TypeOK /\ OpenIsLast /\ DetailsTrue /\ PR!AcceptedAsInspected
      /\ \A a \in accepted : a.saw.id \in DOMAIN proposals
  BY DEF ProposalInv
<1>2. /\ seen' \in [Clients -> PR!Details \cup {None}]
      /\ seen'[c] = d /\ \A x \in Clients \ {c} : seen'[x] = seen[x]
  BY <1>1 DEF PR!TypeOK
<1>3. PR!TypeOK'
  BY <1>1, <1>2 DEF PR!TypeOK
<1>4. OpenIsLast'
  BY <1>1 DEF OpenIsLast, PR!Open
<1>5. target.gen \in Nat
  BY <1>1, ProposalTypes, ProposalNumbers
<1>6. DetailsTrue'
  <2>1. ASSUME NEW x \in Clients, seen'[x] # None
        PROVE  /\ seen'[x].id \in DOMAIN proposals
               /\ seen'[x].targetGen # None =>
                    /\ seen'[x].targetGen <= target.gen
                    /\ seen'[x].targetGen = target.gen => seen'[x].head = target.head
    <3>1. CASE x = c
      BY <1>2, <1>5, <2>1, <3>1
    <3>2. CASE x # c
      BY <1>1, <1>2, <2>1, <3>2 DEF DetailsTrue
    <3> QED
      BY <3>1, <3>2
  <2> QED
    BY <2>1 DEF DetailsTrue
<1>7. PR!AcceptedAsInspected' /\ \A a \in accepted' : a.saw.id \in DOMAIN proposals'
  BY <1>1 DEF PR!AcceptedAsInspected
<1> QED
  BY <1>3, <1>4, <1>6, <1>7 DEF ProposalInv

LEMMA InspectStep ==
  ASSUME ProposalInv, NEW c \in Clients,
         \/ \E p \in DOMAIN proposals : PR!InspectRow(c, p)
         \/ PR!InspectGeneration(c) \/ PR!Refused(c)
  PROVE  ProposalInv'
<1>1. PR!TypeOK /\ DetailsTrue
  BY DEF ProposalInv
<1>2. /\ target.gen \in PR!Gens /\ target.head \in PR!Heads /\ fork.head \in PR!Heads /\ fork.gen \in PR!Gens
      /\ \A p \in DOMAIN proposals : proposals[p] \in PR!ProposalRows /\ p \in 1..MaxProposals
  BY <1>1, ProposalTypes
<1>3. ASSUME NEW p \in DOMAIN proposals, PR!InspectRow(c, p)
      PROVE  ProposalInv'
  <2>1. PICK b \in BOOLEAN : b = (PR!Open(p) /\ PR!Synced)
    OBVIOUS
  <2>2. PICK g \in 1..2 : g = proposals[p].gen
    BY <1>2 DEF PR!ProposalRows
  <2> DEFINE d == [id |-> p, gen |-> g, synced |-> b, source |-> fork.head, sourceGen |-> fork.gen,
                   head |-> None, targetGen |-> None]
  <2>3. d \in PR!Details /\ d.id = p /\ d.targetGen = None
    BY <1>2 DEF PR!Details
  <2>4. seen' = [seen EXCEPT ![c] = d] /\ UNCHANGED <<target, fork, proposals, made, accepted>>
    BY <1>3, <2>1, <2>2 DEF PR!InspectRow
  <2> HIDE DEF d
  <2> QED
    BY <2>3, <2>4, SeenStep
<1>4. CASE PR!InspectGeneration(c)
  <2>1. seen[c] \in PR!Details /\ seen[c] # None /\ seen[c].id \in DOMAIN proposals
    BY <1>1, <1>4 DEF PR!InspectGeneration, PR!TypeOK, DetailsTrue
  <2> DEFINE d == [seen[c] EXCEPT !.targetGen = target.gen, !.head = target.head]
  <2>2. d \in PR!Details /\ d.id = seen[c].id /\ d.targetGen = target.gen /\ d.head = target.head
    BY <1>2, <2>1 DEF PR!Details
  <2>3. seen' = [seen EXCEPT ![c] = d] /\ UNCHANGED <<target, fork, proposals, made, accepted>>
    BY <1>1, <1>4 DEF PR!InspectGeneration, PR!TypeOK
  <2> HIDE DEF d
  <2> QED
    BY <2>1, <2>2, <2>3, SeenStep
<1>5. CASE PR!Refused(c)
  BY <1>5, SeenStep DEF PR!Refused
<1> QED
  BY <1>3, <1>4, <1>5

LEMMA CreateStep ==
  ASSUME ProposalInv, PR!Create
  PROVE  ProposalInv'
<1>1. PR!TypeOK /\ OpenIsLast /\ DetailsTrue /\ PR!AcceptedAsInspected
      /\ \A a \in accepted : a.saw.id \in DOMAIN proposals
  BY DEF ProposalInv
<1> DEFINE row == [state |-> "open", gen |-> 1, closed |-> None]
<1>2. /\ \A p \in DOMAIN proposals : ~PR!Open(p)
      /\ Len(proposals) < MaxProposals /\ proposals' = Append(proposals, row)
      /\ UNCHANGED <<target, fork, made, seen, accepted>>
  BY DEF PR!Create
<1>3. row \in PR!ProposalRows /\ row.gen = 1
  BY DEF PR!ProposalRows
<1> HIDE DEF row
<1>4. /\ DOMAIN proposals = 1..Len(proposals) /\ Len(proposals) \in Nat /\ MaxProposals \in Nat
      /\ target.gen \in Nat /\ made \in Nat
  BY <1>1, ProposalTypes, ProposalNumbers
<1>5. /\ proposals' \in Seq(PR!ProposalRows) /\ Len(proposals') = Len(proposals) + 1
      /\ DOMAIN proposals' = 1..(Len(proposals) + 1)
      /\ proposals'[Len(proposals) + 1] = row
      /\ \A p \in DOMAIN proposals : p \in DOMAIN proposals' /\ proposals'[p] = proposals[p]
  BY <1>1, <1>2, <1>3, <1>4 DEF PR!TypeOK
<1>6. PR!TypeOK'
  BY <1>1, <1>2, <1>4, <1>5 DEF PR!TypeOK
<1>7. OpenIsLast'
  <2>1. ASSUME NEW p \in DOMAIN proposals', PR!Open(p)'
        PROVE  p = Len(proposals') /\ proposals'[p].gen = 1
    <3>1. p \notin DOMAIN proposals
      BY <1>2, <1>5, <2>1 DEF PR!Open
    <3>2. p = Len(proposals) + 1
      BY <1>4, <1>5, <3>1
    <3> QED
      BY <1>3, <1>5, <3>2
  <2>2. fork'.gen <= 1 + made' /\ target'.gen <= 1 + made' + Len(proposals')
        /\ target'.gen <= made' + Len(proposals')
    <3>1. target.gen <= 1 + made + Len(proposals) /\ fork.gen <= 1 + made
      BY <1>1 DEF OpenIsLast
    <3> QED
      BY <1>2, <1>4, <1>5, <3>1
  <2> QED
    BY <2>1, <2>2 DEF OpenIsLast
<1>8. DetailsTrue'
  BY <1>1, <1>2, <1>5 DEF DetailsTrue
<1>9. PR!AcceptedAsInspected' /\ \A a \in accepted' : a.saw.id \in DOMAIN proposals'
  BY <1>1, <1>2, <1>5 DEF PR!AcceptedAsInspected
<1> QED
  BY <1>6, <1>7, <1>8, <1>9 DEF ProposalInv

\* A closed proposal was the open one; afterwards none is open.
LEMMA Closing ==
  ASSUME ProposalInv, NEW p \in DOMAIN proposals, PR!Open(p),
         NEW st \in {"accepted", "rejected", "withdrawn"}, proposals' = PR!Closed(p, st)
  PROVE  /\ proposals' \in Seq(PR!ProposalRows)
         /\ Len(proposals') = Len(proposals) /\ DOMAIN proposals' = DOMAIN proposals
         /\ proposals'[p].state = st /\ proposals'[p].closed = fork.head
         /\ \A q \in DOMAIN proposals \ {p} : proposals'[q] = proposals[q]
         /\ \A q \in DOMAIN proposals' : ~PR!Open(q)'
         /\ \A a \in accepted : a.saw.id # p
         /\ target.gen <= made + Len(proposals)
<1>1. PR!TypeOK /\ OpenIsLast /\ PR!AcceptedAsInspected
  BY DEF ProposalInv
<1>2. /\ proposals[p] \in PR!ProposalRows /\ DOMAIN proposals = 1..Len(proposals) /\ Len(proposals) \in Nat
      /\ fork.head \in PR!Heads /\ proposals \in Seq(PR!ProposalRows)
  BY <1>1, ProposalTypes DEF PR!TypeOK
<1>3. proposals[p].gen = 1
  BY <1>1 DEF OpenIsLast
<1> DEFINE row == [state |-> st, gen |-> proposals[p].gen + 1, closed |-> fork.head]
<1>4. row \in PR!ProposalRows /\ row.state = st /\ row.closed = fork.head
  BY <1>2, <1>3 DEF PR!ProposalRows
<1>5. proposals' = [proposals EXCEPT ![p] = row]
  BY <1>2 DEF PR!Closed
<1> HIDE DEF row
<1>6. /\ proposals' \in Seq(PR!ProposalRows) /\ Len(proposals') = Len(proposals)
      /\ DOMAIN proposals' = DOMAIN proposals /\ proposals'[p] = row
      /\ \A q \in DOMAIN proposals \ {p} : proposals'[q] = proposals[q]
  BY <1>2, <1>4, <1>5
<1>7. ASSUME NEW q \in DOMAIN proposals' PROVE ~PR!Open(q)'
  <2>1. CASE q = p
    BY <1>4, <1>6, <2>1 DEF PR!Open
  <2>2. CASE q # p
    <3>1. ~PR!Open(q)
      BY <1>1, <1>6, <1>7, <2>2 DEF OpenIsLast
    <3> QED
      BY <1>6, <1>7, <2>2, <3>1 DEF PR!Open
  <2> QED
    BY <2>1, <2>2
<1>8. \A a \in accepted : a.saw.id # p
  BY <1>1 DEF PR!AcceptedAsInspected, PR!Open
<1>9. target.gen <= made + Len(proposals)
  BY <1>1 DEF OpenIsLast
<1> QED
  BY <1>4, <1>6, <1>7, <1>8, <1>9

\* The owner rejects, or the proposer withdraws.
LEMMA CloseStep ==
  ASSUME ProposalInv, NEW p \in DOMAIN proposals, PR!Open(p),
         NEW st \in {"rejected", "withdrawn"}, proposals' = PR!Closed(p, st),
         UNCHANGED <<target, fork, made, accepted>>,
         seen' \in [Clients -> PR!Details \cup {None}],
         \A c \in Clients : seen'[c] \in {seen[c], None}
  PROVE  ProposalInv'
<1>1. PR!TypeOK /\ OpenIsLast /\ DetailsTrue /\ PR!AcceptedAsInspected
      /\ \A a \in accepted : a.saw.id \in DOMAIN proposals
  BY DEF ProposalInv
<1>2. /\ proposals' \in Seq(PR!ProposalRows)
      /\ Len(proposals') = Len(proposals) /\ DOMAIN proposals' = DOMAIN proposals
      /\ \A q \in DOMAIN proposals \ {p} : proposals'[q] = proposals[q]
      /\ \A q \in DOMAIN proposals' : ~PR!Open(q)'
      /\ \A a \in accepted : a.saw.id # p
  BY Closing
<1>3. PR!TypeOK'
  BY <1>1, <1>2 DEF PR!TypeOK
<1>4. OpenIsLast'
  BY <1>1, <1>2 DEF OpenIsLast
<1>5. DetailsTrue'
  BY <1>1, <1>2 DEF DetailsTrue
<1>6. PR!AcceptedAsInspected' /\ \A a \in accepted' : a.saw.id \in DOMAIN proposals'
  BY <1>1, <1>2 DEF PR!AcceptedAsInspected
<1> QED
  BY <1>3, <1>4, <1>5, <1>6 DEF ProposalInv

LEMMA RejectStep ==
  ASSUME ProposalInv, NEW c \in Clients, PR!Reject(c)
  PROVE  ProposalInv'
<1>1. PR!TypeOK /\ DetailsTrue
  BY DEF ProposalInv
<1>2. PICK p \in DOMAIN proposals : p = seen[c].id
  BY <1>1 DEF PR!Reject, PR!Inspected, DetailsTrue
<1>3. /\ PR!Open(p) /\ proposals' = PR!Closed(p, "rejected") /\ UNCHANGED <<target, fork, made, accepted>>
      /\ seen' = [seen EXCEPT ![c] = None]
  BY <1>2 DEF PR!Reject
<1>4. seen' \in [Clients -> PR!Details \cup {None}] /\ \A x \in Clients : seen'[x] \in {seen[x], None}
  BY <1>1, <1>3 DEF PR!TypeOK
<1> QED
  BY <1>3, <1>4, CloseStep

LEMMA WithdrawStep ==
  ASSUME ProposalInv, NEW p \in DOMAIN proposals, PR!Withdraw(p)
  PROVE  ProposalInv'
<1>1. /\ PR!Open(p) /\ proposals' = PR!Closed(p, "withdrawn") /\ UNCHANGED <<target, fork, made, seen, accepted>>
  BY DEF PR!Withdraw
<1>2. seen' \in [Clients -> PR!Details \cup {None}] /\ \A x \in Clients : seen'[x] \in {seen[x], None}
  BY <1>1 DEF ProposalInv, PR!TypeOK
<1> QED
  BY <1>1, <1>2, CloseStep

LEMMA AcceptStep ==
  ASSUME ProposalInv, NEW c \in Clients, PR!Accept(c)
  PROVE  ProposalInv'
<1>1. PR!TypeOK /\ OpenIsLast /\ DetailsTrue /\ PR!AcceptedAsInspected
      /\ \A a \in accepted : a.saw.id \in DOMAIN proposals
  BY DEF ProposalInv
<1>2. PICK d \in PR!Details : d = seen[c] /\ d # None /\ d.targetGen # None
  BY <1>1 DEF PR!Accept, PR!Inspected, PR!TypeOK
<1>3. PICK p \in DOMAIN proposals : p = d.id
  BY <1>1, <1>2 DEF DetailsTrue
<1>4. PICK s \in BOOLEAN : s = PR!Synced
  BY DEF PR!Synced
<1> DEFINE new == [saw |-> d, source |-> fork.head, replaced |-> target.head, synced |-> s]
<1>5. /\ PR!Open(p) /\ proposals' = PR!Closed(p, "accepted") /\ UNCHANGED <<fork, made>>
      /\ seen' = [seen EXCEPT ![c] = None]
      /\ target' = [target EXCEPT !.head = fork.head, !.gen = target.gen + 1]
      /\ accepted' = accepted \cup {new}
      /\ fork.head = d.source /\ target.gen = d.targetGen
  BY <1>2, <1>3, <1>4 DEF PR!Accept, PR!SourceUnchanged
<1>6. /\ proposals' \in Seq(PR!ProposalRows)
      /\ Len(proposals') = Len(proposals) /\ DOMAIN proposals' = DOMAIN proposals
      /\ proposals'[p].state = "accepted" /\ proposals'[p].closed = fork.head
      /\ \A q \in DOMAIN proposals \ {p} : proposals'[q] = proposals[q]
      /\ \A q \in DOMAIN proposals' : ~PR!Open(q)'
      /\ \A a \in accepted : a.saw.id # p
      /\ target.gen <= made + Len(proposals)
  BY <1>5, Closing
<1>7. /\ target.gen \in Nat /\ made \in Nat /\ made <= MaxHeads /\ target.head \in PR!Heads
      /\ fork.head \in PR!Heads /\ Len(proposals) \in Nat /\ Len(proposals) <= MaxProposals
      /\ MaxHeads \in Nat /\ MaxProposals \in Nat
  BY <1>1, ProposalTypes, ProposalNumbers
<1>8. target.head = d.head
  BY <1>1, <1>2, <1>5 DEF DetailsTrue
<1>9. /\ new \in [saw : PR!Details, source : PR!Heads, replaced : PR!Heads, synced : BOOLEAN]
      /\ new.saw = d /\ new.source = fork.head /\ new.replaced = target.head
  BY <1>7
<1> HIDE DEF new
<1>10. target.gen + 1 \in PR!Gens
  <2>1. target.gen + 1 \in Nat \ {0} /\ target.gen + 1 <= MaxHeads + MaxProposals + 2
    BY <1>6, <1>7
  <2> QED
    BY <2>1, ProposalNumbers
<1>11. target' \in PR!Targets /\ target'.gen = target.gen + 1
  BY <1>1, <1>5, <1>7, <1>10 DEF PR!TypeOK, PR!Targets
<1>12. /\ seen' \in [Clients -> PR!Details \cup {None}]
       /\ seen'[c] = None /\ \A x \in Clients \ {c} : seen'[x] = seen[x]
  BY <1>1, <1>5 DEF PR!TypeOK
<1>13. PR!TypeOK'
  BY <1>1, <1>5, <1>6, <1>9, <1>11, <1>12 DEF PR!TypeOK
<1>14. OpenIsLast'
  <2>1. target'.gen <= 1 + made' + Len(proposals')
    BY <1>5, <1>6, <1>7, <1>11
  <2>2. fork'.gen <= 1 + made'
    BY <1>1, <1>5 DEF OpenIsLast
  <2> QED
    BY <1>6, <2>1, <2>2 DEF OpenIsLast
<1>15. DetailsTrue'
  <2>1. ASSUME NEW x \in Clients, seen'[x] # None
        PROVE  /\ seen'[x].id \in DOMAIN proposals
               /\ seen'[x].targetGen # None =>
                    /\ seen'[x].targetGen <= target'.gen
                    /\ seen'[x].targetGen # target'.gen
    <3>1. x # c /\ seen'[x] = seen[x]
      BY <1>12, <2>1
    <3>2. seen[x].id \in DOMAIN proposals /\ (seen[x].targetGen # None => seen[x].targetGen <= target.gen)
      BY <1>1, <2>1, <3>1 DEF DetailsTrue
    <3>3. seen[x] \in PR!Details
      BY <1>1, <2>1, <3>1 DEF PR!TypeOK
    <3>4. seen[x].targetGen # None => seen[x].targetGen \in Nat
      BY <3>3, ProposalNumbers DEF PR!Details
    <3> QED
      BY <1>7, <1>11, <3>1, <3>2, <3>4
  <2> QED
    BY <1>6, <2>1 DEF DetailsTrue
<1>16. PR!AcceptedAsInspected' /\ \A a \in accepted' : a.saw.id \in DOMAIN proposals'
  <2>1. ASSUME NEW a \in accepted'
        PROVE  /\ a.saw.id \in DOMAIN proposals'
               /\ a.source = a.saw.source /\ a.replaced = a.saw.head
               /\ proposals'[a.saw.id].state = "accepted" /\ proposals'[a.saw.id].closed = a.source
    <3>1. CASE a = new
      BY <1>3, <1>5, <1>6, <1>8, <1>9, <3>1
    <3>2. CASE a \in accepted
      BY <1>1, <1>6, <3>2 DEF PR!AcceptedAsInspected
    <3> QED
      BY <1>5, <3>1, <3>2
  <2>2. ASSUME NEW a \in accepted', NEW b \in accepted', a.saw.id = b.saw.id PROVE a = b
    <3>1. new.saw.id = p
      BY <1>3, <1>9
    <3> QED
      BY <1>1, <1>5, <1>6, <2>2, <3>1 DEF PR!AcceptedAsInspected
  <2> QED
    BY <2>1, <2>2 DEF PR!AcceptedAsInspected
<1> QED
  BY <1>13, <1>14, <1>15, <1>16 DEF ProposalInv

LEMMA ProposalKept ==
  ASSUME ProposalInv, PR!Next \/ UNCHANGED proposalVars
  PROVE  ProposalInv'
<1>1. CASE UNCHANGED proposalVars
  <2>1. PR!TypeOK /\ target \in PR!Targets /\ fork \in PR!Forks /\ made \in PR!Heads /\ fork.gen <= 1 + made
    BY DEF ProposalInv, PR!TypeOK, OpenIsLast
  <2>2. made \in Nat
    BY <2>1, ProposalNumbers
  <2> QED
    BY <1>1, <2>1, <2>2, SkillsMove DEF proposalVars
<1>2. CASE PR!Next
  BY <1>2, CreateStep, SkillsStep, InspectStep, AcceptStep, RejectStep, WithdrawStep DEF PR!Next
<1> QED
  BY <1>1, <1>2

-------------------------------------------------------------------------------
(* The drafts of a team skill: the inductive invariant *)

\* The ancestry of a revision: the least set with it that holds the parents of
\* its members.
Reach(rows, i) ==
    {j \in DOMAIN rows : \A S \in SUBSET DOMAIN rows :
        i \in S /\ (\A k \in S : rows[k].parents \subseteq S) => j \in S}

\* Part of the history of a release, which every maintainer may see.
InRelease(rows, line, c) == \E k \in DOMAIN line : c \in Reach(rows, line[k])

\* Whatever a walk back from i finds is u's own work or published.
MayHold(rows, line, u, i) ==
    \A a \in Reach(rows, i) : \A c \in rows[a].content :
        rows[c].by = u \/ InRelease(rows, line, c)

SkillTypes ==
    /\ slug \in Titles /\ public \in BOOLEAN
    /\ rev \in Seq(TS!RevRows) /\ Len(rev) <= MaxRevs
    /\ releases \in Seq(1..Len(rev))
    /\ draft \in [Maintainers -> (1..Len(rev)) \cup {None}]
    /\ conflict \in [Maintainers -> SUBSET (1..Len(rev))]
    /\ maintains \subseteq Maintainers
    /\ request \in [Maintainers -> TS!Jobs \cup {None}]

\* Parents come before their children, and a revision holds no later save.
Past(rows) ==
    \A k \in DOMAIN rows : rows[k].parents \subseteq 1..(k - 1) /\ rows[k].content \subseteq 1..k

\* Every release is a strict descendant of the one before it, so that there
\* are no more releases than revisions.
Line(rows, line) ==
    \A k \in DOMAIN line : /\ k <= line[k]
                           /\ k > 1 => line[k - 1] \in Reach(rows, line[k])

\* What a revision holds was saved in its own history, or in a release's when
\* a release was restored.
Origins(rows, line) ==
    \A i \in DOMAIN rows : \A c \in rows[i].content :
        c \in Reach(rows, i) \/ InRelease(rows, line, c)

\* Neither a draft, nor a side of its conflict, nor the revision a request of
\* the maintainer was made for, leads to unpublished work of another.
Private(u) ==
    /\ draft[u] # None => MayHold(rev, releases, u, draft[u])
    /\ \A i \in conflict[u] : MayHold(rev, releases, u, i)
    /\ request[u] # None /\ request[u].kind # "rename" =>
         request[u].head \in 1..Len(rev) /\ MayHold(rev, releases, u, request[u].head)

SkillInv ==
    /\ SkillTypes /\ Past(rev) /\ Line(rev, releases) /\ Origins(rev, releases)
    /\ \A u \in Maintainers : Private(u)

LEMMA ReachSelf ==
  ASSUME NEW rows, NEW i \in DOMAIN rows
  PROVE  i \in Reach(rows, i)
BY DEF Reach

LEMMA ReachLeast ==
  ASSUME NEW rows, NEW i, NEW S \in SUBSET DOMAIN rows, i \in S,
         \A k \in S : rows[k].parents \subseteq S
  PROVE  Reach(rows, i) \subseteq S
BY DEF Reach

LEMMA ReachClosed ==
  ASSUME NEW rows, NEW i, \A k \in DOMAIN rows : rows[k].parents \subseteq DOMAIN rows
  PROVE  /\ Reach(rows, i) \in SUBSET DOMAIN rows
         /\ \A k \in Reach(rows, i) : rows[k].parents \subseteq Reach(rows, i)
<1>1. Reach(rows, i) \in SUBSET DOMAIN rows
  BY DEF Reach
<1>2. ASSUME NEW k \in Reach(rows, i), NEW q \in rows[k].parents PROVE q \in Reach(rows, i)
  <2>1. ASSUME NEW S \in SUBSET DOMAIN rows, i \in S, \A x \in S : rows[x].parents \subseteq S
        PROVE  q \in S
    <3>1. k \in S
      BY <2>1 DEF Reach
    <3> QED
      BY <1>2, <2>1, <3>1
  <2>2. q \in DOMAIN rows
    BY <1>1, <1>2
  <2> QED
    BY <2>1, <2>2 DEF Reach
<1> QED
  BY <1>1, <1>2

LEMMA ReachTrans ==
  ASSUME NEW rows, NEW i, NEW j \in Reach(rows, i),
         \A k \in DOMAIN rows : rows[k].parents \subseteq DOMAIN rows
  PROVE  Reach(rows, j) \subseteq Reach(rows, i)
BY ReachClosed, ReachLeast

\* rows grows by children of its revisions.
Grows(rows, more) ==
    /\ DOMAIN rows \subseteq DOMAIN more
    /\ \A k \in DOMAIN rows : more[k] = rows[k] /\ rows[k].parents \subseteq DOMAIN rows
    /\ \A n \in DOMAIN more \ DOMAIN rows : more[n].parents \subseteq DOMAIN rows

\* What is there keeps its ancestry.
LEMMA OldReach ==
  ASSUME NEW rows, NEW more, Grows(rows, more), NEW i \in DOMAIN rows
  PROVE  Reach(more, i) = Reach(rows, i)
<1>1. \A k \in DOMAIN rows : rows[k].parents \subseteq DOMAIN rows
  BY DEF Grows
<1>2. \A k \in DOMAIN more : more[k].parents \subseteq DOMAIN more
  BY DEF Grows
<1>3. /\ Reach(rows, i) \in SUBSET DOMAIN more
      /\ \A k \in Reach(rows, i) : more[k].parents \subseteq Reach(rows, i)
  BY <1>1, ReachClosed DEF Grows
<1>4. Reach(more, i) \subseteq Reach(rows, i)
  BY <1>3, ReachSelf, ReachLeast
<1>5. PICK S : S = Reach(more, i) \cap DOMAIN rows
  OBVIOUS
<1>6. S \in SUBSET DOMAIN rows /\ i \in S
  BY <1>5, ReachSelf DEF Grows
<1>7. \A k \in S : rows[k].parents \subseteq S
  BY <1>1, <1>2, <1>5, ReachClosed DEF Grows
<1>8. Reach(rows, i) \subseteq S
  BY <1>6, <1>7, ReachLeast
<1> QED
  BY <1>4, <1>5, <1>8

\* A new revision has itself and what its parents have.
LEMMA NewReach ==
  ASSUME NEW rows, NEW more, Grows(rows, more), NEW n \in DOMAIN more \ DOMAIN rows
  PROVE  /\ n \in Reach(more, n)
         /\ \A p \in more[n].parents : Reach(rows, p) \subseteq Reach(more, n) /\ p \in Reach(more, n)
         /\ \A j \in Reach(more, n) : j = n \/ \E p \in more[n].parents : j \in Reach(rows, p)
<1>1. \A k \in DOMAIN rows : rows[k].parents \subseteq DOMAIN rows
  BY DEF Grows
<1>2. \A k \in DOMAIN more : more[k].parents \subseteq DOMAIN more
  BY DEF Grows
<1>3. n \in Reach(more, n)
  BY ReachSelf
<1>4. ASSUME NEW p \in more[n].parents
      PROVE  Reach(rows, p) \subseteq Reach(more, n) /\ p \in Reach(more, n)
  <2>1. p \in Reach(more, n) /\ p \in DOMAIN rows
    BY <1>2, <1>3, <1>4, ReachClosed DEF Grows
  <2> QED
    BY <1>2, <2>1, OldReach, ReachTrans
<1>5. PICK S : S = {n} \cup UNION {Reach(rows, p) : p \in more[n].parents}
  OBVIOUS
<1>6. S \in SUBSET DOMAIN more /\ n \in S
  BY <1>1, <1>5, ReachClosed DEF Grows
<1>7. ASSUME NEW k \in S PROVE more[k].parents \subseteq S
  <2>1. CASE k = n
    <3>1. \A p \in more[n].parents : p \in Reach(rows, p)
      BY ReachSelf DEF Grows
    <3> QED
      BY <1>5, <2>1, <3>1
  <2>2. CASE k # n
    <3>1. PICK p \in more[n].parents : k \in Reach(rows, p)
      BY <1>5, <2>2
    <3>2. k \in DOMAIN rows /\ rows[k].parents \subseteq Reach(rows, p)
      BY <1>1, <3>1, ReachClosed
    <3> QED
      BY <1>5, <3>1, <3>2 DEF Grows
  <2> QED
    BY <2>1, <2>2
<1>8. Reach(more, n) \subseteq S
  BY <1>6, <1>7, ReachLeast
<1> QED
  BY <1>3, <1>4, <1>5, <1>8

\* What was published stays published and what a maintainer may hold stays so.
LEMMA StillMayHold ==
  ASSUME NEW rows, NEW more, Grows(rows, more), NEW line \in Seq(DOMAIN rows), NEW longer,
         DOMAIN line \subseteq DOMAIN longer, \A k \in DOMAIN line : longer[k] = line[k],
         \A k \in DOMAIN rows : rows[k].content \subseteq DOMAIN rows
  PROVE  /\ \A c : InRelease(rows, line, c) => InRelease(more, longer, c)
         /\ \A u : \A i \in DOMAIN rows : MayHold(rows, line, u, i) => MayHold(more, longer, u, i)
<1>1. ASSUME NEW c, InRelease(rows, line, c) PROVE InRelease(more, longer, c)
  <2>1. PICK k \in DOMAIN line : c \in Reach(rows, line[k])
    BY <1>1 DEF InRelease
  <2>2. line[k] \in DOMAIN rows
    BY <2>1
  <2>3. Reach(more, line[k]) = Reach(rows, line[k])
    BY <2>2, OldReach
  <2> QED
    BY <2>1, <2>3 DEF InRelease
<1>2. ASSUME NEW u, NEW i \in DOMAIN rows, MayHold(rows, line, u, i), NEW a \in Reach(more, i),
             NEW c \in more[a].content
      PROVE  more[c].by = u \/ InRelease(more, longer, c)
  <2>1. a \in Reach(rows, i)
    BY <1>2, OldReach
  <2>2. a \in DOMAIN rows
    BY <2>1 DEF Reach
  <2>3. c \in rows[a].content /\ more[c] = rows[c]
    BY <1>2, <2>2 DEF Grows
  <2>4. rows[c].by = u \/ InRelease(rows, line, c)
    BY <1>2, <2>1, <2>3 DEF MayHold
  <2> QED
    BY <1>1, <2>3, <2>4
<1> QED
  BY <1>1, <1>2 DEF MayHold

\* A child of revisions the maintainer may hold, with content of which the same
\* is true.
LEMMA NewMayHold ==
  ASSUME NEW rows, NEW more, Grows(rows, more), NEW line \in Seq(DOMAIN rows), NEW longer,
         DOMAIN line \subseteq DOMAIN longer, \A k \in DOMAIN line : longer[k] = line[k],
         \A k \in DOMAIN rows : rows[k].content \subseteq DOMAIN rows,
         NEW u, NEW n \in DOMAIN more \ DOMAIN rows,
         \A p \in more[n].parents : MayHold(rows, line, u, p),
         \A c \in more[n].content : more[c].by = u \/ InRelease(more, longer, c)
  PROVE  MayHold(more, longer, u, n)
<1>1. ASSUME NEW a \in Reach(more, n), NEW c \in more[a].content
      PROVE  more[c].by = u \/ InRelease(more, longer, c)
  <2>1. CASE a = n
    BY <1>1, <2>1
  <2>2. CASE a # n
    <3>1. PICK p \in more[n].parents : a \in Reach(rows, p)
      BY <1>1, <2>2, NewReach
    <3>2. p \in DOMAIN rows /\ MayHold(rows, line, u, p)
      BY DEF Grows
    <3>3. MayHold(more, longer, u, p)
      BY <3>2, StillMayHold
    <3>4. a \in Reach(more, p)
      BY <3>1, <3>2, OldReach
    <3> QED
      BY <1>1, <3>3, <3>4 DEF MayHold
  <2> QED
    BY <2>1, <2>2
<1> QED
  BY <1>1 DEF MayHold

LEMMA SkillFacts ==
  ASSUME SkillTypes, Past(rev)
  PROVE  /\ Len(rev) \in Nat /\ DOMAIN rev = 1..Len(rev)
         /\ Len(releases) \in Nat /\ DOMAIN releases = 1..Len(releases)
         /\ releases \in Seq(DOMAIN rev)
         /\ \A k \in DOMAIN rev : /\ rev[k] \in TS!RevRows /\ rev[k].parents \subseteq DOMAIN rev
                                  /\ rev[k].content \subseteq DOMAIN rev
                                  /\ rev[k].content \subseteq TS!Revs
         /\ \A k \in DOMAIN releases : releases[k] \in DOMAIN rev
         /\ MaxRevs \in Nat /\ 1..Len(rev) \subseteq TS!Revs
<1>1. /\ Len(rev) \in Nat /\ DOMAIN rev = 1..Len(rev)
      /\ Len(releases) \in Nat /\ DOMAIN releases = 1..Len(releases)
      /\ \A k \in DOMAIN rev : rev[k] \in TS!RevRows
      /\ releases \in Seq(DOMAIN rev)
  BY DEF SkillTypes
<1>2. MaxRevs \in Nat /\ 1..Len(rev) \subseteq TS!Revs
  BY <1>1, TeamSkillAssumption DEF SkillTypes, TS!Revs
<1>3. \A k \in DOMAIN rev : /\ rev[k].parents \subseteq DOMAIN rev
                            /\ rev[k].content \subseteq DOMAIN rev
  BY <1>1 DEF Past
<1>4. \A k \in DOMAIN rev : rev[k].content \subseteq TS!Revs
  BY <1>1, <1>2, <1>3
<1>5. \A k \in DOMAIN releases : releases[k] \in DOMAIN rev
  BY <1>1
<1> QED
  BY <1>1, <1>2, <1>3, <1>4, <1>5

\* No revision is an ancestor of an earlier one.
LEMMA ReachBefore ==
  ASSUME SkillTypes, Past(rev), NEW i \in DOMAIN rev
  PROVE  Reach(rev, i) \subseteq 1..i
<1>1. /\ Len(rev) \in Nat /\ DOMAIN rev = 1..Len(rev) /\ i \in Nat /\ i >= 1 /\ i <= Len(rev)
  BY SkillFacts
<1>2. 1..i \in SUBSET DOMAIN rev /\ i \in 1..i
  BY <1>1
<1>3. ASSUME NEW k \in 1..i, NEW q \in rev[k].parents PROVE q \in 1..i
  <2>1. k \in DOMAIN rev /\ q \in 1..(k - 1)
    BY <1>2, <1>3 DEF Past
  <2> QED
    BY <1>1, <1>3, <2>1
<1> QED
  BY <1>2, <1>3, ReachLeast

\* A maintainer may hold every release.
LEMMA ReleaseMayHold ==
  ASSUME SkillInv, NEW u, NEW k \in DOMAIN releases
  PROVE  MayHold(rev, releases, u, releases[k])
<1>1. \A x \in DOMAIN rev : rev[x].parents \subseteq DOMAIN rev
  BY SkillFacts DEF SkillInv
<1>2. ASSUME NEW a \in Reach(rev, releases[k]), NEW c \in rev[a].content
      PROVE  InRelease(rev, releases, c)
  <2>1. a \in DOMAIN rev /\ Reach(rev, a) \subseteq Reach(rev, releases[k])
    BY <1>1, ReachTrans, ReachClosed
  <2>2. c \in Reach(rev, a) \/ InRelease(rev, releases, c)
    BY <1>2, <2>1 DEF SkillInv, Origins
  <2> QED
    BY <2>1, <2>2 DEF InRelease
<1> QED
  BY <1>2 DEF MayHold

\* The walk of a maintainer meets ancestors only.
LEMMA WalkReach ==
  ASSUME NEW rows, NEW i
  PROVE  TS!Walk(rows, i) \subseteq Reach(rev, i) /\ TS!Anc(i) = Reach(rev, i)
<1>1. \A S \in SUBSET DOMAIN rev :
        (\A k \in S : rev[k].parents \subseteq S) => TS!Closed(rows, S)
  BY DEF TS!Closed
<1>2. \A S \in SUBSET DOMAIN rev :
        (\A k \in S : rev[k].parents \subseteq S) <=> TS!Closed(DOMAIN rev, S)
  BY DEF TS!Closed
<1> QED
  BY <1>1, <1>2 DEF TS!Walk, TS!Anc, Reach

\* What a step leaves to a maintainer stays private, whatever it does to the
\* revisions and releases of others.
LEMMA StillPrivate ==
  ASSUME SkillInv, Grows(rev, rev'), DOMAIN rev' = 1..Len(rev'),
         DOMAIN releases \subseteq DOMAIN releases',
         \A k \in DOMAIN releases : releases'[k] = releases[k],
         NEW v \in Maintainers,
         draft'[v] \in {draft[v], None} \/ MayHold(rev', releases', v, draft'[v]),
         \A i \in conflict'[v] : i \in conflict[v] \/ MayHold(rev', releases', v, i),
         \/ request'[v] \in {request[v], None}
         \/ request'[v].kind = "rename"
         \/ request'[v].head \in 1..Len(rev') /\ MayHold(rev', releases', v, request'[v].head)
  PROVE  Private(v)'
<1>1. /\ SkillTypes /\ Past(rev) /\ Private(v) /\ DOMAIN rev = 1..Len(rev)
      /\ releases \in Seq(DOMAIN rev) /\ \A k \in DOMAIN rev : rev[k].content \subseteq DOMAIN rev
  BY SkillFacts DEF SkillInv
<1>2. \A i \in DOMAIN rev : MayHold(rev, releases, v, i) => MayHold(rev', releases', v, i)
  BY <1>1, StillMayHold
<1>3. draft'[v] # None => MayHold(rev', releases', v, draft'[v])
  <2>1. draft[v] # None => draft[v] \in DOMAIN rev /\ MayHold(rev, releases, v, draft[v])
    BY <1>1 DEF SkillTypes, Private
  <2> QED
    BY <1>2, <2>1
<1>4. ASSUME NEW i \in conflict'[v] PROVE MayHold(rev', releases', v, i)
  <2>1. i \in conflict[v] => i \in DOMAIN rev /\ MayHold(rev, releases, v, i)
    BY <1>1 DEF SkillTypes, Private
  <2> QED
    BY <1>2, <2>1
<1>5. request'[v] # None /\ request'[v].kind # "rename" =>
        request'[v].head \in 1..Len(rev') /\ MayHold(rev', releases', v, request'[v].head)
  <2>1. request[v] # None /\ request[v].kind # "rename" =>
          request[v].head \in DOMAIN rev /\ MayHold(rev, releases, v, request[v].head)
    BY <1>1 DEF Private
  <2>2. DOMAIN rev \subseteq 1..Len(rev')
    BY DEF Grows
  <2> QED
    BY <1>2, <2>1, <2>2
<1> QED
  BY <1>3, <1>4, <1>5 DEF Private

\* A step that leaves the revisions and the releases alone.
LEMMA SameHistory ==
  ASSUME SkillInv, UNCHANGED <<rev, releases>>
  PROVE  /\ Grows(rev, rev') /\ DOMAIN rev' = 1..Len(rev') /\ Past(rev')
         /\ DOMAIN releases \subseteq DOMAIN releases'
         /\ \A k \in DOMAIN releases : releases'[k] = releases[k]
         /\ Line(rev', releases') /\ Origins(rev', releases')
<1>1. /\ Past(rev) /\ Line(rev, releases) /\ Origins(rev, releases)
      /\ DOMAIN rev = 1..Len(rev) /\ \A k \in DOMAIN rev : rev[k].parents \subseteq DOMAIN rev
  BY SkillFacts DEF SkillInv
<1>2. Grows(rev, rev')
  BY <1>1 DEF Grows
<1> QED
  BY <1>1, <1>2

\* One revision more, a child of known ones whose content comes from them, from
\* a release or from itself.
LEMMA AddChild ==
  ASSUME SkillInv, NEW child \in TS!RevRows, rev' = Append(rev, child), releases' = releases,
         Len(rev) + 1 <= MaxRevs, child.parents \subseteq DOMAIN rev,
         child.content \subseteq 1..(Len(rev) + 1),
         \A c \in child.content : \/ c = Len(rev) + 1 \/ InRelease(rev, releases, c)
                                  \/ \E p \in child.parents : c \in Reach(rev, p)
  PROVE  /\ rev' \in Seq(TS!RevRows) /\ Len(rev') = Len(rev) + 1 /\ Len(rev') <= MaxRevs
         /\ DOMAIN rev' = 1..Len(rev') /\ Grows(rev, rev') /\ Past(rev')
         /\ Len(rev) + 1 \in DOMAIN rev' \ DOMAIN rev /\ rev'[Len(rev) + 1] = child
         /\ Line(rev', releases') /\ Origins(rev', releases')
         /\ DOMAIN releases \subseteq DOMAIN releases'
         /\ \A k \in DOMAIN releases : releases'[k] = releases[k]
<1>1. /\ SkillTypes /\ Past(rev) /\ Line(rev, releases) /\ Origins(rev, releases)
      /\ Len(rev) \in Nat /\ DOMAIN rev = 1..Len(rev) /\ releases \in Seq(DOMAIN rev)
      /\ \A k \in DOMAIN rev : rev[k].parents \subseteq DOMAIN rev /\ rev[k].content \subseteq DOMAIN rev
      /\ \A k \in DOMAIN releases : releases[k] \in DOMAIN rev
      /\ Len(releases) \in Nat /\ DOMAIN releases = 1..Len(releases)
  BY SkillFacts DEF SkillInv
<1>2. PICK n : n = Len(rev) + 1
  OBVIOUS
<1>3. /\ rev' \in Seq(TS!RevRows) /\ Len(rev') = n /\ n \in Nat /\ n <= MaxRevs
      /\ \A k \in 1..Len(rev) : rev'[k] = rev[k]
      /\ rev'[n] = child
  BY <1>1, <1>2, AppendProperties DEF SkillTypes
<1>4. /\ DOMAIN rev' = 1..n /\ DOMAIN rev \subseteq DOMAIN rev' /\ DOMAIN rev' \ DOMAIN rev = {n}
      /\ n \in DOMAIN rev' \ DOMAIN rev
  BY <1>1, <1>2, <1>3
<1>5. Grows(rev, rev')
  BY <1>1, <1>3, <1>4 DEF Grows
<1>6. Past(rev')
  <2>1. ASSUME NEW k \in DOMAIN rev'
        PROVE  rev'[k].parents \subseteq 1..(k - 1) /\ rev'[k].content \subseteq 1..k
    <3>1. CASE k = n
      BY <1>1, <1>2, <1>3, <3>1
    <3>2. CASE k # n
      BY <1>1, <1>3, <1>4, <2>1, <3>2 DEF Past
    <3> QED
      BY <3>1, <3>2
  <2> QED
    BY <2>1 DEF Past
<1>7. Line(rev', releases')
  <2>1. ASSUME NEW k \in DOMAIN releases
        PROVE  k <= releases[k] /\ (k > 1 => releases[k - 1] \in Reach(rev', releases[k]))
    BY <1>1, <1>5, <2>1, OldReach DEF Line
  <2> QED
    BY <2>1 DEF Line
<1>8. Origins(rev', releases')
  <2>1. \A c : InRelease(rev, releases, c) => InRelease(rev', releases', c)
    BY <1>1, <1>5, StillMayHold
  <2>2. ASSUME NEW i \in DOMAIN rev', NEW c \in rev'[i].content
        PROVE  c \in Reach(rev', i) \/ InRelease(rev', releases', c)
    <3>1. CASE i = n
      <4>1. /\ n \in Reach(rev', n)
            /\ \A p \in child.parents : Reach(rev, p) \subseteq Reach(rev', n)
        BY <1>3, <1>4, <1>5, NewReach
      <4> QED
        BY <1>2, <1>3, <2>1, <2>2, <3>1, <4>1
    <3>2. CASE i # n
      <4>1. i \in DOMAIN rev /\ rev'[i] = rev[i] /\ Reach(rev', i) = Reach(rev, i)
        BY <1>1, <1>3, <1>4, <1>5, <2>2, <3>2, OldReach
      <4> QED
        BY <1>1, <2>1, <2>2, <4>1 DEF Origins
    <3> QED
      BY <3>1, <3>2
  <2> QED
    BY <2>2 DEF Origins
<1> QED
  BY <1>2, <1>3, <1>4, <1>5, <1>6, <1>7, <1>8

\* Whether the content of a child is the maintainer's own or published.
LEMMA ChildMayHold ==
  ASSUME SkillInv, NEW child \in TS!RevRows, Grows(rev, rev'), releases' = releases,
         Len(rev) + 1 \in DOMAIN rev' \ DOMAIN rev, rev'[Len(rev) + 1] = child,
         NEW u, \A p \in child.parents : MayHold(rev, releases, u, p),
         \A c \in child.content : \/ rev'[c].by = u \/ InRelease(rev, releases, c)
                                  \/ c \in DOMAIN rev /\ rev[c].by = u
  PROVE  MayHold(rev', releases', u, Len(rev) + 1)
<1>1. /\ releases \in Seq(DOMAIN rev)
      /\ \A k \in DOMAIN rev : rev[k].content \subseteq DOMAIN rev
  BY SkillFacts DEF SkillInv
<1>2. \A c : InRelease(rev, releases, c) => InRelease(rev', releases', c)
  BY <1>1, StillMayHold
<1>3. \A c \in child.content : rev'[c].by = u \/ InRelease(rev', releases', c)
  BY <1>2 DEF Grows
<1> QED
  BY <1>1, <1>3, NewMayHold

LEMMA SkillInit ==
  ASSUME TS!Init
  PROVE  SkillInv
<1>1. /\ slug = First /\ public = FALSE /\ releases = <<>>
      /\ draft = [u \in Maintainers |-> IF u = Founder THEN 1 ELSE None]
      /\ conflict = [u \in Maintainers |-> {}]
      /\ maintains = {Founder}
      /\ request = [u \in Maintainers |-> None]
  BY DEF TS!Init
<1>2. PICK row : row = [parents |-> {}, name |-> First, by |-> Founder, content |-> {1}]
  OBVIOUS
<1>3. rev = <<row>> /\ row \in TS!RevRows /\ 1 <= MaxRevs
  BY <1>1, <1>2, TeamSkillAssumption DEF TS!Init, TS!Child, TS!RevRows, TS!Revs
<1>4. rev \in Seq(TS!RevRows) /\ Len(rev) = 1 /\ DOMAIN rev = {1} /\ 1..Len(rev) = {1} /\ rev[1] = row
  BY <1>3
<1>5. SkillTypes
  <2>1. <<>> \in Seq(1..Len(rev))
    OBVIOUS
  <2>2. draft \in [Maintainers -> (1..Len(rev)) \cup {None}]
    BY <1>1, <1>4
  <2>3. request \in [Maintainers -> TS!Jobs \cup {None}]
    BY <1>1
  <2>4. conflict \in [Maintainers -> SUBSET (1..Len(rev))] /\ maintains \subseteq Maintainers
    BY <1>1, TeamSkillAssumption
  <2> QED
    BY <1>1, <1>3, <1>4, <2>1, <2>2, <2>3, <2>4, TeamSkillAssumption DEF SkillTypes
<1>6. Past(rev)
  BY <1>2, <1>4 DEF Past
<1>7. Line(rev, releases)
  BY <1>1 DEF Line
<1>8. Reach(rev, 1) = {1}
  BY <1>2, <1>4 DEF Reach
<1>9. Origins(rev, releases)
  BY <1>2, <1>4, <1>8 DEF Origins
<1>10. MayHold(rev, releases, Founder, 1)
  BY <1>2, <1>4, <1>8 DEF MayHold
<1>11. \A u \in Maintainers : Private(u)
  BY <1>1, <1>10 DEF Private
<1> QED
  BY <1>5, <1>6, <1>7, <1>9, <1>11 DEF SkillInv

LEMMA ProvisionStartStep ==
  ASSUME SkillInv, NEW u \in Maintainers, TS!ProvisionStart(u)
  PROVE  SkillInv'
<1>1. PICK i \in TS!Seed : request' = [request EXCEPT ![u] = [kind |-> "provision", head |-> i, name |-> slug]]
  BY DEF TS!ProvisionStart
<1>2. UNCHANGED <<slug, public, releases, rev, draft, conflict, maintains>> /\ SkillTypes /\ Past(rev)
  BY DEF TS!ProvisionStart, SkillInv
<1>3. Len(releases) \in DOMAIN releases /\ i = releases[Len(releases)] /\ i \in 1..Len(rev) /\ i \in TS!Revs
  <2>1. releases # <<>> /\ i = releases[Len(releases)]
    BY DEF TS!Seed, TS!Latest
  <2>2. Len(releases) \in Nat /\ Len(releases) # 0
    BY <1>2, <2>1, EmptySeq DEF SkillTypes
  <2>3. Len(releases) \in DOMAIN releases
    BY <1>2, <2>2, SkillFacts
  <2> QED
    BY <1>2, <2>1, <2>3, SkillFacts
<1>4. [kind |-> "provision", head |-> i, name |-> slug] \in TS!Jobs
  BY <1>2, <1>3 DEF SkillTypes, TS!Jobs
<1>5. SkillTypes'
  BY <1>1, <1>2, <1>4 DEF SkillTypes
<1>6. MayHold(rev, releases, u, i)
  BY <1>3, ReleaseMayHold
<1>7. \A v \in Maintainers : Private(v)'
  <2>1. ASSUME NEW v \in Maintainers PROVE Private(v)'
    <3>1. \/ request'[v] \in {request[v], None}
          \/ request'[v].head \in 1..Len(rev') /\ MayHold(rev', releases', v, request'[v].head)
      BY <1>1, <1>2, <1>3, <1>6 DEF SkillTypes
    <3> QED
      BY <1>2, <3>1, SameHistory, StillPrivate
  <2> QED
    BY <2>1
<1> QED
  BY <1>2, <1>5, <1>7, SameHistory DEF SkillInv

LEMMA ProvisionCommitStep ==
  ASSUME SkillInv, NEW u \in Maintainers, TS!ProvisionCommit(u)
  PROVE  SkillInv'
<1>1. /\ request[u] # None /\ request[u].kind = "provision"
      /\ draft' = [draft EXCEPT ![u] = IF draft[u] = None THEN request[u].head ELSE draft[u]]
      /\ request' = [request EXCEPT ![u] = None]
      /\ UNCHANGED <<slug, public, releases, rev, conflict, maintains>> /\ SkillTypes
  BY DEF TS!ProvisionCommit, SkillInv, SkillTypes
<1>2. request[u].head \in 1..Len(rev) /\ MayHold(rev, releases, u, request[u].head)
  BY <1>1 DEF SkillInv, Private
<1>3. SkillTypes'
  BY <1>1, <1>2 DEF SkillTypes
<1>4. \A v \in Maintainers : Private(v)'
  <2>1. ASSUME NEW v \in Maintainers PROVE Private(v)'
    <3>1. draft'[v] \in {draft[v], None} \/ MayHold(rev', releases', v, draft'[v])
      BY <1>1, <1>2 DEF SkillTypes
    <3>2. request'[v] \in {request[v], None} /\ conflict'[v] = conflict[v]
      BY <1>1 DEF SkillTypes
    <3> QED
      BY <1>1, <3>1, <3>2, SameHistory, StillPrivate
  <2> QED
    BY <2>1
<1> QED
  BY <1>1, <1>3, <1>4, SameHistory DEF SkillInv

LEMMA SaveReadStep ==
  ASSUME SkillInv, NEW u \in Maintainers, TS!SaveRead(u)
  PROVE  SkillInv'
<1>1. /\ draft[u] # None
      /\ request' = [request EXCEPT ![u] = [kind |-> "save", head |-> draft[u], name |-> slug]]
      /\ UNCHANGED <<slug, public, releases, rev, draft, conflict, maintains>> /\ SkillTypes /\ Past(rev)
  BY DEF TS!SaveRead, SkillInv
<1>2. draft[u] \in 1..Len(rev) /\ draft[u] \in TS!Revs /\ MayHold(rev, releases, u, draft[u])
  BY <1>1, SkillFacts DEF SkillTypes, SkillInv, Private
<1>3. [kind |-> "save", head |-> draft[u], name |-> slug] \in TS!Jobs
  BY <1>1, <1>2 DEF SkillTypes, TS!Jobs
<1>4. SkillTypes'
  BY <1>1, <1>3 DEF SkillTypes
<1>5. \A v \in Maintainers : Private(v)'
  <2>1. ASSUME NEW v \in Maintainers PROVE Private(v)'
    <3>1. \/ request'[v] \in {request[v], None}
          \/ request'[v].head \in 1..Len(rev') /\ MayHold(rev', releases', v, request'[v].head)
      BY <1>1, <1>2 DEF SkillTypes
    <3> QED
      BY <1>1, <3>1, SameHistory, StillPrivate
  <2> QED
    BY <2>1
<1> QED
  BY <1>1, <1>4, <1>5, SameHistory DEF SkillInv

LEMMA WiderTypes ==
  ASSUME SkillTypes, Len(rev) \in Nat, Len(rev') \in Nat, Len(rev) <= Len(rev')
  PROVE  /\ releases \in Seq(1..Len(rev'))
         /\ draft \in [Maintainers -> (1..Len(rev')) \cup {None}]
         /\ conflict \in [Maintainers -> SUBSET (1..Len(rev'))]
<1>1. 1..Len(rev) \subseteq 1..Len(rev')
  OBVIOUS
<1>2. releases \in Seq(1..Len(rev'))
  BY <1>1 DEF SkillTypes
<1>3. draft \in [Maintainers -> (1..Len(rev')) \cup {None}]
  BY <1>1 DEF SkillTypes
<1>4. conflict \in [Maintainers -> SUBSET (1..Len(rev'))]
  BY <1>1 DEF SkillTypes
<1> QED
  BY <1>2, <1>3, <1>4

\* The two outcomes of a save, the draft moved or a conflict beside it.
LEMMA SaveCommitStep ==
  ASSUME SkillInv, NEW u \in Maintainers, TS!SaveCommit(u)
  PROVE  SkillInv' /\ (draft'[u] # draft[u] => draft[u] \in Reach(rev', draft'[u]))
<1>1. PICK n, h, child : /\ n = Len(rev) + 1 /\ h = request[u].head
                         /\ child = [parents |-> {h}, name |-> request[u].name, by |-> u,
                                     content |-> rev[h].content \cup {n}]
  OBVIOUS
<1>2. /\ request[u] # None /\ request[u].kind = "save" /\ n <= MaxRevs
      /\ draft[u] # None
      /\ rev' = Append(rev, child) /\ request' = [request EXCEPT ![u] = None]
      /\ UNCHANGED <<slug, public, releases, maintains>>
      /\ \/ draft[u] = h /\ draft' = [draft EXCEPT ![u] = n] /\ conflict' = conflict
         \/ draft' = draft /\ conflict' = [conflict EXCEPT ![u] = {n, draft[u]}]
  BY <1>1 DEF TS!SaveCommit, TS!Child, TS!Room
<1>3. /\ SkillTypes /\ Past(rev) /\ Len(rev) \in Nat /\ DOMAIN rev = 1..Len(rev) /\ n \in Nat
      /\ h \in DOMAIN rev /\ MayHold(rev, releases, u, h)
      /\ draft[u] \in DOMAIN rev /\ MayHold(rev, releases, u, draft[u])
      /\ \A k \in DOMAIN rev : rev[k].content \subseteq DOMAIN rev /\ rev[k].parents \subseteq DOMAIN rev
      /\ rev[h].content \subseteq TS!Revs /\ h \in TS!Revs /\ MaxRevs \in Nat
  BY <1>1, <1>2, SkillFacts DEF SkillInv, Private, SkillTypes
<1>4. request[u].name \in Titles
  BY <1>2, <1>3 DEF SkillTypes, TS!Jobs
<1>5. child \in TS!RevRows
  BY <1>1, <1>2, <1>3, <1>4 DEF TS!RevRows, TS!Revs
<1>6. child.parents = {h} /\ child.content = rev[h].content \cup {n} /\ child.by = u
  BY <1>1
<1>7. /\ child.parents \subseteq DOMAIN rev /\ child.content \subseteq 1..(Len(rev) + 1)
      /\ Len(rev) + 1 <= MaxRevs
  BY <1>1, <1>2, <1>3, <1>6
<1>8. \A c \in rev[h].content : InRelease(rev, releases, c) \/ c \in Reach(rev, h)
  BY <1>3 DEF SkillInv, Origins
<1>9. \A c \in child.content : \/ c = Len(rev) + 1 \/ InRelease(rev, releases, c)
                               \/ \E p \in child.parents : c \in Reach(rev, p)
  BY <1>1, <1>6, <1>8
<1>10. /\ rev' \in Seq(TS!RevRows) /\ Len(rev') = n /\ Len(rev') <= MaxRevs
       /\ DOMAIN rev' = 1..Len(rev') /\ Grows(rev, rev') /\ Past(rev')
       /\ n \in DOMAIN rev' \ DOMAIN rev /\ rev'[n] = child
       /\ Line(rev', releases') /\ Origins(rev', releases')
       /\ DOMAIN releases \subseteq DOMAIN releases'
       /\ \A k \in DOMAIN releases : releases'[k] = releases[k]
  BY <1>1, <1>2, <1>5, <1>7, <1>9, AddChild
<1>11. MayHold(rev', releases', u, n)
  <2>1. \A c \in rev[h].content : rev[c].by = u \/ InRelease(rev, releases, c)
    BY <1>3, ReachSelf DEF MayHold
  <2>2. \A c \in child.content : \/ rev'[c].by = u \/ InRelease(rev, releases, c)
                                 \/ c \in DOMAIN rev /\ rev[c].by = u
    BY <1>3, <1>6, <1>10, <2>1
  <2>3. \A p \in child.parents : MayHold(rev, releases, u, p)
    BY <1>3, <1>6
  <2> QED
    BY <1>1, <1>2, <1>5, <1>10, <2>2, <2>3, ChildMayHold
<1>12. SkillTypes'
  <2>1. /\ releases \in Seq(1..Len(rev'))
        /\ draft \in [Maintainers -> (1..Len(rev')) \cup {None}]
        /\ conflict \in [Maintainers -> SUBSET (1..Len(rev'))]
    BY <1>1, <1>3, <1>10, WiderTypes
  <2>2. n \in 1..Len(rev') /\ draft[u] \in 1..Len(rev')
    BY <1>1, <1>3, <1>10
  <2>3. /\ draft' \in [Maintainers -> (1..Len(rev')) \cup {None}]
        /\ conflict' \in [Maintainers -> SUBSET (1..Len(rev'))]
    BY <1>2, <2>1, <2>2
  <2>4. request' \in [Maintainers -> TS!Jobs \cup {None}]
    BY <1>2, <1>3 DEF SkillTypes
  <2> QED
    BY <1>2, <1>3, <1>10, <2>1, <2>3, <2>4 DEF SkillTypes
<1>13. \A v \in Maintainers : Private(v)'
  <2>0. MayHold(rev', releases', u, draft[u])
    <3>1. releases \in Seq(DOMAIN rev)
      BY <1>3 DEF SkillTypes
    <3> QED
      BY <1>3, <1>10, <3>1, StillMayHold
  <2>1. ASSUME NEW v \in Maintainers PROVE Private(v)'
    <3>1. draft'[v] \in {draft[v], None} \/ MayHold(rev', releases', v, draft'[v])
      BY <1>2, <1>3, <1>11 DEF SkillTypes
    <3>2. \A i \in conflict'[v] : i \in conflict[v] \/ MayHold(rev', releases', v, i)
      BY <1>2, <1>3, <1>11, <2>0 DEF SkillTypes
    <3>3. request'[v] \in {request[v], None}
      BY <1>2, <1>3 DEF SkillTypes
    <3> QED
      BY <1>10, <3>1, <3>2, <3>3, StillPrivate
  <2> QED
    BY <2>1
<1>14. draft'[u] # draft[u] => draft[u] \in Reach(rev', draft'[u])
  <2>1. h \in Reach(rev', n)
    BY <1>6, <1>10, NewReach
  <2> QED
    BY <1>2, <1>3, <2>1 DEF SkillTypes
<1> QED
  BY <1>10, <1>12, <1>13, <1>14 DEF SkillInv

LEMMA MergeStep ==
  ASSUME SkillInv, NEW u \in Maintainers, TS!Merge(u)
  PROVE  SkillInv' /\ draft[u] \in Reach(rev', draft'[u])
<1>1. PICK n, c, child : /\ n = Len(rev) + 1 /\ c = conflict[u]
                         /\ child = [parents |-> c, name |-> slug, by |-> u,
                                     content |-> UNION {rev[i].content : i \in c}]
  OBVIOUS
<1>2. /\ n <= MaxRevs /\ draft[u] \in c /\ rev' = Append(rev, child)
      /\ draft' = [draft EXCEPT ![u] = n] /\ conflict' = [conflict EXCEPT ![u] = {}]
      /\ UNCHANGED <<slug, public, releases, maintains, request>>
  BY <1>1 DEF TS!Merge, TS!Child, TS!Room
<1>3. /\ SkillTypes /\ Past(rev) /\ Len(rev) \in Nat /\ DOMAIN rev = 1..Len(rev) /\ n \in Nat
      /\ c \subseteq DOMAIN rev /\ c \subseteq TS!Revs
      /\ \A i \in c : MayHold(rev, releases, u, i)
      /\ \A k \in DOMAIN rev : /\ rev[k].content \subseteq DOMAIN rev
                               /\ rev[k].content \subseteq TS!Revs /\ rev[k].parents \subseteq DOMAIN rev
  BY <1>1, SkillFacts DEF SkillInv, Private, SkillTypes
<1>4. child.parents = c /\ child.by = u /\ \A x : x \in child.content <=> \E i \in c : x \in rev[i].content
  BY <1>1
<1>5. child \in TS!RevRows
  <2>1. child.content \subseteq TS!Revs
    BY <1>3, <1>4
  <2> QED
    BY <1>1, <1>3, <2>1 DEF TS!RevRows, SkillTypes
<1>6. /\ child.parents \subseteq DOMAIN rev /\ child.content \subseteq 1..(Len(rev) + 1)
      /\ Len(rev) + 1 <= MaxRevs
  BY <1>1, <1>2, <1>3, <1>4
<1>7. \A x \in child.content : \/ x = Len(rev) + 1 \/ InRelease(rev, releases, x)
                               \/ \E p \in child.parents : x \in Reach(rev, p)
  BY <1>3, <1>4 DEF SkillInv, Origins
<1>8. /\ rev' \in Seq(TS!RevRows) /\ Len(rev') = n /\ Len(rev') <= MaxRevs
      /\ DOMAIN rev' = 1..Len(rev') /\ Grows(rev, rev') /\ Past(rev')
      /\ n \in DOMAIN rev' \ DOMAIN rev /\ rev'[n] = child
      /\ Line(rev', releases') /\ Origins(rev', releases')
      /\ DOMAIN releases \subseteq DOMAIN releases'
      /\ \A k \in DOMAIN releases : releases'[k] = releases[k]
  BY <1>1, <1>2, <1>5, <1>6, <1>7, AddChild
<1>9. MayHold(rev', releases', u, n)
  <2>1. \A x \in child.content : \/ rev'[x].by = u \/ InRelease(rev, releases, x)
                                 \/ x \in DOMAIN rev /\ rev[x].by = u
    <3>1. ASSUME NEW x \in child.content PROVE InRelease(rev, releases, x) \/ (x \in DOMAIN rev /\ rev[x].by = u)
      <4>1. PICK i \in c : x \in rev[i].content
        BY <1>4
      <4>2. i \in Reach(rev, i) /\ x \in DOMAIN rev
        BY <1>3, <4>1, ReachSelf
      <4> QED
        BY <1>3, <4>1, <4>2 DEF MayHold
    <3> QED
      BY <3>1
  <2>2. \A p \in child.parents : MayHold(rev, releases, u, p)
    BY <1>3, <1>4
  <2> QED
    BY <1>1, <1>2, <1>5, <1>8, <2>1, <2>2, ChildMayHold
<1>10. SkillTypes'
  <2>1. /\ releases \in Seq(1..Len(rev'))
        /\ draft \in [Maintainers -> (1..Len(rev')) \cup {None}]
        /\ conflict \in [Maintainers -> SUBSET (1..Len(rev'))]
    BY <1>1, <1>3, <1>8, WiderTypes
  <2>2. /\ draft' \in [Maintainers -> (1..Len(rev')) \cup {None}]
        /\ conflict' \in [Maintainers -> SUBSET (1..Len(rev'))]
    BY <1>2, <1>8, <2>1
  <2> QED
    BY <1>2, <1>3, <1>8, <2>1, <2>2 DEF SkillTypes
<1>11. \A v \in Maintainers : Private(v)'
  <2>1. ASSUME NEW v \in Maintainers PROVE Private(v)'
    <3>1. draft'[v] \in {draft[v], None} \/ MayHold(rev', releases', v, draft'[v])
      BY <1>2, <1>3, <1>9 DEF SkillTypes
    <3>2. \A i \in conflict'[v] : i \in conflict[v]
      BY <1>2, <1>3 DEF SkillTypes
    <3> QED
      BY <1>2, <1>8, <3>1, <3>2, StillPrivate
  <2> QED
    BY <2>1
<1>12. draft[u] \in Reach(rev', draft'[u])
  <2>1. draft[u] \in Reach(rev', n) /\ draft'[u] = n
    BY <1>2, <1>3, <1>4, <1>8, NewReach DEF SkillTypes
  <2> QED
    BY <2>1
<1> QED
  BY <1>8, <1>10, <1>11, <1>12 DEF SkillInv

LEMMA RestoreStep ==
  ASSUME SkillInv, NEW u \in Maintainers, NEW i \in DOMAIN rev, TS!Restore(u, i)
  PROVE  SkillInv' /\ draft[u] \in Reach(rev', draft'[u])
<1>1. PICK n, h, child : /\ n = Len(rev) + 1 /\ h = draft[u]
                         /\ child = [parents |-> {h}, name |-> slug, by |-> u,
                                     content |-> rev[i].content]
  OBVIOUS
<1>2. /\ n <= MaxRevs /\ h # None /\ rev' = Append(rev, child)
      /\ TS!Released(i) \/ i \in TS!Anc(h)
      /\ draft' = [draft EXCEPT ![u] = n]
      /\ UNCHANGED <<slug, public, releases, conflict, maintains, request>>
  BY <1>1 DEF TS!Restore, TS!Child, TS!Room
<1>3. /\ SkillTypes /\ Past(rev) /\ Len(rev) \in Nat /\ DOMAIN rev = 1..Len(rev) /\ n \in Nat
      /\ h \in DOMAIN rev /\ h \in TS!Revs /\ MayHold(rev, releases, u, h)
      /\ \A k \in DOMAIN rev : /\ rev[k].content \subseteq DOMAIN rev
                               /\ rev[k].content \subseteq TS!Revs /\ rev[k].parents \subseteq DOMAIN rev
  BY <1>1, <1>2, SkillFacts DEF SkillInv, Private, SkillTypes
<1>4. child.parents = {h} /\ child.content = rev[i].content
  BY <1>1
<1>5. child \in TS!RevRows
  BY <1>1, <1>3 DEF TS!RevRows, SkillTypes
<1>6. /\ child.parents \subseteq DOMAIN rev /\ child.content \subseteq 1..(Len(rev) + 1)
      /\ Len(rev) + 1 <= MaxRevs
  BY <1>1, <1>2, <1>3, <1>4
<1>7. \/ \E k \in DOMAIN releases : releases[k] = i
      \/ i \in Reach(rev, h)
  BY <1>2, WalkReach DEF TS!Released
<1>8. ASSUME NEW x \in rev[i].content
      PROVE  /\ InRelease(rev, releases, x) \/ x \in Reach(rev, h)
             /\ InRelease(rev, releases, x) \/ (x \in DOMAIN rev /\ rev[x].by = u)
  <2>1. CASE \E k \in DOMAIN releases : releases[k] = i
    <3>1. x \in Reach(rev, i) \/ InRelease(rev, releases, x)
      BY <1>8 DEF SkillInv, Origins
    <3> QED
      BY <2>1, <3>1 DEF InRelease
  <2>2. CASE i \in Reach(rev, h)
    <3>1. x \in Reach(rev, i) \/ InRelease(rev, releases, x)
      BY <1>8 DEF SkillInv, Origins
    <3>2. Reach(rev, i) \subseteq Reach(rev, h)
      BY <1>3, <2>2, ReachTrans
    <3>3. rev[x].by = u \/ InRelease(rev, releases, x)
      BY <1>3, <1>8, <2>2 DEF MayHold
    <3> QED
      BY <1>3, <1>8, <3>1, <3>2, <3>3
  <2> QED
    BY <1>7, <2>1, <2>2
<1>9. \A x \in child.content : \/ x = Len(rev) + 1 \/ InRelease(rev, releases, x)
                               \/ \E p \in child.parents : x \in Reach(rev, p)
  BY <1>4, <1>8
<1>10. /\ rev' \in Seq(TS!RevRows) /\ Len(rev') = n /\ Len(rev') <= MaxRevs
       /\ DOMAIN rev' = 1..Len(rev') /\ Grows(rev, rev') /\ Past(rev')
       /\ n \in DOMAIN rev' \ DOMAIN rev /\ rev'[n] = child
       /\ Line(rev', releases') /\ Origins(rev', releases')
       /\ DOMAIN releases \subseteq DOMAIN releases'
       /\ \A k \in DOMAIN releases : releases'[k] = releases[k]
  BY <1>1, <1>2, <1>5, <1>6, <1>9, AddChild
<1>11. MayHold(rev', releases', u, n)
  <2>1. \A x \in child.content : \/ rev'[x].by = u \/ InRelease(rev, releases, x)
                                 \/ x \in DOMAIN rev /\ rev[x].by = u
    BY <1>4, <1>8
  <2>2. \A p \in child.parents : MayHold(rev, releases, u, p)
    BY <1>3, <1>4
  <2> QED
    BY <1>1, <1>2, <1>5, <1>10, <2>1, <2>2, ChildMayHold
<1>12. SkillTypes'
  <2>1. /\ releases \in Seq(1..Len(rev'))
        /\ draft \in [Maintainers -> (1..Len(rev')) \cup {None}]
        /\ conflict \in [Maintainers -> SUBSET (1..Len(rev'))]
    BY <1>1, <1>3, <1>10, WiderTypes
  <2>2. draft' \in [Maintainers -> (1..Len(rev')) \cup {None}]
    BY <1>2, <1>10, <2>1
  <2> QED
    BY <1>2, <1>3, <1>10, <2>1, <2>2 DEF SkillTypes
<1>13. \A v \in Maintainers : Private(v)'
  <2>1. ASSUME NEW v \in Maintainers PROVE Private(v)'
    <3>1. draft'[v] \in {draft[v], None} \/ MayHold(rev', releases', v, draft'[v])
      BY <1>2, <1>3, <1>11 DEF SkillTypes
    <3> QED
      BY <1>2, <1>10, <3>1, StillPrivate
  <2> QED
    BY <2>1
<1>14. draft[u] \in Reach(rev', draft'[u])
  <2>1. h \in Reach(rev', n) /\ draft'[u] = n
    BY <1>2, <1>3, <1>4, <1>10, NewReach DEF SkillTypes
  <2> QED
    BY <1>1, <2>1
<1> QED
  BY <1>10, <1>12, <1>13, <1>14 DEF SkillInv

\* A release more, a revision that is there.
LEMMA AddRelease ==
  ASSUME SkillInv, NEW i \in DOMAIN rev, rev' = rev, releases' = Append(releases, i),
         releases # <<>> =>
            releases[Len(releases)] \in Reach(rev, i) /\ releases[Len(releases)] # i
  PROVE  /\ Grows(rev, rev') /\ DOMAIN rev' = 1..Len(rev') /\ Past(rev')
         /\ DOMAIN releases \subseteq DOMAIN releases'
         /\ \A k \in DOMAIN releases : releases'[k] = releases[k]
         /\ releases' \in Seq(1..Len(rev'))
         /\ Line(rev', releases') /\ Origins(rev', releases')
<1>1. /\ SkillTypes /\ Past(rev) /\ Line(rev, releases) /\ Origins(rev, releases)
      /\ Len(rev) \in Nat /\ DOMAIN rev = 1..Len(rev) /\ releases \in Seq(DOMAIN rev)
      /\ \A k \in DOMAIN rev : rev[k].parents \subseteq DOMAIN rev /\ rev[k].content \subseteq DOMAIN rev
      /\ \A k \in DOMAIN releases : releases[k] \in DOMAIN rev
      /\ Len(releases) \in Nat /\ DOMAIN releases = 1..Len(releases)
  BY SkillFacts DEF SkillInv
<1>2. PICK m : m = Len(releases)
  OBVIOUS
<1>3. /\ releases' \in Seq(DOMAIN rev) /\ Len(releases') = m + 1 /\ DOMAIN releases' = 1..(m + 1)
      /\ \A k \in DOMAIN releases : releases'[k] = releases[k]
      /\ releases'[m + 1] = i /\ DOMAIN releases \subseteq DOMAIN releases'
  BY <1>1, <1>2, AppendProperties
<1>4. Grows(rev, rev')
  BY <1>1 DEF Grows
<1>5. m + 1 <= i /\ (m + 1 > 1 => releases[m] \in Reach(rev, i))
  <2>1. CASE m = 0
    BY <1>1, <2>1
  <2>2. CASE m # 0
    <3>1. m \in DOMAIN releases /\ releases # <<>>
      BY <1>1, <1>2, <2>2, EmptySeq
    <3>2. m <= releases[m] /\ releases[m] \in 1..i /\ releases[m] # i
      BY <1>1, <1>2, <3>1, ReachBefore DEF Line
    <3> QED
      BY <1>1, <1>2, <3>1, <3>2
  <2> QED
    BY <2>1, <2>2
<1>6. Line(rev', releases')
  <2>1. ASSUME NEW k \in DOMAIN releases'
        PROVE  k <= releases'[k] /\ (k > 1 => releases'[k - 1] \in Reach(rev, releases'[k]))
    <3>1. CASE k = m + 1
      <4>0. m \in Nat /\ (m > 0 => m \in DOMAIN releases)
        BY <1>1, <1>2
      <4>1. m > 0 => releases'[m] = releases[m]
        BY <1>3, <4>0
      <4>2. k - 1 = m /\ (k > 1 => m > 0) /\ releases'[k] = i
        BY <1>3, <3>1, <4>0
      <4> QED
        BY <1>5, <3>1, <4>0, <4>1, <4>2
    <3>2. CASE k # m + 1
      <4>1. k \in DOMAIN releases /\ k \in Nat /\ (k > 1 => k - 1 \in DOMAIN releases)
        BY <1>1, <1>2, <1>3, <2>1, <3>2
      <4> QED
        BY <1>1, <1>3, <4>1 DEF Line
    <3> QED
      BY <3>1, <3>2
  <2> QED
    BY <2>1 DEF Line
<1>7. Origins(rev', releases')
  <2>1. \A c : InRelease(rev, releases, c) => InRelease(rev', releases', c)
    BY <1>1, <1>3, <1>4, StillMayHold
  <2> QED
    BY <1>1, <2>1 DEF Origins
<1> QED
  BY <1>1, <1>3, <1>4, <1>6, <1>7

LEMMA PublishStep ==
  ASSUME SkillInv, NEW u \in Maintainers, NEW pub \in BOOLEAN, TS!Publish(u, pub)
  PROVE  SkillInv'
<1>1. /\ draft[u] # None /\ TS!FastForward(u) /\ public' = (public \/ pub)
      /\ UNCHANGED <<slug, rev, draft, conflict, maintains, request>> /\ SkillTypes
      /\ \/ releases' = releases
         \/ /\ ~ (releases # <<>> /\ releases[Len(releases)] = draft[u])
            /\ releases' = Append(releases, draft[u])
  BY DEF TS!Publish, TS!Latest, SkillInv
<1>2. public' \in BOOLEAN
  BY <1>1, Zenon DEF SkillTypes
<1>3. CASE releases' = releases
  <2>1. SkillTypes'
    BY <1>1, <1>2, <1>3 DEF SkillTypes
  <2>2. \A v \in Maintainers : Private(v)'
    BY <1>1, <1>3, SameHistory, StillPrivate
  <2> QED
    BY <1>1, <1>3, <2>1, <2>2, SameHistory DEF SkillInv
<1>4. CASE /\ ~ (releases # <<>> /\ releases[Len(releases)] = draft[u])
           /\ releases' = Append(releases, draft[u])
  <2>1. draft[u] \in DOMAIN rev
    BY <1>1, SkillFacts DEF SkillInv, SkillTypes
  <2>2. releases # <<>> => releases[Len(releases)] \in Reach(rev, draft[u])
    BY <1>1, WalkReach DEF TS!FastForward, TS!Latest
  <2>3. /\ Grows(rev, rev') /\ DOMAIN rev' = 1..Len(rev') /\ Past(rev')
        /\ DOMAIN releases \subseteq DOMAIN releases'
        /\ \A k \in DOMAIN releases : releases'[k] = releases[k]
        /\ releases' \in Seq(1..Len(rev'))
        /\ Line(rev', releases') /\ Origins(rev', releases')
    BY <1>1, <1>4, <2>1, <2>2, AddRelease
  <2>4. SkillTypes'
    BY <1>1, <1>2, <2>3 DEF SkillTypes
  <2>5. \A v \in Maintainers : Private(v)'
    BY <1>1, <2>3, StillPrivate
  <2> QED
    BY <2>3, <2>4, <2>5 DEF SkillInv
<1> QED
  BY <1>1, <1>3, <1>4

LEMMA PublishBehindStep ==
  ASSUME SkillInv, NEW u \in Maintainers, TS!PublishBehind(u)
  PROVE  SkillInv'
<1>1. /\ draft[u] # None /\ releases # <<>>
      /\ UNCHANGED <<slug, public, releases, rev, draft, maintains, request>> /\ SkillTypes
      /\ \/ conflict' = [conflict EXCEPT ![u] = conflict[u]]
         \/ conflict' = [conflict EXCEPT ![u] = {releases[Len(releases)], draft[u]}]
  <2>1. releases # <<>>
    BY DEF TS!PublishBehind, TS!FastForward
  <2> QED
    BY <2>1 DEF TS!PublishBehind, TS!Latest, SkillInv
<1>2. Len(releases) \in DOMAIN releases
  BY <1>1, SkillFacts, EmptySeq DEF SkillInv
<1>3. /\ draft[u] \in 1..Len(rev) /\ MayHold(rev, releases, u, draft[u])
      /\ releases[Len(releases)] \in 1..Len(rev) /\ MayHold(rev, releases, u, releases[Len(releases)])
  <2>1. draft[u] \in 1..Len(rev) /\ MayHold(rev, releases, u, draft[u])
    BY <1>1 DEF SkillInv, SkillTypes, Private
  <2>2. releases[Len(releases)] \in 1..Len(rev)
    BY <1>2, SkillFacts DEF SkillInv
  <2> QED
    BY <1>2, <2>1, <2>2, ReleaseMayHold
<1>4. SkillTypes'
  BY <1>1, <1>3 DEF SkillTypes
<1>5. \A v \in Maintainers : Private(v)'
  <2>1. ASSUME NEW v \in Maintainers PROVE Private(v)'
    <3>1. \A i \in conflict'[v] : i \in conflict[v] \/ MayHold(rev', releases', v, i)
      BY <1>1, <1>3 DEF SkillTypes
    <3> QED
      BY <1>1, <3>1, SameHistory, StillPrivate
  <2> QED
    BY <2>1
<1> QED
  BY <1>1, <1>4, <1>5, SameHistory DEF SkillInv

LEMMA RenameReadStep ==
  ASSUME SkillInv, NEW u \in Maintainers, NEW new \in Titles, TS!RenameRead(u, new)
  PROVE  SkillInv'
<1>1. PICK j : j = [kind |-> "rename", head |-> draft, name |-> slug, new |-> new, count |-> Len(releases)]
  OBVIOUS
<1>2. /\ request' = [request EXCEPT ![u] = j] /\ j.kind = "rename"
      /\ UNCHANGED <<slug, public, releases, rev, draft, conflict, maintains>> /\ SkillTypes /\ Past(rev)
  BY <1>1 DEF TS!RenameRead, SkillInv
<1>3. Len(releases) \in 0..MaxRevs
  <2>1. /\ Len(releases) \in Nat /\ Len(rev) \in Nat /\ MaxRevs \in Nat
        /\ DOMAIN releases = 1..Len(releases) /\ DOMAIN rev = 1..Len(rev) /\ Len(rev) <= MaxRevs
        /\ \A k \in DOMAIN releases : releases[k] \in DOMAIN rev /\ k <= releases[k]
    BY <1>2, SkillFacts DEF SkillInv, SkillTypes, Line
  <2> QED
    BY <2>1
<1>4. draft \in [Maintainers -> TS!Revs \cup {None}]
  BY <1>2, SkillFacts DEF SkillTypes
<1>5. j \in TS!Jobs
  BY <1>1, <1>2, <1>3, <1>4 DEF TS!Jobs, SkillTypes
<1>6. SkillTypes'
  BY <1>2, <1>5 DEF SkillTypes
<1>7. \A v \in Maintainers : Private(v)'
  <2>1. ASSUME NEW v \in Maintainers PROVE Private(v)'
    <3>1. request'[v] \in {request[v], None} \/ request'[v].kind = "rename"
      BY <1>2 DEF SkillTypes
    <3> QED
      BY <1>2, <3>1, SameHistory, StillPrivate
  <2> QED
    BY <2>1
<1> QED
  BY <1>2, <1>6, <1>7, SameHistory DEF SkillInv

LEMMA AbortStep ==
  ASSUME SkillInv, NEW u \in Maintainers, TS!Abort(u)
  PROVE  SkillInv'
<1>1. /\ request' = [request EXCEPT ![u] = None]
      /\ UNCHANGED <<slug, public, releases, rev, draft, conflict, maintains>> /\ SkillTypes
  BY DEF TS!Abort, SkillInv
<1>2. SkillTypes'
  BY <1>1 DEF SkillTypes
<1>3. \A v \in Maintainers : request'[v] \in {request[v], None}
  BY <1>1 DEF SkillTypes
<1>4. \A v \in Maintainers : Private(v)'
  BY <1>1, <1>3, SameHistory, StillPrivate
<1> QED
  BY <1>1, <1>2, <1>4, SameHistory DEF SkillInv

LEMMA ChangeMaintainerStep ==
  ASSUME SkillInv, NEW u \in Maintainers, TS!ChangeMaintainer(u)
  PROVE  SkillInv'
<1>1. /\ maintains' = IF u \in maintains THEN maintains \ {u} ELSE maintains \cup {u}
      /\ draft' = [draft EXCEPT ![u] = None] /\ conflict' = [conflict EXCEPT ![u] = {}]
      /\ UNCHANGED <<slug, public, releases, rev, request>> /\ SkillTypes
  BY DEF TS!ChangeMaintainer, SkillInv
<1>2. SkillTypes'
  BY <1>1 DEF SkillTypes
<1>3. \A v \in Maintainers : draft'[v] \in {draft[v], None} /\ conflict'[v] \subseteq conflict[v]
  BY <1>1 DEF SkillTypes
<1>4. \A v \in Maintainers : Private(v)'
  BY <1>1, <1>3, SameHistory, StillPrivate
<1> QED
  BY <1>1, <1>2, <1>4, SameHistory DEF SkillInv

LEMMA ListedFacts ==
  ASSUME NEW S, NEW m \in Nat, S \subseteq 1..m, m <= MaxRevs, MaxRevs \in Nat
  PROVE  \E n \in 0..MaxRevs : /\ TS!Listed(S) \in [1..n -> S]
                               /\ \A x \in S : \E k \in 1..n : TS!Listed(S)[k] = x
<1>1. IsFiniteSet(1..m) /\ Cardinality(1..m) = m
  BY FS_Interval
<1>2. IsFiniteSet(S) /\ Cardinality(S) <= m
  BY <1>1, FS_Subset
<1>3. PICK n : n = Cardinality(S)
  OBVIOUS
<1>4. n \in 0..MaxRevs /\ \E f : f \in Bijection(1..n, S)
  BY <1>2, <1>3, FS_CardinalityType DEF ExistsBijection
<1>5. PICK f : f \in Bijection(1..n, S)
  BY <1>4
<1>6. /\ f \in [1..n -> S] /\ \A x \in S : \E k \in 1..n : f[k] = x
      /\ \A k, l \in 1..n : f[k] = f[l] => k = l
  BY <1>5 DEF Bijection, Injection, Surjection, IsInjective
<1>7. f \in TS!Lists(S)
  BY <1>4, <1>6 DEF TS!Lists
<1>8. TS!Listed(S) \in TS!Lists(S)
  BY <1>7, Zenon DEF TS!Listed
<1>9. PICK g : g = TS!Listed(S)
  OBVIOUS
<1>10. PICK q \in 0..MaxRevs : g \in [1..q -> S]
  BY <1>8, <1>9 DEF TS!Lists
<1>11. \A x \in S : \E k \in 1..q : g[k] = x
  BY <1>8, <1>9, <1>10 DEF TS!Lists
<1> QED
  BY <1>9, <1>10, <1>11

\* Every draft and the latest release move to a renamed child of what they were.
LEMMA RenameCommitStep ==
  ASSUME SkillInv, NEW u \in Maintainers, TS!RenameCommit(u)
  PROVE  /\ SkillInv'
         /\ \A v \in Maintainers : draft[v] # None => draft[v] \in Reach(rev', draft'[v])
<1> DEFINE j == request[u]
           old == {j.head[v] : v \in {w \in Maintainers : j.head[w] # None}}
                    \cup (IF releases = <<>> THEN {} ELSE {releases[Len(releases)]})
           order == TS!Listed(old)
           add == [k \in DOMAIN order |-> [parents |-> {order[k]}, name |-> j.new, by |-> u,
                                           content |-> rev[order[k]].content]]
           To(x) == Len(rev) + CHOOSE k \in DOMAIN order : order[k] = x
<1>1. /\ j = request[u]
      /\ old = {j.head[v] : v \in {w \in Maintainers : j.head[w] # None}}
                 \cup (IF releases = <<>> THEN {} ELSE {releases[Len(releases)]})
  OBVIOUS
<1>1a. order = TS!Listed(old)
  OBVIOUS
<1>1b. add = [k \in DOMAIN order |-> [parents |-> {order[k]}, name |-> j.new, by |-> u,
                                     content |-> rev[order[k]].content]]
  OBVIOUS
<1>1c. \A x : To(x) = Len(rev) + CHOOSE k \in DOMAIN order : order[k] = x
  OBVIOUS
<1>2. /\ j # None /\ j.kind = "rename" /\ j.head = draft
      /\ \A v \in Maintainers : conflict[v] = {}
      /\ Len(rev) + Len(order) <= MaxRevs
      /\ rev' = rev \o add
      /\ draft' = [v \in Maintainers |-> IF j.head[v] = None THEN draft[v] ELSE To(j.head[v])]
      /\ releases' = IF releases = <<>> THEN releases
                     ELSE Append(releases, To(releases[Len(releases)]))
      /\ slug' = j.new /\ request' = [request EXCEPT ![u] = None]
      /\ UNCHANGED <<public, conflict, maintains>>
  <2>1. /\ j # None /\ j.kind = "rename" /\ j.head = draft
        /\ \A v \in Maintainers : conflict[v] = {}
        /\ Len(rev) + Len(order) <= MaxRevs
    BY Zenon DEF TS!RenameCommit, TS!Room, TS!Latest, TS!WorkspacesUnchanged
  <2>2. rev' = rev \o add
    BY Zenon DEF TS!RenameCommit, TS!Child, TS!Latest
  <2>3. draft' = [v \in Maintainers |-> IF j.head[v] = None THEN draft[v] ELSE To(j.head[v])]
    BY Zenon DEF TS!RenameCommit, TS!Latest
  <2>4. releases' = IF releases = <<>> THEN releases
                    ELSE Append(releases, To(releases[Len(releases)]))
    BY Zenon DEF TS!RenameCommit, TS!Latest
  <2>5. /\ slug' = j.new /\ request' = [request EXCEPT ![u] = None]
        /\ UNCHANGED <<public, conflict, maintains>>
    BY Zenon DEF TS!RenameCommit
  <2> QED
    BY <2>1, <2>2, <2>3, <2>4, <2>5
<1> HIDE DEF j, old, order, add, To
<1>3. /\ SkillTypes /\ Past(rev) /\ Line(rev, releases) /\ Origins(rev, releases)
      /\ Len(rev) \in Nat /\ DOMAIN rev = 1..Len(rev) /\ releases \in Seq(DOMAIN rev)
      /\ \A k \in DOMAIN rev : /\ rev[k].parents \subseteq DOMAIN rev /\ rev[k].content \subseteq DOMAIN rev
                               /\ rev[k].content \subseteq TS!Revs
      /\ \A k \in DOMAIN releases : releases[k] \in DOMAIN rev
      /\ Len(releases) \in Nat /\ DOMAIN releases = 1..Len(releases) /\ DOMAIN rev \subseteq TS!Revs
      /\ MaxRevs \in Nat
  BY SkillFacts DEF SkillInv
<1>4. releases # <<>> => Len(releases) \in DOMAIN releases
  BY <1>3, EmptySeq
<1>5. \A v \in Maintainers : draft[v] # None => draft[v] \in DOMAIN rev /\ draft[v] \in old
  BY <1>1, <1>2, <1>3 DEF SkillTypes
<1>6. old \subseteq DOMAIN rev
  BY <1>1, <1>2, <1>3, <1>4, <1>5
<1>7. Len(rev) <= MaxRevs
  BY <1>3 DEF SkillTypes
<1>8. PICK c \in 0..MaxRevs : /\ order \in [1..c -> old]
                              /\ \A x \in old : \E k \in 1..c : order[k] = x
  <2>1. old \subseteq 1..Len(rev)
    BY <1>3, <1>6
  <2>2. Len(rev) \in Nat /\ MaxRevs \in Nat
    BY <1>3
  <2>3. \E n \in 0..MaxRevs : /\ TS!Listed(old) \in [1..n -> old]
                              /\ \A x \in old : \E k \in 1..n : TS!Listed(old)[k] = x
    BY <1>7, <2>1, <2>2, ListedFacts
  <2> QED
    BY <1>1a, <2>3
<1>9. /\ c \in Nat /\ order \in [1..c -> old] /\ DOMAIN order = 1..c /\ Len(order) = c
      /\ \A x \in old : \E k \in 1..c : order[k] = x
  <2>1. order \in Seq(old)
    BY <1>8
  <2> QED
    BY <1>3, <1>8, <2>1
<1>10. \A x \in old : \E m \in 1..c : To(x) = Len(rev) + m /\ order[m] = x
  <2>1. ASSUME NEW x \in old PROVE \E m \in 1..c : To(x) = Len(rev) + m /\ order[m] = x
    <3>1. \E k \in DOMAIN order : order[k] = x
      BY <1>9
    <3> QED
      BY <1>1c, <1>9, <3>1
  <2> QED
    BY <2>1
<1>11. j.new \in Titles
  BY <1>1, <1>2, <1>3 DEF SkillTypes, TS!Jobs
<1>12. /\ add \in Seq(TS!RevRows) /\ Len(add) = c
       /\ \A k \in 1..c : /\ add[k].parents = {order[k]} /\ add[k].content = rev[order[k]].content
  <2>1. ASSUME NEW k \in 1..c
        PROVE  /\ add[k] \in TS!RevRows
               /\ add[k].parents = {order[k]} /\ add[k].content = rev[order[k]].content
    <3>1. order[k] \in DOMAIN rev /\ order[k] \in TS!Revs
      BY <1>3, <1>6, <1>9, <2>1
    <3>2. add[k] = [parents |-> {order[k]}, name |-> j.new, by |-> u, content |-> rev[order[k]].content]
      BY <1>1b, <1>9, <2>1
    <3> QED
      BY <1>3, <1>11, <3>1, <3>2 DEF TS!RevRows
  <2>2. add \in [1..c -> TS!RevRows]
    BY <1>1b, <1>9, <2>1
  <2> QED
    BY <1>9, <2>1, <2>2
<1>13. /\ rev' \in Seq(TS!RevRows) /\ Len(rev') = Len(rev) + c /\ DOMAIN rev' = 1..(Len(rev) + c)
       /\ \A k \in 1..(Len(rev) + c) : rev'[k] = IF k <= Len(rev) THEN rev[k] ELSE add[k - Len(rev)]
  <2>1. rev \in Seq(TS!RevRows)
    BY <1>3 DEF SkillTypes
  <2>2. /\ rev \o add \in Seq(TS!RevRows) /\ Len(rev \o add) = Len(rev) + c
        /\ \A k \in 1..(Len(rev) + c) : (rev \o add)[k] = IF k <= Len(rev) THEN rev[k] ELSE add[k - Len(rev)]
    <3>1. Len(add) = c /\ add \in Seq(TS!RevRows)
      BY <1>12
    <3>2. /\ rev \o add \in Seq(TS!RevRows) /\ Len(rev \o add) = Len(rev) + Len(add)
          /\ \A k \in 1..(Len(rev) + Len(add)) :
               (rev \o add)[k] = IF k <= Len(rev) THEN rev[k] ELSE add[k - Len(rev)]
      BY <2>1, <3>1, ConcatProperties
    <3> QED
      BY <3>1, <3>2
  <2>3. rev' \in Seq(TS!RevRows) /\ Len(rev') = Len(rev) + c
    BY <1>2, <2>2
  <2> QED
    BY <1>2, <2>2, <2>3
<1>14. /\ \A k \in DOMAIN rev : rev'[k] = rev[k]
       /\ DOMAIN rev \subseteq DOMAIN rev' /\ Len(rev') <= MaxRevs /\ Len(rev') \in Nat
       /\ \A n \in DOMAIN rev' \ DOMAIN rev :
            \E k \in 1..c : n = Len(rev) + k /\ rev'[n] = add[k]
  <2>1. ASSUME NEW n \in DOMAIN rev' \ DOMAIN rev
        PROVE  \E k \in 1..c : n = Len(rev) + k /\ rev'[n] = add[k]
    <3>1. n \in Nat /\ n > Len(rev) /\ n <= Len(rev) + c
      BY <1>3, <1>9, <1>13
    <3>2. n - Len(rev) \in 1..c /\ n = Len(rev) + (n - Len(rev)) /\ rev'[n] = add[n - Len(rev)]
      <4>1. n - Len(rev) \in 1..c /\ n = Len(rev) + (n - Len(rev)) /\ ~ (n <= Len(rev))
        BY <1>3, <1>9, <3>1
      <4> QED
        BY <1>13, <2>1, <4>1
    <3> QED
      BY <3>2
  <2>2. /\ \A k \in DOMAIN rev : rev'[k] = rev[k]
        /\ DOMAIN rev \subseteq DOMAIN rev'
    BY <1>3, <1>9, <1>13
  <2>3. Len(rev') <= MaxRevs /\ Len(rev') \in Nat
    BY <1>2, <1>3, <1>9, <1>13
  <2> QED
    BY <2>1, <2>2, <2>3
<1>15. \A m \in 1..c : /\ Len(rev) + m \in DOMAIN rev' \ DOMAIN rev /\ rev'[Len(rev) + m] = add[m]
  <2>1. ASSUME NEW m \in 1..c
        PROVE  /\ Len(rev) + m \in 1..(Len(rev) + c) /\ Len(rev) + m \notin 1..Len(rev)
               /\ ~ (Len(rev) + m <= Len(rev)) /\ (Len(rev) + m) - Len(rev) = m
    BY <1>3, <1>9
  <2> QED
    BY <1>3, <1>13, <2>1
<1>16. Grows(rev, rev')
  <2>1. ASSUME NEW n \in DOMAIN rev' \ DOMAIN rev PROVE rev'[n].parents \subseteq DOMAIN rev
    <3>1. PICK k \in 1..c : rev'[n] = add[k]
      BY <1>14
    <3>2. add[k].parents = {order[k]} /\ order[k] \in DOMAIN rev
      BY <1>6, <1>9, <1>12
    <3> QED
      BY <3>1, <3>2
  <2> QED
    BY <1>3, <1>14, <2>1 DEF Grows
<1>17. Past(rev')
  <2>1. ASSUME NEW n \in DOMAIN rev'
        PROVE  rev'[n].parents \subseteq 1..(n - 1) /\ rev'[n].content \subseteq 1..n
    <3>1. CASE n \in DOMAIN rev
      BY <1>3, <1>14, <3>1 DEF Past
    <3>2. CASE n \notin DOMAIN rev
      <4>1. PICK k \in 1..c : n = Len(rev) + k /\ rev'[n] = add[k]
        BY <1>14, <2>1, <3>2
      <4>2. order[k] \in DOMAIN rev
        BY <1>6, <1>9
      <4>3. rev'[n].parents \subseteq DOMAIN rev /\ rev'[n].content \subseteq DOMAIN rev
        <5>1. add[k].parents = {order[k]} /\ add[k].content = rev[order[k]].content
          BY <1>12
        <5> QED
          BY <1>3, <4>1, <4>2, <5>1
      <4>4. DOMAIN rev \subseteq 1..(n - 1) /\ DOMAIN rev \subseteq 1..n
        BY <1>3, <1>9, <4>1
      <4> QED
        BY <4>3, <4>4
    <3> QED
      BY <3>1, <3>2
  <2> QED
    BY <2>1 DEF Past
<1>18. ASSUME NEW x \in old
       PROVE  /\ To(x) \in DOMAIN rev' \ DOMAIN rev /\ rev'[To(x)].parents = {x}
              /\ rev'[To(x)].content = rev[x].content /\ x \in Reach(rev', To(x))
  <2>1. PICK m \in 1..c : To(x) = Len(rev) + m /\ order[m] = x
    BY <1>10
  <2>2. /\ To(x) \in DOMAIN rev' \ DOMAIN rev /\ rev'[To(x)].parents = {x}
        /\ rev'[To(x)].content = rev[x].content
    BY <1>12, <1>15, <2>1
  <2> QED
    BY <1>16, <2>2, NewReach
<1>19. /\ DOMAIN releases \subseteq DOMAIN releases'
       /\ \A k \in DOMAIN releases : releases'[k] = releases[k]
       /\ releases' \in Seq(DOMAIN rev') /\ Line(rev', releases')
  <2>0. /\ releases \in Seq(DOMAIN rev')
        /\ \A k \in DOMAIN releases : Reach(rev', releases[k]) = Reach(rev, releases[k])
    <3>1. \A k \in DOMAIN releases : Reach(rev', releases[k]) = Reach(rev, releases[k])
      BY <1>3, <1>16, OldReach
    <3>2. releases \in Seq(DOMAIN rev')
      BY <1>3, <1>14
    <3> QED
      BY <3>1, <3>2
  <2>1. CASE releases = <<>>
    BY <1>2, <1>3, <2>0, <2>1 DEF Line
  <2>2. CASE releases # <<>>
    <3>1. PICK m, x : m = Len(releases) /\ x = releases[m]
      OBVIOUS
    <3>2. /\ m \in DOMAIN releases /\ m \in Nat /\ x \in old /\ x \in DOMAIN rev /\ m <= x
      BY <1>1, <1>3, <1>4, <2>2, <3>1 DEF Line
    <3>3. To(x) \in DOMAIN rev' /\ To(x) > Len(rev) /\ x \in Reach(rev', To(x))
      BY <1>3, <1>13, <1>14, <1>18, <3>2
    <3>4. /\ releases' \in Seq(DOMAIN rev') /\ Len(releases') = m + 1 /\ DOMAIN releases' = 1..(m + 1)
          /\ \A k \in DOMAIN releases : releases'[k] = releases[k]
          /\ releases'[m + 1] = To(x) /\ DOMAIN releases \subseteq DOMAIN releases'
      BY <1>2, <1>3, <2>0, <2>2, <3>1, <3>3, AppendProperties
    <3>5. m + 1 <= To(x)
      BY <1>3, <1>13, <3>2, <3>3
    <3>6. ASSUME NEW k \in DOMAIN releases'
          PROVE  k <= releases'[k] /\ (k > 1 => releases'[k - 1] \in Reach(rev', releases'[k]))
      <4>1. CASE k = m + 1
        <5>1. k - 1 = m /\ releases'[m] = x
          BY <3>1, <3>2, <3>4, <4>1
        <5> QED
          BY <3>3, <3>4, <3>5, <4>1, <5>1
      <4>2. CASE k # m + 1
        <5>1. k \in DOMAIN releases /\ k \in Nat /\ (k > 1 => k - 1 \in DOMAIN releases)
          BY <1>3, <3>1, <3>2, <3>4, <3>6, <4>2
        <5>2. k <= releases[k] /\ (k > 1 => releases[k - 1] \in Reach(rev, releases[k]))
          BY <1>3, <5>1 DEF Line
        <5> QED
          BY <2>0, <3>4, <5>1, <5>2
      <4> QED
        BY <4>1, <4>2
    <3>7. Line(rev', releases')
      BY <3>6 DEF Line
    <3> QED
      BY <3>4, <3>7
  <2> QED
    BY <2>1, <2>2
<1>20. /\ \A x : InRelease(rev, releases, x) => InRelease(rev', releases', x)
       /\ \A v : \A i \in DOMAIN rev : MayHold(rev, releases, v, i) => MayHold(rev', releases', v, i)
  BY <1>3, <1>16, <1>19, StillMayHold
<1>21. Origins(rev', releases')
  <2>1. ASSUME NEW i \in DOMAIN rev', NEW x \in rev'[i].content
        PROVE  x \in Reach(rev', i) \/ InRelease(rev', releases', x)
    <3>1. CASE i \in DOMAIN rev
      <4>1. rev'[i] = rev[i] /\ Reach(rev', i) = Reach(rev, i)
        BY <1>14, <1>16, <3>1, OldReach
      <4> QED
        BY <1>3, <1>20, <2>1, <3>1, <4>1 DEF Origins
    <3>2. CASE i \notin DOMAIN rev
      <4>1. PICK k \in 1..c : i = Len(rev) + k /\ rev'[i] = add[k]
        BY <1>14, <2>1, <3>2
      <4>2. /\ order[k] \in DOMAIN rev /\ rev'[i].parents = {order[k]} /\ x \in rev[order[k]].content
        BY <1>6, <1>9, <1>12, <2>1, <4>1
      <4>3. x \in Reach(rev, order[k]) \/ InRelease(rev, releases, x)
        BY <1>3, <4>2 DEF Origins
      <4>4. Reach(rev, order[k]) \subseteq Reach(rev', i)
        BY <1>16, <2>1, <3>2, <4>2, NewReach
      <4> QED
        BY <1>20, <4>3, <4>4
    <3> QED
      BY <3>1, <3>2
  <2> QED
    BY <2>1 DEF Origins
<1>22. \A v \in Maintainers : IF draft[v] = None THEN draft'[v] = None ELSE draft'[v] = To(draft[v])
  BY <1>2
<1>23. SkillTypes'
  <2>1. \A v \in Maintainers : draft'[v] \in 1..Len(rev') \cup {None}
    BY <1>5, <1>13, <1>18, <1>22
  <2>2. draft' \in [Maintainers -> 1..Len(rev') \cup {None}]
    BY <1>2, <2>1
  <2>3. conflict' \in [Maintainers -> SUBSET (1..Len(rev'))] /\ releases' \in Seq(1..Len(rev'))
    BY <1>2, <1>3, <1>9, <1>13, <1>14, <1>19, WiderTypes
  <2>4. request' \in [Maintainers -> TS!Jobs \cup {None}]
    BY <1>2, <1>3 DEF SkillTypes
  <2> QED
    BY <1>2, <1>3, <1>11, <1>13, <1>14, <2>2, <2>3, <2>4 DEF SkillTypes
<1>24. ASSUME NEW v \in Maintainers PROVE Private(v)'
  <2>1. draft'[v] \in {draft[v], None} \/ MayHold(rev', releases', v, draft'[v])
    <3>1. CASE draft[v] = None
      BY <1>22, <3>1
    <3>2. CASE draft[v] # None
      <4>1. PICK x, n : x = draft[v] /\ n = To(x)
        OBVIOUS
      <4>2. /\ x \in DOMAIN rev /\ x \in old /\ MayHold(rev, releases, v, x) /\ draft'[v] = n
        BY <1>5, <1>22, <3>2, <4>1 DEF SkillInv, Private
      <4>3. /\ n \in DOMAIN rev' \ DOMAIN rev /\ rev'[n].parents = {x} /\ rev'[n].content = rev[x].content
        BY <1>18, <4>1, <4>2
      <4>4. \A y \in rev'[n].content : rev'[y].by = v \/ InRelease(rev', releases', y)
        <5>1. \A y \in rev[x].content : rev[y].by = v \/ InRelease(rev, releases, y)
          BY <4>2, ReachSelf DEF MayHold
        <5>2. \A y \in rev[x].content : rev'[y] = rev[y]
          BY <1>3, <1>14, <4>2
        <5> QED
          BY <1>20, <4>3, <5>1, <5>2
      <4>5. \A p \in rev'[n].parents : MayHold(rev, releases, v, p)
        BY <4>2, <4>3
      <4>6. MayHold(rev', releases', v, n)
        BY <1>3, <1>16, <1>19, <4>3, <4>4, <4>5, NewMayHold
      <4> QED
        BY <4>2, <4>6
    <3> QED
      BY <3>1, <3>2
  <2>2. conflict'[v] = conflict[v] /\ request'[v] \in {request[v], None}
    BY <1>2, <1>3 DEF SkillTypes
  <2>3. DOMAIN rev' = 1..Len(rev')
    BY <1>13
  <2> QED
    BY <1>16, <1>19, <2>1, <2>2, <2>3, StillPrivate
<1>25. \A v \in Maintainers : draft[v] # None => draft[v] \in Reach(rev', draft'[v])
  BY <1>5, <1>18, <1>22
<1> QED
  BY <1>17, <1>19, <1>21, <1>23, <1>24, <1>25 DEF SkillInv

LEMMA SkillKept ==
  ASSUME SkillInv, TS!Next \/ UNCHANGED skillVars
  PROVE  SkillInv'
<1>1. CASE UNCHANGED skillVars
  <2>1. SkillTypes'
    BY <1>1 DEF skillVars, SkillInv, SkillTypes
  <2>2. \A v \in Maintainers : Private(v)'
    BY <1>1, SameHistory, StillPrivate DEF skillVars
  <2> QED
    BY <1>1, <2>1, <2>2, SameHistory DEF skillVars, SkillInv
<1>2. CASE TS!Next
  BY <1>2, ProvisionStartStep, ProvisionCommitStep, SaveReadStep, SaveCommitStep, MergeStep,
     RestoreStep, PublishStep, PublishBehindStep, RenameReadStep, RenameCommitStep, AbortStep,
     ChangeMaintainerStep DEF TS!Next
<1> QED
  BY <1>1, <1>2

LEMMA SkillInvSafe ==
  ASSUME SkillInv
  PROVE  TS!TypeOK /\ TS!ReleasesDescend /\ TS!DraftsArePrivate
<1>1. TS!TypeOK
  BY SkillFacts DEF SkillInv, SkillTypes, TS!TypeOK
<1>2. TS!ReleasesDescend
  BY WalkReach DEF SkillInv, Line, TS!ReleasesDescend
<1>3. TS!DraftsArePrivate
  <2>1. ASSUME NEW u \in Maintainers, draft[u] # None, NEW i \in rev[draft[u]].content
        PROVE  rev[i].by = u \/ \E k \in DOMAIN releases : i \in TS!Anc(releases[k])
    <3>1. draft[u] \in Reach(rev, draft[u]) /\ MayHold(rev, releases, u, draft[u])
      BY <2>1, SkillFacts, ReachSelf DEF SkillInv, SkillTypes, Private
    <3>2. rev[i].by = u \/ InRelease(rev, releases, i)
      BY <2>1, <3>1 DEF MayHold
    <3> QED
      BY <3>2, WalkReach DEF InRelease
  <2> QED
    BY <2>1 DEF TS!DraftsArePrivate
<1> QED
  BY <1>1, <1>2, <1>3

\* A step moves a draft only to a descendant of what it was, or takes it away.
LEMMA DraftStep ==
  ASSUME SkillInv, TS!Next, NEW v \in Maintainers, draft[v] # None, draft'[v] # None
  PROVE  draft[v] \in Reach(rev', draft'[v])
<1>1. SkillInv' /\ SkillTypes
  BY SkillKept DEF SkillInv
<1>2. draft'[v] \in DOMAIN rev'
  BY <1>1 DEF SkillInv, SkillTypes
<1>3. draft'[v] = draft[v] => draft[v] \in Reach(rev', draft'[v])
  BY <1>2, ReachSelf
<1>4. CASE \E u \in Maintainers : TS!SaveCommit(u)
  <2>1. PICK u \in Maintainers : TS!SaveCommit(u)
    BY <1>4
  <2>2. u # v => draft'[v] = draft[v]
    BY <1>1, <2>1 DEF TS!SaveCommit, SkillTypes
  <2> QED
    BY <1>3, <2>1, <2>2, SaveCommitStep
<1>5. CASE \E u \in Maintainers : TS!Merge(u) \/ \E i \in DOMAIN rev : TS!Restore(u, i)
  <2>1. PICK u \in Maintainers : TS!Merge(u) \/ \E i \in DOMAIN rev : TS!Restore(u, i)
    BY <1>5
  <2>2. u # v => draft'[v] = draft[v]
    BY <1>1, <2>1 DEF TS!Merge, TS!Restore, SkillTypes
  <2> QED
    BY <1>3, <2>1, <2>2, MergeStep, RestoreStep
<1>6. CASE \E u \in Maintainers : TS!RenameCommit(u)
  BY <1>6, RenameCommitStep
<1>7. CASE \E u \in Maintainers :
             \/ TS!ProvisionStart(u) \/ TS!SaveRead(u) \/ TS!PublishBehind(u) \/ TS!Abort(u)
             \/ \E pub \in BOOLEAN : TS!Publish(u, pub)
             \/ \E new \in Titles : TS!RenameRead(u, new)
  <2>1. draft' = draft
    BY <1>7 DEF TS!ProvisionStart, TS!SaveRead, TS!PublishBehind, TS!Abort, TS!Publish, TS!RenameRead
  <2> QED
    BY <1>3, <2>1
<1>8. CASE \E u \in Maintainers : TS!ProvisionCommit(u) \/ TS!ChangeMaintainer(u)
  <2>1. draft'[v] \in {draft[v], None}
    BY <1>1, <1>8 DEF TS!ProvisionCommit, TS!ChangeMaintainer, SkillTypes
  <2> QED
    BY <1>3, <2>1
<1> QED
  BY <1>4, <1>5, <1>6, <1>7, <1>8 DEF TS!Next

-------------------------------------------------------------------------------
(* The composition *)

PartInv ==
    /\ part = "team" => TeamInv
    /\ part = "names" => NamesInv
    /\ part = "proposals" => ProposalInv
    /\ part = "team_skill" => SkillInv

\* Whichever part of the registry runs, its inductive invariant holds: the
\* initial states establish it and every handler of TeamAuthority, SkillNames,
\* Proposals and TeamSkill keeps it.
THEOREM Invariance == Spec => []PartInv
<1>1. Init => PartInv
  BY TeamInit, NamesInit, ProposalInit, SkillInit DEF Init, PartInv
<1>2. PartInv /\ [Next]_<<part, teamVars, nameVars, skillVars, proposalVars>> => PartInv'
  <2> SUFFICES ASSUME PartInv, Next \/ UNCHANGED <<part, teamVars, nameVars, skillVars, proposalVars>>
               PROVE  PartInv'
    OBVIOUS
  <2>1. /\ part' = part
        /\ part = "team" => TA!Next \/ UNCHANGED teamVars
        /\ part = "names" => SN!Next \/ UNCHANGED nameVars
        /\ part = "proposals" => PR!Next \/ UNCHANGED proposalVars
        /\ part = "team_skill" => TS!Next \/ UNCHANGED skillVars
    BY DEF Next
  <2>2. (part = "team" => TeamInv') /\ (part = "names" => NamesInv')
    BY <2>1, TeamKept, NamesKept DEF PartInv
  <2>3. part = "proposals" => ProposalInv'
    BY <2>1, ProposalKept DEF PartInv
  <2>4. part = "team_skill" => SkillInv'
    BY <2>1, SkillKept DEF PartInv
  <2> QED
    BY <2>1, <2>2, <2>3, <2>4 DEF PartInv
<1> QED
  BY <1>1, <1>2, PTL DEF Spec

\* A team keeps exactly one owner and an invitation admits at most one person,
\* and none once revoked, for any number of users, sessions and invitations,
\* whatever the order in which leaving, removal, ownership transfers, joining,
\* revocation and deletion overlap (teams.rs, team_owner.rs).
THEOREM TeamSafe == Spec => []TeamSafety
<1>1. PartInv => TeamSafety
  BY TeamInvSafe DEF PartInv, TeamSafety
<1> QED
  BY <1>1, Invariance, PTL

\* A name leads to the skill that last had it as long as that skill lives, and
\* to no other, for any number of skills and names and across every overlap of
\* renames, transfers, imports and deletions (lifecycle.rs, team_rename.rs).
THEOREM NamesSafe == Spec => []NamesSafety
<1>1. PartInv => NamesSafety
  BY NamesInvSafe DEF PartInv, NamesSafety
<1> QED
  BY <1>1, Invariance, PTL

\* An acceptance applies the revision its client inspected, replaces the head
\* whose generation that client read, and happens once for a proposal, for any
\* number of clients, revisions and proposals (proposals.rs, accept_proposal).
THEOREM ProposalsSafe == Spec => []ProposalSafety
<1>1. PartInv => ProposalSafety
  BY DEF PartInv, ProposalInv, ProposalSafety
<1> QED
  BY <1>1, Invariance, PTL

\* Every release of a team skill descends from the one before it, and no draft
\* holds unpublished work of another maintainer, for any number of maintainers
\* and revisions and whatever saves, merges, restores, publications, renames and
\* changes of the maintainers overlap (release.rs, private_catalog.rs).
THEOREM TeamSkillSafe == Spec => []TeamSkillSafety
<1>1. PartInv => TeamSkillSafety
  BY SkillInvSafe DEF PartInv, TeamSkillSafety
<1> QED
  BY <1>1, Invariance, PTL

\* While someone stays a maintainer, every step of anyone leaves the draft where
\* it is or moves it to a descendant: nobody's work is lost to a rename, a merge
\* or a restore of another (team_rename.rs, ensure_workspaces_unchanged).
THEOREM DraftsSafe == Spec => DraftsKept
<1>1. PartInv /\ [Next]_<<part, teamVars, nameVars, skillVars, proposalVars>> =>
        [\A u \in Maintainers : draft[u] # None /\ draft'[u] # None => draft[u] \in TS!Anc(draft[u])']_TS!vars
  <2> SUFFICES ASSUME PartInv, Next \/ UNCHANGED <<part, teamVars, nameVars, skillVars, proposalVars>>,
                      ~ UNCHANGED skillVars, NEW u \in Maintainers, draft[u] # None, draft'[u] # None
               PROVE  draft[u] \in TS!Anc(draft[u])'
    BY DEF TS!vars, skillVars
  <2>1. part = "team_skill" /\ TS!Next
    BY DEF Next
  <2>2. draft[u] \in Reach(rev', draft'[u])
    BY <2>1, DraftStep DEF PartInv
  <2> QED
    BY <2>2 DEF Reach, TS!Anc, TS!Walk, TS!Closed
<1> QED
  BY <1>1, Invariance, PTL DEF Spec, DraftsKept, TS!DraftsKept

===============================================================================
