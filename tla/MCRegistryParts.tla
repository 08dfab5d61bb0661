--------------------------- MODULE MCRegistryParts --------------------------
(***************************************************************************)
(* The parts of the registry that do not share rows with each other at     *)
(* this level of detail, each checked on its own: `part' is fixed by the   *)
(* initial state and the variables of the other parts do not move.         *)
(***************************************************************************)
EXTENDS Naturals, Sequences, FiniteSets

CONSTANTS
    None, Users, Founder, Sessions, UserOf, Sharing,  \* TeamAuthority
    Invites, Codes,
    Skills, Slugs, MaxGen,                            \* SkillNames
    Maintainers, Titles, First, MaxRevs,              \* TeamSkill
    Clients, MaxHeads, MaxProposals                   \* Proposals

VARIABLES
    part,
    live, open, role, alive, invite, transfer, ws, sub, tx, admitted,
    res, redirect, member, renaming, holder,
    slug, public, releases, rev, draft, conflict, maintains, request,
    target, fork, proposals, made, seen, accepted

OneSessionEach == [s \in Sessions |-> s]

TA == INSTANCE TeamAuthority
SN == INSTANCE SkillNames
TS == INSTANCE TeamSkill WITH Users <- Maintainers, Slugs <- Titles
PR == INSTANCE Proposals

ASSUME TeamAssumption ==
    /\ Founder \in Users /\ UserOf \in [Sessions -> Users] /\ Sharing \subseteq Users
    /\ None \notin TA!Roles \cup Invites /\ None \notin TA!InviteRows /\ None \notin TA!TransferRows

ASSUME NamesAssumption ==
    MaxGen \in Nat \ {0} /\ None \notin Skills /\ None \notin SN!Rows /\ None \notin SN!Jobs

ASSUME TeamSkillAssumption ==
    MaxRevs \in Nat \ {0} /\ First \in Titles /\ Founder \in Maintainers

ASSUME ProposalsAssumption ==
    {MaxHeads, MaxProposals} \subseteq Nat /\ None \notin Nat /\ None \notin PR!Details

teamVars == <<live, open, role, alive, invite, transfer, ws, sub, tx, admitted>>
nameVars == <<res, redirect, member, renaming, holder>>
skillVars == <<slug, public, releases, rev, draft, conflict, maintains, request>>
proposalVars == <<target, fork, proposals, made, seen, accepted>>

Init ==
    /\ part \in {"team", "names", "team_skill", "proposals"}
    /\ TA!Init /\ SN!Init /\ TS!Init /\ PR!Init

Next ==
    \/ part = "team" /\ TA!Next /\ UNCHANGED <<part, nameVars, skillVars, proposalVars>>
    \/ part = "names" /\ SN!Next /\ UNCHANGED <<part, teamVars, skillVars, proposalVars>>
    \/ part = "team_skill" /\ TS!Next /\ UNCHANGED <<part, teamVars, nameVars, proposalVars>>
    \/ part = "proposals" /\ PR!Next /\ UNCHANGED <<part, teamVars, nameVars, skillVars>>

Spec == Init /\ [][Next]_<<part, teamVars, nameVars, skillVars, proposalVars>>

(* A team has exactly one owner, and an invitation admits at most one      *)
(* person and none once revoked, although leaving, removal, joining,       *)
(* revocation and account deletion overlap (teams.rs, team_owner.rs).      *)
TeamSafety == part = "team" => TA!TypeOK /\ TA!TeamHasOwner /\ TA!InviteAdmitsOnce

(* As long as the skill that last had a name lives, the name leads to it   *)
(* and to no other, across renames, transfers and deletions that overlap   *)
(* (lifecycle.rs, team_rename.rs).                                         *)
NamesSafety == part = "names" => SN!TypeOK /\ SN!OldNamesFollow

(* Every release of a team skill descends from the one before it, and no   *)
(* draft holds another maintainer's unpublished work (release.rs,          *)
(* private_catalog.rs).                                                    *)
TeamSkillSafety == part = "team_skill" => TS!TypeOK /\ TS!ReleasesDescend /\ TS!DraftsArePrivate

(* While someone stays a maintainer, no request of another moves the draft *)
(* to anything but a descendant of what it was (team_rename.rs).           *)
DraftsKept == TS!DraftsKept

(* An acceptance applies the revision that was inspected, replaces the     *)
(* head whose generation the client read, and happens once                 *)
(* (proposals.rs, accept_proposal).                                        *)
ProposalSafety == part = "proposals" => PR!TypeOK /\ PR!AcceptedAsInspected
=============================================================================
