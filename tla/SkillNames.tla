----------------------------- MODULE SkillNames -----------------------------
(***************************************************************************)
(* The names of skills: which resource a locator @namespace/slug reaches   *)
(* while skills are imported, renamed, moved to a team and deleted, and    *)
(* the redirects that old names leave.                                     *)
(*                                                                         *)
(* Ada owns the namespace "ada" and may join and leave the team "team";    *)
(* Vic maintains the team throughout.  Every commit holds the rows it      *)
(* decides on, so it is one step; a rename reads its source in a           *)
(* transaction of its own, builds the renamed content and commits later.   *)
(* Requests run under the row policies of 0017_security_rls.sql: a         *)
(* redirect is changed only by who may manage the skill it leads to.       *)
(***************************************************************************)
EXTENDS Naturals

CONSTANTS
    Skills,   \* resource ids
    Slugs,    \* names within a namespace
    MaxGen,   \* bound on a resource's generation
    None

Actors == {"ada", "vic"}
Namespaces == {"ada", "team"}
Locators == Namespaces \X Slugs

VARIABLES
    res,      \* Skills -> its row of resources, or None before the import
    redirect, \* Locators -> the row of resource_redirects: a skill, or None
    member,   \* Ada is a maintainer of the team
    renaming,      \* Actors -> a rename between its read and its commit, or None
    holder    \* history: Locators -> the last skill that had this name

vars == <<res, redirect, member, renaming, holder>>

Rows == [ns : Namespaces, slug : Slugs, gen : 1..MaxGen, live : BOOLEAN]
Jobs == [skill : Skills, at : Locators, gen : 1..MaxGen, new : Slugs]

TypeOK ==
    /\ res \in [Skills -> Rows \cup {None}]
    /\ redirect \in [Locators -> Skills \cup {None}]
    /\ member \in BOOLEAN
    /\ renaming \in [Actors -> Jobs \cup {None}]
    /\ holder \in [Locators -> Skills \cup {None}]

-----------------------------------------------------------------------------
Live(r) == res[r] # None /\ res[r].live
LocatorOf(r) == <<res[r].ns, res[r].slug>>

(* The skill that has the name now: resources_active_locator_idx allows one *)
Active(l) == {r \in Skills : Live(r) /\ LocatorOf(r) = l}

(* resolve_active_skill_locator_tx: the live skill of that name, or the    *)
(* live target of its redirect, as the owner of the row sees it.  (To a    *)
(* reader from whom the row policy hides a private holder of the name, the *)
(* code answers with the redirect behind it.)                              *)
Resolve(l) ==
    IF Active(l) # {} THEN CHOOSE r \in Active(l) : TRUE
    ELSE IF redirect[l] # None /\ Live(redirect[l]) THEN redirect[l] ELSE None

(* denju_actor_can_publish_namespace                                       *)
MayPublish(actor, ns) ==
    IF ns = "ada" THEN actor = "ada" ELSE actor = "vic" \/ member

(* resource_redirects_write: an absent redirect, or one to a skill that    *)
(* the actor manages.                                                      *)
MayReplace(actor, l) ==
    redirect[l] # None => MayPublish(actor, res[redirect[l]].ns)

(* DELETE FROM resource_redirects: a hidden row stays.                     *)
Forgotten(actor, l) ==
    IF MayReplace(actor, l) THEN [redirect EXCEPT ![l] = None] ELSE redirect

(* INSERT ... ON CONFLICT DO UPDATE fails on a hidden row.                 *)
Redirected(map, l, r) == [map EXCEPT ![l] = r]

-----------------------------------------------------------------------------
(* The commit of a private import, into the actor's namespace or the team. *)
Import(actor, r, l) ==
    /\ res[r] = None /\ MayPublish(actor, l[1]) /\ Active(l) = {}
    /\ res' = [res EXCEPT ![r] =
                 [ns |-> l[1], slug |-> l[2], gen |-> 1, live |-> TRUE]]
    /\ redirect' = Forgotten(actor, l)
    /\ holder' = [holder EXCEPT ![l] = r]
    /\ UNCHANGED <<member, renaming>>

(* rename_skill and rename_team_skill up to the locked commit: the source  *)
(* is read, without a lock, and must have the expected generation.         *)
RenameRead(actor, r, new) ==
    /\ renaming[actor] = None /\ Live(r) /\ MayPublish(actor, res[r].ns)
    /\ res[r].slug # new
    /\ renaming' = [renaming EXCEPT ![actor] = [skill |-> r, at |-> LocatorOf(r),
                                      gen |-> res[r].gen, new |-> new]]
    /\ UNCHANGED <<res, redirect, member, holder>>

(* The redirects after the rename j: that of the new name goes, the old    *)
(* name leads to the skill.  rename_team_skill commits as denju_worker,    *)
(* from which no policy hides a row.                                       *)
RenameRedirects(actor, j) ==
    LET to == <<j.at[1], j.new>> IN
    Redirected(IF j.at[1] = "team" THEN [redirect EXCEPT ![to] = None]
               ELSE Forgotten(actor, to), j.at, j.skill)

Renamed(actor, j) ==
    LET to == <<j.at[1], j.new>> IN
    /\ MayPublish(actor, j.at[1]) /\ Live(j.skill)
    /\ res[j.skill].gen < MaxGen
    /\ Active(to) \subseteq {j.skill}
    /\ j.at[1] = "team" \/ MayReplace(actor, j.at)
    /\ res' = [res EXCEPT ![j.skill].slug = j.new, ![j.skill].gen = @ + 1]
    /\ redirect' = RenameRedirects(actor, j)
    /\ holder' = [holder EXCEPT ![to] = j.skill]

(* Mutant: the commit trusts the name and generation read before the lock. *)
RenameCommitStale(actor) ==
    /\ renaming[actor] # None /\ res[renaming[actor].skill].ns = renaming[actor].at[1]
    /\ Renamed(actor, renaming[actor])
    /\ renaming' = [renaming EXCEPT ![actor] = None]
    /\ UNCHANGED member

(* The commit: the row is locked and must still be what was read; the new  *)
(* name must be free.                                                      *)
RenameCommit(actor) ==
    /\ renaming[actor] # None
    /\ LocatorOf(renaming[actor].skill) = renaming[actor].at
    /\ res[renaming[actor].skill].gen = renaming[actor].gen
    /\ Renamed(actor, renaming[actor])
    /\ renaming' = [renaming EXCEPT ![actor] = None]
    /\ UNCHANGED member

(* Any of those checks fails.                                              *)
RenameFail(actor) ==
    /\ renaming[actor] # None
    /\ renaming' = [renaming EXCEPT ![actor] = None]
    /\ UNCHANGED <<res, redirect, member, holder>>

(* transfer_resource: a personal skill moves to the team with its name,    *)
(* which must be free there.  The redirect that the name may have at its   *)
(* destination is left alone.                                              *)
Transfer(r) ==
    LET from == LocatorOf(r) to == <<"team", res[r].slug>> IN
    /\ Live(r) /\ res[r].ns = "ada" /\ member /\ res[r].gen < MaxGen
    /\ Active(to) = {}
    /\ MayReplace("ada", from)
    /\ res' = [res EXCEPT ![r].ns = "team", ![r].gen = @ + 1]
    /\ redirect' = Redirected(redirect, from, r)
    /\ holder' = [holder EXCEPT ![to] = r]
    /\ UNCHANGED <<member, renaming>>

(* delete_skill: of a personal skill only; every redirect to it goes.      *)
Delete(r) ==
    /\ Live(r) /\ res[r].ns = "ada" /\ res[r].gen < MaxGen
    /\ res' = [res EXCEPT ![r].live = FALSE, ![r].gen = @ + 1]
    /\ redirect' = [l \in Locators |-> IF redirect[l] = r THEN None ELSE redirect[l]]
    /\ UNCHANGED <<member, renaming, holder>>

(* Ada leaves the team, or joins it again.                                 *)
ChangeMembership ==
    /\ member' = ~member
    /\ UNCHANGED <<res, redirect, renaming, holder>>

-----------------------------------------------------------------------------
Init ==
    /\ res = [r \in Skills |-> None]
    /\ redirect = [l \in Locators |-> None]
    /\ member = TRUE
    /\ renaming = [a \in Actors |-> None]
    /\ holder = [l \in Locators |-> None]

Next ==
    \/ \E a \in Actors, r \in Skills, l \in Locators : Import(a, r, l)
    \/ \E a \in Actors, r \in Skills, s \in Slugs : RenameRead(a, r, s)
    \/ \E a \in Actors : RenameCommit(a) \/ RenameFail(a)
    \/ \E r \in Skills : Transfer(r) \/ Delete(r)
    \/ ChangeMembership

Spec == Init /\ [][Next]_vars

-----------------------------------------------------------------------------
(* Old names follow: as long as the skill that last had a name lives,      *)
(* under whatever name and in whichever namespace it now is, that name     *)
(* resolves to it and to no other skill.                                   *)
OldNamesFollow ==
    \A l \in Locators :
        /\ \A r, q \in Active(l) : r = q
        /\ holder[l] # None /\ Live(holder[l]) => Resolve(l) = holder[l]

(* A name that was reused never leads back to an earlier skill.            *)
ReusedNameForgets ==
    \A l \in Locators : Resolve(l) \in {holder[l], None}

(* A live personal skill can be renamed to a free name by its owner.       *)
RenamePossible ==
    \A r \in Skills :
        Live(r) /\ res[r].ns = "ada" => MayReplace("ada", LocatorOf(r))
=============================================================================
