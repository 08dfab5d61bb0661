--------------------------- MODULE ProjectionNames --------------------------
(***************************************************************************)
(* How managed skills become visible to the harnesses: the allocator of    *)
(* invocation names (denju-sync), the links in the harness roots           *)
(* (denju-local projection.rs) and the journals that remove or rename a    *)
(* skill (denju-local lifecycle.rs).  A command recovers open journals and *)
(* reconciles before its own work, and reconciles again after it; it may   *)
(* stop at any step.  The user adds and deletes entries of the roots at    *)
(* any time.                                                               *)
(*                                                                         *)
(* A name is the tuple of its hyphenated parts, so that an alias may       *)
(* coincide with another skill's own name, as in the code.  What the links *)
(* show is the subject of DerivedView and SubscriptionSync.                *)
(***************************************************************************)
EXTENDS Integers, Sequences

CONSTANTS
    NumSkills,   \* resources 1..NumSkills, in the order of their ids
    Owned,       \* the skills that are the user's own; the others are subscribed
    OwnerOf(_),  \* the owner component of a skill's alias
    SlugsOf(_),  \* the names a skill may have
    Roots,       \* unique_harness_roots
    UserNames,   \* names the user may give to entries of her own
    Suffixes,    \* the suffix of the i-th alias; its length bounds the search
    User,        \* an entry Denju does not own
    None

VARIABLES
    skillRow,  \* managed_skills: [slug, name], name the harness_name, or None
    canon,     \* canonical links: set of <<skill, slug>>
    entry,     \* [Roots -> [Names -> None | User | [skill, path]]]
    job,       \* the open lifecycle journal, or None
    proj,      \* the running command
    userHas,   \* the entries the user made and did not delete
    fresh      \* the last reconcile ended and nothing has changed since

nameVars == <<skillRow, canon, entry, job, proj, userHas, fresh>>

Ids == 1..NumSkills
Slugs == UNION {SlugsOf(s) : s \in Ids}
View == <<>>   \* the path of a link to a derived view; None when the view is gone

(* collision_alias_at *)
AliasAt(s, slug, i) == <<OwnerOf(s)>> \o slug \o Suffixes[i]
Aliases(s, slug) == {AliasAt(s, slug, i) : i \in DOMAIN Suffixes}
Names == UserNames \cup Slugs \cup UNION {Aliases(s, slug) : s \in Ids, slug \in Slugs}

SkillRows == [slug : Slugs, name : Names \cup {None}]
Links == [skill : Ids, path : Slugs \cup {View, None}]
Jobs == [skill : Ids, old : SkillRows, slug : Slugs \cup {None},
         state : {"planned", "staged", "verified", "switched"}]

NoEntry == [r \in Roots |-> [n \in Names |-> None]]
Rest == [at |-> "idle", inner |-> FALSE, plan |-> <<>>, todo |-> {}, linked |-> {}, clean |-> FALSE]

NamesTypeOK ==
    /\ \A s \in Ids : skillRow[s] # None => skillRow[s] \in SkillRows /\ skillRow[s].slug \in SlugsOf(s)
    /\ canon \subseteq Ids \X Slugs
    /\ \A r \in Roots, n \in Names : entry[r][n] \notin {None, User} => entry[r][n] \in Links
    /\ job # None => job \in Jobs
    /\ proj.at \in {"idle", "recover", "plan", "stale", "link", "body"}
    /\ proj.todo \subseteq Ids /\ proj.linked \subseteq Roots
    /\ userHas \subseteq Roots \X UserNames

-----------------------------------------------------------------------------
(* What an entry is: its link resolves into Denju's storage, or it is the  *)
(* user's or dangles.                                                      *)
IsLink(e) == e \notin {None, User}
Resolves(e) == IsLink(e) /\ (e.path = View \/ <<e.skill, e.path>> \in canon)
Reserved == {n \in Names : \E r \in Roots : entry[r][n] # None /\ ~ Resolves(entry[r][n])}

(* remove_managed_projection_link refuses what does not resolve.           *)
Removable(r, n) == entry[r][n] = None \/ Resolves(entry[r][n])

-----------------------------------------------------------------------------
(* allocate_projection_names                                               *)
Managed == {s \in Ids : skillRow[s] # None}
Collides(s, reserved) ==
    \/ skillRow[s].slug \in reserved
    \/ \E t \in Managed \ {s} : skillRow[t].slug = skillRow[s].slug

(* Mutant: the names that stay canonical are not reserved beforehand.      *)
ReservedOnly(reserved) == reserved
Kept(reserved) == reserved \cup {skillRow[s].slug : s \in {t \in Managed : ~ Collides(t, reserved)}}

(* An alias a skill has already stays its own; of several with one the     *)
(* skill with the lowest id keeps it.                                      *)
Claims(s, reserved) ==
    /\ s \in Managed /\ Collides(s, reserved)
    /\ skillRow[s].name \in Aliases(s, skillRow[s].slug) \ Kept(reserved)
Claimed(reserved) ==
    {s \in Managed : /\ Claims(s, reserved)
                     /\ \A t \in Managed : Claims(t, reserved) /\ skillRow[t].name = skillRow[s].name
                                           => s <= t}

(* collision_alias: the lowest index that is free.                         *)
IsLowestAlias(n, s, used) ==
    \E i \in DOMAIN Suffixes : /\ n = AliasAt(s, skillRow[s].slug, i) /\ n \notin used
                             /\ \A j \in 1..(i - 1) : AliasAt(s, skillRow[s].slug, j) \in used

(* The names given in the order of the ids, as long as the suffixes last.  *)
Allocated(plan, reserved) ==
    LET sticky == Claimed(reserved)
        used(s) == Kept(reserved) \cup {skillRow[t].name : t \in sticky}
                     \cup {plan[t] : t \in {u \in Managed : u < s}}
    IN  \A s \in Managed :
            /\ ~ Collides(s, reserved) => plan[s] = skillRow[s].slug
            /\ s \in sticky => plan[s] = skillRow[s].name
            /\ Collides(s, reserved) /\ s \notin sticky => IsLowestAlias(plan[s], s, used(s))

-----------------------------------------------------------------------------
(* reconcile_harness_projections: plan, removal of stale links in every    *)
(* root before any new link, then per skill its links and its row.         *)
StaleNames(plan) == {s \in Managed : skillRow[s].name \notin {None, plan[s]}}
Turn == CHOOSE s \in proj.todo : \A t \in proj.todo : s <= t

PlanNames ==
    \E plan \in [Managed -> Names] :
        /\ proj.at = "plan" /\ Allocated(plan, Reserved)
        /\ proj' = [proj EXCEPT !.at = "stale", !.plan = plan, !.todo = StaleNames(plan),
                                !.linked = {}, !.clean = TRUE]
        /\ UNCHANGED <<skillRow, canon, entry, job, userHas, fresh>>

(* A refused removal is passed over.                                       *)
RemoveStale ==
    LET n == skillRow[Turn].name
    IN  /\ proj.at = "stale" /\ proj.todo # {}
        /\ entry' = [r \in Roots |-> IF Removable(r, n) THEN [entry[r] EXCEPT ![n] = None]
                                     ELSE entry[r]]
        /\ proj' = [proj EXCEPT !.todo = @ \ {Turn}]
        /\ UNCHANGED <<skillRow, canon, job, userHas, fresh>>

StaleRemoved ==
    /\ proj.at = "stale" /\ proj.todo = {}
    /\ proj' = [proj EXCEPT !.at = "link", !.todo = DOMAIN proj.plan]
    /\ UNCHANGED <<skillRow, canon, entry, job, userHas, fresh>>

(* create_projection_link in one root; an entry that may not be replaced   *)
(* ends the command.                                                       *)
Link(r) ==
    LET n == proj.plan[Turn]
        path == IF n = skillRow[Turn].slug THEN n ELSE View
    IN  /\ proj.at = "link" /\ proj.todo # {} /\ r \notin proj.linked
        /\ IF Removable(r, n)
             THEN /\ entry' = [entry EXCEPT ![r][n] = [skill |-> Turn, path |-> path]]
                  /\ proj' = [proj EXCEPT !.linked = @ \cup {r}]
             ELSE proj' = Rest /\ UNCHANGED entry
        /\ UNCHANGED <<skillRow, canon, job, userHas, fresh>>

(* set_managed_harness_name, once every root is linked.                    *)
SetName ==
    /\ proj.at = "link" /\ proj.todo # {} /\ proj.linked = Roots
    /\ skillRow' = [skillRow EXCEPT ![Turn].name = proj.plan[Turn]]
    /\ proj' = [proj EXCEPT !.todo = @ \ {Turn}, !.linked = {}]
    /\ UNCHANGED <<canon, entry, job, userHas, fresh>>

(* The reconcile of prepare_current_harness_roots, of a rename's recovery  *)
(* or of the end of the command.                                           *)
Reconciled ==
    /\ proj.at = "link" /\ proj.todo = {}
    /\ fresh' = proj.clean
    /\ job' = None
    /\ proj' = IF job # None THEN [Rest EXCEPT !.at = "recover", !.inner = proj.inner]
               ELSE IF proj.inner THEN Rest
               ELSE [Rest EXCEPT !.at = "body", !.inner = TRUE]
    /\ UNCHANGED <<skillRow, canon, entry, userHas>>

-----------------------------------------------------------------------------
(* A command: recover, reconcile, its body, reconcile.                     *)
StartCommand ==
    /\ proj.at = "idle"
    /\ proj' = [Rest EXCEPT !.at = "recover"]
    /\ UNCHANGED <<skillRow, canon, entry, job, userHas, fresh>>

(* The canonical path of this name shows another skill of the owner.       *)
Elsewhere(s, slug) == \E t \in Ids \ {s} : OwnerOf(t) = OwnerOf(s) /\ <<t, slug>> \in canon

(* A materialized skill, whichever way it came, on a path of its own.      *)
Arrive(s, slug) ==
    /\ proj.at = "body" /\ skillRow[s] = None /\ slug \in SlugsOf(s) /\ ~ Elsewhere(s, slug)
    /\ skillRow' = [skillRow EXCEPT ![s] = [slug |-> slug, name |-> None]]
    /\ canon' = canon \cup {<<s, slug>>}
    /\ fresh' = FALSE
    /\ UNCHANGED <<entry, job, proj, userHas>>

(* reconcile_owned_derived_projection ends between the removal of a view   *)
(* and its copy: the links to it dangle.  Bound: one lost view at a time.  *)
Lost == {n \in Names : \E r \in Roots : IsLink(entry[r][n]) /\ entry[r][n].path = None}
LoseView(s) ==
    LET n == skillRow[s].name
    IN  /\ proj.at = "body" /\ Lost = {} /\ s \in Owned /\ skillRow[s] # None /\ n \notin {None, skillRow[s].slug}
        /\ entry' = [r \in Roots |->
                       IF entry[r][n] = [skill |-> s, path |-> View]
                         THEN [entry[r] EXCEPT ![n] = [skill |-> s, path |-> None]]
                         ELSE entry[r]]
        /\ proj' = Rest /\ fresh' = FALSE
        /\ UNCHANGED <<skillRow, canon, job, userHas>>

BodyDone ==
    /\ proj.at = "body"
    /\ proj' = [proj EXCEPT !.at = "plan"]
    /\ UNCHANGED <<skillRow, canon, entry, job, userHas, fresh>>

(* journaled_remove_managed_skill                                          *)
OpenRemove(s) ==
    /\ proj.at = "body" /\ skillRow[s] # None
    /\ job' = [skill |-> s, old |-> skillRow[s], slug |-> None, state |-> "planned"]
    /\ proj' = [proj EXCEPT !.at = "recover"]
    /\ UNCHANGED <<skillRow, canon, entry, userHas, fresh>>

(* apply_registry_rename                                                   *)
OpenRename(s, slug) ==
    /\ proj.at = "body" /\ s \in Owned /\ skillRow[s] # None
    /\ slug \in SlugsOf(s) \ {skillRow[s].slug}
    /\ job' = [skill |-> s, old |-> skillRow[s], slug |-> slug, state |-> "planned"]
    /\ proj' = [proj EXCEPT !.at = "recover"]
    /\ UNCHANGED <<skillRow, canon, entry, userHas, fresh>>

-----------------------------------------------------------------------------
(* recover_local_lifecycle; every branch is one journal state.             *)
Recovering(kind, state) ==
    /\ proj.at = "recover" /\ job # None /\ job.state = state
    /\ kind = IF job.slug = None THEN "remove" ELSE "rename"
Advance(state) == job' = [job EXCEPT !.state = state]

(* remove_managed_projection in the roots `done'.                          *)
OldLinksRemoved(done) ==
    [r \in Roots |-> IF job.old.name = None \/ r \notin done THEN entry[r]
                     ELSE [entry[r] EXCEPT ![job.old.name] = None]]
OldLinksRemovable == job.old.name # None => \A r \in Roots : Removable(r, job.old.name)

(* A refusal in one root, or whatever ends the command in between, leaves  *)
(* the journal open and the links of the roots before it removed.          *)
RemovalEnds ==
    /\ \E done \in SUBSET Roots :
         /\ \A r \in done : job.old.name # None => Removable(r, job.old.name)
         /\ entry' = OldLinksRemoved(done)
    /\ proj' = Rest
    /\ UNCHANGED <<canon, job>>

RemoveLinks ==
    /\ Recovering("remove", "planned")
    /\ \/ /\ OldLinksRemovable
          /\ entry' = OldLinksRemoved(Roots)
          /\ Advance("staged") /\ UNCHANGED <<canon, proj>>
       \/ RemovalEnds
    /\ fresh' = FALSE
    /\ UNCHANGED <<skillRow, userHas>>

RemoveCanonical ==
    /\ Recovering("remove", "staged")
    /\ canon' = canon \ {<<job.skill, job.old.slug>>}
    /\ Advance("verified") /\ fresh' = FALSE
    /\ UNCHANGED <<skillRow, entry, proj, userHas>>

DeleteRow ==
    /\ Recovering("remove", "verified")
    /\ skillRow' = [skillRow EXCEPT ![job.skill] = None]
    /\ Advance("switched") /\ fresh' = FALSE
    /\ UNCHANGED <<canon, entry, proj, userHas>>

RemoveDone ==
    /\ Recovering("remove", "switched")
    /\ job' = None
    /\ UNCHANGED <<skillRow, canon, entry, proj, userHas, fresh>>

(* ensure_canonical_link refuses a path that shows another skill: every    *)
(* command then ends here, the journal open.                               *)
LinkNewName ==
    /\ Recovering("rename", "planned")
    /\ IF Elsewhere(job.skill, job.slug)
         THEN proj' = Rest /\ UNCHANGED <<canon, job>>
         ELSE canon' = canon \cup {<<job.skill, job.slug>>} /\ Advance("staged") /\ UNCHANGED proj
    /\ fresh' = FALSE
    /\ UNCHANGED <<skillRow, entry, userHas>>

RenameRow ==
    /\ Recovering("rename", "staged")
    /\ skillRow' = [skillRow EXCEPT ![job.skill].slug = job.slug]
    /\ Advance("verified") /\ fresh' = FALSE
    /\ UNCHANGED <<canon, entry, proj, userHas>>

RemoveOldName ==
    /\ Recovering("rename", "verified")
    /\ \/ /\ OldLinksRemovable
          /\ entry' = OldLinksRemoved(Roots)
          /\ canon' = canon \ {<<job.skill, job.old.slug>>}
          /\ Advance("switched") /\ UNCHANGED proj
       \/ RemovalEnds
    /\ fresh' = FALSE
    /\ UNCHANGED <<skillRow, userHas>>

ProjectRenamed ==
    /\ Recovering("rename", "switched")
    /\ proj' = [proj EXCEPT !.at = "plan"]
    /\ UNCHANGED <<skillRow, canon, entry, job, userHas, fresh>>

Recovered ==
    /\ proj.at = "recover" /\ job = None
    /\ proj' = [proj EXCEPT !.at = IF proj.inner THEN "body" ELSE "plan"]
    /\ UNCHANGED <<skillRow, canon, entry, job, userHas, fresh>>

-----------------------------------------------------------------------------
(* Whatever ends a command early.                                          *)
Stop ==
    /\ proj.at # "idle"
    /\ proj' = Rest
    /\ UNCHANGED <<skillRow, canon, entry, job, userHas, fresh>>

Disturbed == fresh' = FALSE /\ proj' = [proj EXCEPT !.clean = FALSE]

UserAdds(r, n) ==
    /\ entry[r][n] = None /\ n \in UserNames
    /\ entry' = [entry EXCEPT ![r][n] = User]
    /\ userHas' = userHas \cup {<<r, n>>}
    /\ Disturbed
    /\ UNCHANGED <<skillRow, canon, job>>

(* Her own entry, or a link of Denju's.                                    *)
UserDeletes(r, n) ==
    /\ entry[r][n] # None /\ n \in UserNames
    /\ entry' = [entry EXCEPT ![r][n] = None]
    /\ userHas' = userHas \ {<<r, n>>}
    /\ Disturbed
    /\ UNCHANGED <<skillRow, canon, job>>

-----------------------------------------------------------------------------
NamesInit ==
    /\ skillRow = [s \in Ids |-> None] /\ canon = {} /\ entry = NoEntry
    /\ job = None /\ proj = Rest /\ userHas = {} /\ fresh = FALSE

NamesNext ==
    \/ StartCommand \/ PlanNames \/ RemoveStale \/ StaleRemoved \/ SetName \/ Reconciled
    \/ \E r \in Roots : Link(r)
    \/ \E s \in Ids, slug \in Slugs : Arrive(s, slug) \/ OpenRename(s, slug)
    \/ \E s \in Ids : OpenRemove(s) \/ LoseView(s)
    \/ BodyDone \/ RemoveLinks \/ RemoveCanonical \/ DeleteRow \/ RemoveDone
    \/ LinkNewName \/ RenameRow \/ RemoveOldName \/ ProjectRenamed \/ Recovered
    \/ Stop
    \/ \E r \in Roots, n \in UserNames : UserAdds(r, n) \/ UserDeletes(r, n)

NamesSpec == NamesInit /\ [][NamesNext]_nameVars

-----------------------------------------------------------------------------
(* A reconcile that ends undisturbed leaves every skill linked in every    *)
(* root under the name its row records, whatever interrupted commands left *)
(* behind, and no two rows record one name.                                *)
Exposed ==
    fresh => \A s \in Managed :
        LET n == skillRow[s].name
        IN  /\ n # None
            /\ \A r \in Roots : Resolves(entry[r][n]) /\ entry[r][n].skill = s
            /\ \A t \in Managed \ {s} : skillRow[t].name # n

(* No command replaces or deletes an entry of the user's.                  *)
UserKept == \A u \in userHas : entry[u[1]][u[2]] = User

(* "Projection reconciliation can never expose two resources under the     *)
(* same invocation name".                                                  *)
OneResourcePerName ==
    \A n \in Names, q, r \in Roots :
        Resolves(entry[q][n]) /\ Resolves(entry[r][n]) => entry[q][n].skill = entry[r][n].skill

(* After an undisturbed reconcile only managed skills are exposed, each    *)
(* under one name.                                                         *)
NoOrphanLink ==
    fresh => \A r \in Roots, n \in Names :
        Resolves(entry[r][n]) => /\ entry[r][n].skill \in Managed
                                 /\ skillRow[entry[r][n].skill].name = n

(* A rename that the registry accepted can be applied here.                *)
RenameApplicable == job # None /\ job.state = "planned" /\ job.slug # None => ~ Elsewhere(job.skill, job.slug)

(* No removal is held up while no entry of the user's stands in its way.   *)
Unstuck == userHas = {} /\ job # None => OldLinksRemovable
=============================================================================
