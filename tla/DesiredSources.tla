--------------------------- MODULE DesiredSources ---------------------------
(***************************************************************************)
(* Which revision of a skill a device shows when several sources ask for   *)
(* it: team assignments, the direct subscription, personal packs.  The     *)
(* module models the pack part of sync_with_context: the catalogue and the *)
(* resolver, the suppression of weaker sources, the direct subscriptions   *)
(* as far as they share the visible link with packs, and the journaled,    *)
(* all-or-nothing switch of the pack skills with its recovery.  Downloads  *)
(* and the journal of a single subscription are in SubscriptionSync.       *)
(*                                                                         *)
(* A private workspace is resolved like a direct subscription, one level   *)
(* stronger, and is left out.                                              *)
(***************************************************************************)
EXTENDS Integers, FiniteSets, FiniteSetsExt

CONSTANTS
    Resources,   \* skills, integers: a journal lists them in id order
    Revs,        \* revisions
    Procs,       \* processes that run sync on this device
    None,        \* "no value"
    TeamRevs,    \* [Resources -> SUBSET Revs] what team assignments may require
    PackRevs,    \* [Resources -> SUBSET Revs] what personal packs may require
    Quarantinable,  \* the skills an operator may quarantine
    DirectRevs,  \* [Resources -> SUBSET Revs] what a direct subscription may name
    MaxChanges,  \* bound on changes at the registry
    MaxCrashes   \* bound on crashes and failed switches

ASSUME DesiredSourcesAssumption ==
    /\ Resources \subseteq Nat
    /\ None \notin Revs
    /\ Quarantinable \subseteq Resources
    /\ \A f \in {TeamRevs, PackRevs, DirectRevs} : f \in [Resources -> SUBSET Revs]
    /\ MaxChanges \in Nat /\ MaxCrashes \in Nat

VARIABLES
    team, pack, direct,  \* the registry: required revisions by source kind
    quar,     \* the registry: quarantined skills
    sub,      \* subscriptions: [Resources -> None | [des, mat]]
    pk,       \* pack_materialized_skills: [Resources -> Revs \cup {None}]
    supp,     \* desired_source_suppressions of kind subscription
    link,     \* the canonical link: [Resources -> Revs \cup {None}]
    jn,       \* open pack_apply_journal row of each process, or None
    pr,       \* the processes' progress
    changes, crashes

remote == <<team, pack, direct, quar>>
local == <<sub, pk, supp>>
vars == <<remote, local, link, jn, pr, changes, crashes>>

Idle == [pc |-> "idle"]
Value == Revs \cup {None}
SubRows == [des : Revs, mat : Value]
Journals == UNION {[S -> Value] : S \in SUBSET Resources}

ASSUME NoneIsNoApply == None \notin Journals
ASSUME NoneIsNoRow == None \notin SubRows

TypeOK ==
    /\ team \in [Resources -> SUBSET Revs]
    /\ pack \in [Resources -> SUBSET Revs]
    /\ direct \in [Resources -> Value]
    /\ quar \subseteq Resources
    /\ sub \in [Resources -> SubRows \cup {None}]
    /\ pk \in [Resources -> Value]
    /\ supp \subseteq Resources
    /\ link \in [Resources -> Value]
    /\ jn \in [Procs -> Journals \cup {None}]

-----------------------------------------------------------------------------
(* resolve_desired_sources: only the strongest level counts, and equal     *)
(* sources that disagree never choose a winner.                            *)

Strongest(r, d) ==
    IF team[r] # {} THEN team[r]
    ELSE IF d # None THEN {d}
    ELSE pack[r]

Conflicted(r, d) == Cardinality(Strongest(r, d)) > 1

(* The revision a pack source wins with, if one does; the registry lists a *)
(* quarantined member and sends nothing to install for it.                 *)
PackWinner(r, d) ==
    IF Cardinality(Strongest(r, d)) = 1 /\ (team[r] # {} \/ d = None) /\ r \notin quar
    THEN CHOOSE v \in Strongest(r, d) : TRUE
    ELSE None

-----------------------------------------------------------------------------
(* Changes at the registry.                                                *)

Change == changes < MaxChanges /\ changes' = changes + 1

SetTeam(r, vs) ==
    /\ Change /\ team[r] # vs
    /\ team' = [team EXCEPT ![r] = vs]
    /\ UNCHANGED <<pack, direct, quar, local, link, jn, pr, crashes>>

SetPack(r, vs) ==
    /\ Change /\ pack[r] # vs
    /\ pack' = [pack EXCEPT ![r] = vs]
    /\ UNCHANGED <<team, direct, quar, local, link, jn, pr, crashes>>

SetDirect(r, v) ==
    /\ Change /\ direct[r] # v
    /\ direct' = [direct EXCEPT ![r] = v]
    /\ UNCHANGED <<team, pack, quar, local, link, jn, pr, crashes>>

SetQuarantine(r) ==
    /\ Change
    /\ quar' = IF r \in quar THEN quar \ {r} ELSE quar \cup {r}
    /\ UNCHANGED <<team, pack, direct, local, link, jn, pr, crashes>>

-----------------------------------------------------------------------------
(* A quarantined subscription loses its row, and its link when the link    *)
(* shows it.                                                               *)
Quarantined(r) ==
    /\ sub' = [sub EXCEPT ![r] = None]
    /\ link' = IF sub[r].mat # None /\ link[r] = sub[r].mat
               THEN [link EXCEPT ![r] = None] ELSE link

(* The resources a subscription holds: its row is not suppressed.          *)
Held == {r \in Resources : sub[r] # None /\ r \notin supp}

(* reconcile_harness_projections fails when a resource has two owners, or  *)
(* when a materialized one has no canonical link.                          *)
Projectable ==
    \A r \in Resources :
        /\ ~(r \in Held /\ pk[r] # None)
        /\ (r \in Held /\ sub[r].mat # None) \/ pk[r] # None => link[r] # None

(* Every sync prepares the harness roots first and ends there if it cannot *)
(* project; then enforce_before_upload, quarantine before anything else.   *)
Start(p) ==
    /\ pr[p].pc = "idle" /\ Projectable
    /\ pr' = [pr EXCEPT ![p] = [pc |-> "enforce",
                 todo |-> {r \in quar : direct[r] # None /\ sub[r] # None}]]
    /\ UNCHANGED <<remote, local, link, jn, changes, crashes>>

Enforce(p, r) ==
    /\ pr[p].pc = "enforce" /\ r \in pr[p].todo
    /\ pr' = [pr EXCEPT ![p].todo = @ \ {r}]
    /\ IF sub[r] # None THEN Quarantined(r) ELSE UNCHANGED <<sub, link>>
    /\ UNCHANGED <<remote, pk, supp, jn, changes, crashes>>

-----------------------------------------------------------------------------
(* recover_incomplete_apply: list the open journals, whoever opened them;  *)
(* restore the old links of each, then delete its row.                     *)

RecoverList(p) ==
    /\ pr[p].pc = "enforce" /\ pr[p].todo = {}
    /\ pr' = [pr EXCEPT ![p] = [pc |-> "recover", listed |-> jn,
                                todo |-> {q \in Procs : jn[q] # None}]]
    /\ UNCHANGED <<remote, local, link, jn, changes, crashes>>

(* Mutant: new links are taken away and replaced ones not put back.        *)
RestoredNew(old) ==
    [r \in Resources |-> IF r \in DOMAIN old /\ old[r] = None THEN None ELSE link[r]]

Restored(old) == [r \in Resources |-> IF r \in DOMAIN old THEN old[r] ELSE link[r]]

RecoverRestore(p, q) ==
    /\ pr[p].pc = "recover" /\ q \in pr[p].todo
    /\ link' = Restored(pr[p].listed[q])
    /\ pr' = [pr EXCEPT ![p] = [pc |-> "discard", listed |-> @.listed, todo |-> @.todo, of |-> q]]
    /\ UNCHANGED <<remote, local, jn, changes, crashes>>

RecoverDiscard(p) ==
    /\ pr[p].pc = "discard"
    /\ jn' = [jn EXCEPT ![pr[p].of] = None]
    /\ pr' = [pr EXCEPT ![p] = [pc |-> "recover", listed |-> @.listed, todo |-> @.todo \ {@.of}]]
    /\ UNCHANGED <<remote, local, link, changes, crashes>>

-----------------------------------------------------------------------------
(* refresh_catalog: the pack sources of the registry against the local     *)
(* subscriptions; a team source that wins suppresses the subscription, a   *)
(* conflict leaves the suppression as it was.                              *)

Known(r) == IF sub[r] = None THEN None ELSE sub[r].des

(* Mutant: a suppression is never lifted.                                  *)
SuppressionsKept ==
    supp \cup {r \in Resources : Cardinality(team[r]) = 1 /\ sub[r] # None}

Suppressions ==
    {r \in Resources :
        \/ Conflicted(r, Known(r)) /\ r \in supp
        \/ Cardinality(team[r]) = 1 /\ sub[r] # None}

Catalog == [want |-> [r \in Resources |-> PackWinner(r, Known(r))],
            conf |-> {r \in Resources : Conflicted(r, Known(r))}]

Refresh(p) ==
    /\ pr[p].pc = "recover" /\ pr[p].todo = {}
    /\ supp' = Suppressions
    /\ pr' = [pr EXCEPT ![p] = [pc |-> "refreshed", cat |-> Catalog, conf0 |-> Catalog.conf,
                                supp0 |-> Suppressions]]
    /\ UNCHANGED <<remote, sub, pk, link, jn, changes, crashes>>

(* The reconcile request names the materialized revisions; the registry    *)
(* answers with quarantined, removed and changed subscriptions and says    *)
(* nothing of unchanged ones.                                              *)
Mat(r) == IF sub[r] = None THEN None ELSE sub[r].mat

Answer(r) ==
    CASE direct[r] # None /\ r \in quar -> "quarantined"
      [] direct[r] = None /\ sub[r] # None -> "removed"
      [] direct[r] # None /\ r \notin quar /\ direct[r] # Mat(r) -> "sent"
      [] OTHER -> "silent"

Reconcile(p) ==
    /\ pr[p].pc = "refreshed"
    /\ pr' = [pr EXCEPT ![p] =
                [pc |-> "direct", cat |-> @.cat, conf0 |-> @.conf0, supp0 |-> @.supp0, of |-> None,
                 todo |-> {r \in Resources : Answer(r) # "silent"},
                 answer |-> [r \in Resources |-> Answer(r)], value |-> direct]]
    /\ UNCHANGED <<remote, local, link, jn, changes, crashes>>

(* The answers are worked off by kind, in this order.                      *)
Phase(a) == CASE a = "quarantined" -> 1 [] a = "removed" -> 2 [] OTHER -> 3

DirectQuarantined(p, r) ==
    /\ IF sub[r] # None THEN Quarantined(r) ELSE UNCHANGED <<sub, link>>
    /\ pr' = [pr EXCEPT ![p].todo = @ \ {r}]
    /\ UNCHANGED <<pk, supp>>

DirectRemoved(p, r) ==
    /\ sub' = IF r \in pr[p].conf0 THEN sub ELSE [sub EXCEPT ![r] = None]
    /\ link' = IF r \in pr[p].conf0 \cup pr[p].supp0 THEN link ELSE [link EXCEPT ![r] = None]
    /\ pr' = [pr EXCEPT ![p].todo = @ \ {r}]
    /\ UNCHANGED <<pk, supp>>

(* A skill that was sent is stored first.                                  *)
DirectSent(p, r) ==
    /\ sub' = [sub EXCEPT ![r] = [des |-> pr[p].value[r], mat |-> Mat(r)]]
    /\ pr' = [pr EXCEPT ![p].pc = "stored", ![p].of = r]
    /\ UNCHANGED <<pk, supp, link>>

(* Then the catalogue is read again.                                       *)
SentRefresh(p) ==
    /\ pr[p].pc = "stored"
    /\ supp' = Suppressions
    /\ pr' = [pr EXCEPT ![p].pc = "place", ![p].cat = Catalog]
    /\ UNCHANGED <<remote, sub, pk, link, jn, changes, crashes>>

(* Then it is materialized, unless team policy holds it or sources         *)
(* disagree; a row that is gone by then fails the sync (its journal is in  *)
(* SubscriptionSync).                                                      *)
SentPlace(p) ==
    LET r == pr[p].of
        hold == r \in pr[p].cat.conf \cup supp \cup pr[p].supp0
    IN  /\ pr[p].pc = "place"
        /\ link' = IF hold THEN link ELSE [link EXCEPT ![r] = pr[p].value[r]]
        /\ sub' = IF hold \/ sub[r] = None THEN sub ELSE [sub EXCEPT ![r].mat = pr[p].value[r]]
        /\ pr' = IF hold \/ sub[r] # None
                 THEN [pr EXCEPT ![p].pc = "direct", ![p].of = None, ![p].todo = @ \ {r}]
                 ELSE [pr EXCEPT ![p] = Idle]
        /\ UNCHANGED <<remote, pk, supp, jn, changes, crashes>>

DirectStep(p, r) ==
    /\ pr[p].pc = "direct" /\ r \in pr[p].todo
    /\ \A x \in pr[p].todo : Phase(pr[p].answer[r]) <= Phase(pr[p].answer[x])
    /\ CASE pr[p].answer[r] = "quarantined" -> DirectQuarantined(p, r)
         [] pr[p].answer[r] = "removed" -> DirectRemoved(p, r)
         [] pr[p].answer[r] = "sent" -> DirectSent(p, r)
    /\ UNCHANGED <<remote, jn, changes, crashes>>

-----------------------------------------------------------------------------
(* apply_pack_only_state.                                                  *)

(* Mutant: a conflict drops the row.                                       *)
NewRowsNoConflict(p) ==
    [r \in Resources |-> IF r \in Held THEN None ELSE pr[p].cat.want[r]]

(* What packs show when the apply is done; a conflict keeps the row.       *)
NewRows(p) ==
    [r \in Resources |->
        IF r \in Held THEN None
        ELSE IF r \in pr[p].cat.conf THEN pk[r]
        ELSE pr[p].cat.want[r]]

Touched(p) ==
    {r \in Resources :
        \/ NewRows(p)[r] = None /\ pk[r] # None
        \/ /\ NewRows(p)[r] # None /\ r \notin pr[p].cat.conf
           /\ ~(pk[r] = NewRows(p)[r] /\ link[r] = NewRows(p)[r])}

(* Where the link of a touched resource goes: the new pack revision, or    *)
(* the subscription that takes over, or nothing.                           *)
Target(p, r) ==
    IF NewRows(p)[r] # None THEN NewRows(p)[r]
    ELSE IF r \in Held THEN sub[r].mat
    ELSE None

(* Stage everything, then write the journal with the old pack revisions.   *)
ApplyPlan(p) ==
    /\ pr[p].pc = "direct" /\ pr[p].todo = {}
    /\ jn' = [jn EXCEPT ![p] = [r \in Touched(p) |-> pk[r]]]
    /\ pr' = [pr EXCEPT ![p] = [pc |-> "switch", rows |-> NewRows(p), todo |-> Touched(p),
                                conf |-> pr[p].conf0 \cap pr[p].cat.conf,
                                to |-> [r \in Touched(p) |-> Target(p, r)]]]
    /\ UNCHANGED <<remote, local, link, changes, crashes>>

ApplySwitch(p) ==
    LET r == Min(pr[p].todo) IN
    /\ pr[p].pc = "switch" /\ pr[p].todo # {}
    /\ link' = [link EXCEPT ![r] = pr[p].to[r]]
    /\ pr' = [pr EXCEPT ![p].todo = @ \ {r}]
    /\ UNCHANGED <<remote, local, jn, changes, crashes>>

(* A failed switch puts every old link back and drops the journal.         *)
ApplyFail(p) ==
    /\ pr[p].pc = "switch" /\ pr[p].todo # {} /\ jn[p] # None
    /\ crashes < MaxCrashes /\ crashes' = crashes + 1
    /\ link' = Restored(jn[p])
    /\ jn' = [jn EXCEPT ![p] = None]
    /\ pr' = [pr EXCEPT ![p] = Idle]
    /\ UNCHANGED <<remote, local, changes>>

(* The commit fails when the journal row is no longer there.               *)
ApplyCommit(p) ==
    /\ pr[p].pc = "switch" /\ pr[p].todo = {}
    /\ IF jn[p] # None
       THEN /\ pk' = pr[p].rows
            /\ jn' = [jn EXCEPT ![p] = None]
            /\ pr' = [pr EXCEPT ![p] = [pc |-> "sweep", conf |-> @.conf]]
       ELSE /\ pr' = [pr EXCEPT ![p] = Idle]
            /\ UNCHANGED <<pk, jn>>
    /\ UNCHANGED <<remote, sub, supp, link, changes, crashes>>

(* The end of sync_with_context, reconcile_canonical_links: links without an owner go; two owners of one *)
(* resource are an error and nothing is swept.                             *)
Sweep(p) ==
    /\ pr[p].pc = "sweep"
    /\ link' = IF \E r \in Held : pk[r] # None THEN link
               ELSE [r \in Resources |->
                       IF r \in Held \/ pk[r] # None THEN link[r] ELSE None]
    /\ pr' = [pr EXCEPT ![p] = Idle]
    /\ UNCHANGED <<remote, local, jn, changes, crashes>>

(* A sync that ends early: the process dies or a request fails.            *)
Crash(p) ==
    /\ crashes < MaxCrashes /\ pr[p].pc # "idle"
    /\ crashes' = crashes + 1
    /\ pr' = [pr EXCEPT ![p] = Idle]
    /\ UNCHANGED <<remote, local, link, jn, changes>>

-----------------------------------------------------------------------------
Init ==
    /\ team = [r \in Resources |-> {}] /\ pack = [r \in Resources |-> {}]
    /\ direct = [r \in Resources |-> None] /\ quar = {}
    /\ sub = [r \in Resources |-> None] /\ pk = [r \in Resources |-> None]
    /\ supp = {} /\ link = [r \in Resources |-> None]
    /\ jn = [p \in Procs |-> None] /\ pr = [p \in Procs |-> Idle]
    /\ changes = 0 /\ crashes = 0

SyncStep(p) ==
    \/ Start(p) \/ RecoverList(p) \/ RecoverDiscard(p) \/ Refresh(p) \/ Reconcile(p)
    \/ \E q \in Procs : RecoverRestore(p, q)
    \/ \E r \in Resources : Enforce(p, r) \/ DirectStep(p, r)
    \/ SentRefresh(p) \/ SentPlace(p) \/ ApplyPlan(p) \/ ApplySwitch(p) \/ ApplyCommit(p) \/ Sweep(p)

Next ==
    \/ \E r \in Resources :
        \/ \E vs \in SUBSET TeamRevs[r] : SetTeam(r, vs)
        \/ \E vs \in SUBSET PackRevs[r] : SetPack(r, vs)
        \/ \E v \in DirectRevs[r] \cup {None} : SetDirect(r, v)
    \/ \E r \in Quarantinable : SetQuarantine(r)
    \/ \E p \in Procs : SyncStep(p) \/ ApplyFail(p) \/ Crash(p)

Spec == Init /\ [][Next]_vars

(* A daemon syncs at least every ten seconds.                              *)
FairSpec == Spec /\ \A p \in Procs : WF_vars(SyncStep(p))

-----------------------------------------------------------------------------
(* Properties.                                                             *)

(* When an apply has committed and no other process is at work, every pack *)
(* row is what its link shows: a switch of several skills, interrupted or  *)
(* not, is never half visible (commit_pack_apply, recovery, the sweep).    *)
AppliedRowsVisible ==
    /\ TypeOK
    /\ \A p \in Procs :
        pr[p].pc = "sweep" /\ (\A q \in Procs \ {p} : pr[q].pc = "idle")
            => \A r \in Resources : pk[r] # None => link[r] = pk[r] /\ r \notin Held

(* While equal sources disagree about a skill, a sync that saw them        *)
(* disagree neither picks a winner nor takes the last good revision away   *)
(* (preserve_conflicted_existing, the conflict checks of the direct part). *)
ConflictKeepsLastGood ==
    [][\A p \in Procs :
         \A r \in CASE {pr[p].pc, pr'[p].pc} \subseteq {"direct", "stored", "place"}
                          -> pr[p].conf0 \cap pr[p].cat.conf \cap pr'[p].cat.conf
                   [] pr[p].pc = "refreshed" -> pr[p].conf0
                   [] pr[p].pc \in {"switch", "sweep"} -> pr[p].conf
                   [] OTHER -> {} :
             link'[r] = link[r] \/ r \in quar]_vars

(* Once the registry stops changing, the device shows what the resolver    *)
(* chooses, nothing of a quarantined skill, and keeps a conflicted skill   *)
(* as it is.  A device on which a sync was cut off settles too, unless the *)
(* cut left it in a state the projection check refuses.                    *)
SettledOn(r) ==
    \/ Conflicted(r, direct[r])
    \/ link[r] = None /\ (Strongest(r, direct[r]) = {} \/ r \in quar)
    \/ {link[r]} = Strongest(r, direct[r]) /\ r \notin quar

DeviceSettles ==
    \A r \in Resources : <>[](SettledOn(r) \/ (crashes > 0 /\ ~Projectable))

(* Removing team policy reactivates the weaker source, crash or not        *)
(* (denju-sync, resolve_desired_sources).                                  *)
WeakerSourceReturns == \A r \in Resources : <>[]SettledOn(r)

(* Quarantined content leaves the visible state of the device              *)
(* (guides/trust-and-safety.md, Security quarantine).                      *)
QuarantineTakesDown == \A r \in Resources : <>[](r \in quar => link[r] = None)
=============================================================================
