----------------------------- MODULE PackFanout -----------------------------
(***************************************************************************)
(* How a published skill release reaches the packs that follow the skill.  *)
(* Publishing inserts a durable release event; drains apply the events to  *)
(* packs one by one, and every authored change of a pack first catches up  *)
(* with the pending events of its members.  The row locks and the advisory *)
(* locks of the transactions are explicit, since drains and authors take   *)
(* them in different orders and PostgreSQL must break the cycle.           *)
(*                                                                         *)
(* A release is its version number, 0 is the private draft of a skill      *)
(* without a release.  Event ids number the release events only: the other *)
(* authority events share the sequence and do not change the order.        *)
(***************************************************************************)
EXTENDS Integers, FiniteSets, FiniteSetsExt

CONSTANTS
    Skills,     \* skills, as integers: their order is the order of the ids
    Packs,      \* pack ids, integers for the same reason
    Drains,     \* concurrent callers of drain_pack_release_events
    Authors,    \* concurrent authenticated requests on packs
    None,       \* "no value"; not a Nat
    MaxEvents,  \* bound on release events
    MaxEdits,   \* bound on authored requests
    MaxAborts   \* bound on transactions lost to a crash

ASSUME PackFanoutAssumption ==
    /\ Skills \subseteq Nat
    /\ Packs \subseteq Nat
    /\ Drains \cap Authors = {}
    /\ Skills \cap (Drains \cup Authors) = {}
    /\ None \notin Nat \cup Drains \cup Authors
    /\ MaxEvents \in Nat /\ MaxEdits \in Nat /\ MaxAborts \in Nat

VARIABLES
    seq,        \* last value of authority_events_id_seq
    event,      \* committed release events: id -> [skill, ver]
    pub,        \* [Skills -> id of the event a publish has inserted | None]
    latest,     \* resources.latest_release_version of each skill
    public,     \* the skills whose visibility is public
    pack,       \* [Packs -> [gen, public, live]]
    intent,     \* pack_members: [Packs -> [skill -> [pin, after]]]
    rev,        \* current pack revision: [Packs -> [skill -> [pin, ver]]]
    applied,    \* [Packs -> ids that are the source of a pack revision]
    done,       \* pack_release_event_completions
    subscribed, \* the packs the author's own account subscribes to
    rowLock, packLock, skillLock,  \* holder of each lock, or None
    dr,         \* the drains' progress
    au,         \* the authors' progress
    edits, aborts

locks == <<rowLock, packLock, skillLock>>
store == <<pack, intent, rev, applied>>
vars == <<seq, event, pub, latest, public, store, done, subscribed,
          locks, dr, au, edits, aborts>>

Idle == [pc |-> "idle"]
MemberVerbs == {"add", "pin", "remove"}
Verbs == MemberVerbs \cup {"publish", "unpublish", "rename", "delete"}

EventIds == 1..MaxEvents

(* A drain carries its event and, once it has chosen one, the pack.        *)
DrainStates ==
    {Idle} \cup [pc : {"next", "complete"}, ev : EventIds]
           \cup [pc : {"pack", "skill", "apply"}, ev : EventIds, pack : Packs]

AuthorStates ==
    {Idle} \cup [pc : {"row", "pack", "skills"}, pack : Packs, verb : Verbs,
                 skill : Skills, gen : Nat]

TypeOK ==
    /\ seq \in 0..MaxEvents
    /\ DOMAIN event \subseteq EventIds
    /\ event \in [DOMAIN event -> [skill : Skills, ver : EventIds]]
    /\ pub \in [Skills -> EventIds \cup {None}]
    /\ latest \in [Skills -> 0..MaxEvents]
    /\ public \subseteq Skills
    /\ pack \in [Packs -> [gen : Nat, public : BOOLEAN, live : BOOLEAN]]
    /\ DOMAIN intent = Packs /\ DOMAIN rev = Packs
    /\ \A p \in Packs :
        /\ DOMAIN intent[p] \subseteq Skills
        /\ intent[p] \in [DOMAIN intent[p] -> [pin : BOOLEAN, after : 0..MaxEvents]]
        /\ rev[p] \in [DOMAIN rev[p] -> [pin : BOOLEAN, ver : 0..MaxEvents]]
    /\ applied \in [Packs -> SUBSET EventIds]
    /\ done \subseteq EventIds
    /\ subscribed \subseteq Packs
    /\ rowLock \in [Packs -> Drains \cup Authors \cup {None}]
    /\ packLock \in [Packs -> Drains \cup Authors \cup {None}]
    /\ skillLock \in [Skills -> Drains \cup Authors \cup Skills \cup {None}]
    /\ dr \in [Drains -> DrainStates]
    /\ au \in [Authors -> AuthorStates]
    /\ edits \in Nat /\ aborts \in Nat

(* An insert or update of the row with key k.                              *)
Upsert(f, k, row) == [x \in DOMAIN f \cup {k} |-> IF x = k THEN row ELSE f[x]]

-----------------------------------------------------------------------------
(* Publishing a skill.  A publish holds the skill's advisory lock from     *)
(* before it inserts its event until it commits; publisher s is the lock   *)
(* holder "s" itself.                                                      *)

PublishInsert(s) ==
    /\ seq < MaxEvents
    /\ skillLock[s] = None
    /\ skillLock' = [skillLock EXCEPT ![s] = s]
    /\ seq' = seq + 1
    /\ pub' = [pub EXCEPT ![s] = seq + 1]
    /\ UNCHANGED <<event, latest, public, store, done, subscribed,
                   rowLock, packLock, dr, au, edits, aborts>>

PublishCommit(s) ==
    /\ pub[s] # None
    /\ event' = Upsert(event, pub[s], [skill |-> s, ver |-> latest[s] + 1])
    /\ latest' = [latest EXCEPT ![s] = @ + 1]
    /\ public' = public \cup {s}
    /\ pub' = [pub EXCEPT ![s] = None]
    /\ skillLock' = [skillLock EXCEPT ![s] = None]
    /\ UNCHANGED <<seq, store, done, subscribed, rowLock, packLock, dr,
                   au, edits, aborts>>

(* The publish rolls back: its event id is never used again.               *)
PublishAbort(s) ==
    /\ pub[s] # None
    /\ aborts < MaxAborts
    /\ aborts' = aborts + 1
    /\ pub' = [pub EXCEPT ![s] = None]
    /\ skillLock' = [skillLock EXCEPT ![s] = None]
    /\ UNCHANGED <<seq, event, latest, public, store, done, subscribed,
                   rowLock, packLock, dr, au, edits>>

(* unpublish_skill hides the skill and keeps its releases.                 *)
UnpublishSkill(s) ==
    /\ s \in public /\ edits < MaxEdits
    /\ edits' = edits + 1
    /\ public' = public \ {s}
    /\ UNCHANGED <<seq, event, pub, latest, store, done, subscribed,
                   locks, dr, au, aborts>>

(* publish_skill of the revision already released: visible again, without  *)
(* a new release or event.                                                 *)
RepublishSkill(s) ==
    /\ skillLock[s] = None /\ latest[s] > 0 /\ s \notin public /\ edits < MaxEdits
    /\ edits' = edits + 1
    /\ public' = public \cup {s}
    /\ UNCHANGED <<seq, event, pub, latest, store, done, subscribed,
                   locks, dr, au, aborts>>

-----------------------------------------------------------------------------
(* Pack revisions.                                                         *)

(* Mutant: the watermark of the member is ignored.                         *)
FollowsAny(p, e) ==
    LET s == event[e].skill IN
    /\ s \in DOMAIN intent[p]
    /\ ~intent[p][s].pin
    /\ e \notin applied[p]

(* The member follows the skill, has not seen the event, and the pack has  *)
(* no revision made from it.                                               *)
Follows(p, e) ==
    LET s == event[e].skill IN
    /\ s \in DOMAIN intent[p]
    /\ ~intent[p][s].pin
    /\ intent[p][s].after < e
    /\ e \notin applied[p]

Pending(p) == {e \in DOMAIN event : Follows(p, e)}

(* One more pack version per event: the current members with the target    *)
(* replaced.                                                               *)
Resolve(members, e) == [members EXCEPT ![event[e].skill].ver = event[e].ver]

AdvanceInTx(p, e) ==
    /\ rev' = [rev EXCEPT ![p] = Resolve(@, e)]
    /\ applied' = [applied EXCEPT ![p] = @ \cup {e}]
    /\ pack' = [pack EXCEPT ![p].gen = @ + 1]
    /\ UNCHANGED intent

(* Every pending event in id order; only the last event of each skill      *)
(* shows in the members, every event in the versions and generations.      *)
CatchUp(p) ==
    LET es == Pending(p)
        last(s) == {e \in es : event[e].skill = s}
    IN  /\ rev' = [rev EXCEPT ![p] = [s \in DOMAIN @ |->
                     IF last(s) = {} THEN @[s]
                     ELSE [@[s] EXCEPT !.ver = event[Max(last(s))].ver]]]
        /\ applied' = [applied EXCEPT ![p] = @ \cup es]
        /\ pack' = [pack EXCEPT ![p].gen = @ + Cardinality(es)]
        /\ UNCHANGED <<intent, subscribed>>

-----------------------------------------------------------------------------
(* drain_pack_release_events.  Its reads run in their own statements, so   *)
(* everything may change between the choice of a pack and its transaction. *)

Undone == DOMAIN event \ done

DrainLoad(d) ==
    /\ dr[d].pc = "idle" /\ Undone # {}
    /\ dr' = [dr EXCEPT ![d] = [pc |-> "next", ev |-> Min(Undone)]]
    /\ UNCHANGED <<seq, event, pub, latest, public, store, done, subscribed,
                   locks, au, edits, aborts>>

(* Mutant: deleted packs are not filtered out.                             *)
DrainNextAny(d) ==
    /\ dr[d].pc = "next"
    /\ LET e == dr[d].ev
           ps == {p \in Packs : Follows(p, e)}
       IN  dr' = [dr EXCEPT ![d] =
                    IF ps = {} THEN [pc |-> "complete", ev |-> e]
                    ELSE [pc |-> "pack", ev |-> e, pack |-> Min(ps)]]
    /\ UNCHANGED <<seq, event, pub, latest, public, store, done, subscribed,
                   locks, au, edits, aborts>>

DrainNext(d) ==
    /\ dr[d].pc = "next"
    /\ LET e == dr[d].ev
           ps == {p \in Packs : pack[p].live /\ Follows(p, e)}
       IN  dr' = [dr EXCEPT ![d] =
                    IF ps = {} THEN [pc |-> "complete", ev |-> e]
                    ELSE [pc |-> "pack", ev |-> e, pack |-> Min(ps)]]
    /\ UNCHANGED <<seq, event, pub, latest, public, store, done, subscribed,
                   locks, au, edits, aborts>>

DrainComplete(d) ==
    /\ dr[d].pc = "complete"
    /\ done' = done \cup {dr[d].ev}
    /\ dr' = [dr EXCEPT ![d] = Idle]
    /\ UNCHANGED <<seq, event, pub, latest, public, store, subscribed,
                   locks, au, edits, aborts>>

DrainLockPack(d) ==
    /\ dr[d].pc = "pack"
    /\ packLock[dr[d].pack] = None
    /\ packLock' = [packLock EXCEPT ![dr[d].pack] = d]
    /\ dr' = [dr EXCEPT ![d].pc = "skill"]
    /\ UNCHANGED <<seq, event, pub, latest, public, store, done, subscribed,
                   rowLock, skillLock, au, edits, aborts>>

DrainLockSkill(d) ==
    LET s == event[dr[d].ev].skill IN
    /\ dr[d].pc = "skill"
    /\ skillLock[s] = None
    /\ skillLock' = [skillLock EXCEPT ![s] = d]
    /\ dr' = [dr EXCEPT ![d].pc = "apply"]
    /\ UNCHANGED <<seq, event, pub, latest, public, store, done, subscribed,
                   rowLock, packLock, au, edits, aborts>>

Release(x) ==
    /\ rowLock' = [p \in Packs |-> IF rowLock[p] = x THEN None ELSE rowLock[p]]
    /\ packLock' = [p \in Packs |-> IF packLock[p] = x THEN None ELSE packLock[p]]
    /\ skillLock' = [s \in Skills |-> IF skillLock[s] = x THEN None ELSE skillLock[s]]

(* advance_pack_event_in_tx to its commit.  It waits for the pack's row    *)
(* only when there is something to apply; a deleted pack is left alone.    *)
DrainApply(d) ==
    LET p == dr[d].pack
        e == dr[d].ev
    IN  /\ dr[d].pc = "apply"
        /\ \/ /\ ~Follows(p, e)
              /\ UNCHANGED store
           \/ /\ Follows(p, e)
              /\ rowLock[p] = None
              /\ IF pack[p].live
                 THEN AdvanceInTx(p, e)
                 ELSE UNCHANGED store
        /\ Release(d)
        /\ dr' = [dr EXCEPT ![d] = Idle]
        /\ UNCHANGED <<seq, event, pub, latest, public, done, subscribed, au,
                       edits, aborts>>

-----------------------------------------------------------------------------
(* Authored changes of a pack.                                             *)

(* The client sends the generation it last saw.                            *)
Request(a, p, verb, s) ==
    /\ au[a].pc = "idle" /\ edits < MaxEdits
    /\ verb \in MemberVerbs \/ s = Min(Skills)
    /\ edits' = edits + 1
    /\ au' = [au EXCEPT ![a] = [pc |-> "row", pack |-> p, verb |-> verb,
                                skill |-> s, gen |-> pack[p].gen]]
    /\ UNCHANGED <<seq, event, pub, latest, public, store, done, subscribed,
                   locks, dr, aborts>>

(* load_owned_pack_for_update: a deleted pack is not found.                *)
AuthorLockRow(a) ==
    LET p == au[a].pack IN
    /\ au[a].pc = "row" /\ rowLock[p] = None
    /\ IF pack[p].live
       THEN /\ rowLock' = [rowLock EXCEPT ![p] = a]
            /\ au' = [au EXCEPT ![a].pc = "pack"]
       ELSE /\ au' = [au EXCEPT ![a] = Idle]
            /\ UNCHANGED rowLock
    /\ UNCHANGED <<seq, event, pub, latest, public, store, done, subscribed,
                   packLock, skillLock, dr, edits, aborts>>

AuthorLockPack(a) ==
    LET p == au[a].pack IN
    /\ au[a].pc = "pack" /\ packLock[p] = None
    /\ packLock' = [packLock EXCEPT ![p] = a]
    /\ au' = [au EXCEPT ![a].pc = "skills"]
    /\ UNCHANGED <<seq, event, pub, latest, public, store, done, subscribed,
                   rowLock, skillLock, dr, edits, aborts>>

(* Mutant: the skills the request adds are not locked.                     *)
MembersToLock(a) == DOMAIN intent[au[a].pack]

(* The members and the skills the request names, in id order.              *)
SkillsToLock(a) ==
    DOMAIN intent[au[a].pack]
        \cup (IF au[a].verb \in MemberVerbs THEN {au[a].skill} ELSE {})

AuthorLockSkill(a) ==
    LET rest == {s \in SkillsToLock(a) : skillLock[s] # a} IN
    /\ au[a].pc = "skills" /\ rest # {}
    /\ skillLock[Min(rest)] = None
    /\ skillLock' = [skillLock EXCEPT ![Min(rest)] = a]
    /\ UNCHANGED <<seq, event, pub, latest, public, store, done, subscribed,
                   rowLock, packLock, dr, au, edits, aborts>>

(* resolve_member: a member's release, or its draft where the audience of  *)
(* the pack may see one.                                                   *)
Resolvable(s, audience) == audience => s \in public /\ latest[s] > 0

(* The watermark is the last value of the sequence, whoever allocated it.  *)
Watermark == seq

SetMember(p, s, isPin) ==
    LET m == [pin |-> isPin, after |-> Watermark]
        r == [pin |-> isPin, ver |-> latest[s]]
    IN  IF s \in DOMAIN intent[p] /\ intent[p][s].pin = isPin
             /\ (isPin => rev[p][s].ver = latest[s])
        THEN UNCHANGED store
        ELSE /\ intent' = [intent EXCEPT ![p] = Upsert(@, s, m)]
             /\ rev' = [rev EXCEPT ![p] = Upsert(@, s, r)]
             /\ pack' = [pack EXCEPT ![p].gen = @ + 1]
             /\ UNCHANGED applied

(* Mutant: the authored row goes, the revision keeps the skill.            *)
RemoveIntentOnly(p, s) ==
    IF s \notin DOMAIN intent[p]
    THEN UNCHANGED store
    ELSE LET rest == DOMAIN intent[p] \ {s} IN
         /\ intent' = [intent EXCEPT ![p] = [x \in rest |-> @[x]]]
         /\ pack' = [pack EXCEPT ![p].gen = @ + 1]
         /\ UNCHANGED <<rev, applied>>

RemoveMember(p, s) ==
    IF s \notin DOMAIN intent[p]
    THEN UNCHANGED store
    ELSE LET rest == DOMAIN intent[p] \ {s} IN
         /\ intent' = [intent EXCEPT ![p] = [x \in rest |-> @[x]]]
         /\ rev' = [rev EXCEPT ![p] = [x \in rest |-> @[x]]]
         /\ pack' = [pack EXCEPT ![p].gen = @ + 1]
         /\ UNCHANGED applied

(* publish_pack of a personal pack: every member is resolved again for the *)
(* public audience, pins to their pin.                                     *)
PublishPack(p) ==
    LET res == [s \in DOMAIN intent[p] |->
                  [pin |-> intent[p][s].pin,
                   ver |-> IF intent[p][s].pin THEN rev[p][s].ver ELSE latest[s]]]
        steps == (IF res # rev[p] THEN 1 ELSE 0) + (IF pack[p].public THEN 0 ELSE 1)
    IN  /\ rev' = [rev EXCEPT ![p] = res]
        /\ pack' = [pack EXCEPT ![p].gen = @ + steps, ![p].public = TRUE]
        /\ UNCHANGED <<intent, applied>>

(* Mutant: publish_pack does not resolve the members for the public.       *)
AllowedUnresolved(p, verb, s) ==
    CASE verb = "add" -> Resolvable(s, pack[p].public)
      [] verb = "pin" -> latest[s] > 0 /\ Resolvable(s, pack[p].public)
      [] verb = "unpublish" -> pack[p].public
      [] OTHER -> TRUE

(* What the request checks before it changes anything.                     *)
Allowed(p, verb, s) ==
    CASE verb = "add" -> Resolvable(s, pack[p].public)
      [] verb = "pin" -> latest[s] > 0 /\ Resolvable(s, pack[p].public)
      [] verb = "publish" -> \A x \in DOMAIN intent[p] : Resolvable(x, TRUE)
      [] verb = "unpublish" -> pack[p].public
      [] OTHER -> TRUE

UnpublishPack(p) ==
    /\ pack' = [pack EXCEPT ![p].gen = @ + 1, ![p].public = FALSE]
    /\ UNCHANGED <<intent, rev, applied>>

RenamePack(p) ==
    /\ pack' = [pack EXCEPT ![p].gen = @ + 1]
    /\ UNCHANGED <<intent, rev, applied>>

(* A tombstone.  The row policy of account_subscriptions lets the          *)
(* transaction delete the author's own subscription, not those of others.  *)
DeletePack(p) ==
    /\ pack' = [pack EXCEPT ![p] = [gen |-> @.gen + 1, public |-> FALSE, live |-> FALSE]]
    /\ UNCHANGED <<intent, rev, applied>>

ChangePack(p, verb, s) ==
    /\ \/ verb = "add" /\ SetMember(p, s, FALSE)
       \/ verb = "pin" /\ SetMember(p, s, TRUE)
       \/ verb = "remove" /\ RemoveMember(p, s)
       \/ verb = "publish" /\ PublishPack(p)
       \/ verb = "unpublish" /\ UnpublishPack(p)
       \/ verb = "rename" /\ RenamePack(p)
       \/ verb = "delete" /\ DeletePack(p)
    /\ subscribed' = IF verb = "delete" THEN subscribed \ {p} ELSE subscribed

(* With every lock held: pending events first, and then the request is     *)
(* refused; otherwise the generation is compared and the change made.      *)
AuthorCommit(a) ==
    LET p == au[a].pack IN
    /\ au[a].pc = "skills"
    /\ \A s \in SkillsToLock(a) : skillLock[s] = a
    /\ \/ Pending(p) # {} /\ CatchUp(p)
       \/ /\ Pending(p) = {} /\ pack[p].gen # au[a].gen
          /\ UNCHANGED <<store, subscribed>>
       \/ /\ Pending(p) = {} /\ pack[p].gen = au[a].gen
          /\ IF Allowed(p, au[a].verb, au[a].skill)
             THEN ChangePack(p, au[a].verb, au[a].skill)
             ELSE UNCHANGED <<store, subscribed>>
    /\ Release(a)
    /\ au' = [au EXCEPT ![a] = Idle]
    /\ UNCHANGED <<seq, event, pub, latest, public, done, dr, edits, aborts>>

-----------------------------------------------------------------------------
(* The account's subscription to a pack: the row lock is taken and dropped *)
(* with the transaction; only a live, readable pack gains a subscriber.    *)
Subscribe(p) ==
    /\ rowLock[p] = None /\ pack[p].live /\ edits < MaxEdits
    /\ edits' = edits + 1
    /\ subscribed' = subscribed \cup {p}
    /\ UNCHANGED <<seq, event, pub, latest, public, store, done, locks, dr, au,
                   aborts>>

Unsubscribe(p) ==
    /\ rowLock[p] = None /\ p \in subscribed
    /\ subscribed' = subscribed \ {p}
    /\ UNCHANGED <<seq, event, pub, latest, public, store, done, locks, dr, au,
                   edits, aborts>>

-----------------------------------------------------------------------------
(* Lost transactions.                                                      *)

(* The holder of the lock that process x waits for.                        *)
WaitsFor(x) ==
    IF x \in Drains
    THEN CASE dr[x].pc = "pack" -> packLock[dr[x].pack]
           [] dr[x].pc = "skill" -> skillLock[event[dr[x].ev].skill]
           [] dr[x].pc = "apply" /\ Follows(dr[x].pack, dr[x].ev) ->
                  rowLock[dr[x].pack]
           [] OTHER -> None
    ELSE CASE au[x].pc = "row" -> rowLock[au[x].pack]
           [] au[x].pc = "pack" -> packLock[au[x].pack]
           [] OTHER -> None

InCycle(x) == WaitsFor(x) \in Drains \cup Authors /\ WaitsFor(WaitsFor(x)) = x

Rollback(x) ==
    /\ Release(x)
    /\ dr' = IF x \in Drains THEN [dr EXCEPT ![x] = Idle] ELSE dr
    /\ au' = IF x \in Authors THEN [au EXCEPT ![x] = Idle] ELSE au
    /\ UNCHANGED <<seq, event, pub, latest, public, store, done, subscribed,
                   edits>>

(* PostgreSQL finds the wait cycle and fails one of the transactions.      *)
DeadlockVictim(x) == InCycle(x) /\ Rollback(x) /\ UNCHANGED aborts

(* The server process stops, or its connection is lost.                    *)
Crash(x) ==
    /\ aborts < MaxAborts
    /\ aborts' = aborts + 1
    /\ IF x \in Drains THEN dr[x] # Idle ELSE au[x] # Idle
    /\ Rollback(x)

-----------------------------------------------------------------------------
(* Pack 1 starts as the state create_pack leaves: no members, version 1.   *)
Init ==
    /\ seq = 0 /\ event = <<>> /\ pub = [s \in Skills |-> None]
    /\ latest = [s \in Skills |-> 0] /\ public = {}
    /\ pack = [p \in Packs |-> [gen |-> 1, public |-> FALSE, live |-> TRUE]]
    /\ intent = [p \in Packs |-> <<>>] /\ rev = [p \in Packs |-> <<>>]
    /\ applied = [p \in Packs |-> {}] /\ done = {} /\ subscribed = {}
    /\ rowLock = [p \in Packs |-> None] /\ packLock = [p \in Packs |-> None]
    /\ skillLock = [s \in Skills |-> None]
    /\ dr = [d \in Drains |-> Idle] /\ au = [a \in Authors |-> Idle]
    /\ edits = 0 /\ aborts = 0

DrainStep(d) ==
    \/ DrainLoad(d) \/ DrainNext(d) \/ DrainComplete(d)
    \/ DrainLockPack(d) \/ DrainLockSkill(d) \/ DrainApply(d)

AuthorStep(a) ==
    \/ AuthorLockRow(a) \/ AuthorLockPack(a) \/ AuthorLockSkill(a) \/ AuthorCommit(a)

Next ==
    \/ \E s \in Skills : PublishInsert(s) \/ PublishCommit(s) \/ PublishAbort(s)
                         \/ UnpublishSkill(s) \/ RepublishSkill(s)
    \/ \E d \in Drains : DrainStep(d)
    \/ \E a \in Authors, p \in Packs, verb \in Verbs, s \in Skills : Request(a, p, verb, s)
    \/ \E a \in Authors : AuthorStep(a)
    \/ \E p \in Packs : Subscribe(p) \/ Unsubscribe(p)
    \/ \E x \in Drains \cup Authors : DeadlockVictim(x) \/ Crash(x)

Spec == Init /\ [][Next]_vars

(* Requests in progress run on, the recovery drain is called again and     *)
(* again, and the database ends every wait cycle.  An author is strongly   *)
(* fair: a queued lock request is granted when the lock is released.       *)
Fairness ==
    /\ \A s \in Skills : WF_vars(PublishCommit(s))
    /\ \A d \in Drains : WF_vars(DrainStep(d))
    /\ \A a \in Authors : SF_vars(AuthorStep(a))
    /\ WF_vars(\E x \in Drains \cup Authors : DeadlockVictim(x))

FairSpec == Spec /\ Fairness

-----------------------------------------------------------------------------
(* Properties.                                                             *)

(* The authored membership and the members of the current pack revision    *)
(* name the same skills with the same pins: advance_pack_event_in_tx fails *)
(* with an internal error when they diverge, and the drain with it.        *)
IntentMatchesRevision ==
    /\ TypeOK
    /\ \A p \in Packs :
        /\ DOMAIN intent[p] = DOMAIN rev[p]
        /\ \A s \in DOMAIN intent[p] : intent[p][s].pin = rev[p][s].pin

(* No release is lost between the watermark of a member, the events its    *)
(* pack has applied and the events marked complete: a live pack either     *)
(* shows a committed release of a skill it follows, or still has it        *)
(* pending where a drain will find it.                                     *)
NoReleaseLost ==
    \A p \in Packs : pack[p].live =>
        \A e \in DOMAIN event :
            LET s == event[e].skill IN
            s \in DOMAIN intent[p] /\ ~intent[p][s].pin =>
                \/ rev[p][s].ver >= event[e].ver
                \/ Follows(p, e) /\ e \notin done

(* A public pack never shows the draft of a skill without a release, in    *)
(* whatever order it was made public and its members were added.           *)
PublicPackShowsReleases ==
    \A p \in Packs : pack[p].public => \A s \in DOMAIN rev[p] : rev[p][s].ver > 0

(* What a pack shows of a skill it goes on following never goes back to an *)
(* older release.                                                          *)
FollowersNeverRegress ==
    [][\A p \in Packs : \A s \in DOMAIN intent[p] \cap DOMAIN intent'[p] :
         ~intent[p][s].pin /\ ~intent'[p][s].pin => rev'[p][s].ver >= rev[p][s].ver]_vars

(* Every committed release event is eventually applied everywhere and      *)
(* marked complete, deadlocks with authors notwithstanding.                *)
ReleasesLand ==
    (Undone # {}) ~> (Undone = {})
=============================================================================
