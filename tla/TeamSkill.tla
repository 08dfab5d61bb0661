----------------------------- MODULE TeamSkill ------------------------------
(***************************************************************************)
(* One skill of a team: its releases and the private draft that every      *)
(* maintainer keeps of it.  WorkspaceRegistry has the saves, conflicts and *)
(* replays of one draft in full; this module has what several drafts of    *)
(* one skill do to each other.                                             *)
(*                                                                         *)
(* A revision is its position in rev.  Its content is the set of saves     *)
(* whose edits it holds.  Every commit locks the rows it changes and is    *)
(* one step; a save reads the skill's name before, a rename reads the      *)
(* skill and all drafts before, and the INSERT ... SELECT that provisions  *)
(* a draft reads the latest release and then waits for the row locks.      *)
(* A draft's generation moves with its head, which stands for both.        *)
(***************************************************************************)
EXTENDS Naturals, Sequences

CONSTANTS
    Users,    \* people who may be maintainers
    Founder,  \* the one who imported the skill into the team; stays
    Slugs,    \* names of the skill
    First,    \* the one it is imported with
    MaxRevs,  \* bound on the revisions ever made
    None

VARIABLES
    slug,      \* resources.slug
    public,    \* resources.visibility = 'public'
    releases,  \* skill_releases in order of version: revisions
    rev,       \* revisions, revision_parents and their snapshots
    draft,     \* Users -> skill_private_workspaces.revision_id, or None
    conflict,  \* Users -> the heads of the unresolved conflict, or {}
    maintains, \* users who may publish in the team
    request        \* Users -> a request between its transactions, or None

vars == <<slug, public, releases, rev, draft, conflict, maintains, request>>

Revs == 1..MaxRevs
RevRows == [parents : SUBSET Revs, name : Slugs, by : Users, content : SUBSET Revs]
Jobs == [kind : {"provision", "save"}, head : Revs, name : Slugs]
        \cup [kind : {"rename"}, head : [Users -> Revs \cup {None}],
              name : Slugs, new : Slugs, count : 0..MaxRevs]

TypeOK ==
    /\ slug \in Slugs /\ public \in BOOLEAN
    /\ releases \in Seq(1..Len(rev)) /\ Len(rev) <= MaxRevs
    /\ \A i \in DOMAIN rev : rev[i] \in RevRows
    /\ draft \in [Users -> (1..Len(rev)) \cup {None}]
    /\ conflict \in [Users -> SUBSET (1..Len(rev))]
    /\ maintains \subseteq Users
    /\ \A u \in Users : request[u] # None => request[u] \in Jobs

-----------------------------------------------------------------------------
Latest == releases[Len(releases)]
Released(i) == \E k \in DOMAIN releases : releases[k] = i

(* What a walk along revision_parents from i meets when only the rows of   *)
(* the revisions in seen are visible: the least set with i that is closed. *)
Closed(seen, S) == \A k \in S \cap seen : rev[k].parents \subseteq S
Walk(seen, i) ==
    {j \in DOMAIN rev : \A S \in SUBSET DOMAIN rev : i \in S /\ Closed(seen, S) => j \in S}

Anc(i) == Walk(DOMAIN rev, i)

(* denju_actor_can_read_revision for a maintainer: releases, the ancestry  *)
(* of the own draft, and what the maintainer is the author of.             *)
Readable(u) ==
    {i \in DOMAIN rev : Released(i) \/ rev[i].by = u}
        \cup (IF draft[u] = None THEN {} ELSE Anc(draft[u]))

(* merge_base finds a common ancestor along the visible rows.              *)
HasMergeBase(u) == Walk(Readable(u), draft[u]) \cap Walk(Readable(u), Latest) # {}

Acts(u) == u \in maintains /\ request[u] = None
Room(n) == Len(rev) + n <= MaxRevs

Child(parents, u, name, content) ==
    [parents |-> parents, name |-> name, by |-> u, content |-> content]

-----------------------------------------------------------------------------
(* The revision a new draft starts from: the latest release.               *)
Seed == IF releases = <<>> THEN {} ELSE {Latest}

(* The INSERT ... SELECT of the private catalogue, of prepare and of       *)
(* restore sees the release of its snapshot ...                            *)
ProvisionStart(u) ==
    /\ Acts(u) /\ draft[u] = None
    /\ \E i \in Seed :
         request' = [request EXCEPT ![u] = [kind |-> "provision", head |-> i, name |-> slug]]
    /\ UNCHANGED <<slug, public, releases, rev, draft, conflict, maintains>>

(* ... and its foreign key waits for whoever holds the skill's row.        *)
ProvisionCommit(u) ==
    /\ request[u] # None /\ request[u].kind = "provision"
    /\ u \in maintains
    /\ draft' = [draft EXCEPT ![u] = IF @ = None THEN request[u].head ELSE @]
    /\ request' = [request EXCEPT ![u] = None]
    /\ UNCHANGED <<slug, public, releases, rev, conflict, maintains>>

(* commit_private_revision up to its locks: the content was made for the   *)
(* head the client knows and must carry the skill's name.                  *)
SaveRead(u) ==
    /\ Acts(u) /\ draft[u] # None /\ conflict[u] = {} /\ rev[draft[u]].name = slug
    /\ request' = [request EXCEPT ![u] = [kind |-> "save", head |-> draft[u], name |-> slug]]
    /\ UNCHANGED <<slug, public, releases, rev, draft, conflict, maintains>>

(* Its locked part: the save becomes the head, or, if the head moved, is   *)
(* kept beside it with a conflict.                                         *)
SaveCommit(u) ==
    LET n == Len(rev) + 1 j == request[u] IN
    /\ j # None /\ j.kind = "save" /\ Room(1)
    /\ u \in maintains /\ draft[u] # None /\ conflict[u] = {}
    /\ rev' = Append(rev, Child({j.head}, u, j.name, rev[j.head].content \cup {n}))
    /\ IF draft[u] = j.head
       THEN /\ draft' = [draft EXCEPT ![u] = n]
            /\ UNCHANGED conflict
       ELSE /\ conflict' = [conflict EXCEPT ![u] = {n, draft[u]}]
            /\ UNCHANGED draft
    /\ request' = [request EXCEPT ![u] = None]
    /\ UNCHANGED <<slug, public, releases, maintains>>

(* A merge revision of the conflict's two heads, under the current name.   *)
Merge(u) ==
    LET n == Len(rev) + 1
        c == conflict[u] IN
    /\ Acts(u) /\ c # {} /\ draft[u] \in c /\ Room(1)
    /\ rev' = Append(rev, Child(c, u, slug, UNION {rev[i].content : i \in c}))
    /\ draft' = [draft EXCEPT ![u] = n]
    /\ conflict' = [conflict EXCEPT ![u] = {}]
    /\ UNCHANGED <<slug, public, releases, maintains, request>>

(* restore_skill: the tree of a release or of the own history, if it has   *)
(* the current name, on top of the head.                                   *)
Restore(u, i) ==
    LET n == Len(rev) + 1 IN
    /\ Acts(u) /\ draft[u] # None /\ draft[u] # i /\ Room(1)
    /\ Released(i) \/ i \in Anc(draft[u])
    /\ rev[i].name = slug
    /\ rev' = Append(rev, Child({draft[u]}, u, slug, rev[i].content))
    /\ draft' = [draft EXCEPT ![u] = n]
    /\ UNCHANGED <<slug, public, releases, conflict, maintains, request>>

-----------------------------------------------------------------------------
(* Mutant: the first draft published wins, whatever was released since.    *)
FastForwardAny(u) == TRUE

(* The draft holds the latest release.                                     *)
FastForward(u) == releases # <<>> => Latest \in Walk(Readable(u), draft[u])

(* publish_skill of a draft that is ahead: a release, or the same release  *)
(* made public.                                                            *)
Publish(u, pub) ==
    /\ Acts(u) /\ draft[u] # None /\ FastForward(u)
    /\ IF releases # <<>> /\ Latest = draft[u]
       THEN ~public /\ pub /\ UNCHANGED releases
       ELSE releases' = Append(releases, draft[u])
    /\ public' = (public \/ pub)
    /\ UNCHANGED <<slug, rev, draft, conflict, maintains, request>>

(* publish_skill of a draft that is behind: the two heads are recorded for *)
(* the maintainer to merge, unless a conflict is open.  Without a visible  *)
(* common ancestor the request fails before it records anything.           *)
PublishBehind(u) ==
    /\ Acts(u) /\ draft[u] # None /\ ~FastForward(u)
    /\ conflict' = [conflict EXCEPT ![u] =
                      IF @ = {} /\ HasMergeBase(u) THEN {Latest, draft[u]} ELSE @]
    /\ UNCHANGED <<slug, public, releases, rev, draft, maintains, request>>

-----------------------------------------------------------------------------
(* rename_team_skill, its reads: the skill, then every draft, each of      *)
(* which must carry the name it is renamed from.  The release is read      *)
(* without an actor, which the row policy allows for a public skill only.  *)
RenameRead(u, new) ==
    /\ Acts(u) /\ draft[u] # None /\ new # slug
    /\ \A v \in Users : draft[v] # None => rev[draft[v]].name = slug
    /\ releases # <<>> => public
    /\ request' = [request EXCEPT ![u] = [kind |-> "rename", head |-> draft, name |-> slug,
                                  new |-> new, count |-> Len(releases)]]
    /\ UNCHANGED <<slug, public, releases, rev, draft, conflict, maintains>>

(* Mutant: only the skill's own row is compared again under the lock.      *)
WorkspacesAny(j) == \A v \in Users : (j.head[v] = None) = (draft[v] = None)

(* ensure_workspaces_unchanged, under the row locks of all drafts.         *)
WorkspacesUnchanged(j) == j.head = draft

(* The revisions to rename, each once.                                     *)
Lists(S) == {f \in UNION {[1..n -> S] : n \in 0..MaxRevs} :
                /\ \A x \in S : \E k \in DOMAIN f : f[k] = x
                /\ \A k, l \in DOMAIN f : f[k] = f[l] => k = l}
Listed(S) == CHOOSE f \in Lists(S) : TRUE

(* Its commit: every draft and the latest release get a renamed child; one *)
(* revision with several uses gets one.                                    *)
RenameCommit(u) ==
    LET j == request[u]
        old == {j.head[v] : v \in {w \in Users : j.head[w] # None}}
                 \cup (IF releases = <<>> THEN {} ELSE {Latest})
        order == Listed(old)
        to(i) == Len(rev) + CHOOSE k \in DOMAIN order : order[k] = i IN
    /\ j # None /\ j.kind = "rename" /\ u \in maintains
    /\ slug = j.name /\ Len(releases) = j.count
    /\ \A v \in Users : conflict[v] = {}
    /\ WorkspacesUnchanged(j)
    /\ Room(Len(order))
    /\ rev' = rev \o [k \in DOMAIN order |->
                        Child({order[k]}, u, j.new, rev[order[k]].content)]
    /\ draft' = [v \in Users |-> IF j.head[v] = None THEN draft[v] ELSE to(j.head[v])]
    /\ releases' = IF releases = <<>> THEN releases ELSE Append(releases, to(Latest))
    /\ slug' = j.new
    /\ request' = [request EXCEPT ![u] = None]
    /\ UNCHANGED <<public, conflict, maintains>>

(* A request ends without an effect: a check failed or the server stopped. *)
Abort(u) ==
    /\ request[u] # None
    /\ request' = [request EXCEPT ![u] = None]
    /\ UNCHANGED <<slug, public, releases, rev, draft, conflict, maintains>>

(* A maintainer comes, or goes and takes draft and conflicts along.        *)
ChangeMaintainer(u) ==
    /\ u # Founder
    /\ maintains' = IF u \in maintains THEN maintains \ {u} ELSE maintains \cup {u}
    /\ draft' = [draft EXCEPT ![u] = None]
    /\ conflict' = [conflict EXCEPT ![u] = {}]
    /\ UNCHANGED <<slug, public, releases, rev, request>>

-----------------------------------------------------------------------------
(* The import of the skill into the team's namespace.                      *)
Init ==
    /\ slug = First /\ public = FALSE /\ releases = <<>>
    /\ rev = <<Child({}, Founder, slug, {1})>>
    /\ draft = [u \in Users |-> IF u = Founder THEN 1 ELSE None]
    /\ conflict = [u \in Users |-> {}]
    /\ maintains = {Founder}
    /\ request = [u \in Users |-> None]

Next ==
    \E u \in Users :
        \/ ProvisionStart(u) \/ ProvisionCommit(u) \/ SaveRead(u) \/ SaveCommit(u)
        \/ Merge(u) \/ PublishBehind(u) \/ RenameCommit(u) \/ Abort(u)
        \/ ChangeMaintainer(u)
        \/ \E i \in DOMAIN rev : Restore(u, i)
        \/ \E pub \in BOOLEAN : Publish(u, pub)
        \/ \E new \in Slugs : RenameRead(u, new)

Spec == Init /\ [][Next]_vars

-----------------------------------------------------------------------------
(* Every release holds the one before it in its history, although several  *)
(* maintainers save, restore, merge, rename and publish at once: nobody's  *)
(* published work is dropped from the line of releases.                    *)
ReleasesDescend ==
    \A k \in DOMAIN releases : k > 1 => releases[k - 1] \in Anc(releases[k])

(* The comment of private_catalog.rs: unpublished work of one maintainer   *)
(* never reaches another's draft; what is part of a release's history is   *)
(* published.                                                              *)
DraftsArePrivate ==
    \A u \in Users : draft[u] # None =>
        \A i \in rev[draft[u]].content :
            \/ rev[i].by = u
            \/ \E k \in DOMAIN releases : i \in Anc(releases[k])

(* While someone stays a maintainer, whatever others do, the draft only    *)
(* moves to a descendant of what it was.                                   *)
DraftsKept ==
    [][\A u \in Users :
         draft[u] # None /\ draft'[u] # None => draft[u] \in Anc(draft[u])']_vars

(* A publish that comes second can record the conflict its answer asks to  *)
(* resolve: "another maintainer published first; merge the newer team      *)
(* release into this private workspace and retry".                         *)
BehindCanMerge ==
    \A u \in maintains : draft[u] # None /\ ~FastForward(u) => HasMergeBase(u)

(* Every draft carries the name of its skill.                              *)
DraftNamesSkill == \A u \in Users : draft[u] # None => rev[draft[u]].name = slug
=============================================================================
