------------------------- MODULE BlobStorageProofs -------------------------
(* Proofs about BlobStorage, for every set of namespaces, skills, revisions, *)
(* blobs and concurrent requests, and every quota.                           *)
EXTENDS BlobStorage, FiniteSetTheorems, TLAPS

\* The rows of resource_revision_snapshots.
Snaps == {x \in Skills \X Revs : x[2] \in snapshots[x[1]]}

\* There are finitely many rows, and none for a skill that is not imported.
SnapshotRows ==
    /\ IsFiniteSet(Snaps)
    /\ \A s \in Skills : IsFiniteSet(snapshots[s]) /\ (owner[s] = None => snapshots[s] = {})

\* What prune deletes of a revision's manifest, no snapshot needs.
ManifestsKept == \A s \in Skills : \A r \in snapshots[s] : revBlobs[r] = BlobsOf[r]

\* Two requests never make the same revision, nor one that is stored.
RevisionsAreNew ==
    \A q \in Requests : running[q] # None =>
        /\ running[q].rev \notin stored
        /\ \A p \in Requests \ {q} : running[p] # None => running[p].rev # running[q].rev

\* The row locks: a checked request has its skill to itself, and the owner
\* it checked is still the owner.
LocksHeld ==
    \A q \in Requests : Phase(q, "checked") =>
        /\ owner[running[q].skill] = IF running[q].kind = "import" THEN None ELSE running[q].ns
        /\ pruning[running[q].skill] = None
        /\ \A p \in Requests \ {q} : Phase(p, "checked") => running[p].skill # running[q].skill

\* What a prune read under the skill's lock is still there when it writes.
PrunesKeepHead ==
    \A s \in Skills : pruning[s] # None =>
        owner[s] # None /\ pruning[s].drop \subseteq Prunable(s)

\* A drain that passed its fresh check holds the blob's row: no reference can
\* be inserted before it ends.
DrainsUnreachable == \A b \in Blobs : collecting[b] # "no" => ~Reachable(b)

IndInv ==
    /\ TypeOK /\ SnapshotRows /\ ManifestsKept /\ RevisionsAreNew /\ LocksHeld
    /\ PrunesKeepHead /\ RefCountsExact /\ DrainsUnreachable
    /\ ReferencesHaveRows /\ UnreachableIsCandidate
-----------------------------------------------------------------------------
(* What the snapshot table counts *)

\* The count a request adds for a blob.
One(b, bs) == IF b \in bs THEN 1 ELSE 0

LEMMA FiniteCounts ==
  ASSUME SnapshotRows
  PROVE  /\ \A s \in Skills, b \in Blobs :
              IsFiniteSet(Containing(s, b)) /\ Cardinality(Containing(s, b)) \in Nat
         /\ \A n \in Namespaces, b \in Blobs :
              IsFiniteSet(Holding(n, b)) /\ Held(n, b) \in Nat
<1>1. ASSUME NEW s \in Skills, NEW b \in Blobs
      PROVE  IsFiniteSet(Containing(s, b)) /\ Cardinality(Containing(s, b)) \in Nat
  <2>1. IsFiniteSet(snapshots[s]) /\ Containing(s, b) \in SUBSET snapshots[s]
    BY DEF SnapshotRows, Containing
  <2> QED
    BY <2>1, FS_Subset, FS_CardinalityType
<1>2. ASSUME NEW n \in Namespaces, NEW b \in Blobs
      PROVE  IsFiniteSet(Holding(n, b)) /\ Held(n, b) \in Nat
  <2>1. IsFiniteSet(Snaps) /\ Holding(n, b) \in SUBSET Snaps
    BY DEF SnapshotRows, Snaps, Holding, Containing
  <2> QED
    BY <2>1, FS_Subset, FS_CardinalityType DEF Held
<1> QED
  BY <1>1, <1>2

LEMMA CountsFrame ==
  ASSUME UNCHANGED <<owner, snapshots>>
  PROVE  /\ SnapshotRows => SnapshotRows'
         /\ \A s \in Skills, b \in Blobs : Containing(s, b)' = Containing(s, b)
         /\ \A n \in Namespaces, b \in Blobs : Held(n, b)' = Held(n, b)
BY DEF SnapshotRows, Snaps, Containing, Holding, Held

\* One more snapshot of a skill is one more reference to each of its blobs,
\* for the skill and for its owner.
LEMMA AddSnapshot ==
  ASSUME TypeOK, SnapshotRows, NEW s \in Skills, NEW r \in Revs, NEW n \in Namespaces,
         r \notin snapshots[s], owner[s] \in {None, n},
         owner' = [owner EXCEPT ![s] = n],
         snapshots' = [snapshots EXCEPT ![s] = @ \cup {r}]
  PROVE  /\ SnapshotRows'
         /\ \A t \in Skills, b \in Blobs :
              Cardinality(Containing(t, b)') =
                Cardinality(Containing(t, b)) + IF t = s THEN One(b, BlobsOf[r]) ELSE 0
         /\ \A m \in Namespaces, b \in Blobs :
              Held(m, b)' = Held(m, b) + IF m = n THEN One(b, BlobsOf[r]) ELSE 0
<1>0. /\ None \notin Namespaces
      /\ \A t \in Skills : /\ owner'[t] = IF t = s THEN n ELSE owner[t]
                           /\ snapshots'[t] = IF t = s THEN snapshots[s] \cup {r} ELSE snapshots[t]
  BY ContentAssumption DEF TypeOK
<1>1. SnapshotRows'
  <2>1. Snaps' = Snaps \cup {<<s, r>>}
    BY <1>0 DEF Snaps
  <2>2. IsFiniteSet(Snaps')
    BY <2>1, FS_AddElement DEF SnapshotRows
  <2>3. IsFiniteSet(snapshots[s] \cup {r})
    BY FS_AddElement DEF SnapshotRows
  <2> QED
    BY <1>0, <2>2, <2>3 DEF SnapshotRows
<1>2. ASSUME NEW t \in Skills, NEW b \in Blobs
      PROVE  Cardinality(Containing(t, b)') =
               Cardinality(Containing(t, b)) + IF t = s THEN One(b, BlobsOf[r]) ELSE 0
  <2>1. IsFiniteSet(Containing(t, b)) /\ Cardinality(Containing(t, b)) \in Nat
    BY FiniteCounts
  <2>2. CASE t = s /\ b \in BlobsOf[r]
    <3>1. Containing(t, b)' = Containing(t, b) \cup {r} /\ r \notin Containing(t, b)
      BY <1>0, <2>2 DEF Containing
    <3> QED
      BY <2>1, <2>2, <3>1, FS_AddElement DEF One
  <2>3. CASE ~(t = s /\ b \in BlobsOf[r])
    <3>1. Containing(t, b)' = Containing(t, b)
      BY <1>0, <2>3 DEF Containing
    <3> QED
      BY <2>1, <2>3, <3>1 DEF One
  <2> QED BY <2>2, <2>3
<1>3. ASSUME NEW m \in Namespaces, NEW b \in Blobs
      PROVE  Held(m, b)' = Held(m, b) + IF m = n THEN One(b, BlobsOf[r]) ELSE 0
  <2>1. IsFiniteSet(Holding(m, b)) /\ Held(m, b) \in Nat
    BY FiniteCounts
  <2>2. CASE m = n /\ b \in BlobsOf[r]
    <3>1. Holding(m, b)' = Holding(m, b) \cup {<<s, r>>} /\ <<s, r>> \notin Holding(m, b)
      BY <1>0, <2>2 DEF Holding, Containing, SnapshotRows
    <3> QED
      BY <2>1, <2>2, <3>1, FS_AddElement DEF One, Held
  <2>3. CASE ~(m = n /\ b \in BlobsOf[r])
    <3>1. Holding(m, b)' = Holding(m, b)
      BY <1>0, <2>3 DEF Holding, Containing, SnapshotRows
    <3> QED
      BY <2>1, <2>3, <3>1 DEF One, Held
  <2> QED BY <2>2, <2>3
<1> QED
  BY <1>1, <1>2, <1>3

\* The rows of one skill for a set of revisions.
RowsOf(s, S) == {x \in Skills \X Revs : x[1] = s /\ x[2] \in S}

LEMMA RowsOfSkill ==
  ASSUME NEW s \in Skills, NEW S \in SUBSET Revs, IsFiniteSet(S)
  PROVE  IsFiniteSet(RowsOf(s, S)) /\ Cardinality(RowsOf(s, S)) = Cardinality(S)
<1>1. IsFiniteSet({s}) /\ Cardinality({s}) = 1
  BY FS_Singleton
<1>2. IsFiniteSet({s} \X S) /\ Cardinality({s} \X S) = 1 * Cardinality(S)
  BY <1>1, FS_Product
<1>3. RowsOf(s, S) = {s} \X S
  BY DEF RowsOf
<1> QED
  BY <1>2, <1>3, FS_CardinalityType

\* Dropping snapshots of a skill drops that many references to each blob,
\* for the skill and for its owner.
LEMMA DropSnapshots ==
  ASSUME TypeOK, SnapshotRows, NEW s \in Skills, NEW D \in SUBSET snapshots[s],
         owner[s] \in Namespaces, owner' = owner,
         snapshots' = [snapshots EXCEPT ![s] = @ \ D]
  PROVE  /\ SnapshotRows'
         /\ \A b \in Blobs : Cardinality({r \in D : b \in BlobsOf[r]}) \in Nat
         /\ \A t \in Skills, b \in Blobs :
              Cardinality(Containing(t, b)') = Cardinality(Containing(t, b))
                - IF t = s THEN Cardinality({r \in D : b \in BlobsOf[r]}) ELSE 0
         /\ \A m \in Namespaces, b \in Blobs :
              Held(m, b)' = Held(m, b)
                - IF m = owner[s] THEN Cardinality({r \in D : b \in BlobsOf[r]}) ELSE 0
<1> DEFINE Db(b) == {r \in D : b \in BlobsOf[r]}
<1>0. \A t \in Skills : snapshots'[t] = IF t = s THEN snapshots[s] \ D ELSE snapshots[t]
  BY DEF TypeOK
<1>1. SnapshotRows'
  <2>1. Snaps' \in SUBSET Snaps /\ \A t \in Skills : snapshots'[t] \in SUBSET snapshots[t]
    BY <1>0 DEF Snaps
  <2> QED
    BY <1>0, <2>1, FS_Subset DEF SnapshotRows
<1>2. ASSUME NEW b \in Blobs
      PROVE  IsFiniteSet(Db(b)) /\ Cardinality(Db(b)) \in Nat
  <2>1. Db(b) \in SUBSET snapshots[s] /\ IsFiniteSet(snapshots[s])
    BY DEF SnapshotRows
  <2> QED
    BY <2>1, FS_Subset, FS_CardinalityType
<1>3. ASSUME NEW t \in Skills, NEW b \in Blobs
      PROVE  Cardinality(Containing(t, b)') = Cardinality(Containing(t, b))
                                             - IF t = s THEN Cardinality(Db(b)) ELSE 0
  <2>1. IsFiniteSet(Containing(t, b)) /\ Cardinality(Containing(t, b)) \in Nat
    BY FiniteCounts
  <2>2. CASE t = s
    <3>1. Containing(t, b)' = Containing(t, b) \ Db(b) /\ Containing(t, b) \cap Db(b) = Db(b)
      BY <1>0, <2>2 DEF Containing
    <3> QED
      BY <2>1, <2>2, <3>1, FS_Difference
  <2>3. CASE t # s
    <3>1. Containing(t, b)' = Containing(t, b)
      BY <1>0, <2>3 DEF Containing
    <3> QED
      BY <2>1, <2>3, <3>1
  <2> QED BY <2>2, <2>3
<1>4. ASSUME NEW m \in Namespaces, NEW b \in Blobs
      PROVE  Held(m, b)' = Held(m, b) - IF m = owner[s] THEN Cardinality(Db(b)) ELSE 0
  <2>1. IsFiniteSet(Holding(m, b)) /\ Held(m, b) \in Nat
    BY FiniteCounts
  <2>2. CASE m = owner[s]
    <3>1. /\ Holding(m, b)' = Holding(m, b) \ RowsOf(s, Db(b))
          /\ Holding(m, b) \cap RowsOf(s, Db(b)) = RowsOf(s, Db(b))
      BY <1>0, <2>2 DEF Holding, Containing, TypeOK, RowsOf
    <3>2. Cardinality(RowsOf(s, Db(b))) = Cardinality(Db(b))
      <4>1. Db(b) \in SUBSET Revs
        BY DEF TypeOK
      <4> QED
        BY <1>2, <4>1, RowsOfSkill
    <3>3. Cardinality(Holding(m, b) \ RowsOf(s, Db(b)))
            = Cardinality(Holding(m, b)) - Cardinality(Holding(m, b) \cap RowsOf(s, Db(b)))
      BY <2>1, FS_Difference
    <3> QED
      BY <2>2, <3>1, <3>2, <3>3 DEF Held
  <2>3. CASE m # owner[s]
    <3>1. Holding(m, b)' = Holding(m, b)
      BY <1>0, <2>3 DEF Holding, Containing
    <3> QED
      BY <2>1, <2>3, <3>1 DEF Held
  <2> QED BY <2>2, <2>3
<1> QED
  BY <1>1, <1>2, <1>3, <1>4

\* A transfer moves a skill's references from one namespace to the other.
LEMMA MoveSkill ==
  ASSUME TypeOK, SnapshotRows, NEW s \in Skills, NEW n \in Namespaces,
         owner[s] \in Namespaces \ {n},
         owner' = [owner EXCEPT ![s] = n], snapshots' = snapshots
  PROVE  /\ SnapshotRows'
         /\ \A t \in Skills, b \in Blobs : Containing(t, b)' = Containing(t, b)
         /\ \A m \in Namespaces, b \in Blobs :
              Held(m, b)' = IF m = n THEN Held(m, b) + Cardinality(Containing(s, b))
                            ELSE IF m = owner[s] THEN Held(m, b) - Cardinality(Containing(s, b))
                            ELSE Held(m, b)
<1>0. \A t \in Skills : owner'[t] = IF t = s THEN n ELSE owner[t]
  BY DEF TypeOK
<1>1. SnapshotRows' /\ \A t \in Skills, b \in Blobs : Containing(t, b)' = Containing(t, b)
  BY <1>0, ContentAssumption DEF SnapshotRows, Snaps, Containing
<1>2. ASSUME NEW m \in Namespaces, NEW b \in Blobs
      PROVE  Held(m, b)' = IF m = n THEN Held(m, b) + Cardinality(Containing(s, b))
                            ELSE IF m = owner[s] THEN Held(m, b) - Cardinality(Containing(s, b))
                            ELSE Held(m, b)
  <2> DEFINE own == RowsOf(s, Containing(s, b))
  <2>1. IsFiniteSet(Holding(m, b)) /\ Held(m, b) \in Nat
    BY FiniteCounts
  <2>2. /\ IsFiniteSet(own) /\ Cardinality(own) = Cardinality(Containing(s, b))
        /\ Cardinality(own) \in Nat
    <3>1. Containing(s, b) \in SUBSET Revs
      BY DEF Containing, TypeOK
    <3> QED
      BY <3>1, FiniteCounts, RowsOfSkill
  <2>4. CASE m = n
    <3>1. Holding(m, b)' = Holding(m, b) \cup own /\ Holding(m, b) \cap own = {}
      BY <1>0, <2>4 DEF Holding, Containing, RowsOf
    <3>2. Cardinality(Holding(m, b) \cup own)
            = Cardinality(Holding(m, b)) + Cardinality(own) - Cardinality({})
      BY <2>1, <2>2, <3>1, FS_Union
    <3> QED
      BY <2>1, <2>2, <2>4, <3>1, <3>2, FS_EmptySet DEF Held
  <2>5. CASE m = owner[s]
    <3>1. Holding(m, b)' = Holding(m, b) \ own /\ Holding(m, b) \cap own = own
      BY <1>0, <2>5 DEF Holding, Containing, RowsOf
    <3>2. Cardinality(Holding(m, b) \ own) = Cardinality(Holding(m, b)) - Cardinality(own)
      BY <2>1, <3>1, FS_Difference
    <3> QED
      BY <2>2, <2>5, <3>1, <3>2 DEF Held
  <2>6. CASE m # n /\ m # owner[s]
    <3>1. Holding(m, b)' = Holding(m, b)
      BY <1>0, <2>6 DEF Holding, Containing
    <3> QED
      BY <2>6, <3>1 DEF Held
  <2> QED BY <2>4, <2>5, <2>6
<1> QED
  BY <1>1, <1>2

-----------------------------------------------------------------------------
(* The steps that leave the catalog and the counts alone *)

LEMMA InitInv == Init => IndInv
<1> SUFFICES ASSUME Init PROVE IndInv
  OBVIOUS
<1>1. TypeOK
  BY DEF Init, TypeOK
<1>2. \A s \in Skills, b \in Blobs : resRefs[s][b] = 0 /\ Containing(s, b) = {}
  BY DEF Init, Containing
<1>3. \A n \in Namespaces, b \in Blobs : nsRefs[n][b] = 0 /\ Holding(n, b) = {}
  BY DEF Init, Holding, Containing
<1>4. SnapshotRows /\ RefCountsExact
  <2>1. Snaps = {} /\ \A s \in Skills : snapshots[s] = {}
    BY DEF Init, Snaps
  <2>2. Cardinality({}) = 0 /\ IsFiniteSet({})
    BY FS_EmptySet
  <2>3. \A n \in Namespaces, b \in Blobs : Held(n, b) = 0
    BY <1>3, <2>2 DEF Held
  <2>4. RefCountsExact
    <3>1. ASSUME NEW s \in Skills, NEW b \in Blobs
          PROVE  resRefs[s][b] = Cardinality(Containing(s, b))
      BY <1>2, <2>2
    <3>2. ASSUME NEW n \in Namespaces, NEW b \in Blobs PROVE nsRefs[n][b] <= Held(n, b)
      BY <1>3, <2>3
    <3> QED
      BY <3>1, <3>2 DEF RefCountsExact
  <2>5. SnapshotRows
    BY <2>1, <2>2 DEF SnapshotRows
  <2> QED
    BY <2>4, <2>5
<1>5. DrainsUnreachable /\ ReferencesHaveRows /\ UnreachableIsCandidate
  BY <1>2, <1>3 DEF Init, DrainsUnreachable, ReferencesHaveRows, UnreachableIsCandidate, Reachable
<1>6. ManifestsKept /\ RevisionsAreNew /\ LocksHeld /\ PrunesKeepHead
  BY DEF Init, ManifestsKept, RevisionsAreNew, LocksHeld, Phase, PrunesKeepHead
<1> QED
  BY <1>1, <1>4, <1>5, <1>6 DEF IndInv

\* A request or a prune that has only read, locked or put bytes.
LEMMA RequestStep ==
  ASSUME IndInv, UNCHANGED <<catalog, counts, rows, gc, collecting>>, objects' \subseteq Blobs,
         running' \in [Requests -> Run \cup {None}], pruning' \in [Skills -> Prune \cup {None}],
         RevisionsAreNew', LocksHeld', PrunesKeepHead'
  PROVE  IndInv'
<1> USE DEF catalog, counts
<1>1. TypeOK'
  BY DEF IndInv, TypeOK
<1>2. SnapshotRows' /\ RefCountsExact'
  BY CountsFrame DEF IndInv, RefCountsExact
<1>3. ManifestsKept'
  BY DEF IndInv, ManifestsKept
<1>4. DrainsUnreachable' /\ ReferencesHaveRows' /\ UnreachableIsCandidate'
  BY DEF IndInv, DrainsUnreachable, ReferencesHaveRows, UnreachableIsCandidate, Reachable
<1> QED
  BY <1>1, <1>2, <1>3, <1>4 DEF IndInv

\* Requests that ended or stayed as they were are still apart.
LEMMA RequestsKept ==
  ASSUME RevisionsAreNew,
         \A q \in Requests : running'[q] # None =>
             running'[q] = running[q] /\ running[q].rev \notin stored'
  PROVE  RevisionsAreNew'
BY DEF RevisionsAreNew

LEMMA LocksKept ==
  ASSUME LocksHeld,
         \A q \in Requests : Phase(q, "checked")' =>
             /\ running'[q] = running[q]
             /\ owner'[running[q].skill] = owner[running[q].skill]
             /\ pruning'[running[q].skill] = None
  PROVE  LocksHeld'
BY DEF LocksHeld, Phase

LEMMA PrepareUploadInv ==
  ASSUME IndInv, NEW q \in Requests, NEW k \in Kinds, NEW s \in Skills, NEW n \in Namespaces,
         NEW r \in Revs, PrepareUpload(q, k, s, n, r)
  PROVE  IndInv'
<1> DEFINE run == [kind |-> k, skill |-> s, ns |-> n, rev |-> r, phase |-> "prepared",
                   staged |-> IF k = "rename" THEN BlobsOf[r] ELSE BlobsOf[r] \ InNamespace(n)]
<1>0. /\ running[q] = None /\ NewRevision(r)
      /\ running' = [running EXCEPT ![q] = run]
      /\ UNCHANGED <<catalog, counts, rows, gc, objects, pruning, collecting>>
  BY DEF PrepareUpload
<1>1. run \in Run
  BY ContentAssumption DEF Run, Phases
<1>2. run # None /\ running' \in [Requests -> Run \cup {None}]
  BY <1>0, <1>1, NoneIsNoRow DEF IndInv, TypeOK
<1>3. \A p \in Requests : running'[p] = IF p = q THEN run ELSE running[p]
  BY <1>0 DEF IndInv, TypeOK
<1>4. RevisionsAreNew'
  BY <1>0, <1>2, <1>3 DEF IndInv, RevisionsAreNew, NewRevision, catalog
<1>5. LocksHeld'
  BY <1>0, <1>3, LocksKept DEF IndInv, LocksHeld, Phase, catalog
<1>6. PrunesKeepHead' /\ objects' \subseteq Blobs /\ pruning' \in [Skills -> Prune \cup {None}]
  BY <1>0 DEF IndInv, TypeOK, PrunesKeepHead, Prunable, catalog
<1> QED
  BY <1>0, <1>2, <1>4, <1>5, <1>6, RequestStep

\* A request enters a phase in which it holds no lock.
LEMMA EnterInv ==
  ASSUME IndInv, NEW q \in Requests, NEW p \in Phases \ {"checked"}, running[q] # None, Enter(q, p),
         objects' \subseteq Blobs, UNCHANGED <<catalog, counts, rows, gc, pruning, collecting>>
  PROVE  IndInv'
<1> DEFINE run == [running[q] EXCEPT !.phase = p]
<1>1. running[q] \in Run /\ running' = [running EXCEPT ![q] = run]
  BY DEF IndInv, TypeOK, Enter
<1>2. run \in Run /\ run.phase = p /\ run.rev = running[q].rev
  BY <1>1 DEF Run
<1>3. run # None /\ running' \in [Requests -> Run \cup {None}]
  BY <1>1, <1>2, NoneIsNoRow DEF IndInv, TypeOK
<1>4. \A x \in Requests : running'[x] = IF x = q THEN run ELSE running[x]
  BY <1>1 DEF IndInv, TypeOK
<1> HIDE DEF run
<1>5. RevisionsAreNew'
  BY <1>2, <1>3, <1>4 DEF IndInv, RevisionsAreNew, catalog
<1>6. LocksHeld'
  BY <1>2, <1>4, LocksKept DEF IndInv, LocksHeld, Phase, catalog
<1>7. PrunesKeepHead' /\ pruning' \in [Skills -> Prune \cup {None}]
  BY DEF IndInv, TypeOK, PrunesKeepHead, Prunable, catalog
<1> QED
  BY <1>3, <1>5, <1>6, <1>7, RequestStep

LEMMA CheckLockedInv ==
  ASSUME IndInv, NEW q \in Requests, CheckLocked(q) PROVE IndInv'
<1> DEFINE run == [running[q] EXCEPT !.phase = "checked"]
<1>0. /\ running[q] # None /\ ~SkillLocked(running[q].skill) /\ Enter(q, "checked")
      /\ owner[running[q].skill] = IF running[q].kind = "import" THEN None ELSE running[q].ns
      /\ UNCHANGED <<catalog, counts, rows, gc, objects, pruning, collecting>>
  <2>1. running[q] \in Run
    BY DEF CheckLocked, Phase, IndInv, TypeOK
  <2>2. running[q].kind \in Kinds
    BY <2>1 DEF Run
  <2> QED
    BY <2>2 DEF CheckLocked, Phase, Kinds
<1>1. running[q] \in Run /\ running' = [running EXCEPT ![q] = run]
  BY <1>0 DEF IndInv, TypeOK, Enter
<1>2. /\ run \in Run /\ run.rev = running[q].rev /\ run.skill = running[q].skill
      /\ run.kind = running[q].kind /\ run.ns = running[q].ns /\ run.skill \in Skills
  BY <1>1 DEF Run, Phases
<1>3. run # None /\ running' \in [Requests -> Run \cup {None}]
  BY <1>1, <1>2, NoneIsNoRow DEF IndInv, TypeOK
<1>4. \A x \in Requests : running'[x] = IF x = q THEN run ELSE running[x]
  BY <1>1 DEF IndInv, TypeOK
<1> HIDE DEF run
<1>5. RevisionsAreNew'
  BY <1>0, <1>2, <1>3, <1>4 DEF IndInv, RevisionsAreNew, catalog
<1>6. LocksHeld'
  <2>1. \A x \in Requests \ {q} : Phase(x, "checked")' => running[x].skill # run.skill
    BY <1>0, <1>2, <1>4 DEF SkillLocked, Phase
  <2>2. pruning[run.skill] = None
    BY <1>0, <1>2 DEF SkillLocked
  <2> QED
    BY <1>0, <1>2, <1>4, <2>1, <2>2 DEF IndInv, LocksHeld, Phase, catalog
<1>7. PrunesKeepHead' /\ objects' \subseteq Blobs /\ pruning' \in [Skills -> Prune \cup {None}]
  BY <1>0 DEF IndInv, TypeOK, PrunesKeepHead, Prunable, catalog
<1> QED
  BY <1>0, <1>3, <1>5, <1>6, <1>7, RequestStep

LEMMA FailInv == ASSUME IndInv, NEW q \in Requests, Fail(q) PROVE IndInv'
<1>0. running[q] # None /\ UNCHANGED <<catalog, counts, rows, gc, objects, pruning, collecting>>
  BY DEF Fail
<1>1. CASE running' = [running EXCEPT ![q] = None]
  <2>1. \A x \in Requests : running'[x] = IF x = q THEN None ELSE running[x]
    BY <1>1 DEF IndInv, TypeOK
  <2>2. RevisionsAreNew'
    BY <1>0, <2>1, RequestsKept DEF IndInv, RevisionsAreNew, catalog
  <2>3. LocksHeld'
    BY <1>0, <2>1, LocksKept DEF IndInv, LocksHeld, Phase, catalog
  <2>4. /\ PrunesKeepHead' /\ objects' \subseteq Blobs /\ pruning' \in [Skills -> Prune \cup {None}]
        /\ running' \in [Requests -> Run \cup {None}]
    BY <1>0, <1>1 DEF IndInv, TypeOK, PrunesKeepHead, Prunable, catalog
  <2> QED
    BY <1>0, <2>2, <2>3, <2>4, RequestStep
<1>2. CASE Enter(q, "prepared")
  BY <1>0, <1>2, EnterInv DEF Phases, IndInv, TypeOK
<1> QED
  BY <1>1, <1>2 DEF Fail

LEMMA PruneReadInv ==
  ASSUME IndInv, NEW s \in Skills, NEW E \in SUBSET snapshots[s], PruneRead(s, E) PROVE IndInv'
<1> DEFINE run == [drop |-> E, nsCount |-> nsRefs[owner[s]]]
<1>0. /\ Personal(s) /\ ~SkillLocked(s) /\ E \subseteq Prunable(s)
      /\ pruning' = [pruning EXCEPT ![s] = run]
      /\ UNCHANGED <<catalog, counts, rows, gc, objects, running, collecting>>
  BY DEF PruneRead
<1>1. run \in Prune /\ owner[s] # None
  BY <1>0, ContentAssumption DEF IndInv, TypeOK, Prune, Personal
<1>2. /\ pruning' \in [Skills -> Prune \cup {None}]
      /\ \A t \in Skills : pruning'[t] = IF t = s THEN run ELSE pruning[t]
  BY <1>0, <1>1 DEF IndInv, TypeOK
<1>3. PrunesKeepHead'
  BY <1>0, <1>1, <1>2 DEF IndInv, PrunesKeepHead, Prunable, catalog
<1>4. RevisionsAreNew'
  BY <1>0 DEF IndInv, RevisionsAreNew, catalog
<1>5. LocksHeld'
  <2>1. \A q \in Requests : Phase(q, "checked") => running[q].skill \in Skills \ {s}
    BY <1>0 DEF SkillLocked, Phase, IndInv, TypeOK, Run
  <2> QED
    BY <1>0, <1>2, <2>1, LocksKept DEF IndInv, LocksHeld, Phase, catalog
<1>6. objects' \subseteq Blobs /\ running' \in [Requests -> Run \cup {None}]
  BY <1>0 DEF IndInv, TypeOK
<1> QED
  BY <1>0, <1>2, <1>3, <1>4, <1>5, <1>6, RequestStep

LEMMA PruneFailsInv == ASSUME IndInv, NEW s \in Skills, PruneFails(s) PROVE IndInv'
<1>0. /\ pruning' = [pruning EXCEPT ![s] = None]
      /\ UNCHANGED <<catalog, counts, rows, gc, objects, running, collecting>>
  BY DEF PruneFails
<1>1. /\ pruning' \in [Skills -> Prune \cup {None}]
      /\ \A t \in Skills : pruning'[t] = IF t = s THEN None ELSE pruning[t]
  BY <1>0 DEF IndInv, TypeOK
<1>2. PrunesKeepHead'
  BY <1>0, <1>1 DEF IndInv, PrunesKeepHead, Prunable, catalog
<1>3. RevisionsAreNew'
  BY <1>0 DEF IndInv, RevisionsAreNew, catalog
<1>4. LocksHeld'
  <2>1. \A q \in Requests : Phase(q, "checked") => running[q].skill \in Skills
    BY DEF Phase, IndInv, TypeOK, Run
  <2> QED
    BY <1>0, <1>1, <2>1, LocksKept DEF IndInv, LocksHeld, Phase, catalog
<1>5. objects' \subseteq Blobs /\ running' \in [Requests -> Run \cup {None}]
  BY <1>0 DEF IndInv, TypeOK
<1> QED
  BY <1>0, <1>1, <1>2, <1>3, <1>4, <1>5, RequestStep

LEMMA CollectInv == ASSUME IndInv, NEW b \in Blobs, Collect(b) PROVE IndInv'
<1> USE DEF catalog, counts
<1>0. UNCHANGED <<catalog, counts, running, pruning>>
  BY DEF Collect, GraceElapses, DrainLock, DrainDeleteObject, DrainDeleteRow, DrainFails
<1>1. \A x \in Blobs : Reachable(x)' <=> Reachable(x)
  BY <1>0 DEF Reachable
<1>2. TypeOK'
  <2>1. /\ gc' \in [Blobs -> {"no", "waiting", "eligible"}] /\ rows' \subseteq Blobs
        /\ objects' \subseteq Blobs /\ collecting' \in [Blobs -> {"no", "locked", "deleted"}]
    <3>1. CASE GraceElapses(b)
      BY <3>1 DEF IndInv, TypeOK, GraceElapses
    <3>2. CASE DrainLock(b)
      BY <3>2 DEF IndInv, TypeOK, DrainLock
    <3>3. CASE DrainDeleteObject(b)
      BY <3>3 DEF IndInv, TypeOK, DrainDeleteObject
    <3>4. CASE DrainDeleteRow(b)
      BY <3>4 DEF IndInv, TypeOK, DrainDeleteRow
    <3>5. CASE DrainFails(b)
      BY <3>5 DEF IndInv, TypeOK, DrainFails
    <3> QED
      BY <3>1, <3>2, <3>3, <3>4, <3>5 DEF Collect
  <2> QED
    BY <1>0, <2>1 DEF IndInv, TypeOK
<1>3. SnapshotRows' /\ RefCountsExact'
  BY <1>0, CountsFrame DEF IndInv, RefCountsExact
<1>4. ManifestsKept' /\ RevisionsAreNew' /\ LocksHeld' /\ PrunesKeepHead'
  BY <1>0 DEF IndInv, ManifestsKept, RevisionsAreNew, LocksHeld, Phase, PrunesKeepHead, Prunable
<1>5. DrainsUnreachable'
  BY <1>1 DEF IndInv, TypeOK, DrainsUnreachable, ReachableNow, Collect, GraceElapses, DrainLock,
     DrainDeleteObject, DrainDeleteRow, DrainFails
<1>6. ReferencesHaveRows'
  BY <1>1 DEF IndInv, ReferencesHaveRows, DrainsUnreachable, Collect, GraceElapses, DrainLock,
     DrainDeleteObject, DrainDeleteRow, DrainFails
<1>7. UnreachableIsCandidate'
  BY <1>1 DEF IndInv, TypeOK, UnreachableIsCandidate, ReachableNow, Collect, GraceElapses, DrainLock,
     DrainDeleteObject, DrainDeleteRow, DrainFails
<1> QED
  BY <1>2, <1>3, <1>4, <1>5, <1>6, <1>7 DEF IndInv

-----------------------------------------------------------------------------
(* The steps that add a snapshot, and the transfer *)

LEMMA EndStaleFacts ==
  ASSUME TypeOK, NEW s, NEW kinds, NEW own, running' = EndStale(s, kinds, own)
  PROVE  /\ running' \in [Requests -> Run \cup {None}]
         /\ \A q \in Requests : running'[q] # None => q # own /\ running'[q] = running[q]
BY DEF EndStale, TypeOK

LEMMA IncrementFacts ==
  ASSUME NEW refs \in [Blobs -> Nat], NEW bs
  PROVE  /\ Increment(refs, bs) \in [Blobs -> Nat]
         /\ \A b \in Blobs : Increment(refs, bs)[b] = refs[b] + One(b, bs)
BY DEF Increment, One

\* Counting a new snapshot: the skill's counts stay exact, the namespace is
\* charged at most once for each blob, and exactly the revision's blobs
\* become reachable.
LEMMA AttachStep ==
  ASSUME TypeOK, SnapshotRows, RefCountsExact,
         NEW s \in Skills, NEW r \in Revs, NEW n \in Namespaces,
         r \notin snapshots[s], owner[s] \in {None, n},
         owner' = [owner EXCEPT ![s] = n],
         snapshots' = [snapshots EXCEPT ![s] = @ \cup {r}],
         \A t \in Skills, b \in Blobs :
             resRefs'[t][b] = resRefs[t][b] + IF t = s THEN One(b, BlobsOf[r]) ELSE 0,
         \A m \in Namespaces, b \in Blobs :
             \/ nsRefs'[m][b] = nsRefs[m][b]
             \/ m = n /\ nsRefs'[m][b] = nsRefs[m][b] + One(b, BlobsOf[r])
  PROVE  /\ SnapshotRows' /\ RefCountsExact'
         /\ \A b \in Blobs : Reachable(b)' <=> Reachable(b) \/ b \in BlobsOf[r]
<1>1. /\ \A t \in Skills, b \in Blobs : resRefs[t][b] \in Nat
      /\ \A m \in Namespaces, b \in Blobs : nsRefs[m][b] \in Nat
  BY DEF TypeOK
<1>2. /\ SnapshotRows'
      /\ \A t \in Skills, b \in Blobs :
           Cardinality(Containing(t, b)') =
             Cardinality(Containing(t, b)) + IF t = s THEN One(b, BlobsOf[r]) ELSE 0
      /\ \A m \in Namespaces, b \in Blobs :
           Held(m, b)' = Held(m, b) + IF m = n THEN One(b, BlobsOf[r]) ELSE 0
  BY AddSnapshot
<1>3. RefCountsExact'
  <2>1. ASSUME NEW t \in Skills, NEW b \in Blobs
        PROVE  resRefs'[t][b] = Cardinality(Containing(t, b)')
    BY <1>1, <1>2, <2>1 DEF RefCountsExact
  <2>2. ASSUME NEW m \in Namespaces, NEW b \in Blobs PROVE nsRefs'[m][b] <= Held(m, b)'
    <3>1. nsRefs[m][b] <= Held(m, b) /\ Held(m, b) \in Nat /\ nsRefs[m][b] \in Nat
      BY <1>1, FiniteCounts DEF RefCountsExact
    <3>2. One(b, BlobsOf[r]) \in {0, 1}
      BY DEF One
    <3> QED
      BY <1>1, <1>2, <3>1, <3>2
  <2> QED
    BY <2>1, <2>2 DEF RefCountsExact
<1>4. ASSUME NEW b \in Blobs PROVE Reachable(b)' <=> Reachable(b) \/ b \in BlobsOf[r]
  <2>1. b \in BlobsOf[r] => resRefs'[s][b] > 0
    BY <1>1 DEF One
  <2>2. /\ \A t \in Skills : resRefs[t][b] > 0 => resRefs'[t][b] > 0
        /\ \A m \in Namespaces : nsRefs[m][b] > 0 => nsRefs'[m][b] > 0
    BY <1>1 DEF One
  <2>3. ASSUME b \notin BlobsOf[r]
        PROVE  /\ \A t \in Skills : resRefs'[t][b] = resRefs[t][b]
               /\ \A m \in Namespaces : nsRefs'[m][b] = nsRefs[m][b]
    BY <1>1, <2>3 DEF One
  <2> QED
    BY <2>1, <2>2, <2>3 DEF Reachable
<1> QED
  BY <1>2, <1>3, <1>4

LEMMA PersistRevisionInv ==
  ASSUME IndInv, NEW q \in Requests, PersistRevision(q) PROVE IndInv'
<1> DEFINE run == running[q]  s == run.skill  n == run.ns  r == run.rev  bs == BlobsOf[r]
<1>0. /\ Phase(q, "checked") /\ NotDraining(bs)
      /\ rows' = rows \cup bs /\ stored' = stored \cup {r}
      /\ revBlobs' = [revBlobs EXCEPT ![r] = bs]
      /\ resRefs' = [resRefs EXCEPT ![s] = Increment(resRefs[s], bs)]
      /\ nsRefs' = [nsRefs EXCEPT ![n] = Increment(nsRefs[n], bs)]
      /\ gc' = [b \in Blobs |-> IF run.kind = "rename" /\ b \in bs THEN "no" ELSE gc[b]]
      /\ owner' = [owner EXCEPT ![s] = n]
      /\ snapshots' = [snapshots EXCEPT ![s] = @ \cup {r}]
      /\ UNCHANGED <<objects, pruning, collecting>>
  BY DEF PersistRevision, IndInv, TypeOK
<1>1. /\ run \in Run /\ run # None /\ s \in Skills /\ n \in Namespaces /\ r \in Revs
      /\ bs \subseteq Blobs /\ None \notin Namespaces
      /\ resRefs[s] \in [Blobs -> Nat] /\ nsRefs[n] \in [Blobs -> Nat]
  BY <1>0, ContentAssumption DEF IndInv, TypeOK, Phase, Run
<1>2. /\ r \notin stored /\ \A t \in Skills : r \notin snapshots[t] /\ snapshots[t] \subseteq stored
      /\ owner[s] = (IF run.kind = "import" THEN None ELSE n) /\ pruning[s] = None
      /\ \A p \in Requests \ {q} : Phase(p, "checked") => running[p].skill # s
  BY <1>0, <1>1 DEF IndInv, TypeOK, RevisionsAreNew, LocksHeld
<1>3. /\ \A t \in Skills : /\ owner'[t] = IF t = s THEN n ELSE owner[t]
                           /\ snapshots'[t] = IF t = s THEN snapshots[s] \cup {r} ELSE snapshots[t]
      /\ \A x \in Revs : revBlobs'[x] = IF x = r THEN bs ELSE revBlobs[x]
  BY <1>0, <1>1 DEF IndInv, TypeOK
<1>4. /\ running' \in [Requests -> Run \cup {None}]
      /\ \A p \in Requests : running'[p] # None => p # q /\ running'[p] = running[p]
  <2>1. CASE running' = EndStale(s, {"rename"}, q)
    BY <2>1, EndStaleFacts DEF IndInv
  <2>2. CASE running' = [running EXCEPT ![q] = None]
    BY <2>2 DEF IndInv, TypeOK
  <2> QED
    BY <2>1, <2>2 DEF PersistRevision
<1>5. /\ DOMAIN head' = Skills
      /\ \A t \in Skills : IF owner'[t] = None THEN head'[t] = None ELSE head'[t] \in snapshots'[t]
  <2>1. CASE head' = [head EXCEPT ![s] = r]
    BY <1>1, <1>3, <2>1 DEF IndInv, TypeOK
  <2>2. CASE run.kind = "save" /\ head' = head
    BY <1>1, <1>2, <1>3, <2>2 DEF IndInv, TypeOK
  <2> QED
    BY <2>1, <2>2 DEF PersistRevision
<1>6. SnapshotRows' /\ RefCountsExact'
      /\ \A b \in Blobs : Reachable(b)' <=> Reachable(b) \/ b \in bs
  <2>1. owner[s] \in {None, n} /\ r \notin snapshots[s]
    BY <1>1, <1>2
  <2>2. \A t \in Skills, b \in Blobs :
          resRefs'[t][b] = resRefs[t][b] + IF t = s THEN One(b, bs) ELSE 0
    BY <1>0, <1>1, IncrementFacts DEF IndInv, TypeOK
  <2>3. \A m \in Namespaces, b \in Blobs :
          \/ nsRefs'[m][b] = nsRefs[m][b]
          \/ m = n /\ nsRefs'[m][b] = nsRefs[m][b] + One(b, bs)
    BY <1>0, <1>1, IncrementFacts DEF IndInv, TypeOK
  <2> HIDE DEF s, n, r
  <2> QED
    BY <1>0, <1>1, <2>1, <2>2, <2>3, AttachStep DEF IndInv
<1>7. TypeOK'
  <2>1. owner' \in [Skills -> Namespaces \cup {None}] /\ rows' \subseteq Blobs
        /\ revBlobs' \in [Revs -> SUBSET Blobs]
    BY <1>0, <1>1 DEF IndInv, TypeOK
  <2>2. snapshots' \in [Skills -> SUBSET stored'] /\ stored' \subseteq Revs
    BY <1>0, <1>1 DEF IndInv, TypeOK
  <2>3. resRefs' \in [Skills -> [Blobs -> Nat]] /\ nsRefs' \in [Namespaces -> [Blobs -> Nat]]
    BY <1>0, <1>1, IncrementFacts DEF IndInv, TypeOK
  <2>4. gc' \in [Blobs -> {"no", "waiting", "eligible"}]
    BY <1>0 DEF IndInv, TypeOK
  <2> QED
    BY <1>0, <1>4, <1>5, <2>1, <2>2, <2>3, <2>4 DEF IndInv, TypeOK
<1>8. ManifestsKept'
  <2>1. \A t \in Skills : \A x \in snapshots[t] : x \in Revs \ {r} /\ revBlobs[x] = BlobsOf[x]
    BY <1>2 DEF IndInv, TypeOK, ManifestsKept
  <2>2. \A t \in Skills : \A x \in snapshots'[t] : x = r \/ x \in snapshots[t]
    BY <1>3
  <2> QED
    BY <1>1, <1>3, <2>1, <2>2 DEF ManifestsKept
<1>9. RevisionsAreNew'
  <2>1. \A p \in Requests : running'[p] # None => running[p].rev \notin stored'
    BY <1>0, <1>1, <1>4 DEF IndInv, RevisionsAreNew
  <2> QED
    BY <1>4, <2>1, RequestsKept DEF IndInv
<1>10. LocksHeld'
  <2>1. ASSUME NEW p \in Requests, Phase(p, "checked")'
        PROVE  /\ running'[p] = running[p] /\ owner'[running[p].skill] = owner[running[p].skill]
               /\ pruning'[running[p].skill] = None
    <3>1. running'[p] = running[p] /\ p # q /\ Phase(p, "checked")
      BY <1>4, <2>1 DEF Phase
    <3>2. running[p].skill \in Skills \ {s}
      BY <1>2, <3>1 DEF Phase, IndInv, TypeOK, Run
    <3> QED
      BY <1>0, <1>3, <3>1, <3>2 DEF IndInv, LocksHeld
  <2> QED
    BY <2>1, LocksKept DEF IndInv
<1>11. PrunesKeepHead'
  <2>1. \A t \in Skills \ {s} : head'[t] = head[t]
    BY <1>1 DEF PersistRevision, IndInv, TypeOK
  <2> QED
    BY <1>0, <1>2, <1>3, <2>1 DEF IndInv, PrunesKeepHead, Prunable
<1>12. DrainsUnreachable'
  BY <1>0, <1>6 DEF IndInv, DrainsUnreachable, NotDraining
<1>13. ReferencesHaveRows'
  BY <1>0, <1>6 DEF IndInv, ReferencesHaveRows
<1>14. UnreachableIsCandidate'
  BY <1>0, <1>1, <1>6 DEF IndInv, TypeOK, UnreachableIsCandidate
<1> QED
  BY <1>6, <1>7, <1>8, <1>9, <1>10, <1>11, <1>12, <1>13, <1>14 DEF IndInv

LEMMA RestoreSkillInv ==
  ASSUME IndInv, NEW s \in Skills, NEW r \in Revs, NEW target \in Revs, RestoreSkill(s, r, target)
  PROVE  IndInv'
<1> DEFINE n == owner[s]  bs == BlobsOf[r]
<1>0. /\ n # None /\ ~SkillLocked(s) /\ target \in snapshots[s]
      /\ NewRevision(r) /\ bs = BlobsOf[target]
      /\ stored' = stored \cup {r}
      /\ revBlobs' = [revBlobs EXCEPT ![r] = bs]
      /\ resRefs' = [resRefs EXCEPT ![s] = IncrementRow(resRefs[s], bs)]
      /\ nsRefs' = [nsRefs EXCEPT ![n] = IncrementRow(nsRefs[n], bs)]
      /\ snapshots' = [snapshots EXCEPT ![s] = @ \cup {r}]
      /\ head' = [head EXCEPT ![s] = r]
      /\ running' = EndStale(s, {"rename"}, None)
      /\ UNCHANGED <<owner, rows, gc, objects, pruning, collecting>>
  BY DEF RestoreSkill, IndInv, TypeOK
<1>1. /\ n \in Namespaces /\ bs \subseteq Blobs
      /\ resRefs[s] \in [Blobs -> Nat] /\ nsRefs[n] \in [Blobs -> Nat]
  BY <1>0, ContentAssumption DEF IndInv, TypeOK
<1>2. /\ r \notin stored /\ \A t \in Skills : r \notin snapshots[t]
      /\ pruning[s] = None
  BY <1>0 DEF IndInv, TypeOK, NewRevision, SkillLocked
<1>3. /\ \A t \in Skills : /\ snapshots'[t] = IF t = s THEN snapshots[s] \cup {r} ELSE snapshots[t]
                           /\ head'[t] = IF t = s THEN r ELSE head[t]
      /\ \A x \in Revs : revBlobs'[x] = IF x = r THEN bs ELSE revBlobs[x]
  BY <1>0 DEF IndInv, TypeOK
<1>4. /\ running' \in [Requests -> Run \cup {None}]
      /\ \A p \in Requests : running'[p] # None => running'[p] = running[p]
  BY <1>0, EndStaleFacts DEF IndInv
\* The restored tree's blobs all have a count: the target holds them.
<1>5. \A b \in bs : resRefs[s][b] > 0
  <2> SUFFICES ASSUME NEW b \in bs PROVE resRefs[s][b] > 0
    OBVIOUS
  <2>1. /\ target \in Containing(s, b) /\ IsFiniteSet(Containing(s, b))
        /\ Cardinality(Containing(s, b)) \in Nat
    BY <1>0, <1>1, FiniteCounts DEF Containing, IndInv
  <2>2. Cardinality(Containing(s, b)) # 0
    BY <2>1, FS_EmptySet
  <2> QED
    BY <1>1, <2>1, <2>2 DEF IndInv, RefCountsExact
<1>6. /\ IncrementRow(resRefs[s], bs) \in [Blobs -> Nat]
      /\ IncrementRow(nsRefs[n], bs) \in [Blobs -> Nat]
      /\ \A b \in Blobs : IncrementRow(resRefs[s], bs)[b] = resRefs[s][b] + One(b, bs)
      /\ \A b \in Blobs : \/ IncrementRow(nsRefs[n], bs)[b] = nsRefs[n][b]
                          \/ IncrementRow(nsRefs[n], bs)[b] = nsRefs[n][b] + One(b, bs)
  BY <1>1, <1>5, IncrementFacts DEF IncrementRow, One
<1>7. SnapshotRows' /\ RefCountsExact' /\ \A b \in Blobs : Reachable(b)' <=> Reachable(b)
  <2>1. owner[s] \in {None, n} /\ r \notin snapshots[s] /\ owner' = [owner EXCEPT ![s] = n]
    BY <1>0, <1>2 DEF IndInv, TypeOK
  <2>2. \A t \in Skills, b \in Blobs :
          resRefs'[t][b] = resRefs[t][b] + IF t = s THEN One(b, bs) ELSE 0
    BY <1>0, <1>6 DEF IndInv, TypeOK
  <2>3. \A m \in Namespaces, b \in Blobs :
          \/ nsRefs'[m][b] = nsRefs[m][b]
          \/ m = n /\ nsRefs'[m][b] = nsRefs[m][b] + One(b, bs)
    BY <1>0, <1>1, <1>6 DEF IndInv, TypeOK
  <2>4. \A b \in bs : Reachable(b)
    BY <1>5 DEF Reachable
  <2>5. n \in Namespaces /\ snapshots' = [snapshots EXCEPT ![s] = @ \cup {r}]
    BY <1>0, <1>1
  <2> HIDE DEF n
  <2>6. SnapshotRows' /\ RefCountsExact' /\ \A b \in Blobs : Reachable(b)' <=> Reachable(b) \/ b \in bs
    BY <2>1, <2>2, <2>3, <2>5, AttachStep DEF IndInv
  <2> QED
    BY <2>4, <2>6
<1>8. TypeOK'
  <2>1. revBlobs' \in [Revs -> SUBSET Blobs]
    BY <1>0, <1>1 DEF IndInv, TypeOK
  <2>2. snapshots' \in [Skills -> SUBSET stored'] /\ stored' \subseteq Revs
    BY <1>0 DEF IndInv, TypeOK
  <2>3. resRefs' \in [Skills -> [Blobs -> Nat]] /\ nsRefs' \in [Namespaces -> [Blobs -> Nat]]
    BY <1>0, <1>1, <1>6 DEF IndInv, TypeOK
  <2>4. /\ DOMAIN head' = Skills
        /\ \A t \in Skills : IF owner'[t] = None THEN head'[t] = None ELSE head'[t] \in snapshots'[t]
    BY <1>0, <1>3 DEF IndInv, TypeOK
  <2> QED
    BY <1>0, <1>4, <2>1, <2>2, <2>3, <2>4 DEF IndInv, TypeOK
<1>9. ManifestsKept'
  <2>1. \A t \in Skills : \A x \in snapshots[t] : x \in Revs \ {r} /\ revBlobs[x] = BlobsOf[x]
    BY <1>2 DEF IndInv, TypeOK, ManifestsKept
  <2>2. \A t \in Skills : \A x \in snapshots'[t] : x = r \/ x \in snapshots[t]
    BY <1>3
  <2> QED
    BY <1>3, <2>1, <2>2 DEF ManifestsKept
<1>10. RevisionsAreNew'
  <2>1. \A p \in Requests : running'[p] # None => running[p].rev \notin stored'
    BY <1>0, <1>4 DEF IndInv, RevisionsAreNew, NewRevision
  <2> QED
    BY <1>4, <2>1, RequestsKept DEF IndInv
<1>11. LocksHeld'
  BY <1>0, <1>4, LocksKept DEF IndInv, LocksHeld, Phase
<1>12. PrunesKeepHead'
  BY <1>0, <1>2, <1>3 DEF IndInv, PrunesKeepHead, Prunable
<1>13. DrainsUnreachable' /\ ReferencesHaveRows'
  BY <1>0, <1>7 DEF IndInv, DrainsUnreachable, ReferencesHaveRows
<1>14. UnreachableIsCandidate'
  BY <1>0, <1>7 DEF IndInv, TypeOK, UnreachableIsCandidate
<1> QED
  BY <1>7, <1>8, <1>9, <1>10, <1>11, <1>12, <1>13, <1>14 DEF IndInv

LEMMA AcceptProposalInv ==
  ASSUME IndInv, NEW s \in Skills, NEW t \in Skills, AcceptProposal(s, t) PROVE IndInv'
<1> DEFINE r == head[s]  n == owner[t]  new == IF Unattached(t, r) THEN BlobsOf[r] ELSE {}
<1>0. /\ owner[s] # None /\ n # None /\ ~SkillLocked(t) /\ NotDraining(new)
      /\ resRefs' = [resRefs EXCEPT ![t] = Increment(resRefs[t], new)]
      /\ nsRefs' = [nsRefs EXCEPT ![n] = Increment(nsRefs[n], new)]
      /\ gc' = [b \in Blobs |-> IF b \in new THEN "no" ELSE gc[b]]
      /\ snapshots' = [snapshots EXCEPT ![t] = @ \cup {r}]
      /\ head' = [head EXCEPT ![t] = r]
      /\ running' = EndStale(t, {"rename"}, None)
      /\ UNCHANGED <<owner, stored, revBlobs, rows, objects, pruning, collecting>>
  BY DEF AcceptProposal, IndInv, TypeOK
<1>1. /\ n \in Namespaces /\ r \in snapshots[s] /\ r \in stored /\ r \in Revs
      /\ BlobsOf[r] \subseteq Blobs /\ new \subseteq Blobs
      /\ resRefs[t] \in [Blobs -> Nat] /\ nsRefs[n] \in [Blobs -> Nat]
  BY <1>0, ContentAssumption DEF IndInv, TypeOK
<1>2. \A x \in Skills : /\ snapshots'[x] = IF x = t THEN snapshots[t] \cup {r} ELSE snapshots[x]
                        /\ head'[x] = IF x = t THEN r ELSE head[x]
  BY <1>0 DEF IndInv, TypeOK
<1>3. /\ running' \in [Requests -> Run \cup {None}]
      /\ \A p \in Requests : running'[p] # None => running'[p] = running[p]
  BY <1>0, EndStaleFacts DEF IndInv
<1>4. /\ \A x \in Skills, b \in Blobs :
           resRefs'[x][b] = resRefs[x][b] + IF x = t THEN One(b, new) ELSE 0
      /\ \A m \in Namespaces, b \in Blobs :
           nsRefs'[m][b] = nsRefs[m][b] + IF m = n THEN One(b, new) ELSE 0
  BY <1>0, <1>1, IncrementFacts DEF IndInv, TypeOK
\* The fork holds the revision, so its blobs have rows.
<1>5. \A b \in BlobsOf[r] : Reachable(b)
  <2> SUFFICES ASSUME NEW b \in BlobsOf[r] PROVE resRefs[s][b] > 0
    BY DEF Reachable
  <2>1. /\ r \in Containing(s, b) /\ IsFiniteSet(Containing(s, b))
        /\ Cardinality(Containing(s, b)) \in Nat
    BY <1>1, FiniteCounts DEF Containing, IndInv
  <2>2. Cardinality(Containing(s, b)) # 0
    BY <2>1, FS_EmptySet
  <2> QED
    BY <1>1, <2>1, <2>2 DEF IndInv, RefCountsExact
<1>6. SnapshotRows' /\ RefCountsExact' /\ \A b \in Blobs : Reachable(b)' <=> Reachable(b)
  <2>1. CASE Unattached(t, r)
    <3>1. /\ owner[t] \in {None, n} /\ r \notin snapshots[t] /\ owner' = [owner EXCEPT ![t] = n]
          /\ snapshots' = [snapshots EXCEPT ![t] = @ \cup {r}] /\ n \in Namespaces /\ r \in Revs
      BY <1>0, <1>1, <2>1 DEF IndInv, TypeOK, Unattached
    <3>2. \A x \in Skills, b \in Blobs :
            resRefs'[x][b] = resRefs[x][b] + IF x = t THEN One(b, BlobsOf[r]) ELSE 0
      BY <1>4, <2>1
    <3>3. \A m \in Namespaces, b \in Blobs :
            \/ nsRefs'[m][b] = nsRefs[m][b]
            \/ m = n /\ nsRefs'[m][b] = nsRefs[m][b] + One(b, BlobsOf[r])
      BY <1>4, <2>1 DEF IndInv, TypeOK
    <3> HIDE DEF r, n
    <3>4. /\ SnapshotRows' /\ RefCountsExact'
          /\ \A b \in Blobs : Reachable(b)' <=> Reachable(b) \/ b \in BlobsOf[r]
      BY <3>1, <3>2, <3>3, AttachStep DEF IndInv
    <3> QED
      BY <1>5, <3>4
  <2>2. CASE ~Unattached(t, r)
    <3>1. snapshots' = snapshots
      BY <1>0, <2>2 DEF IndInv, TypeOK, Unattached
    <3>2. /\ \A x \in Skills, b \in Blobs : resRefs'[x][b] = resRefs[x][b]
          /\ \A m \in Namespaces, b \in Blobs : nsRefs'[m][b] = nsRefs[m][b]
      BY <1>4, <2>2 DEF One, IndInv, TypeOK
    <3> QED
      BY <1>0, <3>1, <3>2, CountsFrame DEF IndInv, RefCountsExact, Reachable
  <2> QED BY <2>1, <2>2
<1>7. TypeOK'
  <2>1. snapshots' \in [Skills -> SUBSET stored'] /\ stored' \subseteq Revs
    BY <1>0, <1>1 DEF IndInv, TypeOK
  <2>2. resRefs' \in [Skills -> [Blobs -> Nat]] /\ nsRefs' \in [Namespaces -> [Blobs -> Nat]]
    BY <1>0, <1>1, IncrementFacts DEF IndInv, TypeOK
  <2>3. /\ DOMAIN head' = Skills
        /\ \A x \in Skills : IF owner'[x] = None THEN head'[x] = None ELSE head'[x] \in snapshots'[x]
    BY <1>0, <1>2 DEF IndInv, TypeOK
  <2>4. gc' \in [Blobs -> {"no", "waiting", "eligible"}]
    BY <1>0 DEF IndInv, TypeOK
  <2> QED
    BY <1>0, <1>3, <2>1, <2>2, <2>3, <2>4 DEF IndInv, TypeOK
<1>8. ManifestsKept'
  <2>1. \A x \in Skills : \A y \in snapshots'[x] : y \in snapshots[s] \/ y \in snapshots[x]
    BY <1>1, <1>2
  <2> QED
    BY <1>0, <2>1 DEF IndInv, ManifestsKept
<1>9. RevisionsAreNew'
  BY <1>0, <1>3, RequestsKept DEF IndInv, RevisionsAreNew
<1>10. LocksHeld'
  BY <1>0, <1>3, LocksKept DEF IndInv, LocksHeld, Phase
<1>11. PrunesKeepHead'
  BY <1>0, <1>2 DEF IndInv, PrunesKeepHead, Prunable, SkillLocked
<1>12. DrainsUnreachable' /\ ReferencesHaveRows'
  BY <1>0, <1>6 DEF IndInv, DrainsUnreachable, ReferencesHaveRows
<1>13. UnreachableIsCandidate'
  <2>1. \A b \in new : Reachable(b)
    BY <1>5
  <2> QED
    BY <1>0, <1>6, <2>1 DEF IndInv, TypeOK, UnreachableIsCandidate
<1> QED
  BY <1>6, <1>7, <1>8, <1>9, <1>10, <1>11, <1>12, <1>13 DEF IndInv

LEMMA TransferInv ==
  ASSUME IndInv, NEW s \in Skills, NEW n \in Namespaces, TransferResource(s, n) PROVE IndInv'
<1> DEFINE o == owner[s]
<1>0. /\ o \in Namespaces \ {n} /\ ~SkillLocked(s)
      /\ \A b \in Blobs : nsRefs[o][b] >= resRefs[s][b]
      /\ nsRefs' = [nsRefs EXCEPT ![n] = [b \in Blobs |-> nsRefs[n][b] + resRefs[s][b]],
                                  ![o] = [b \in Blobs |-> nsRefs[o][b] - resRefs[s][b]]]
      /\ owner' = [owner EXCEPT ![s] = n]
      /\ running' = EndStale(s, {"rename"}, None)
      /\ UNCHANGED <<head, snapshots, stored, revBlobs, resRefs, rows, gc, objects, pruning, collecting>>
  <2>1. o \in Namespaces \ {n}
    BY DEF TransferResource, Personal
  <2> QED
    BY <2>1 DEF TransferResource, IndInv, TypeOK
<1>1. /\ \A m \in Namespaces, b \in Blobs : nsRefs[m][b] \in Nat
      /\ \A x \in Skills, b \in Blobs : resRefs[x][b] \in Nat
      /\ None \notin Namespaces
  BY ContentAssumption DEF IndInv, TypeOK
<1>2. /\ nsRefs' \in [Namespaces -> [Blobs -> Nat]]
      /\ \A m \in Namespaces, b \in Blobs :
           nsRefs'[m][b] = IF m = n THEN nsRefs[m][b] + resRefs[s][b]
                           ELSE IF m = o THEN nsRefs[m][b] - resRefs[s][b] ELSE nsRefs[m][b]
  <2>1. nsRefs' = [m \in Namespaces |->
                     IF m = n THEN [b \in Blobs |-> nsRefs[n][b] + resRefs[s][b]]
                     ELSE IF m = o THEN [b \in Blobs |-> nsRefs[o][b] - resRefs[s][b]]
                     ELSE nsRefs[m]]
    BY <1>0 DEF IndInv, TypeOK
  <2>2. \A m \in Namespaces : nsRefs[m] \in [Blobs -> Nat]
    BY DEF IndInv, TypeOK
  <2>3. /\ [b \in Blobs |-> nsRefs[n][b] + resRefs[s][b]] \in [Blobs -> Nat]
        /\ [b \in Blobs |-> nsRefs[o][b] - resRefs[s][b]] \in [Blobs -> Nat]
    BY <1>0, <1>1
  <2> QED
    BY <1>0, <2>1, <2>2, <2>3
<1>3. \A x \in Skills : owner'[x] = IF x = s THEN n ELSE owner[x]
  BY <1>0 DEF IndInv, TypeOK
<1>4. /\ running' \in [Requests -> Run \cup {None}]
      /\ \A p \in Requests : running'[p] # None => running'[p] = running[p]
  BY <1>0, EndStaleFacts DEF IndInv
<1>5. SnapshotRows' /\ RefCountsExact'
  <2>1. /\ SnapshotRows'
        /\ \A x \in Skills, b \in Blobs : Containing(x, b)' = Containing(x, b)
        /\ \A m \in Namespaces, b \in Blobs :
             Held(m, b)' = IF m = n THEN Held(m, b) + Cardinality(Containing(s, b))
                           ELSE IF m = o THEN Held(m, b) - Cardinality(Containing(s, b))
                           ELSE Held(m, b)
    BY <1>0, MoveSkill DEF IndInv
  <2>2. ASSUME NEW m \in Namespaces, NEW b \in Blobs PROVE nsRefs'[m][b] <= Held(m, b)'
    <3>1. /\ nsRefs[m][b] <= Held(m, b) /\ Held(m, b) \in Nat
          /\ resRefs[s][b] = Cardinality(Containing(s, b))
      BY FiniteCounts DEF IndInv, RefCountsExact
    <3> QED
      BY <1>1, <1>2, <2>1, <3>1
  <2>3. \A x \in Skills, b \in Blobs : resRefs'[x][b] = Cardinality(Containing(x, b)')
    BY <1>0, <2>1 DEF IndInv, RefCountsExact
  <2> QED
    BY <2>1, <2>2, <2>3 DEF RefCountsExact
<1>6. \A b \in Blobs : Reachable(b)' <=> Reachable(b)
  <2> SUFFICES ASSUME NEW b \in Blobs PROVE Reachable(b)' <=> Reachable(b)
    OBVIOUS
  <2>1. CASE resRefs[s][b] > 0
    BY <1>0, <2>1 DEF Reachable
  <2>2. CASE resRefs[s][b] = 0
    <3>1. \A m \in Namespaces : nsRefs'[m][b] = nsRefs[m][b]
      BY <1>1, <1>2, <2>2
    <3> QED
      BY <1>0, <3>1 DEF Reachable
  <2> QED BY <1>1, <2>1, <2>2
<1>7. TypeOK'
  <2>1. /\ owner' \in [Skills -> Namespaces \cup {None}]
        /\ \A x \in Skills : IF owner'[x] = None THEN head'[x] = None ELSE head'[x] \in snapshots'[x]
    BY <1>0, <1>1, <1>3 DEF IndInv, TypeOK
  <2> QED
    BY <1>0, <1>2, <1>4, <2>1 DEF IndInv, TypeOK
<1>8. ManifestsKept'
  BY <1>0 DEF IndInv, ManifestsKept
<1>9. RevisionsAreNew'
  BY <1>0, <1>4, RequestsKept DEF IndInv, RevisionsAreNew
<1>10. LocksHeld'
  <2>1. ASSUME NEW p \in Requests, Phase(p, "checked")'
        PROVE  /\ running'[p] = running[p] /\ owner'[running[p].skill] = owner[running[p].skill]
               /\ pruning'[running[p].skill] = None
    <3>1. running'[p] = running[p] /\ Phase(p, "checked")
      BY <1>4, <2>1 DEF Phase
    <3>2. running[p].skill \in Skills \ {s}
      BY <1>0, <3>1 DEF SkillLocked, Phase, IndInv, TypeOK, Run
    <3> QED
      BY <1>0, <1>3, <3>1, <3>2 DEF IndInv, LocksHeld
  <2> QED
    BY <2>1, LocksKept DEF IndInv
<1>11. PrunesKeepHead'
  BY <1>0, <1>3 DEF IndInv, PrunesKeepHead, Prunable, SkillLocked
<1>12. DrainsUnreachable' /\ ReferencesHaveRows' /\ UnreachableIsCandidate'
  BY <1>0, <1>6 DEF IndInv, TypeOK, DrainsUnreachable, ReferencesHaveRows, UnreachableIsCandidate
<1> QED
  BY <1>5, <1>6, <1>7, <1>8, <1>9, <1>10, <1>11, <1>12 DEF IndInv

-----------------------------------------------------------------------------
(* prune_skill_history writes *)

LEMMA PruneWriteInv == ASSUME IndInv, NEW s \in Skills, PruneWrite(s) PROVE IndInv'
<1> DEFINE run == pruning[s]  D == run.drop  n == owner[s]
           dropped == [b \in Blobs |-> Cardinality({r \in D : b \in revBlobs[r]})]
<1>0. /\ run # None
      /\ \A b \in Blobs : dropped[b] > 0 =>
           /\ run.nsCount[b] > 0
           /\ run.nsCount[b] > dropped[b] => nsRefs[n][b] > dropped[b] \/ nsRefs[n][b] = 0
      /\ resRefs' = [resRefs EXCEPT ![s] = Decrement(resRefs[s], resRefs[s], dropped)]
      /\ nsRefs' = [nsRefs EXCEPT ![n] = Decrement(nsRefs[n], run.nsCount, dropped)]
      /\ gc' = [b \in Blobs |->
             IF b \in Candidates(n, nsRefs', resRefs', dropped) THEN "waiting" ELSE gc[b]]
      /\ snapshots' = [snapshots EXCEPT ![s] = @ \ D]
      /\ revBlobs' = [r \in Revs |->
             IF r \in D /\ \A t \in Skills : r \notin snapshots'[t] THEN {} ELSE revBlobs[r]]
      /\ running' = EndStale(s, {"save", "rename"}, None)
      /\ pruning' = [pruning EXCEPT ![s] = None]
      /\ UNCHANGED <<owner, head, stored, rows, objects, collecting>>
  <2>1. run # None /\ n \in Namespaces
    BY DEF PruneWrite, IndInv, TypeOK, PrunesKeepHead
  <2> QED
    BY <2>1 DEF PruneWrite, IndInv, TypeOK
<1>1. /\ run \in Prune /\ n \in Namespaces /\ D \in SUBSET snapshots[s] /\ head[s] \notin D
      /\ resRefs[s] \in [Blobs -> Nat] /\ nsRefs[n] \in [Blobs -> Nat]
      /\ run.nsCount \in [Blobs -> Nat]
  BY <1>0 DEF IndInv, TypeOK, PrunesKeepHead, Prunable, Prune
<1>2. \A t \in Skills : snapshots'[t] = IF t = s THEN snapshots[s] \ D ELSE snapshots[t]
  BY <1>0 DEF IndInv, TypeOK
<1>3. \A b \in Blobs : dropped[b] = Cardinality({r \in D : b \in BlobsOf[r]})
  <2>1. \A r \in D : revBlobs[r] = BlobsOf[r]
    BY <1>1 DEF IndInv, ManifestsKept
  <2>2. \A b \in Blobs : {r \in D : b \in revBlobs[r]} = {r \in D : b \in BlobsOf[r]}
    BY <2>1
  <2> QED
    BY <2>2
<1>4. /\ SnapshotRows'
      /\ \A b \in Blobs : dropped[b] \in Nat
      /\ \A t \in Skills, b \in Blobs :
           Cardinality(Containing(t, b)') = Cardinality(Containing(t, b))
                                            - IF t = s THEN dropped[b] ELSE 0
      /\ \A m \in Namespaces, b \in Blobs :
           Held(m, b)' = Held(m, b) - IF m = n THEN dropped[b] ELSE 0
  <2> HIDE DEF dropped, D
  <2>1. owner' = owner /\ snapshots' = [snapshots EXCEPT ![s] = @ \ D]
    BY <1>0
  <2>2. /\ SnapshotRows'
        /\ \A b \in Blobs : Cardinality({r \in D : b \in BlobsOf[r]}) \in Nat
        /\ \A t \in Skills, b \in Blobs :
             Cardinality(Containing(t, b)') = Cardinality(Containing(t, b))
               - IF t = s THEN Cardinality({r \in D : b \in BlobsOf[r]}) ELSE 0
        /\ \A m \in Namespaces, b \in Blobs :
             Held(m, b)' = Held(m, b)
               - IF m = n THEN Cardinality({r \in D : b \in BlobsOf[r]}) ELSE 0
    BY <1>1, <2>1, DropSnapshots DEF IndInv
  <2> QED
    BY <1>3, <2>2
<1> HIDE DEF dropped
\* A skill's counts are read under its own lock: they are reduced exactly.
<1>5. \A t \in Skills, b \in Blobs :
        resRefs'[t][b] = resRefs[t][b] - IF t = s THEN dropped[b] ELSE 0
  <2> SUFFICES ASSUME NEW t \in Skills, NEW b \in Blobs
               PROVE  resRefs'[t][b] = resRefs[t][b] - IF t = s THEN dropped[b] ELSE 0
    OBVIOUS
  <2>1. /\ resRefs[t][b] \in Nat /\ dropped[b] \in Nat
        /\ resRefs'[t] = IF t = s THEN Decrement(resRefs[s], resRefs[s], dropped) ELSE resRefs[t]
    BY <1>0, <1>4 DEF IndInv, TypeOK
  <2>2. CASE t # s
    BY <2>1, <2>2
  <2>3. CASE t = s
    <3>1. dropped[b] <= resRefs[s][b]
      <4>1. /\ resRefs[s][b] = Cardinality(Containing(s, b))
            /\ Cardinality(Containing(s, b)') = Cardinality(Containing(s, b)) - dropped[b]
        BY <1>4 DEF IndInv, RefCountsExact
      <4>2. Cardinality(Containing(s, b)') \in Nat
        <5>1. IsFiniteSet(Containing(s, b)')
          <6>1. Containing(s, b)' \in SUBSET Containing(s, b) /\ IsFiniteSet(Containing(s, b))
            BY <1>2, FiniteCounts DEF Containing, IndInv
          <6> QED
            BY <6>1, FS_Subset
        <5> QED
          BY <5>1, FS_CardinalityType
      <4> QED
        BY <2>1, <2>3, <4>1, <4>2
    <3> QED
      BY <2>1, <2>3, <3>1 DEF Decrement
  <2> QED BY <2>2, <2>3
\* The namespace's counts may have moved since they were read: they are
\* reduced by at least what was dropped, or to nothing.
<1>6. \A m \in Namespaces, b \in Blobs :
        /\ nsRefs'[m][b] \in Nat
        /\ m # n \/ dropped[b] = 0 => nsRefs'[m][b] = nsRefs[m][b]
        /\ m = n => nsRefs'[m][b] = 0 \/ nsRefs'[m][b] = nsRefs[m][b] - dropped[b]
  <2> SUFFICES ASSUME NEW m \in Namespaces, NEW b \in Blobs
               PROVE  /\ nsRefs'[m][b] \in Nat
                      /\ m # n \/ dropped[b] = 0 => nsRefs'[m][b] = nsRefs[m][b]
                      /\ m = n => nsRefs'[m][b] = 0 \/ nsRefs'[m][b] = nsRefs[m][b] - dropped[b]
    OBVIOUS
  <2>1. /\ nsRefs[m][b] \in Nat /\ dropped[b] \in Nat /\ run.nsCount[b] \in Nat
        /\ nsRefs'[m] = IF m = n THEN Decrement(nsRefs[n], run.nsCount, dropped) ELSE nsRefs[m]
    BY <1>0, <1>1, <1>4 DEF IndInv, TypeOK
  <2>2. CASE m # n
    BY <2>1, <2>2
  <2>3. CASE m = n
    BY <1>0, <2>1, <2>3 DEF Decrement
  <2> QED BY <2>2, <2>3
<1>7. RefCountsExact'
  <2>1. ASSUME NEW t \in Skills, NEW b \in Blobs
        PROVE  resRefs'[t][b] = Cardinality(Containing(t, b)')
    BY <1>4, <1>5 DEF IndInv, RefCountsExact
  <2>2. ASSUME NEW m \in Namespaces, NEW b \in Blobs PROVE nsRefs'[m][b] <= Held(m, b)'
    <3>1. /\ nsRefs[m][b] <= Held(m, b) /\ Held(m, b) \in Nat /\ nsRefs[m][b] \in Nat
          /\ dropped[b] \in Nat
      BY <1>4, FiniteCounts DEF IndInv, RefCountsExact, TypeOK
    <3>2. Held(m, b)' \in Nat
      <4>1. Holding(m, b)' \in SUBSET Holding(m, b) /\ IsFiniteSet(Holding(m, b))
        BY <1>0, <1>2, FiniteCounts DEF Holding, Containing, IndInv
      <4>2. IsFiniteSet(Holding(m, b)')
        BY <4>1, FS_Subset
      <4> QED
        BY <4>2, FS_CardinalityType DEF Held
    <3> QED
      BY <1>4, <1>6, <3>1, <3>2
  <2> QED
    BY <2>1, <2>2 DEF RefCountsExact
<1>8. /\ running' \in [Requests -> Run \cup {None}]
      /\ \A p \in Requests : running'[p] # None => running'[p] = running[p]
  BY <1>0, EndStaleFacts DEF IndInv
<1>9. TypeOK'
  <2>1. snapshots' \in [Skills -> SUBSET stored'] /\ stored' \subseteq Revs
    BY <1>0 DEF IndInv, TypeOK
  <2>2. resRefs' \in [Skills -> [Blobs -> Nat]]
    <3>1. Decrement(resRefs[s], resRefs[s], dropped) \in [Blobs -> Nat]
      BY <1>1, <1>4 DEF Decrement
    <3> QED
      BY <1>0, <3>1 DEF IndInv, TypeOK
  <2>3. nsRefs' \in [Namespaces -> [Blobs -> Nat]]
    <3>1. DOMAIN Decrement(nsRefs[n], run.nsCount, dropped) = Blobs
          /\ Decrement(nsRefs[n], run.nsCount, dropped)
               = [b \in Blobs |-> Decrement(nsRefs[n], run.nsCount, dropped)[b]]
      BY DEF Decrement
    <3>2. \A b \in Blobs : Decrement(nsRefs[n], run.nsCount, dropped)[b] \in Nat
      BY <1>0, <1>1, <1>6 DEF IndInv, TypeOK
    <3>3. Decrement(nsRefs[n], run.nsCount, dropped) \in [Blobs -> Nat]
      BY <3>1, <3>2
    <3> QED
      BY <1>0, <3>3 DEF IndInv, TypeOK
  <2>4. /\ DOMAIN head' = Skills
        /\ \A x \in Skills : IF owner'[x] = None THEN head'[x] = None ELSE head'[x] \in snapshots'[x]
    BY <1>0, <1>1, <1>2 DEF IndInv, TypeOK
  <2>5. gc' \in [Blobs -> {"no", "waiting", "eligible"}]
    BY <1>0 DEF IndInv, TypeOK
  <2>6. revBlobs' \in [Revs -> SUBSET Blobs] /\ pruning' \in [Skills -> Prune \cup {None}]
    BY <1>0 DEF IndInv, TypeOK
  <2> QED
    BY <1>0, <1>8, <2>1, <2>2, <2>3, <2>4, <2>5, <2>6 DEF IndInv, TypeOK
<1>10. ManifestsKept'
  <2>1. ASSUME NEW t \in Skills, NEW r \in snapshots'[t] PROVE revBlobs'[r] = BlobsOf[r]
    <3>1. r \in snapshots[t] /\ r \in Revs
      BY <1>2, <2>1 DEF IndInv, TypeOK
    <3>2. revBlobs'[r] = revBlobs[r]
      BY <1>0, <2>1, <3>1
    <3> QED
      BY <3>1, <3>2 DEF IndInv, ManifestsKept
  <2> QED
    BY <2>1 DEF ManifestsKept
<1>11. RevisionsAreNew'
  BY <1>0, <1>8, RequestsKept DEF IndInv, RevisionsAreNew
<1>12. LocksHeld'
  <2>1. \A x \in Skills : pruning[x] = None => pruning'[x] = None
    BY <1>0 DEF IndInv, TypeOK
  <2>2. \A p \in Requests : Phase(p, "checked") => running[p].skill \in Skills
    BY DEF Phase, IndInv, TypeOK, Run
  <2> QED
    BY <1>0, <1>8, <2>1, <2>2, LocksKept DEF IndInv, LocksHeld, Phase
<1>13. PrunesKeepHead'
  BY <1>0, <1>2 DEF IndInv, TypeOK, PrunesKeepHead, Prunable
<1>14. \A b \in Blobs : Reachable(b)' => Reachable(b)
  <2> SUFFICES ASSUME NEW b \in Blobs, Reachable(b)' PROVE Reachable(b)
    OBVIOUS
  <2>1. dropped[b] \in Nat
    BY <1>4
  <2>2. \A t \in Skills : resRefs'[t][b] > 0 => resRefs[t][b] > 0
    BY <1>5, <2>1 DEF IndInv, TypeOK
  <2>3. \A m \in Namespaces : nsRefs'[m][b] > 0 => nsRefs[m][b] > 0
    BY <1>6, <2>1 DEF IndInv, TypeOK
  <2> QED
    BY <2>2, <2>3 DEF Reachable
<1>15. DrainsUnreachable' /\ ReferencesHaveRows'
  BY <1>0, <1>14 DEF IndInv, DrainsUnreachable, ReferencesHaveRows
\* What this prune made unreachable, it marked.
<1>16. UnreachableIsCandidate'
  <2> SUFFICES ASSUME NEW b \in rows, ~Reachable(b)' PROVE gc'[b] # "no"
    BY <1>0 DEF UnreachableIsCandidate
  <2>0. b \in Blobs
    BY DEF IndInv, TypeOK
  <2>1. CASE dropped[b] = 0
    <3>1. ~Reachable(b)
      <4>1. /\ \A t \in Skills : resRefs'[t][b] = resRefs[t][b]
            /\ \A m \in Namespaces : nsRefs'[m][b] = nsRefs[m][b]
        BY <1>5, <1>6, <2>0, <2>1 DEF IndInv, TypeOK
      <4> QED
        BY <4>1 DEF Reachable
    <3> QED
      BY <1>0, <2>0, <3>1 DEF IndInv, UnreachableIsCandidate, TypeOK
  <2>2. CASE dropped[b] # 0
    <3>1. dropped[b] > 0
      BY <1>4, <2>0, <2>2
    <3>2. \A t \in Skills : resRefs'[t][b] \in Nat /\ ~(resRefs'[t][b] > 0)
      BY <1>9, <2>0 DEF TypeOK, Reachable
    <3>3. nsRefs'[n][b] \in Nat /\ ~(nsRefs'[n][b] > 0)
      BY <1>1, <1>6, <2>0 DEF Reachable
    <3>4. b \in Candidates(n, nsRefs', resRefs', dropped)
      BY <2>0, <3>1, <3>2, <3>3 DEF Candidates
    <3> QED
      BY <1>0, <2>0, <3>4
  <2> QED BY <2>1, <2>2
<1> QED
  BY <1>4, <1>7, <1>9, <1>10, <1>11, <1>12, <1>13, <1>15, <1>16 DEF IndInv

-----------------------------------------------------------------------------
(* Every step preserves the invariant; the properties follow. *)

LEMMA NextInv == IndInv /\ [Next]_vars => IndInv'
<1> SUFFICES ASSUME IndInv, [Next]_vars PROVE IndInv'
  OBVIOUS
<1>1. CASE UNCHANGED vars
  <2>1. /\ UNCHANGED <<catalog, counts, rows, gc, collecting>> /\ objects' \subseteq Blobs
        /\ running' \in [Requests -> Run \cup {None}] /\ pruning' \in [Skills -> Prune \cup {None}]
        /\ RevisionsAreNew' /\ LocksHeld' /\ PrunesKeepHead'
    BY <1>1 DEF vars, catalog, counts, IndInv, TypeOK, RevisionsAreNew, LocksHeld, Phase,
       PrunesKeepHead, Prunable
  <2> QED
    BY <2>1, RequestStep
<1>2. ASSUME NEW q \in Requests, NEW k \in Kinds, NEW s \in Skills, NEW n \in Namespaces,
             NEW r \in Revs, PrepareUpload(q, k, s, n, r)
      PROVE  IndInv'
  BY <1>2, PrepareUploadInv
<1>3. ASSUME NEW q \in Requests, Store(q) PROVE IndInv'
  <2>1. CASE VerifyBytes(q)
    BY <2>1, EnterInv DEF VerifyBytes, Phase, Phases, IndInv, TypeOK
  <2>2. CASE PutObjects(q)
    <3>1. running[q].staged \subseteq Blobs
      BY <2>2 DEF PutObjects, Phase, IndInv, TypeOK, Run
    <3> QED
      BY <2>2, <3>1, EnterInv DEF PutObjects, Phase, Phases, IndInv, TypeOK
  <2> QED
    BY <1>3, <2>1, <2>2, CheckLockedInv, PersistRevisionInv, FailInv DEF Store
<1>4. ASSUME NEW s \in Skills, NEW r \in Revs, NEW t \in Revs, RestoreSkill(s, r, t) PROVE IndInv'
  BY <1>4, RestoreSkillInv
<1>5. ASSUME NEW s \in Skills, NEW t \in Skills, AcceptProposal(s, t) PROVE IndInv'
  BY <1>5, AcceptProposalInv
<1>6. ASSUME NEW s \in Skills, NEW n \in Namespaces, TransferResource(s, n) PROVE IndInv'
  BY <1>6, TransferInv
<1>7. ASSUME NEW s \in Skills, PruneHistory(s) PROVE IndInv'
  BY <1>7, PruneReadInv, PruneWriteInv, PruneFailsInv DEF PruneHistory
<1>8. ASSUME NEW b \in Blobs, Collect(b) PROVE IndInv'
  BY <1>8, CollectInv
<1> QED
  BY <1>1, <1>2, <1>3, <1>4, <1>5, <1>6, <1>7, <1>8 DEF Next

\* The inductive invariant holds in every state of the content storage.
THEOREM Invariance == Spec => []IndInv
BY InitInv, NextInv, PTL DEF Spec

\* Columns keep their types, and a skill's head is one of its snapshots.
THEOREM TypeCorrect == Spec => []TypeOK
<1>1. IndInv => TypeOK
  BY DEF IndInv
<1> QED BY <1>1, Invariance, PTL

\* Whatever saves, restores, acceptances, transfers and prunes interleave, a
\* skill's count of a blob is the number of its revisions that contain it, and
\* a namespace is never charged for more references than its skills hold.
THEOREM CountsExact == Spec => []RefCountsExact
<1>1. IndInv => RefCountsExact
  BY DEF IndInv
<1> QED BY <1>1, Invariance, PTL

\* drain_blob_gc never removes the row of a blob that something refers to.
THEOREM RowsKept == Spec => []ReferencesHaveRows
<1>1. IndInv => ReferencesHaveRows
  BY DEF IndInv
<1> QED BY <1>1, Invariance, PTL

\* No blob row is left that nothing refers to and no drain will look at.
THEOREM NothingLeaks == Spec => []UnreachableIsCandidate
<1>1. IndInv => UnreachableIsCandidate
  BY DEF IndInv
<1> QED BY <1>1, Invariance, PTL

\* Bytes are deleted only while no namespace and no skill refers to them.
THEOREM CollectionSafe == Spec => CollectedOnlyWhenUnreachable
<1> DEFINE A == \A b \in objects \ objects' : ~Reachable(b) /\ ~Reachable(b)'
<1>1. ASSUME IndInv, [Next]_vars PROVE A
  <2> SUFFICES ASSUME NEW b \in objects, b \notin objects'
               PROVE  ~Reachable(b) /\ ~Reachable(b)'
    OBVIOUS
  <2>1. PICK x \in Blobs : DrainDeleteObject(x)
    <3>1. ~UNCHANGED vars
      BY DEF vars
    <3>2. \A q \in Requests : ~Store(q)
      BY DEF Store, VerifyBytes, PutObjects, CheckLocked, PersistRevision, Fail
    <3>3. \A q, k, s, n, r : ~PrepareUpload(q, k, s, n, r)
      BY DEF PrepareUpload
    <3>4. \A s, t, r : ~RestoreSkill(s, r, t) /\ ~AcceptProposal(s, t) /\ ~TransferResource(s, r)
      BY DEF RestoreSkill, AcceptProposal, TransferResource
    <3>5. \A s \in Skills : ~PruneHistory(s)
      BY DEF PruneHistory, PruneRead, PruneWrite, PruneFails
    <3>6. \A x \in Blobs : Collect(x) => DrainDeleteObject(x)
      BY DEF Collect, GraceElapses, DrainLock, DrainDeleteRow, DrainFails
    <3> QED
      BY <1>1, <3>1, <3>2, <3>3, <3>4, <3>5, <3>6 DEF Next
  <2>2. b = x /\ collecting[x] = "locked" /\ UNCHANGED <<resRefs, nsRefs>>
    BY <2>1 DEF DrainDeleteObject, counts
  <2> QED
    BY <1>1, <2>2 DEF IndInv, DrainsUnreachable, Reachable
<1>2. IndInv /\ [Next]_vars => [A]_vars
  BY <1>1
<1> QED
  BY <1>2, Invariance, PTL DEF Spec, CollectedOnlyWhenUnreachable
=============================================================================
