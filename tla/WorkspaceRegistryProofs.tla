---------------------- MODULE WorkspaceRegistryProofs ----------------------
(* Proofs about WorkspaceRegistry, for every set of operations, conflict    *)
(* IDs, foreign revisions and handlers, and every bound on generations.     *)
EXTENDS WorkspaceRefinement, TLAPS

\* The workspace counter never runs ahead of the resource counter that
\* rename and prune overwrite it with.
GenOrder == wsGen <= resGen

\* Revisions that have snapshots here or in another skill are stored.
SnapshotsAreRevisions == \A r \in snapshots \cup Foreign : parents[r] # None

\* An operation row is filed under its own ID and syncs a fork only with a
\* merge; until it is decided its
\* revision does not exist and the head it was based on is kept.
OperationRows ==
    \A o \in OpIds : operations[o] # None =>
        /\ operations[o].req.op = o
        /\ operations[o].req.fork # None => IsMerge(operations[o].req)
        /\ operations[o].state = "prepared" =>
             /\ parents[o] = None
             /\ operations[o].req.head \in snapshots
        /\ operations[o].state = "diverged" => operations[o].conflict # None
                                               /\ conflicts[operations[o].conflict] # None

\* What a rename read before its transaction is still the head if the
\* resource generation has not moved, and its operation ID is its own.
RenameReads ==
    \A h \in Handlers : handler[h] # None /\ handler[h].kind = "rename" =>
        /\ handler[h].gen <= resGen
        /\ handler[h].gen = resGen => handler[h].parent = head
        /\ parents[handler[h].op] = None
        /\ operations[handler[h].op] = None
        /\ \A g \in Handlers \ {h} :
             handler[g] # None /\ handler[g].kind = "rename" => handler[g].op # handler[h].op

\* Every answer sent is the outcome stored with its operation.
RepliesAreStored ==
    \A r \in replies :
        /\ operations[r.op] # None
        /\ operations[r.op].state # "prepared"
        /\ r = Reply(r.op, operations[r.op])

IndInv ==
    /\ TypeOK /\ GenOrder /\ SnapshotsAreRevisions /\ OperationRows /\ RenameReads
    /\ RepliesAreStored /\ AtMostOneActiveConflict /\ ConflictHistoryKept
    /\ DivergedSavesSurvive
-----------------------------------------------------------------------------
(* The steps that move only the resource counter or run no transaction. *)

LEMMA InitInv == Init => IndInv
<1> SUFFICES ASSUME Init PROVE IndInv
  OBVIOUS
<1>1. parents \in [Revs -> (SUBSET Revs) \cup {None}]
  <2> DEFINE p(r) == IF r \in Ops \cup ConflictIds THEN None ELSE {}
             T == (SUBSET Revs) \cup {None}
  <2>1. parents = [r \in Revs |-> p(r)]
    BY DEF Init
  <2>2. ASSUME NEW r \in Revs PROVE p(r) \in T
    OBVIOUS
  <2> HIDE DEF p, T
  <2>3. parents \in [Revs -> T]
    BY <2>1, <2>2
  <2> QED
    BY <2>3 DEF T
<1>2. head \in snapshots /\ snapshots \subseteq Revs
  BY DEF Init, Revs
<1>3. resGen \in Gens /\ wsGen \in Gens
  BY IdsDistinct DEF Init, Gens
<1>4. TypeOK
  BY <1>1, <1>2, <1>3 DEF Init, TypeOK
<1>5. SnapshotsAreRevisions
  <2>1. \A r \in {Base} \cup Foreign : parents[r] = {}
    BY IdsDistinct DEF Init, Revs
  <2> QED
    BY <2>1, NoneIsNoValue DEF Init, SnapshotsAreRevisions
<1> QED
  BY <1>4, <1>5 DEF Init, IndInv, GenOrder, OperationRows, RenameReads, RepliesAreStored,
     AtMostOneActiveConflict, ConflictHistoryKept, DivergedSavesSurvive, Active, Unresolved

\* A running request is of the type its kind says.
LEMMA RunningKinds ==
  ASSUME TypeOK, NEW h \in Handlers, handler[h] # None
  PROVE  /\ handler[h].kind = "commit" => handler[h] \in RunningCommit
         /\ handler[h].kind = "rename" => handler[h] \in RunningRename
BY DEF TypeOK, RunningCommit, RunningRename

LEMMA StutterInv == IndInv /\ UNCHANGED vars => IndInv'
BY DEF vars, graph, IndInv, TypeOK, GenOrder, SnapshotsAreRevisions, OperationRows,
    RenameReads, RepliesAreStored, AtMostOneActiveConflict,
    ConflictHistoryKept, DivergedSavesSurvive, Active, Unresolved, Reply

\* A step that moves the counters, the flags and the releases, and nothing
\* that the head, the graph, the operations or the conflicts depend on.
LEMMA CounterStepInv ==
  ASSUME IndInv, BumpResource, wsGen' = wsGen \/ wsGen' = resGen + 1,
         deleted' \in BOOLEAN, public' \in BOOLEAN,
         latest' \in released' \cup {None}, released' \subseteq snapshots,
         UNCHANGED <<head, graph, operations, conflicts, syncBase, handler, replies>>
  PROVE  IndInv'
<1> USE DEF graph
<1>1. TypeOK' /\ GenOrder'
  BY IdsDistinct DEF IndInv, TypeOK, GenOrder, BumpResource, Gens
<1>2. RenameReads'
  <2> SUFFICES ASSUME NEW h \in Handlers, handler[h] # None, handler[h].kind = "rename"
               PROVE  handler[h].gen <= resGen' /\ handler[h].gen # resGen'
    BY DEF IndInv, RenameReads
  <2>1. handler[h].gen <= resGen /\ handler[h].gen \in Gens
    BY RunningKinds DEF IndInv, RenameReads, RunningRename
  <2> QED
    BY <2>1, IdsDistinct DEF IndInv, TypeOK, BumpResource, Gens
<1> QED
  BY <1>1, <1>2 DEF IndInv, SnapshotsAreRevisions, OperationRows, RepliesAreStored,
     AtMostOneActiveConflict, ConflictHistoryKept, DivergedSavesSurvive, Active,
     Unresolved, Reply

LEMMA CounterActionsInv ==
  IndInv /\ (PublishSkill \/ UnpublishSkill \/ DeprecateSkill \/ DeleteSkill \/ TombstoneAccount)
    => IndInv'
<1>1. IndInv /\ PublishSkill => IndInv'
  BY CounterStepInv DEF PublishSkill, IndInv, TypeOK
<1>2. IndInv /\ UnpublishSkill => IndInv'
  BY CounterStepInv DEF UnpublishSkill, IndInv, TypeOK
<1>3. IndInv /\ DeprecateSkill => IndInv'
  BY CounterStepInv DEF DeprecateSkill, IndInv, TypeOK
<1>4. IndInv /\ DeleteSkill => IndInv'
  BY CounterStepInv DEF DeleteSkill, IndInv, TypeOK
<1>5. IndInv /\ TombstoneAccount => IndInv'
  BY CounterStepInv DEF TombstoneAccount, BumpResource, IndInv, TypeOK
<1> QED
  BY <1>1, <1>2, <1>3, <1>4, <1>5

LEMMA AbortInv == \A h \in Handlers : IndInv /\ Abort(h) => IndInv'
BY DEF Abort, Finish, graph, IndInv, TypeOK,
    GenOrder, SnapshotsAreRevisions, OperationRows, RenameReads, RepliesAreStored,
    AtMostOneActiveConflict, ConflictHistoryKept, DivergedSavesSurvive, Active,
    Unresolved, Reply, Gens

-----------------------------------------------------------------------------
(* The steps of prepare, commit, restore, accept, rename and prune. *)

LEMMA PrepareInv == ASSUME IndInv, NEW r \in Request, Prepare(r) PROVE IndInv'
<1> DEFINE row == [req |-> r, state |-> "prepared", gen |-> 0, conflict |-> None]
<1>0. r.op \in OpIds /\ operations' = [operations EXCEPT ![r.op] = row]
      /\ operations[r.op] = None /\ parents[r.op] = None
      /\ UNCHANGED <<resGen, wsGen, head, deleted, public, latest, released,
                     graph, conflicts, syncBase, handler, replies>>
  BY DEF Prepare, Request, ClientCanUse
<1>1. row \in Operation
  BY IdsDistinct DEF Operation, OpState
<1>2. TypeOK'
  BY <1>0, <1>1 DEF IndInv, TypeOK, graph
<1>3. r.head \in snapshots /\ (r.fork # None => IsMerge(r))
  BY DEF Prepare, PrepareAllowed, IndInv, TypeOK
<1>4. OperationRows'
  BY <1>0, <1>3 DEF IndInv, TypeOK, OperationRows, graph
<1>5. RenameReads'
  <2> SUFFICES ASSUME NEW h \in Handlers, handler[h] # None, handler[h].kind = "rename"
               PROVE  operations'[handler[h].op] = None
    BY <1>0 DEF IndInv, RenameReads, graph
  <2>1. handler[h].op # r.op /\ handler[h].op \in OpIds
    BY RunningKinds DEF Prepare, ClientCanUse, Renaming, IndInv, RunningRename, OpIds
  <2> QED
    BY <1>0, <2>1 DEF IndInv, RenameReads, TypeOK
<1>6. RepliesAreStored'
  BY <1>0 DEF IndInv, TypeOK, RepliesAreStored, Reply
<1>7. DivergedSavesSurvive'
  BY <1>0 DEF IndInv, TypeOK, DivergedSavesSurvive, graph
<1> QED
  BY <1>0, <1>2, <1>4, <1>5, <1>6, <1>7 DEF IndInv, GenOrder, SnapshotsAreRevisions,
     AtMostOneActiveConflict, ConflictHistoryKept, Active, Unresolved, graph

LEMMA CommitReadInv ==
  ASSUME IndInv, NEW h \in Handlers, NEW o \in OpIds, CommitRead(h, o) PROVE IndInv'
<1>0. UNCHANGED <<resGen, wsGen, head, deleted, public, latest, released,
                  graph, operations, conflicts, syncBase>>
  BY DEF CommitRead
<1>1. operations[o] \in Operation
  BY DEF CommitRead, IndInv, TypeOK
<1>2. TypeOK' /\ RepliesAreStored' /\ RenameReads'
  <2>1. CASE Prepared(o)
    <3> DEFINE run == [kind |-> "commit", req |-> operations[o].req]
    <3>1. handler' = [handler EXCEPT ![h] = run] /\ replies' = replies
      BY <2>1 DEF CommitRead
    <3>2. run \in RunningCommit
      BY <1>1 DEF RunningCommit, Operation
    <3>3. TypeOK'
      BY <1>0, <3>1, <3>2 DEF IndInv, TypeOK, graph
    <3> QED
      BY <1>0, <3>1, <3>3 DEF IndInv, TypeOK, RenameReads, RepliesAreStored, Reply, graph
  <2>2. CASE ~Prepared(o)
    <3>1. replies' = replies \cup {Reply(o, operations[o])} /\ handler' = handler
      BY <2>2 DEF CommitRead
    <3>2. Reply(o, operations[o]) \in [op : OpIds, state : OpState, gen : 0..MaxGen,
                                       conflict : ConflictIds \cup {None}]
      BY <1>1 DEF Reply, Operation
    <3>3. TypeOK'
      BY <1>0, <3>1, <3>2 DEF IndInv, TypeOK, graph
    <3>4. RepliesAreStored'
      BY <1>0, <3>1, <2>2 DEF IndInv, RepliesAreStored, Reply, CommitRead, Prepared
    <3> QED
      BY <1>0, <3>1, <3>3, <3>4 DEF IndInv, RenameReads, graph
  <2> QED BY <2>1, <2>2
<1> QED
  BY <1>0, <1>2 DEF IndInv, GenOrder, SnapshotsAreRevisions, OperationRows,
     AtMostOneActiveConflict, ConflictHistoryKept, DivergedSavesSurvive, Active,
     Unresolved, graph

LEMMA CommitReplayInv ==
  ASSUME IndInv, NEW h \in Handlers, CommitReplay(h) PROVE IndInv'
<1> DEFINE o == handler[h].req.op
<1>0. /\ UNCHANGED <<resGen, wsGen, head, deleted, public, latest, released,
                     graph, operations, conflicts, syncBase>>
      /\ handler' = [handler EXCEPT ![h] = None]
      /\ replies' = replies \cup {Reply(o, operations[o])}
      /\ operations[o] # None /\ ~Prepared(o)
  BY DEF CommitReplay, Finish
<1>1. o \in OpIds /\ operations[o] \in Operation
  BY <1>0, RunningKinds DEF CommitReplay, Committing, RunningCommit, Request, IndInv, TypeOK
<1>2. Reply(o, operations[o]) \in [op : OpIds, state : OpState, gen : 0..MaxGen,
                                   conflict : ConflictIds \cup {None}]
  BY <1>1 DEF Reply, Operation
<1>3. TypeOK'
  BY <1>0, <1>2 DEF IndInv, TypeOK, graph
<1>4. RepliesAreStored'
  BY <1>0 DEF IndInv, RepliesAreStored, Reply, Prepared
<1>5. RenameReads'
  BY <1>0 DEF IndInv, TypeOK, RenameReads, graph
<1> QED
  BY <1>0, <1>3, <1>4, <1>5 DEF IndInv, GenOrder, SnapshotsAreRevisions, OperationRows,
     AtMostOneActiveConflict, ConflictHistoryKept, DivergedSavesSurvive, Active,
     Unresolved, graph

\* Facts about a running commit that passed its second round of checks.
LEMMA CommitFacts ==
  ASSUME IndInv, NEW h \in Handlers, Committing(h),
         Prepared(handler[h].req.op), operations[handler[h].req.op].req = handler[h].req
  PROVE  LET r == handler[h].req
         IN  /\ r \in Request /\ r.op \in OpIds /\ r.op \in Revs
             /\ Parents(r) \subseteq Revs /\ Parents(r) # None
             /\ parents[r.op] = None /\ r.op \notin snapshots
             /\ r.head \in snapshots /\ r.head \in Parents(r)
             /\ r.fork # None => IsMerge(r)
             /\ \A g \in Handlers : handler[g] # None /\ handler[g].kind = "rename"
                                      => handler[g].op # r.op
<1> DEFINE r == handler[h].req
<1>1. r \in Request
  BY RunningKinds DEF Committing, RunningCommit, IndInv
<1>2. r.op \in OpIds /\ r.op \in Revs /\ r.head \in Revs /\ r.other \in Revs \cup {None}
  BY <1>1 DEF Request, OpIds, Revs
<1>3. Parents(r) \subseteq Revs /\ r.head \in Parents(r)
  BY <1>2 DEF Parents
<1>4. Parents(r) # None
  BY <1>3, NoneIsNoValue
<1>5. parents[r.op] = None /\ r.head \in snapshots /\ (r.fork # None => IsMerge(r))
  BY <1>2 DEF IndInv, OperationRows, Prepared
<1>6. r.op \notin snapshots
  BY <1>5 DEF IndInv, SnapshotsAreRevisions
<1>7. \A g \in Handlers : handler[g] # None /\ handler[g].kind = "rename" => handler[g].op # r.op
  BY DEF IndInv, RenameReads, Prepared
<1> QED
  BY <1>1, <1>2, <1>3, <1>4, <1>5, <1>6, <1>7

LEMMA CommitAdvanceInv ==
  ASSUME IndInv, NEW h \in Handlers, CommitAdvance(h) PROVE IndInv'
<1> DEFINE r == handler[h].req
           row == [req |-> r, state |-> "advanced", gen |-> wsGen + 1, conflict |-> None]
<1>0. /\ Committing(h) /\ Prepared(r.op) /\ operations[r.op].req = r
      /\ CommitAllowed(r) /\ head = r.head
      /\ parents' = [parents EXCEPT ![r.op] = Parents(r)]
      /\ snapshots' = snapshots \cup {r.op}
      /\ resGen < MaxGen /\ resGen' = resGen + 1
      /\ wsGen' = wsGen + 1
      /\ head' = r.op
      /\ conflicts' = IF IsMerge(r) /\ r.fork = None
                      THEN [conflicts EXCEPT ![r.op].resolution = r.op] ELSE conflicts
      /\ syncBase' = IF r.fork # None THEN r.fork.upstream ELSE syncBase
      /\ operations' = [operations EXCEPT ![r.op] = row]
      /\ replies' = replies \cup {Reply(r.op, row)}
      /\ handler' = [handler EXCEPT ![h] = None]
      /\ UNCHANGED <<deleted, public, latest, released>>
  BY DEF CommitAdvance, StillPrepared, StoreRevision, BumpResource, Decide, Finish
<1>1. /\ r \in Request /\ r.op \in OpIds /\ r.op \in Revs
      /\ Parents(r) \subseteq Revs /\ Parents(r) # None
      /\ parents[r.op] = None /\ r.op \notin snapshots
      /\ r.head \in snapshots /\ r.head \in Parents(r)
      /\ r.fork # None => IsMerge(r)
      /\ \A g \in Handlers : handler[g] # None /\ handler[g].kind = "rename"
                               => handler[g].op # r.op
  BY <1>0, CommitFacts
<1>2. /\ resGen \in Nat /\ wsGen \in Nat /\ wsGen >= 1 /\ wsGen <= resGen /\ MaxGen \in Nat
      /\ wsGen + 1 \in Gens /\ resGen + 1 \in Gens
  BY <1>0, IdsDistinct DEF IndInv, TypeOK, GenOrder, Gens
<1>3. row \in Operation
  BY <1>1, <1>2 DEF Operation, OpState, Gens
<1>4. IsMerge(r) /\ r.fork = None => r.op \in Active /\ conflicts[r.op].heads = Parents(r)
                                    /\ r.op \in ConflictIds
  BY <1>0 DEF CommitAllowed, ValidMerge, Active
<1>5. \A c \in ConflictIds :
        /\ conflicts[c] = None => conflicts'[c] = None
        /\ conflicts[c] # None =>
             /\ conflicts'[c] # None /\ conflicts'[c] \in Conflict
             /\ conflicts'[c].heads = conflicts[c].heads
             /\ conflicts'[c].base = conflicts[c].base
             /\ \/ conflicts'[c].resolution = conflicts[c].resolution
                \/ conflicts'[c].resolution = r.op /\ conflicts[c].heads = Parents(r)
                   /\ conflicts[c].resolution = None
  <2>1. CASE IsMerge(r) /\ r.fork = None
    <3>1. /\ conflicts[r.op] \in Conflict /\ conflicts[r.op].resolution = None
          /\ conflicts' = [conflicts EXCEPT ![r.op] = [conflicts[r.op] EXCEPT !.resolution = r.op]]
          /\ r.op \in ConflictIds /\ conflicts[r.op].heads = Parents(r)
      BY <2>1, <1>0, <1>4 DEF Active, Unresolved, IndInv, TypeOK
    <3>2. [conflicts[r.op] EXCEPT !.resolution = r.op] \in Conflict
      BY <3>1, <1>1 DEF Conflict
    <3> QED
      BY <3>1, <3>2, NoneIsNoValue DEF IndInv, TypeOK, Conflict
  <2>2. CASE ~(IsMerge(r) /\ r.fork = None)
    BY <2>2, <1>0 DEF IndInv, TypeOK
  <2> QED BY <2>1, <2>2
<1>6. TypeOK'
  <2>1. conflicts' \in [ConflictIds -> Conflict \cup {None}]
    <3>1. conflicts' = [c \in ConflictIds |-> conflicts'[c]]
      BY <1>0, <1>4 DEF IndInv, TypeOK
    <3>2. \A c \in ConflictIds : conflicts'[c] \in Conflict \cup {None}
      BY <1>5
    <3> QED BY <3>1, <3>2
  <2>2. operations' \in [OpIds -> Operation \cup {None}]
    BY <1>0, <1>3 DEF IndInv, TypeOK
  <2>3. syncBase' \in Foreign \cup {None}
    BY <1>0, <1>1 DEF IndInv, TypeOK, Request, ForkSync
  <2>4. parents' \in [Revs -> (SUBSET Revs) \cup {None}]
    BY <1>0, <1>1 DEF IndInv, TypeOK
  <2>5. Reply(r.op, row) \in [op : OpIds, state : OpState, gen : 0..MaxGen,
                              conflict : ConflictIds \cup {None}]
    BY <1>1, <1>2 DEF Reply, OpState, Gens
  <2>6. handler' \in [Handlers -> RunningCommit \cup RunningRename \cup {None}]
    BY <1>0 DEF IndInv, TypeOK
  <2> QED
    BY <1>0, <1>1, <1>2, <2>1, <2>2, <2>3, <2>4, <2>5, <2>6 DEF IndInv, TypeOK
<1>7. GenOrder'
  BY <1>0, <1>2 DEF GenOrder
<1>8. SnapshotsAreRevisions'
  BY <1>0, <1>1 DEF IndInv, TypeOK, SnapshotsAreRevisions
<1>9. OperationRows'
  BY <1>0, <1>1, <1>5 DEF IndInv, TypeOK, OperationRows, Operation
<1>10. RenameReads'
  <2> SUFFICES ASSUME NEW g \in Handlers, handler'[g] # None, handler'[g].kind = "rename"
               PROVE  /\ handler'[g].gen <= resGen' /\ handler'[g].gen # resGen'
                      /\ parents'[handler'[g].op] = None
                      /\ operations'[handler'[g].op] = None
                      /\ \A k \in Handlers \ {g} :
                           handler'[k] # None /\ handler'[k].kind = "rename"
                             => handler'[k].op # handler'[g].op
    BY DEF RenameReads
  <2>1. handler'[g] = handler[g] /\ g # h
    BY <1>0 DEF IndInv, TypeOK
  <2>2. handler[g].gen <= resGen /\ handler[g].gen \in Gens /\ handler[g].op \in Ops
    BY <2>1, RunningKinds DEF IndInv, RenameReads, RunningRename
  <2>3. handler[g].op \in Revs /\ handler[g].op \in OpIds
    BY <2>2 DEF Revs, OpIds
  <2> QED
    BY <1>0, <1>1, <1>2, <2>1, <2>2, <2>3 DEF IndInv, TypeOK, RenameReads, Gens
<1>11. RepliesAreStored'
  <2>1. \A x \in replies : x.op # r.op /\ x.op \in OpIds
    BY <1>0 DEF IndInv, TypeOK, RepliesAreStored, Prepared
  <2> QED
    BY <1>0, <1>1, <1>3, <2>1, NoneIsNoValue DEF IndInv, TypeOK, RepliesAreStored, Reply
<1>12. AtMostOneActiveConflict'
  BY <1>0, <1>1, <1>5, IdsDistinct DEF IndInv, AtMostOneActiveConflict, Active, Unresolved
<1>13. ConflictHistoryKept'
  BY <1>0, <1>5 DEF IndInv, ConflictHistoryKept
<1>14. DivergedSavesSurvive'
  <2> SUFFICES ASSUME NEW o \in OpIds, operations'[o] # None, operations'[o].state = "diverged"
               PROVE  LET c == conflicts'[operations'[o].conflict]
                      IN  o \in c.heads /\ (c.resolution # None => parents'[c.resolution] = c.heads)
    BY DEF DivergedSavesSurvive
  <2>1. o # r.op /\ operations'[o] = operations[o]
    BY <1>0, <1>1 DEF IndInv, TypeOK
  <2>2. operations[o].conflict \in ConflictIds /\ conflicts[operations[o].conflict] # None
    BY <2>1 DEF IndInv, TypeOK, OperationRows, Operation
  <2> DEFINE c == operations[o].conflict
  <2>3. /\ o \in conflicts[c].heads
        /\ conflicts[c].resolution # None => parents[conflicts[c].resolution] = conflicts[c].heads
    BY <2>1 DEF IndInv, DivergedSavesSurvive
  <2>4. conflicts[c] \in Conflict
    BY <2>2 DEF IndInv, TypeOK
  <2>5. conflicts[c].resolution # None => conflicts[c].resolution # r.op
    BY <1>1, <2>3, <2>4, NoneIsNoValue DEF Conflict
  <2>6. conflicts'[c].resolution # None => parents'[conflicts'[c].resolution] = conflicts'[c].heads
    BY <1>0, <1>1, <1>5, <2>2, <2>3, <2>4, <2>5 DEF IndInv, TypeOK, Conflict
  <2> QED
    BY <1>5, <2>1, <2>2, <2>3, <2>6
<1> QED
  BY <1>6, <1>7, <1>8, <1>9, <1>10, <1>11, <1>12, <1>13, <1>14 DEF IndInv

LEMMA CommitDivergeInv ==
  ASSUME IndInv, NEW h \in Handlers, NEW c \in ConflictIds, CommitDiverge(h, c) PROVE IndInv'
<1> DEFINE r == handler[h].req
           row == [req |-> r, state |-> "diverged", gen |-> wsGen, conflict |-> c]
           rec == [base |-> r.head, heads |-> {r.op, head}, active |-> head, resolution |-> None]
<1>0. /\ Committing(h) /\ Prepared(r.op) /\ operations[r.op].req = r
      /\ CommitAllowed(r) /\ head # r.head
      /\ parents' = [parents EXCEPT ![r.op] = Parents(r)]
      /\ snapshots' = snapshots \cup {r.op}
      /\ RecordConflict(c, r.head, r.op, head)
      /\ operations' = [operations EXCEPT ![r.op] = row]
      /\ replies' = replies \cup {Reply(r.op, row)}
      /\ handler' = [handler EXCEPT ![h] = None]
      /\ UNCHANGED <<resGen, wsGen, head, deleted, public, latest, released, syncBase>>
  BY DEF CommitDiverge, StillPrepared, StoreRevision, Decide, Finish
<1>1. /\ r \in Request /\ r.op \in OpIds /\ r.op \in Revs
      /\ Parents(r) \subseteq Revs /\ Parents(r) # None
      /\ parents[r.op] = None /\ r.op \notin snapshots
      /\ r.head \in snapshots /\ r.head \in Parents(r)
      /\ r.fork # None => IsMerge(r)
      /\ \A g \in Handlers : handler[g] # None /\ handler[g].kind = "rename"
                               => handler[g].op # r.op
  BY <1>0, CommitFacts
<1>2. Active = {}
  BY <1>0 DEF CommitAllowed
<1>3. conflicts[c] = None /\ conflicts' = [conflicts EXCEPT ![c] = rec]
  BY <1>0, <1>2 DEF RecordConflict
<1>4. rec \in Conflict /\ rec # None
  <2>1. rec \in Conflict
    BY <1>1 DEF Conflict, IndInv, TypeOK
  <2> QED BY <2>1, NoneIsNoValue
<1>5. row \in Operation
  BY <1>1, IdsDistinct DEF Operation, OpState, IndInv, TypeOK, Gens
<1>6. TypeOK'
  <2>1. conflicts' \in [ConflictIds -> Conflict \cup {None}]
    BY <1>3, <1>4 DEF IndInv, TypeOK
  <2>2. operations' \in [OpIds -> Operation \cup {None}]
    BY <1>0, <1>5 DEF IndInv, TypeOK
  <2>3. parents' \in [Revs -> (SUBSET Revs) \cup {None}]
    BY <1>0, <1>1 DEF IndInv, TypeOK
  <2>4. Reply(r.op, row) \in [op : OpIds, state : OpState, gen : 0..MaxGen,
                              conflict : ConflictIds \cup {None}]
    BY <1>1, IdsDistinct DEF Reply, OpState, Gens, IndInv, TypeOK
  <2>5. handler' \in [Handlers -> RunningCommit \cup RunningRename \cup {None}]
    BY <1>0 DEF IndInv, TypeOK
  <2> QED
    BY <1>0, <1>1, <2>1, <2>2, <2>3, <2>4, <2>5 DEF IndInv, TypeOK
<1>7. SnapshotsAreRevisions'
  BY <1>0, <1>1 DEF IndInv, TypeOK, SnapshotsAreRevisions
<1>8. OperationRows'
  BY <1>0, <1>1, <1>3, <1>4, IdsDistinct
  DEF IndInv, TypeOK, OperationRows, Operation, Revs
<1>9. RenameReads'
  <2> SUFFICES ASSUME NEW g \in Handlers, handler'[g] # None, handler'[g].kind = "rename"
               PROVE  /\ handler'[g].gen <= resGen' /\ (handler'[g].gen = resGen' => handler'[g].parent = head')
                      /\ parents'[handler'[g].op] = None
                      /\ operations'[handler'[g].op] = None
                      /\ \A k \in Handlers \ {g} :
                           handler'[k] # None /\ handler'[k].kind = "rename"
                             => handler'[k].op # handler'[g].op
    BY DEF RenameReads
  <2>1. handler'[g] = handler[g] /\ g # h
    BY <1>0 DEF IndInv, TypeOK
  <2>2. handler[g].op \in Revs /\ handler[g].op \in OpIds
    BY <2>1, RunningKinds DEF IndInv, RunningRename, Revs, OpIds
  <2> QED
    BY <1>0, <1>1, <2>1, <2>2 DEF IndInv, TypeOK, RenameReads
<1>10. RepliesAreStored'
  <2>1. \A x \in replies : x.op # r.op /\ x.op \in OpIds
    BY <1>0 DEF IndInv, TypeOK, RepliesAreStored, Prepared
  <2> QED
    BY <1>0, <1>1, <1>5, <2>1, NoneIsNoValue DEF IndInv, TypeOK, RepliesAreStored, Reply
<1>11. AtMostOneActiveConflict'
  BY <1>2, <1>3 DEF IndInv, TypeOK, AtMostOneActiveConflict, Active, Unresolved
<1>12. ConflictHistoryKept'
  BY <1>0, <1>1, <1>3 DEF IndInv, TypeOK, ConflictHistoryKept
<1>13. DivergedSavesSurvive'
  <2> SUFFICES ASSUME NEW o \in OpIds, operations'[o] # None, operations'[o].state = "diverged"
               PROVE  LET d == conflicts'[operations'[o].conflict]
                      IN  o \in d.heads /\ (d.resolution # None => parents'[d.resolution] = d.heads)
    BY DEF DivergedSavesSurvive
  <2>1. CASE o = r.op
    BY <2>1, <1>0, <1>1, <1>3 DEF IndInv, TypeOK
  <2>2. CASE o # r.op
    <3>1. operations'[o] = operations[o]
      BY <2>2, <1>0, <1>1 DEF IndInv, TypeOK
    <3>2. operations[o].conflict \in ConflictIds /\ conflicts[operations[o].conflict] # None
      BY <3>1 DEF IndInv, TypeOK, OperationRows, Operation
    <3> DEFINE d == operations[o].conflict
    <3>3. /\ o \in conflicts[d].heads
          /\ conflicts[d].resolution # None => parents[conflicts[d].resolution] = conflicts[d].heads
      BY <3>1 DEF IndInv, DivergedSavesSurvive
    <3>4. conflicts'[d] = conflicts[d] /\ conflicts[d] \in Conflict
      BY <1>3, <3>2 DEF IndInv, TypeOK
    <3>5. conflicts[d].resolution # None =>
            conflicts[d].resolution # r.op /\ conflicts[d].resolution \in Revs
      BY <1>1, <3>3, <3>4, NoneIsNoValue DEF Conflict
    <3> QED
      BY <1>0, <1>1, <3>1, <3>3, <3>4, <3>5 DEF IndInv, TypeOK
  <2> QED BY <2>1, <2>2
<1> QED
  BY <1>0, <1>6, <1>7, <1>8, <1>9, <1>10, <1>11, <1>12, <1>13 DEF IndInv, GenOrder

\* A revision stored under an ID nobody else uses disturbs no row that
\* refers to a revision.
LEMMA NewRevision ==
  ASSUME IndInv, NEW o \in Ops, NEW p \in Revs, parents[o] = None,
         parents' = [parents EXCEPT ![o] = {p}], snapshots' = snapshots \cup {o},
         UNCHANGED <<operations, conflicts>>
  PROVE  /\ parents' \in [Revs -> (SUBSET Revs) \cup {None}]
         /\ o \in Revs /\ snapshots' \subseteq Revs
         /\ SnapshotsAreRevisions' /\ ConflictHistoryKept'
         /\ AtMostOneActiveConflict' /\ DivergedSavesSurvive'
         /\ \A q \in Revs \ {o} : parents'[q] = parents[q]
<1>1. o \in Revs /\ {p} \in SUBSET Revs /\ {p} # None
  BY NoneIsNoValue DEF Revs
<1>2. parents' \in [Revs -> (SUBSET Revs) \cup {None}] /\ snapshots' \subseteq Revs
  BY <1>1 DEF IndInv, TypeOK
<1>3. SnapshotsAreRevisions' /\ \A q \in Revs \ {o} : parents'[q] = parents[q]
  BY <1>1 DEF IndInv, TypeOK, SnapshotsAreRevisions
<1>4. ConflictHistoryKept' /\ AtMostOneActiveConflict'
  BY DEF IndInv, ConflictHistoryKept, AtMostOneActiveConflict, Active, Unresolved
<1>5. DivergedSavesSurvive'
  <2> SUFFICES ASSUME NEW x \in OpIds, operations[x] # None, operations[x].state = "diverged",
                      conflicts[operations[x].conflict].resolution # None
               PROVE  parents'[conflicts[operations[x].conflict].resolution]
                        = conflicts[operations[x].conflict].heads
    BY DEF IndInv, DivergedSavesSurvive
  <2> DEFINE d == conflicts[operations[x].conflict]
  <2>1. d \in Conflict
    BY DEF IndInv, TypeOK, OperationRows, Operation
  <2>2. parents[d.resolution] = d.heads /\ d.heads # None /\ d.resolution \in Revs
    BY <2>1, NoneIsNoValue DEF IndInv, DivergedSavesSurvive, Conflict
  <2> QED
    BY <2>2 DEF IndInv, TypeOK
<1> QED
  BY <1>1, <1>2, <1>3, <1>4, <1>5

\* The resource counter moved past every running rename, whose operation ID
\* stays unused.
LEMMA RenameReadsKept ==
  ASSUME IndInv, BumpResource,
         \A g \in Handlers : handler'[g] = handler[g] \/ handler'[g] = None,
         \A g \in Handlers : handler'[g] # None /\ handler'[g].kind = "rename" =>
             parents'[handler[g].op] = None /\ operations'[handler[g].op] = None
  PROVE  RenameReads'
<1> SUFFICES ASSUME NEW h \in Handlers, handler'[h] # None, handler'[h].kind = "rename"
             PROVE  /\ handler[h].gen <= resGen' /\ handler[h].gen # resGen'
                    /\ \A g \in Handlers \ {h} :
                         handler'[g] # None /\ handler'[g].kind = "rename"
                           => handler[g].op # handler[h].op
  BY DEF RenameReads
<1>1. handler[h] # None /\ handler[h].kind = "rename"
  OBVIOUS
<1>2. handler[h].gen <= resGen /\ handler[h].gen \in Gens
  BY <1>1, RunningKinds DEF IndInv, RenameReads, RunningRename
<1>3. handler[h].gen <= resGen' /\ handler[h].gen # resGen'
  BY <1>2, IdsDistinct DEF IndInv, TypeOK, BumpResource, Gens
<1> QED
  BY <1>1, <1>3 DEF IndInv, RenameReads

LEMMA RestoreInv ==
  ASSUME IndInv, NEW o \in Ops, NEW t \in Revs, RestoreSkill(o, t) PROVE IndInv'
<1>0. /\ parents[o] = None /\ operations[o] = None /\ ~Renaming(o)
      /\ parents' = [parents EXCEPT ![o] = {head}] /\ snapshots' = snapshots \cup {o}
      /\ head' = o /\ wsGen' = wsGen + 1 /\ BumpResource
      /\ UNCHANGED <<deleted, public, latest, released, operations, conflicts,
                     syncBase, handler, replies>>
  BY DEF RestoreSkill, Fresh, StoreRevision
<1>1. /\ parents' \in [Revs -> (SUBSET Revs) \cup {None}]
      /\ o \in Revs /\ snapshots' \subseteq Revs
      /\ SnapshotsAreRevisions' /\ ConflictHistoryKept'
      /\ AtMostOneActiveConflict' /\ DivergedSavesSurvive'
      /\ \A q \in Revs \ {o} : parents'[q] = parents[q]
  <2>1. head \in Revs
    BY DEF IndInv, TypeOK
  <2> QED
    BY <1>0, <2>1, NewRevision
<1>2. resGen' \in Gens /\ wsGen' \in Gens /\ GenOrder'
  BY <1>0, IdsDistinct DEF IndInv, TypeOK, GenOrder, Gens, BumpResource
<1>3. TypeOK'
  BY <1>0, <1>1, <1>2 DEF IndInv, TypeOK
<1>4. OperationRows'
  BY <1>0, <1>1 DEF IndInv, OperationRows, OpIds, Revs
<1>5. RenameReads'
  <2>1. ASSUME NEW g \in Handlers, handler[g] # None, handler[g].kind = "rename"
        PROVE  parents'[handler[g].op] = None /\ operations'[handler[g].op] = None
    <3>1. handler[g].op \in Revs \ {o}
      BY <1>0, <2>1, RunningKinds DEF Renaming, IndInv, RunningRename, Revs
    <3> QED
      BY <1>0, <1>1, <2>1, <3>1 DEF IndInv, RenameReads
  <2> QED
    BY <1>0, <2>1, RenameReadsKept
<1>6. RepliesAreStored'
  BY <1>0 DEF IndInv, RepliesAreStored, Reply
<1> QED
  BY <1>1, <1>2, <1>3, <1>4, <1>5, <1>6 DEF IndInv

LEMMA AcceptInv == ASSUME IndInv, NEW rev \in Foreign, AcceptProposal(rev) PROVE IndInv'
<1>0. /\ snapshots' = snapshots \cup {rev} /\ head' = rev
      /\ wsGen' = wsGen + 1 /\ BumpResource
      /\ UNCHANGED <<deleted, public, latest, released, parents, operations, conflicts,
                     syncBase, handler, replies>>
  BY DEF AcceptProposal
<1>1. resGen' \in Gens /\ wsGen' \in Gens /\ GenOrder'
  BY <1>0, IdsDistinct DEF IndInv, TypeOK, GenOrder, Gens, BumpResource
<1>2. TypeOK'
  BY <1>0, <1>1 DEF IndInv, TypeOK, Revs
<1>3. SnapshotsAreRevisions'
  BY <1>0 DEF IndInv, SnapshotsAreRevisions
<1>4. OperationRows' /\ ConflictHistoryKept'
  BY <1>0 DEF IndInv, OperationRows, ConflictHistoryKept
<1>5. RenameReads'
  BY <1>0, RenameReadsKept DEF IndInv, RenameReads
<1> QED
  BY <1>0, <1>1, <1>2, <1>3, <1>4, <1>5 DEF IndInv, RepliesAreStored, Reply,
     AtMostOneActiveConflict, DivergedSavesSurvive, Active, Unresolved

LEMMA RenameReadInv ==
  ASSUME IndInv, NEW h \in Handlers, NEW o \in Ops, NEW p \in OpIds \cup {None},
         RenameRead(h, o, p)
  PROVE  IndInv'
<1> DEFINE run == [kind |-> "rename", op |-> o, gen |-> resGen, parent |-> head, prepared |-> p]
<1>0. /\ parents[o] = None /\ operations[o] = None /\ ~Renaming(o)
      /\ handler[h] = None /\ handler' = [handler EXCEPT ![h] = run]
      /\ UNCHANGED <<resGen, wsGen, head, deleted, public, latest, released,
                     graph, operations, conflicts, syncBase, replies>>
  BY DEF RenameRead, Fresh
<1>1. run \in RunningRename
  BY DEF RunningRename, IndInv, TypeOK
<1>2. TypeOK'
  BY <1>0, <1>1 DEF IndInv, TypeOK, graph
<1>3. \A g \in Handlers : handler'[g] = IF g = h THEN run ELSE handler[g]
  BY <1>0 DEF IndInv, TypeOK
<1>4. RenameReads'
  <2> SUFFICES ASSUME NEW g \in Handlers, handler'[g] # None, handler'[g].kind = "rename"
               PROVE  /\ handler'[g].gen <= resGen /\ (handler'[g].gen = resGen => handler'[g].parent = head)
                      /\ parents[handler'[g].op] = None /\ operations[handler'[g].op] = None
                      /\ \A k \in Handlers \ {g} :
                           handler'[k] # None /\ handler'[k].kind = "rename"
                             => handler'[k].op # handler'[g].op
    BY <1>0 DEF RenameReads, graph
  <2>1. CASE g = h
    BY <1>0, <1>3, <2>1, IdsDistinct DEF Renaming, IndInv, TypeOK, Gens
  <2>2. CASE g # h
    BY <1>0, <1>3, <2>2 DEF Renaming, IndInv, RenameReads
  <2> QED BY <2>1, <2>2
<1> QED
  BY <1>0, <1>2, <1>4 DEF IndInv, GenOrder, SnapshotsAreRevisions, OperationRows,
     RepliesAreStored, Reply, AtMostOneActiveConflict, ConflictHistoryKept,
     DivergedSavesSurvive, Active, Unresolved, graph

\* Deleting prepared rows touches no decided operation.
LEMMA PreparedRowsDropped ==
  ASSUME IndInv, NEW D \in SUBSET OpIds, \A x \in D : operations[x] # None => Prepared(x),
         operations' = [x \in OpIds |-> IF x \in D THEN None ELSE operations[x]],
         UNCHANGED <<conflicts, replies>>
  PROVE  /\ operations' \in [OpIds -> Operation \cup {None}]
         /\ RepliesAreStored'
         /\ \A x \in OpIds : operations'[x] # None => operations'[x] = operations[x] /\ x \notin D
<1>1. operations' \in [OpIds -> Operation \cup {None}]
  BY DEF IndInv, TypeOK
<1>2. \A x \in OpIds : operations'[x] # None => operations'[x] = operations[x] /\ x \notin D
  OBVIOUS
<1>3. RepliesAreStored'
  <2>1. \A y \in replies : y.op \in OpIds /\ y.op \notin D
    BY DEF IndInv, TypeOK, RepliesAreStored, Prepared
  <2> QED
    BY <2>1 DEF IndInv, RepliesAreStored, Reply
<1> QED BY <1>1, <1>2, <1>3

LEMMA PruneInv == IndInv /\ PruneHistory => IndInv'
<1> SUFFICES ASSUME IndInv, PruneHistory PROVE IndInv'
  OBVIOUS
<1> DEFINE D == {x \in OpIds : Prepared(x)}
<1>0. /\ snapshots' = snapshots \cap Protected
      /\ operations' = [x \in OpIds |-> IF x \in D THEN None ELSE operations[x]]
      /\ BumpResource /\ wsGen' = resGen + 1
      /\ UNCHANGED <<head, deleted, public, latest, released, parents, conflicts,
                     syncBase, handler, replies>>
  BY DEF PruneHistory, ExpirePrepared
<1>1. /\ operations' \in [OpIds -> Operation \cup {None}]
      /\ RepliesAreStored'
      /\ \A x \in OpIds : operations'[x] # None => operations'[x] = operations[x] /\ x \notin D
  <2> HIDE DEF D
  <2>1. D \in SUBSET OpIds /\ \A x \in D : operations[x] # None => Prepared(x)
    BY DEF D
  <2> QED
    BY <1>0, <2>1, PreparedRowsDropped
<1>2. resGen' \in Gens /\ wsGen' \in Gens /\ GenOrder'
  BY <1>0, IdsDistinct DEF IndInv, TypeOK, GenOrder, Gens, BumpResource
<1>3. head \in Protected /\ released \subseteq Protected
      /\ \A c \in ConflictIds : conflicts[c] # None =>
            conflicts[c].base \in Protected /\ conflicts[c].heads \subseteq Protected
  BY DEF Protected, ConflictRevisions
<1>4. TypeOK'
  BY <1>0, <1>1, <1>2, <1>3 DEF IndInv, TypeOK
<1>5. SnapshotsAreRevisions'
  BY <1>0 DEF IndInv, SnapshotsAreRevisions
<1>6. OperationRows'
  BY <1>0, <1>1 DEF IndInv, OperationRows, Prepared
<1>7. RenameReads'
  <2>1. ASSUME NEW g \in Handlers, handler[g] # None, handler[g].kind = "rename"
        PROVE  operations'[handler[g].op] = None
    <3>1. handler[g].op \in OpIds
      BY <2>1, RunningKinds DEF IndInv, RunningRename, OpIds
    <3> QED
      BY <1>0, <2>1, <3>1 DEF IndInv, RenameReads
  <2> QED
    BY <1>0, <2>1, RenameReadsKept DEF IndInv, RenameReads
<1>8. ConflictHistoryKept'
  BY <1>0, <1>3 DEF IndInv, ConflictHistoryKept
<1>9. AtMostOneActiveConflict'
  BY <1>0 DEF IndInv, AtMostOneActiveConflict, Active, Unresolved
<1>10. DivergedSavesSurvive'
  BY <1>0, <1>1 DEF IndInv, DivergedSavesSurvive
<1> QED
  BY <1>1, <1>2, <1>4, <1>5, <1>6, <1>7, <1>8, <1>9, <1>10 DEF IndInv

LEMMA RenameCommitInv ==
  ASSUME IndInv, NEW h \in Handlers, RenameCommit(h) PROVE IndInv'
<1> DEFINE run == handler[h]
           o == run.op
           D == IF run.prepared = None THEN {} ELSE {run.prepared}
<1>0. /\ run # None /\ run.kind = "rename" /\ resGen = run.gen
      /\ parents' = [parents EXCEPT ![o] = {run.parent}] /\ snapshots' = snapshots \cup {o}
      /\ head' = o /\ BumpResource /\ wsGen' = resGen + 1
      /\ latest' = IF public THEN o ELSE latest
      /\ released' = IF public THEN released \cup {o} ELSE released
      /\ run.prepared # None => Prepared(run.prepared)
      /\ operations' = IF run.prepared = None THEN operations
                       ELSE [operations EXCEPT ![run.prepared] = None]
      /\ handler' = [handler EXCEPT ![h] = None]
      /\ UNCHANGED <<deleted, public, conflicts, syncBase, replies>>
  BY DEF RenameCommit, RenameCurrent, StoreRevision, Finish
<1>1. run \in RunningRename
  BY <1>0, RunningKinds DEF IndInv
<1>2. /\ o \in Ops /\ o \in OpIds /\ run.parent \in Revs /\ parents[o] = None
      /\ operations[o] = None
      /\ run.prepared # None => run.prepared \in OpIds
  BY <1>0, <1>1 DEF RunningRename, IndInv, RenameReads, OpIds
<1>3. /\ operations' \in [OpIds -> Operation \cup {None}]
      /\ RepliesAreStored'
      /\ \A x \in OpIds : operations'[x] # None => operations'[x] = operations[x] /\ x \notin D
  <2>1. D \in SUBSET OpIds /\ \A x \in D : operations[x] # None => Prepared(x)
    BY <1>0, <1>2
  <2>2. operations' = [x \in OpIds |-> IF x \in D THEN None ELSE operations[x]]
    BY <1>0, <1>2 DEF IndInv, TypeOK
  <2> HIDE DEF D
  <2> QED
    BY <1>0, <2>1, <2>2, PreparedRowsDropped
<1>4. /\ parents' \in [Revs -> (SUBSET Revs) \cup {None}]
      /\ o \in Revs /\ snapshots' \subseteq Revs
      /\ \A q \in Revs \ {o} : parents'[q] = parents[q]
      /\ parents'[o] = {run.parent} /\ parents'[o] # None
  BY <1>0, <1>2, NoneIsNoValue DEF IndInv, TypeOK, Revs
<1>5. resGen' \in Gens /\ wsGen' \in Gens /\ GenOrder'
  BY <1>0, IdsDistinct DEF IndInv, TypeOK, GenOrder, Gens, BumpResource
<1>6. handler' \in [Handlers -> RunningCommit \cup RunningRename \cup {None}]
      /\ \A g \in Handlers : handler'[g] = IF g = h THEN None ELSE handler[g]
  BY <1>0 DEF IndInv, TypeOK
<1>7. TypeOK'
  BY <1>0, <1>3, <1>4, <1>5, <1>6 DEF IndInv, TypeOK
<1>8. SnapshotsAreRevisions'
  BY <1>0, <1>4 DEF IndInv, SnapshotsAreRevisions, Revs, TypeOK
<1>9. OperationRows'
  BY <1>0, <1>2, <1>3, <1>4 DEF IndInv, OperationRows, OpIds, Revs
<1>10. RenameReads'
  <2>1. ASSUME NEW g \in Handlers, handler'[g] # None, handler'[g].kind = "rename"
        PROVE  parents'[handler[g].op] = None /\ operations'[handler[g].op] = None
    <3>1. g # h /\ handler'[g] = handler[g]
      BY <1>6, <2>1
    <3>2. handler[g].op \in Revs \ {o} /\ handler[g].op \in OpIds
      BY <1>0, <2>1, <3>1, RunningKinds DEF IndInv, RenameReads, RunningRename, Revs, OpIds
    <3> QED
      BY <1>3, <1>4, <2>1, <3>1, <3>2 DEF IndInv, RenameReads
  <2> QED
    BY <1>0, <1>6, <2>1, RenameReadsKept
<1>11. ConflictHistoryKept' /\ AtMostOneActiveConflict'
  BY <1>0 DEF IndInv, ConflictHistoryKept, AtMostOneActiveConflict, Active, Unresolved
<1>12. DivergedSavesSurvive'
  <2> SUFFICES ASSUME NEW x \in OpIds, operations'[x] # None, operations'[x].state = "diverged"
               PROVE  LET d == conflicts[operations'[x].conflict]
                      IN  x \in d.heads /\ (d.resolution # None => parents'[d.resolution] = d.heads)
    BY <1>0 DEF DivergedSavesSurvive
  <2>1. operations'[x] = operations[x]
    BY <1>3
  <2> DEFINE d == conflicts[operations[x].conflict]
  <2>2. d \in Conflict
    BY <2>1 DEF IndInv, TypeOK, OperationRows, Operation
  <2>3. x \in d.heads /\ d.heads # None
        /\ (d.resolution # None => parents[d.resolution] = d.heads /\ d.resolution \in Revs)
    BY <2>1, <2>2, NoneIsNoValue DEF IndInv, DivergedSavesSurvive, Conflict
  <2> QED
    BY <1>2, <1>4, <2>1, <2>3
<1> QED
  BY <1>3, <1>5, <1>7, <1>8, <1>9, <1>10, <1>11, <1>12 DEF IndInv

-----------------------------------------------------------------------------
(* Every step preserves the invariant; the properties follow. *)

\* The requests that Next enumerates are well formed.
LEMMA RequestsTyped ==
  ASSUME NEW o \in OpIds, NEW p \in Revs, NEW g \in Gens
  PROVE  /\ [op |-> o, head |-> p, other |-> None, gen |-> g, fork |-> None] \in Request
         /\ \A q \in Revs \ {p}, f \in ForkSync \cup {None} :
              [op |-> o, head |-> p, other |-> q, gen |-> g, fork |-> f] \in Request
BY IdsDistinct DEF Request

LEMMA NextInv == IndInv /\ [Next]_vars => IndInv'
<1> SUFFICES ASSUME IndInv, [Next]_vars PROVE IndInv'
  OBVIOUS
<1>1. CASE UNCHANGED vars
  BY <1>1, StutterInv
<1>2. ASSUME NEW o \in {op \in OpIds : operations[op] = None}, NEW p \in Revs, NEW g \in Gens,
             \/ Prepare([op |-> o, head |-> p, other |-> None, gen |-> g, fork |-> None])
             \/ \E q \in Revs \ {p}, f \in ForkSync \cup {None} :
                  Prepare([op |-> o, head |-> p, other |-> q, gen |-> g, fork |-> f])
      PROVE  IndInv'
  <2>1. CASE Prepare([op |-> o, head |-> p, other |-> None, gen |-> g, fork |-> None])
    BY <2>1, RequestsTyped, PrepareInv
  <2>2. ASSUME NEW q \in Revs \ {p}, NEW f \in ForkSync \cup {None},
               Prepare([op |-> o, head |-> p, other |-> q, gen |-> g, fork |-> f])
        PROVE  IndInv'
    BY <2>2, RequestsTyped, PrepareInv
  <2> QED
    BY <1>2, <2>1, <2>2
<1>3. ASSUME NEW h \in Handlers, NEW o \in OpIds, CommitRead(h, o) PROVE IndInv'
  BY <1>3, CommitReadInv
<1>4. ASSUME NEW h \in Handlers, Commit(h) PROVE IndInv'
  BY <1>4, CommitAdvanceInv, CommitDivergeInv, CommitReplayInv DEF Commit
<1>5. ASSUME NEW h \in Handlers, Abort(h) PROVE IndInv'
  BY <1>5, AbortInv
<1>6. ASSUME NEW h \in Handlers, NEW o \in Ops, NEW p \in OpIds \cup {None}, RenameRead(h, o, p)
      PROVE  IndInv'
  BY <1>6, RenameReadInv
<1>7. ASSUME NEW h \in Handlers, RenameCommit(h) PROVE IndInv'
  BY <1>7, RenameCommitInv
<1>8. ASSUME NEW o \in Ops, NEW t \in Revs, RestoreSkill(o, t) PROVE IndInv'
  BY <1>8, RestoreInv
<1>9. ASSUME NEW rev \in Foreign, AcceptProposal(rev) PROVE IndInv'
  BY <1>9, AcceptInv
<1>10. CASE Lifecycle
  BY <1>10, CounterActionsInv, PruneInv DEF Lifecycle
<1> QED
  BY <1>1, <1>2, <1>3, <1>4, <1>5, <1>6, <1>7, <1>8, <1>9, <1>10 DEF Next

\* The inductive invariant holds in every state of the registry workspace.
THEOREM Invariance == Spec => []IndInv
BY InitInv, NextInv, PTL DEF Spec

\* Columns keep their types and references stay inside their tables, through
\* every interleaving of commits, renames, restores and pruning.
THEOREM TypeCorrect == Spec => []TypeOK
<1>1. IndInv => TypeOK
  BY DEF IndInv
<1> QED BY <1>1, Invariance, PTL

\* However many devices commit at once, commit_private_revision never leaves
\* two unresolved divergence records.
THEOREM OneConflict == Spec => []AtMostOneActiveConflict
<1>1. IndInv => AtMostOneActiveConflict
  BY DEF IndInv
<1> QED BY <1>1, Invariance, PTL

\* prune_skill_history never takes the base or a head of a divergence, even
\* when it runs between the two transactions of a commit.
THEOREM ConflictsMergeable == Spec => []ConflictHistoryKept
<1>1. IndInv => ConflictHistoryKept
  BY DEF IndInv
<1> QED BY <1>1, Invariance, PTL

\* A save that lost the race stays a head of its conflict until a revision
\* merges both heads.
THEOREM NoSaveDropped == Spec => []DivergedSavesSurvive
<1>1. IndInv => DivergedSavesSurvive
  BY DEF IndInv
<1> QED BY <1>1, Invariance, PTL

\* All replies to one operation agree: each is the outcome stored with it.
THEOREM CommitIdempotent == Spec => []OneOutcomePerOperation
<1>1. IndInv => OneOutcomePerOperation
  BY DEF IndInv, RepliesAreStored, OneOutcomePerOperation
<1> QED BY <1>1, Invariance, PTL

\* A step that moves the head names the handler that does it.
LEMMA HeadMovers ==
  ASSUME [Next]_vars, head' # head
  PROVE  \/ \E h \in Handlers : CommitAdvance(h) \/ RenameCommit(h)
         \/ \E o \in Ops, t \in Revs : RestoreSkill(o, t)
         \/ \E rev \in Foreign : AcceptProposal(rev)
<1>1. ~UNCHANGED vars
  BY DEF vars
<1>2. \A r : ~Prepare(r)
  BY DEF Prepare
<1>3. \A h \in Handlers : ~Abort(h) /\ ~CommitReplay(h) /\ (Commit(h) => CommitAdvance(h))
  BY DEF Abort, CommitReplay, Commit, CommitDiverge
<1>4. \A h \in Handlers : \A o, p : ~CommitRead(h, o) /\ ~RenameRead(h, o, p)
  BY DEF CommitRead, RenameRead
<1>5. ~Lifecycle
  BY DEF Lifecycle, PublishSkill, UnpublishSkill, DeprecateSkill, DeleteSkill,
     TombstoneAccount, PruneHistory
<1> QED
  BY <1>1, <1>2, <1>3, <1>4, <1>5 DEF Next

\* No handler overwrites a head it did not build on: commits, restores and
\* renames install a child of the head they replace.
THEOREM NoLastWriterWins == Spec => HeadNeverOverwritten
<1>1. ASSUME IndInv, [Next]_vars, head' # head
      PROVE  head \in parents'[head'] \/ head' \in Foreign
  <2>1. ASSUME NEW h \in Handlers, CommitAdvance(h) PROVE head \in parents'[head']
    <3>1. handler[h].req.op \in Revs /\ handler[h].req.head \in Parents(handler[h].req)
      BY <1>1, <2>1, CommitFacts DEF CommitAdvance, StillPrepared
    <3> QED
      BY <1>1, <2>1, <3>1 DEF CommitAdvance, StoreRevision, IndInv, TypeOK
  <2>2. ASSUME NEW h \in Handlers, RenameCommit(h) PROVE head \in parents'[head']
    <3>1. handler[h].op \in Revs /\ handler[h].parent = head
      BY <1>1, <2>2, RunningKinds DEF RenameCommit, RenameCurrent, RunningRename, IndInv, RenameReads, Revs
    <3> QED
      BY <1>1, <2>2, <3>1 DEF RenameCommit, StoreRevision, IndInv, TypeOK
  <2>3. ASSUME NEW o \in Ops, NEW t \in Revs, RestoreSkill(o, t) PROVE head \in parents'[head']
    BY <1>1, <2>3 DEF RestoreSkill, StoreRevision, IndInv, TypeOK, Revs
  <2>4. ASSUME NEW rev \in Foreign, AcceptProposal(rev) PROVE head' \in Foreign
    BY <2>4 DEF AcceptProposal
  <2> QED
    BY <1>1, <2>1, <2>2, <2>3, <2>4, HeadMovers
<1>2. IndInv /\ [Next]_vars =>
        [head' # head => head \in parents'[head'] \/ head' \in Foreign]_vars
  BY <1>1
<1> QED
  BY <1>2, Invariance, PTL DEF Spec, HeadNeverOverwritten

\* The counters only grow, and the workspace counter grows with every new
\* head, although rename and prune assign it from the resource counter.
THEOREM GenerationsAdvance == Spec => GenerationNeverRepeats
<1> DEFINE A == wsGen' >= wsGen /\ resGen' >= resGen /\ (head' # head => wsGen' > wsGen)
<1>1. ASSUME IndInv, [Next]_vars PROVE A
  <2> USE IdsDistinct DEF IndInv, TypeOK, GenOrder, Gens, BumpResource
  <2>1. CASE UNCHANGED <<resGen, wsGen, head>>
    BY <1>1, <2>1
  <2>2. ASSUME BumpResource, wsGen' = wsGen + 1 \/ wsGen' = resGen + 1 \/ (wsGen' = wsGen /\ head' = head)
        PROVE  A
    BY <1>1, <2>2
  <2>3. \/ UNCHANGED <<resGen, wsGen, head>>
        \/ BumpResource /\ (wsGen' = wsGen + 1 \/ wsGen' = resGen + 1 \/ (wsGen' = wsGen /\ head' = head))
    <3> HIDE DEF IndInv, TypeOK, GenOrder, Gens, BumpResource
    <3>1. UNCHANGED vars => UNCHANGED <<resGen, wsGen, head>>
      BY DEF vars
    <3>2. \A r : Prepare(r) => UNCHANGED <<resGen, wsGen, head>>
      BY DEF Prepare
    <3>3. \A h \in Handlers : Abort(h) => UNCHANGED <<resGen, wsGen, head>>
      BY DEF Abort
    <3>4. \A h \in Handlers : \A o, p : CommitRead(h, o) \/ RenameRead(h, o, p)
            => UNCHANGED <<resGen, wsGen, head>>
      BY DEF CommitRead, RenameRead
    <3>5. \A h \in Handlers : Commit(h) => UNCHANGED <<resGen, wsGen, head>>
                                          \/ (BumpResource /\ wsGen' = wsGen + 1)
      BY DEF Commit, CommitAdvance, CommitDiverge, CommitReplay
    <3>6. \A h \in Handlers : RenameCommit(h) => BumpResource /\ wsGen' = resGen + 1
      BY DEF RenameCommit
    <3>7. /\ \A o \in Ops, t \in Revs : RestoreSkill(o, t) => BumpResource /\ wsGen' = wsGen + 1
          /\ \A rev \in Foreign : AcceptProposal(rev) => BumpResource /\ wsGen' = wsGen + 1
      BY DEF RestoreSkill, AcceptProposal
    <3>8. Lifecycle => BumpResource /\ head' = head /\ (wsGen' = wsGen \/ wsGen' = resGen + 1)
      BY DEF Lifecycle, PublishSkill, UnpublishSkill, DeprecateSkill, DeleteSkill,
         TombstoneAccount, PruneHistory
    <3> QED
      BY <1>1, <3>1, <3>2, <3>3, <3>4, <3>5, <3>6, <3>7, <3>8 DEF Next
  <2> QED
    BY <2>1, <2>2, <2>3
<1>2. IndInv /\ [Next]_vars => [A]_vars
  BY <1>1
<1> QED
  BY <1>2, Invariance, PTL DEF Spec, GenerationNeverRepeats

\* A commit that moves a fork's upstream base moves it forward, to an upstream
\* revision that the new head has as a parent.
THEOREM ForkBaseAdvances == Spec => ForkBaseFollowsMerges
<1> DEFINE A == syncBase' # syncBase => /\ <<syncBase, syncBase'>> \in ForeignBefore
                                        /\ syncBase' \in parents'[head']
<1>1. ASSUME IndInv, [Next]_vars PROVE A
  <2> SUFFICES ASSUME syncBase' # syncBase PROVE A
    OBVIOUS
  <2>1. PICK h \in Handlers : CommitAdvance(h)
    <3>1. ~UNCHANGED vars
      BY DEF vars
    <3>2. \A r : ~Prepare(r)
      BY DEF Prepare
    <3>3. \A h \in Handlers : ~Abort(h) /\ ~RenameCommit(h) /\ (Commit(h) => CommitAdvance(h))
      BY DEF Abort, RenameCommit, Commit, CommitDiverge, CommitReplay
    <3>4. \A h \in Handlers : \A o, p : ~CommitRead(h, o) /\ ~RenameRead(h, o, p)
      BY DEF CommitRead, RenameRead
    <3>5. /\ \A o \in Ops, t \in Revs : ~RestoreSkill(o, t)
          /\ \A rev \in Foreign : ~AcceptProposal(rev)
      BY DEF RestoreSkill, AcceptProposal
    <3>6. ~Lifecycle
      BY DEF Lifecycle, PublishSkill, UnpublishSkill, DeprecateSkill, DeleteSkill,
         TombstoneAccount, PruneHistory
    <3> QED
      BY <1>1, <3>1, <3>2, <3>3, <3>4, <3>5, <3>6 DEF Next
  <2> DEFINE r == handler[h].req
  <2>2. /\ Committing(h) /\ Prepared(r.op) /\ operations[r.op].req = r
        /\ CommitAllowed(r) /\ head = r.head /\ head' = r.op
        /\ parents' = [parents EXCEPT ![r.op] = Parents(r)]
        /\ r.fork # None /\ syncBase' = r.fork.upstream
    BY <2>1 DEF CommitAdvance, StillPrepared, StoreRevision
  <2>3. r.op \in Revs /\ r.op \in OpIds
    BY <1>1, <2>2, CommitFacts
  <2>4. IsMerge(r)
    BY <1>1, <2>2, <2>3 DEF IndInv, OperationRows, Prepared
  <2>5. r.fork.upstream \in Parents(r) /\ ValidForkSync(r.fork)
    BY <2>2, <2>4 DEF CommitAllowed
  <2> QED
    BY <1>1, <2>2, <2>3, <2>5 DEF ValidForkSync, IndInv, TypeOK
<1>2. IndInv /\ [Next]_vars => [A]_vars
  BY <1>1
<1> QED
  BY <1>2, Invariance, PTL DEF Spec, ForkBaseFollowsMerges

-----------------------------------------------------------------------------
(* The refinement *)

(* WorkspaceRegistry implements SharedHead, for every value of the          *)
(* constants.  The initial states map to initial states, and under the      *)
(* inductive invariant every step of the registry maps to a step of the     *)
(* promise or to a stutter:                                                 *)
(*                                                                          *)
(*   CommitAdvance                -> Advance      CommitDiverge -> Diverge   *)
(*   RestoreSkill, RenameCommit   -> Rewrite      AcceptProposal -> Adopt    *)
(*   every other step             -> a stutter                               *)

outcomes == [o \in OpIds |-> OutcomeOf(o)]

\* What a device sees is unchanged: the head, the graph, the open divergence
\* and the outcome of every save.
Unseen == UNCHANGED <<head, OpenSides, parents, outcomes>>

-----------------------------------------------------------------------------
(* The mapped state *)

\* No open divergence record, no open sides.
LEMMA NoOpenSides == Active = {} => OpenSides = {}
BY DEF OpenSides

\* There is at most one divergence record, so the open sides are its heads.
LEMMA OneOpenSides ==
  ASSUME AtMostOneActiveConflict, NEW c \in Active
  PROVE  OpenSides = conflicts[c].heads
BY DEF OpenSides, AtMostOneActiveConflict

LEMMA NoOpenSidesAfter == Active' = {} => OpenSides' = {}
BY DEF OpenSides

LEMMA SidesUnchanged == UNCHANGED conflicts => UNCHANGED OpenSides
BY DEF OpenSides, Active, Unresolved

\* Rows that are created, expired or left alone decide nothing.
LEMMA OutcomesUnchanged ==
  ASSUME \A o \in OpIds : \/ operations'[o] = operations[o]
                          \/ /\ operations[o] = None \/ Prepared(o)
                             /\ operations'[o] = None \/ operations'[o].state = "prepared"
  PROVE  UNCHANGED outcomes
<1>1. ASSUME NEW o \in OpIds PROVE OutcomeOf(o)' = OutcomeOf(o)
  BY <1>1 DEF OutcomeOf, Prepared
<1> QED
  BY <1>1 DEF outcomes

\* A row that goes from prepared to decided is the only outcome that changes.
LEMMA OutcomeDecided ==
  ASSUME NEW o \in OpIds, NEW how \in {"advanced", "diverged"}, NEW row \in Operation,
         IndInv, Prepared(o), row.state = how, operations' = [operations EXCEPT ![o] = row]
  PROVE  outcomes[o] = "undecided" /\ outcomes' = [outcomes EXCEPT ![o] = how]
<1>1. outcomes[o] = "undecided"
  BY DEF outcomes, OutcomeOf
<1>2. row # None
  BY NoneIsNoValue
<1>3. operations'[o] = row /\ OutcomeOf(o)' = how
  BY <1>2 DEF OutcomeOf, Prepared, IndInv, TypeOK
<1>4. \A p \in OpIds \ {o} : OutcomeOf(p)' = OutcomeOf(p)
  BY DEF OutcomeOf, Prepared, IndInv, TypeOK
<1> QED
  BY <1>1, <1>3, <1>4 DEF outcomes

-----------------------------------------------------------------------------
(* Each step of the registry and what it is to a device *)

LEMMA InitMaps == Init => Promise!Init
<1> SUFFICES ASSUME Init PROVE Promise!Init
  OBVIOUS
<1>1. Active = {}
  BY DEF Init, Active, Unresolved
<1>2. \A o \in OpIds : OutcomeOf(o) = "undecided"
  BY DEF Init, OutcomeOf
<1>3. \A r \in Revs : r \in Foreign \cup {Base} <=> r \notin Ops \cup ConflictIds
  BY IdsDistinct DEF Revs
<1>4. parents = [v \in Revs |-> IF v \in Foreign \cup {Base} THEN {} ELSE None]
  BY <1>3 DEF Init
<1> QED
  BY <1>1, <1>2, <1>4, NoOpenSides DEF Init, Promise!Init

LEMMA AdvanceMaps ==
  ASSUME IndInv, NEW h \in Handlers, CommitAdvance(h)
  PROVE  \E s \in OpIds : Promise!Advance(s)
<1> DEFINE r == handler[h].req
           row == [req |-> r, state |-> "advanced", gen |-> wsGen + 1, conflict |-> None]
<1>0. /\ Committing(h) /\ Prepared(r.op) /\ operations[r.op].req = r
      /\ CommitAllowed(r) /\ head = r.head
      /\ parents' = [parents EXCEPT ![r.op] = Parents(r)]
      /\ head' = r.op
      /\ conflicts' = IF IsMerge(r) /\ r.fork = None
                      THEN [conflicts EXCEPT ![r.op].resolution = r.op] ELSE conflicts
      /\ operations' = [operations EXCEPT ![r.op] = row]
  BY DEF CommitAdvance, StillPrepared, StoreRevision, Decide
<1>1. /\ r \in Request /\ r.op \in OpIds /\ r.op \in Revs
      /\ Parents(r) \subseteq Revs /\ parents[r.op] = None /\ r.head \in Parents(r)
  BY <1>0, CommitFacts
<1>2. row \in Operation
  <2>1. wsGen + 1 \in 0..MaxGen
    BY IdsDistinct DEF CommitAdvance, BumpResource, IndInv, TypeOK, GenOrder, Gens
  <2> QED
    BY <1>1, <2>1 DEF Operation, OpState
<1>3. outcomes[r.op] = "undecided" /\ outcomes' = [outcomes EXCEPT ![r.op] = "advanced"]
  BY <1>0, <1>1, <1>2, OutcomeDecided
<1>4. OpenSides \in {{}, Parents(r)} /\ OpenSides' = {}
  <2>1. CASE Active = {}
    <3>1. conflicts' = conflicts
      BY <1>0, <2>1 DEF CommitAllowed, ValidMerge
    <3> QED
      BY <2>1, <3>1, NoOpenSides, SidesUnchanged
  <2>2. CASE Active # {}
    <3>1. /\ r.op \in Active /\ r.op \in ConflictIds /\ conflicts[r.op].heads = Parents(r)
          /\ conflicts' = [conflicts EXCEPT ![r.op].resolution = r.op]
      BY <1>0, <2>2 DEF CommitAllowed, ValidMerge, Active
    <3>2. OpenSides = Parents(r)
      BY <3>1, OneOpenSides DEF IndInv
    <3>3. conflicts[r.op] \in Conflict /\ r.op # None
      BY <3>1, <1>1, IdsDistinct DEF Active, Unresolved, IndInv, TypeOK
    <3>4. conflicts'[r.op].resolution = r.op
      BY <3>1, <3>3 DEF IndInv, TypeOK, Conflict
    <3>5. \A c \in ConflictIds \ {r.op} : conflicts'[c] = conflicts[c] /\ c \notin Active
      BY <3>1 DEF IndInv, TypeOK, AtMostOneActiveConflict
    <3>6. Active' = {}
      BY <3>3, <3>4, <3>5 DEF Active, Unresolved
    <3> QED
      BY <3>2, <3>6, NoOpenSidesAfter
  <2> QED BY <2>1, <2>2
<1>5. Promise!Advance(r.op)
  BY <1>0, <1>1, <1>3, <1>4 DEF Promise!Advance, Promise!Made, Promise!Decided, outcomes
<1> QED
  BY <1>1, <1>5

LEMMA DivergeMaps ==
  ASSUME IndInv, NEW h \in Handlers, NEW c \in ConflictIds, CommitDiverge(h, c)
  PROVE  \E s \in OpIds : Promise!Diverge(s)
<1> DEFINE r == handler[h].req
           row == [req |-> r, state |-> "diverged", gen |-> wsGen, conflict |-> c]
           rec == [base |-> r.head, heads |-> {r.op, head}, active |-> head, resolution |-> None]
<1>0. /\ Committing(h) /\ Prepared(r.op) /\ operations[r.op].req = r
      /\ CommitAllowed(r) /\ head # r.head /\ head' = head
      /\ parents' = [parents EXCEPT ![r.op] = Parents(r)]
      /\ RecordConflict(c, r.head, r.op, head)
      /\ operations' = [operations EXCEPT ![r.op] = row]
  BY DEF CommitDiverge, StillPrepared, StoreRevision, Decide
<1>1. /\ r \in Request /\ r.op \in OpIds /\ parents[r.op] = None /\ r.head \in Revs
  BY <1>0, CommitFacts DEF Request
<1>2. Active = {} /\ Parents(r) = {r.head}
  BY <1>0 DEF CommitAllowed, IsMerge, Parents
<1>3. row \in Operation
  BY <1>1, IdsDistinct DEF Operation, OpState, IndInv, TypeOK, Gens
<1>4. outcomes[r.op] = "undecided" /\ outcomes' = [outcomes EXCEPT ![r.op] = "diverged"]
  BY <1>0, <1>1, <1>3, OutcomeDecided
<1>5. conflicts' = [conflicts EXCEPT ![c] = rec] /\ rec \in Conflict
  BY <1>0, <1>1, <1>2 DEF RecordConflict, Conflict, IndInv, TypeOK, Request, OpIds, Revs
<1>6. conflicts'[c] = rec /\ rec # None /\ \A d \in ConflictIds \ {c} : conflicts'[d] = conflicts[d]
  BY <1>5, NoneIsNoValue DEF IndInv, TypeOK
<1>7. Active' = {c}
  BY <1>2, <1>6 DEF Active, Unresolved
<1>8. OpenSides' = {head, r.op}
  BY <1>6, <1>7 DEF OpenSides
<1>9. Promise!Diverge(r.op)
  <2>1. Promise!Made(r.op, {r.head})
    BY <1>0, <1>1, <1>2 DEF Promise!Made
  <2>2. Promise!Decided(r.op, "diverged")
    BY <1>4 DEF Promise!Decided, outcomes
  <2>3. OpenSides = {} /\ r.head \in Revs \ {head}
    BY <1>0, <1>1, <1>2, NoOpenSides
  <2> QED
    BY <1>0, <1>8, <2>1, <2>2, <2>3 DEF Promise!Diverge
<1> QED
  BY <1>1, <1>9

LEMMA RenameMaps ==
  ASSUME IndInv, NEW h \in Handlers, RenameCommit(h)
  PROVE  \E v \in Revs : Promise!Rewrite(v)
<1> DEFINE run == handler[h]
<1>0. /\ run # None /\ run.kind = "rename" /\ resGen = run.gen
      /\ parents' = [parents EXCEPT ![run.op] = {run.parent}]
      /\ head' = run.op
      /\ run.prepared # None => Prepared(run.prepared)
      /\ operations' = IF run.prepared = None THEN operations
                       ELSE [operations EXCEPT ![run.prepared] = None]
      /\ UNCHANGED conflicts
  BY DEF RenameCommit, RenameCurrent, StoreRevision
<1>1. /\ run.op \in Revs /\ run.parent = head /\ parents[run.op] = None
      /\ run.prepared \in OpIds \cup {None}
  BY <1>0, RunningKinds DEF IndInv, RenameReads, RunningRename, Revs
<1>2. UNCHANGED outcomes
  BY <1>0, <1>1, OutcomesUnchanged DEF IndInv, TypeOK
<1>3. Promise!Rewrite(run.op)
  BY <1>0, <1>1, <1>2, SidesUnchanged DEF Promise!Rewrite, Promise!Made, outcomes
<1> QED
  BY <1>1, <1>3

LEMMA RestoreMaps ==
  ASSUME IndInv, NEW o \in Ops, NEW t \in Revs, RestoreSkill(o, t)
  PROVE  \E v \in Revs : Promise!Rewrite(v)
<1>1. /\ parents[o] = None /\ parents' = [parents EXCEPT ![o] = {head}] /\ head' = o
      /\ UNCHANGED <<operations, conflicts>>
  BY DEF RestoreSkill, Fresh, StoreRevision
<1>2. UNCHANGED outcomes
  BY <1>1, OutcomesUnchanged
<1>3. Promise!Rewrite(o)
  BY <1>1, <1>2, SidesUnchanged DEF Promise!Rewrite, Promise!Made, outcomes
<1> QED
  BY <1>3 DEF Revs

LEMMA AcceptMaps ==
  ASSUME NEW rev \in Foreign, AcceptProposal(rev)
  PROVE  \E v \in Revs : Promise!Adopt(v)
<1>1. head' = rev /\ UNCHANGED <<parents, operations, conflicts>>
  BY DEF AcceptProposal
<1>2. UNCHANGED outcomes
  BY <1>1, OutcomesUnchanged
<1>3. Promise!Adopt(rev)
  BY <1>1, <1>2, SidesUnchanged DEF Promise!Adopt, outcomes
<1> QED
  BY <1>3 DEF Revs

LEMMA QuietMaps ==
  ASSUME UNCHANGED <<head, parents, operations, conflicts>> PROVE Unseen
BY OutcomesUnchanged, SidesUnchanged DEF Unseen

LEMMA PrepareMaps == ASSUME IndInv, NEW r \in Request, Prepare(r) PROVE Unseen
<1>1. /\ operations[r.op] = None /\ r.op \in OpIds
      /\ operations' = [operations EXCEPT ![r.op] =
           [req |-> r, state |-> "prepared", gen |-> 0, conflict |-> None]]
      /\ UNCHANGED <<head, parents, conflicts>>
  BY DEF Prepare, Request, graph
<1>2. UNCHANGED outcomes
  BY <1>1, OutcomesUnchanged DEF IndInv, TypeOK
<1> QED
  BY <1>1, <1>2, SidesUnchanged DEF Unseen

LEMMA PruneMaps == ASSUME IndInv, PruneHistory PROVE Unseen
<1>1. operations' = ExpirePrepared /\ UNCHANGED <<head, parents, conflicts>>
  BY DEF PruneHistory
<1>2. UNCHANGED outcomes
  BY <1>1, OutcomesUnchanged DEF ExpirePrepared
<1> QED
  BY <1>1, <1>2, SidesUnchanged DEF Unseen

-----------------------------------------------------------------------------
\* Every step of the registry is one step of the promise or none.
LEMMA StepMaps == IndInv /\ [Next]_vars => [Promise!Next]_(Promise!vars)
<1> SUFFICES ASSUME IndInv, [Next]_vars PROVE Promise!Next \/ Unseen
  BY DEF Promise!vars, Unseen, outcomes
<1>1. CASE UNCHANGED vars
  BY <1>1, QuietMaps DEF vars
<1>2. ASSUME NEW o \in {op \in OpIds : operations[op] = None}, NEW p \in Revs, NEW g \in Gens,
             \/ Prepare([op |-> o, head |-> p, other |-> None, gen |-> g, fork |-> None])
             \/ \E q \in Revs \ {p}, f \in ForkSync \cup {None} :
                  Prepare([op |-> o, head |-> p, other |-> q, gen |-> g, fork |-> f])
      PROVE  Unseen
  BY <1>2, RequestsTyped, PrepareMaps
<1>3. ASSUME NEW h \in Handlers, NEW o \in OpIds, CommitRead(h, o) PROVE Unseen
  BY <1>3, QuietMaps DEF CommitRead, graph
<1>4. ASSUME NEW h \in Handlers, Commit(h) PROVE Promise!Next \/ Unseen
  <2>1. CASE CommitAdvance(h)
    BY <2>1, AdvanceMaps DEF Promise!Next
  <2>2. ASSUME NEW c \in ConflictIds, CommitDiverge(h, c) PROVE Promise!Next
    BY <2>2, DivergeMaps DEF Promise!Next
  <2>3. CASE CommitReplay(h)
    BY <2>3, QuietMaps DEF CommitReplay, graph
  <2> QED
    BY <1>4, <2>1, <2>2, <2>3 DEF Commit
<1>5. ASSUME NEW h \in Handlers, Abort(h) PROVE Unseen
  BY <1>5, QuietMaps DEF Abort, graph
<1>6. ASSUME NEW h \in Handlers, NEW o \in Ops, NEW p \in OpIds \cup {None}, RenameRead(h, o, p)
      PROVE  Unseen
  BY <1>6, QuietMaps DEF RenameRead, graph
<1>7. ASSUME NEW h \in Handlers, RenameCommit(h) PROVE Promise!Next
  BY <1>7, RenameMaps DEF Promise!Next
<1>8. ASSUME NEW o \in Ops, NEW t \in Revs, RestoreSkill(o, t) PROVE Promise!Next
  BY <1>8, RestoreMaps DEF Promise!Next
<1>9. ASSUME NEW rev \in Foreign, AcceptProposal(rev) PROVE Promise!Next
  BY <1>9, AcceptMaps DEF Promise!Next
<1>10. CASE Lifecycle
  <2>1. CASE PruneHistory
    BY <2>1, PruneMaps
  <2>2. CASE PublishSkill \/ UnpublishSkill \/ DeprecateSkill \/ DeleteSkill \/ TombstoneAccount
    BY <2>2, QuietMaps DEF PublishSkill, UnpublishSkill, DeprecateSkill, DeleteSkill,
       TombstoneAccount, graph
  <2> QED
    BY <1>10, <2>1, <2>2 DEF Lifecycle
<1> QED
  BY <1>1, <1>2, <1>3, <1>4, <1>5, <1>6, <1>7, <1>8, <1>9, <1>10 DEF Next

\* Whatever handlers, retries, renames and pruning interleave, a device sees
\* a register: every save takes effect on the value it was made from or opens
\* the one divergence, each save is decided once, and only the merge of both
\* sides is accepted while a divergence is open.
THEOREM RegistryKeepsPromise == Spec => ImplementsSharedHead
BY InitMaps, StepMaps, Invariance, PTL DEF Spec, Promise!Spec, ImplementsSharedHead
=============================================================================
