------------------------ MODULE SubscriptionSyncProofs ------------------------
(* Proofs about SubscriptionSync: type correctness for any number of         *)
(* processes, and what the user sees when one process at a time syncs, for   *)
(* every number of releases, operations, crashes and edits.                  *)
EXTENDS SubscriptionSync, TLAPS

Applying == {"apply", "applied", "move", "download", "matRecover", "claim"}

\* A process that applies a release knows which, and a recovery works on rows
\* that exist.
Informed(p) ==
    /\ pc[p] \in Applying => want[p] # None
    /\ \A j \in todo[p] : journal[j.op] # None

TypeInv == TypeOK /\ \A p \in Procs : Informed(p)

\* A process that is about to remove a skill has read its row.
Recorded == \A p \in Procs : pc[p] \in {"forkRecover", "fork", "forked", "remove"} => record[p] # None

Intact(r) == tree[r] \in {"clean", "dirty", "broken"}
IsOpen(o) == journal[o] # None /\ journal[o].state \notin {"complete", "discarded"}

\* A listed row and its journal while nobody else recovers.
Agree(listed, state) ==
    \/ listed = state /\ listed \in {"planned", "staged", "verified", "switched"}
    \/ listed = "deleting" /\ state \in {"planned", "staged"}
    \/ listed \in {"marking", "marked"} /\ state = "switched"

\* A recovery has every open journal on its list, once and as it is.
RecoveryInv(p) ==
    /\ pc[p] \in Recovering => \A o \in Ops : IsOpen(o) => \E j \in todo[p] : j.op = o
    /\ \A j \in todo[p] : /\ pc[p] \in Recovering /\ journal[j.op].rev = j.rev
                          /\ Agree(j.state, journal[j.op].state)
    /\ \A j, k \in todo[p] : j.op = k.op => j = k

\* A materialization starts with no open journal, so that its own is the only
\* one, and its place tells the state of its journal and of its generation.
StateAt(place) ==
    CASE place \in {"check", "clear", "clearing", "write", "writing", "wrote"} -> "planned"
      [] place \in {"verify", "rename", "renamed"} -> "staged"
      [] place \in {"switch", "switched"} -> "verified"
      [] OTHER -> "switched"

WorkInv(p) ==
    /\ pc[p] = "claim" => \A o \in Ops : ~IsOpen(o)
    /\ pc[p] \in Working =>
         /\ \A o \in Ops : IsOpen(o) => o = op[p]
         /\ journal[op[p]].state = StateAt(pc[p])
    /\ pc[p] \in {"clear", "clearing"} => canonical[Name[want[p]]] # want[p]
    /\ pc[p] \in {"write", "writing"} => tree[want[p]] = "absent"
    /\ pc[p] \in {"wrote", "verify"} => tree[want[p]] \notin {"partial", "headless"}
    /\ pc[p] = "rename" => tree[want[p]] = "absent" /\ stage[op[p]] = "whole"
    /\ pc[p] = "renamed" => Intact(want[p])

\* A verified generation is whole until its journal is closed.
VerifiedIntact ==
    \A o \in Ops : journal[o] # None /\ journal[o].state \in {"verified", "switched"}
                   => Intact(journal[o].rev)

AloneInv ==
    /\ TypeInv /\ Recorded /\ VerifiedIntact /\ VisibleIsWhole
    /\ \A p \in Procs : RecoveryInv(p) /\ WorkInv(p)
-------------------------------------------------------------------------------
(* Type correctness, for any number of processes *)

\* What TypeOK says of everything but the processes.
RestType ==
    /\ release \in Revs /\ subs \in 0..MaxSubs
    /\ desired \in Revs \cup {None} /\ materialized \in Revs \cup {None}
    /\ canonical \in [Names -> Revs \cup {None}]
    /\ \A n \in Names : canonical[n] # None => Name[canonical[n]] = n
    /\ forked \in BOOLEAN /\ locked \in BOOLEAN /\ removal \subseteq Removal
    /\ journal \in [Ops -> Journal \cup {None}] /\ lease \in Ops \cup {None}
    /\ tree \in [Revs -> {"absent", "clean", "dirty", "broken", "partial", "headless"}]
    /\ stage \in [Ops -> {"none", "whole", "partial"}]
    /\ record \in [Procs -> Row \cup {None}]
    /\ faults \in 0..MaxFaults

OpOwned(p) ==
    IF pc[p] \in Working
    THEN op[p] \in Ops /\ journal[op[p]] # None /\ journal[op[p]].rev = want[p]
    ELSE op[p] = None

ProcType ==
    /\ pc \in [Procs -> Places] /\ want \in [Procs -> Revs \cup {None}]
    /\ op \in [Procs -> Ops \cup {None}] /\ todo \in [Procs -> SUBSET Listed]

LEMMA TypeParts == TypeOK <=> RestType /\ ProcType /\ \A p \in Procs : OpOwned(p)
  BY DEF TypeOK, RestType, ProcType, OpOwned

LEMMA TypePartsNext == TypeOK' <=> RestType' /\ ProcType' /\ \A p \in Procs : OpOwned(p)'
  BY DEF TypeOK, RestType, ProcType, OpOwned

\* No step deletes a journal row or changes what it is for.
JournalKept ==
    \A o \in Ops : journal[o] # None => journal'[o] # None /\ journal'[o].rev = journal[o].rev

Elsewhere(p) ==
    \A q \in Procs \ {p} : pc'[q] = pc[q] /\ want'[q] = want[q] /\ op'[q] = op[q] /\ todo'[q] = todo[q]

LEMMA TypeStep ==
  ASSUME TypeInv, NEW p \in Procs, RestType', ProcType', JournalKept, Elsewhere(p),
         OpOwned(p)', Informed(p)'
  PROVE  TypeInv'
<1>1. ProcType /\ \A q \in Procs : OpOwned(q) /\ Informed(q)
  BY TypeParts DEF TypeInv
<1>2. ASSUME NEW q \in Procs, q # p
      PROVE  OpOwned(q)' /\ Informed(q)'
  <2>1. pc'[q] = pc[q] /\ want'[q] = want[q] /\ op'[q] = op[q] /\ todo'[q] = todo[q]
    BY <1>2 DEF Elsewhere
  <2>2. OpOwned(q) /\ Informed(q) /\ \A j \in todo[q] : j.op \in Ops
    BY <1>1 DEF ProcType, Listed
  <2>3. OpOwned(q)'
    BY <2>1, <2>2 DEF OpOwned, JournalKept
  <2>4. Informed(q)'
    BY <2>1, <2>2 DEF Informed, JournalKept
  <2> QED
    BY <2>3, <2>4
<1> QED
  BY <1>2, TypePartsNext DEF TypeInv

LEMMA OpenListed ==
  ASSUME RestType
  PROVE  /\ Open \subseteq Listed
         /\ \A j \in Open : /\ j.op \in Ops /\ journal[j.op] # None /\ IsOpen(j.op)
                            /\ j.rev = journal[j.op].rev /\ j.state = journal[j.op].state
         /\ \A o \in Ops : IsOpen(o) => \E j \in Open : j.op = o
         /\ \A j, k \in Open : j.op = k.op => j = k
<1>1. ASSUME NEW j \in Open
      PROVE  /\ j \in Listed /\ j.op \in Ops /\ IsOpen(j.op)
             /\ j = [op |-> j.op, rev |-> journal[j.op].rev, state |-> journal[j.op].state]
  <2>1. PICK o \in Ops : /\ j = [op |-> o, rev |-> journal[o].rev, state |-> journal[o].state]
                         /\ IsOpen(o)
    BY <1>1 DEF Open, IsOpen
  <2>2. journal[o] \in Journal
    BY <2>1 DEF RestType, IsOpen
  <2>3. journal[o].rev \in Revs /\ journal[o].state \in JournalState
    BY <2>2 DEF Journal
  <2>4. j.op = o /\ j \in Listed
    BY <2>1, <2>3 DEF Listed
  <2> QED
    BY <2>1, <2>4
<1>2. ASSUME NEW o \in Ops, IsOpen(o)
      PROVE  \E j \in Open : j.op = o
  <2>1. [op |-> o, rev |-> journal[o].rev, state |-> journal[o].state] \in Open
    BY <1>2 DEF Open, IsOpen
  <2> QED
    BY <2>1
<1>3. ASSUME NEW j \in Open, NEW k \in Open, j.op = k.op
      PROVE  j = k
  BY <1>1, <1>3
<1>4. \A j \in Open : /\ j.op \in Ops /\ journal[j.op] # None /\ IsOpen(j.op)
                      /\ j.rev = journal[j.op].rev /\ j.state = journal[j.op].state
  <2> SUFFICES ASSUME NEW j \in Open
               PROVE  /\ j.op \in Ops /\ journal[j.op] # None /\ IsOpen(j.op)
                      /\ j.rev = journal[j.op].rev /\ j.state = journal[j.op].state
    OBVIOUS
  <2>1. /\ j.op \in Ops /\ IsOpen(j.op)
        /\ j = [op |-> j.op, rev |-> journal[j.op].rev, state |-> journal[j.op].state]
    BY <1>1
  <2> QED
    BY <2>1 DEF IsOpen
<1> QED
  BY <1>1, <1>2, <1>3, <1>4

\* Where Goto leads.
LEMMA GotoMoves ==
  ASSUME TypeInv, NEW p \in Procs, NEW place \in Places, Goto(p, place)
  PROVE  /\ pc' \in [Procs -> Places] /\ todo' \in [Procs -> SUBSET Listed]
         /\ pc'[p] = place /\ todo'[p] = (IF place \in Recovering THEN Open ELSE {})
         /\ \A q \in Procs \ {p} : pc'[q] = pc[q] /\ todo'[q] = todo[q]
<1>1. RestType /\ ProcType
  BY TypeParts DEF TypeInv
<1>2. Open \in SUBSET Listed /\ {} \in SUBSET Listed
  BY <1>1, OpenListed
<1> HIDE DEF Open
<1> QED
  BY <1>1, <1>2 DEF Goto, ProcType

LEMMA GotoStep ==
  ASSUME TypeInv, NEW p \in Procs, NEW place \in Places, Goto(p, place), UNCHANGED <<want, op>>,
         RestType', JournalKept, place \in Working <=> pc[p] \in Working,
         place \in Applying => want[p] # None
  PROVE  TypeInv'
<1>1. RestType /\ ProcType /\ OpOwned(p) /\ Informed(p)
  BY TypeParts DEF TypeInv
<1>2. /\ pc' \in [Procs -> Places] /\ todo' \in [Procs -> SUBSET Listed]
      /\ pc'[p] = place /\ todo'[p] = (IF place \in Recovering THEN Open ELSE {})
      /\ \A q \in Procs \ {p} : pc'[q] = pc[q] /\ todo'[q] = todo[q]
  BY GotoMoves
<1>3. ProcType' /\ Elsewhere(p)
  BY <1>1, <1>2 DEF ProcType, Elsewhere
<1>4. OpOwned(p)'
  BY <1>1, <1>2 DEF OpOwned, JournalKept
<1>5. \A j \in Open : journal'[j.op] # None
  BY <1>1, OpenListed DEF JournalKept
<1>6. Informed(p)'
  BY <1>2, <1>5 DEF Informed
<1> QED
  BY <1>3, <1>4, <1>6, TypeStep

LEMMA ReturnStep ==
  ASSUME TypeInv, NEW p \in Procs, Goto(p, "idle"), RestType', JournalKept,
         op' = [op EXCEPT ![p] = None], want' = [want EXCEPT ![p] = None]
  PROVE  TypeInv'
<1>1. RestType /\ ProcType
  BY TypeParts DEF TypeInv
<1>2. "idle" \in Places /\ "idle" \notin Recovering /\ "idle" \notin Working
  BY DEF Places, Recovering, Working
<1>3. /\ pc' \in [Procs -> Places] /\ todo' \in [Procs -> SUBSET Listed]
      /\ pc'[p] = "idle" /\ todo'[p] = {}
      /\ \A q \in Procs \ {p} : pc'[q] = pc[q] /\ todo'[q] = todo[q]
  BY <1>2, GotoMoves
<1>4. /\ op' \in [Procs -> Ops \cup {None}] /\ want' \in [Procs -> Revs \cup {None}] /\ op'[p] = None
      /\ \A q \in Procs \ {p} : op'[q] = op[q] /\ want'[q] = want[q]
  BY <1>1 DEF ProcType
<1>5. ProcType' /\ Elsewhere(p)
  BY <1>3, <1>4 DEF ProcType, Elsewhere
<1>6. OpOwned(p)' /\ Informed(p)'
  BY <1>2, <1>3, <1>4 DEF OpOwned, Informed, Applying
<1> QED
  BY <1>5, <1>6, TypeStep

LEMMA TodoStep ==
  ASSUME TypeInv, NEW p \in Procs, UNCHANGED <<pc, want, op>>, RestType', JournalKept,
         todo' = [todo EXCEPT ![p] = todo'[p]], todo'[p] \in SUBSET Listed,
         \A j \in todo'[p] : \E k \in todo[p] : j.op = k.op
  PROVE  TypeInv'
<1>1. RestType /\ ProcType /\ OpOwned(p) /\ Informed(p)
  BY TypeParts DEF TypeInv
<1>2. ProcType' /\ Elsewhere(p)
  BY <1>1 DEF ProcType, Elsewhere
<1>3. OpOwned(p)'
  BY <1>1 DEF OpOwned, JournalKept
<1>4. \A k \in todo[p] : k.op \in Ops /\ journal'[k.op] # None
  BY <1>1 DEF ProcType, Listed, Informed, JournalKept
<1>5. Informed(p)'
  BY <1>1, <1>4 DEF Informed
<1> QED
  BY <1>2, <1>3, <1>5, TypeStep

LEMMA StillStep ==
  ASSUME TypeInv, UNCHANGED <<pc, want, op, todo>>, RestType', JournalKept
  PROVE  TypeInv'
<1>1. RestType /\ ProcType /\ \A p \in Procs : OpOwned(p) /\ Informed(p)
  BY TypeParts DEF TypeInv
<1>2. ASSUME NEW p \in Procs
      PROVE  OpOwned(p)' /\ Informed(p)'
  <2>1. \A k \in todo[p] : k.op \in Ops
    BY <1>1 DEF ProcType, Listed
  <2> QED
    BY <1>1, <2>1 DEF OpOwned, Informed, JournalKept
<1>3. ProcType'
  BY <1>1 DEF ProcType
<1> QED
  BY <1>2, <1>3, TypePartsNext DEF TypeInv
LEMMA SameJournal == ASSUME UNCHANGED journal PROVE JournalKept
  BY DEF JournalKept

LEMMA SetJournalKeeps ==
  ASSUME RestType, NEW o \in Ops, journal[o] # None, NEW state \in JournalState,
         SetJournal(o, state)
  PROVE  /\ journal' \in [Ops -> Journal \cup {None}] /\ JournalKept
         /\ journal'[o] # None /\ journal'[o].state = state /\ journal'[o].rev = journal[o].rev
         /\ \A x \in Ops \ {o} : journal'[x] = journal[x]
<1>1. journal \in [Ops -> Journal \cup {None}] /\ journal[o] \in Journal
  BY DEF RestType
<1>2. /\ journal'[o] = [journal[o] EXCEPT !.state = state]
      /\ \A x \in Ops \ {o} : journal'[x] = journal[x]
      /\ journal' = [journal EXCEPT ![o] = journal'[o]]
  BY <1>1 DEF SetJournal
<1>3. journal'[o] \in Journal /\ journal'[o].state = state /\ journal'[o].rev = journal[o].rev
  BY <1>1, <1>2 DEF Journal
<1>4. journal'[o] # None
  BY <1>3, NoneIsNoJournal
<1> QED
  BY <1>1, <1>2, <1>3, <1>4 DEF JournalKept

\* The row that a process reads is a row.
LEMMA RowTypes ==
  ASSUME RestType
  PROVE  RowRead \in Row \cup {None} /\ (desired # None => RowRead \in Row /\ RowRead # None)
<1>1. CASE desired = None
  BY <1>1 DEF RowRead
<1>2. CASE desired # None
  <2>1. desired \in Revs /\ materialized \in Revs \cup {None} /\ Name[desired] \in Names
    BY <1>2, SyncAssumption DEF RestType, Revs
  <2>2. RowRead \in Row
    BY <1>2, <2>1 DEF RowRead, Row
  <2> QED
    BY <2>2, NoneIsNoJournal
<1> QED
  BY <1>1, <1>2

\* A link that is set to a release of its name, or removed.
LEMMA LinkTypes ==
  ASSUME RestType, NEW n \in Names, NEW r \in Revs \cup {None}, r # None => Name[r] = n,
         canonical' = [canonical EXCEPT ![n] = r]
  PROVE  /\ canonical' \in [Names -> Revs \cup {None}]
         /\ \A m \in Names : canonical'[m] # None => Name[canonical'[m]] = m
         /\ canonical'[n] = r /\ \A m \in Names \ {n} : canonical'[m] = canonical[m]
  BY DEF RestType

\* A removal of a name that a process has read.
LEMMA OpenRemovalTypes ==
  ASSUME RestType, NEW p \in Procs, record[p] # None, NEW place, OpenRemoval(p, place)
  PROVE  RestType' /\ UNCHANGED <<journal, want, op>> /\ Goto(p, place)
<1>1. record[p] \in Row
  BY DEF RestType
<1>2. [part |-> "link", name |-> record[p].name] \in Removal
  BY <1>1 DEF Row, Removal
<1> DEFINE new == [part |-> "link", name |-> record[p].name]
<1>3. removal' = removal \cup {new} /\ new \in Removal
  BY <1>2 DEF OpenRemoval
<1> HIDE DEF new
<1>4. removal' \subseteq Removal
  BY <1>3 DEF RestType
<1>5. record' \in [Procs -> Row \cup {None}]
  BY DEF OpenRemoval, RestType
<1> QED
  BY <1>4, <1>5 DEF OpenRemoval, RestType, registry

LEMMA OutsideTypes ==
  ASSUME TypeInv, Publish \/ ChangeSubscription \/ UserEdits \/ LeaseExpires
  PROVE  TypeInv'
<1>1. RestType
  BY TypeParts DEF TypeInv
<1>2. UNCHANGED <<pc, want, op, todo, journal>>
  BY DEF Publish, ChangeSubscription, UserEdits, LeaseExpires
<1>3. RestType'
  <2>1. CASE Publish
    <3>1. release' \in Revs
      BY <1>1, <2>1, SyncAssumption DEF Publish, RestType, Revs
    <3> QED
      BY <1>1, <2>1, <3>1 DEF Publish, RestType, database
  <2>2. CASE ChangeSubscription
    <3>1. subs' \in 0..MaxSubs
      BY <1>1, <2>2, SyncAssumption DEF ChangeSubscription, RestType
    <3> QED
      BY <1>1, <2>2, <3>1 DEF ChangeSubscription, RestType, database
  <2>3. CASE UserEdits
    <3>1. tree' \in [Revs -> {"absent", "clean", "dirty", "broken", "partial", "headless"}]
      BY <1>1, <2>3 DEF UserEdits, RestType
    <3> QED
      BY <1>1, <2>3, <3>1 DEF UserEdits, RestType, registry, database
  <2>4. CASE LeaseExpires
    <3>1. faults' \in 0..MaxFaults
      BY <1>1, <2>4, SyncAssumption DEF LeaseExpires, Fault, RestType
    <3> QED
      BY <1>1, <2>4, <3>1 DEF LeaseExpires, RestType, registry, database
  <2> QED
    BY <2>1, <2>2, <2>3, <2>4
<1> QED
  BY <1>2, <1>3, SameJournal, StillStep

LEMMA StopTypes ==
  ASSUME TypeInv, NEW p \in Procs, Crash(p) \/ DownloadFails(p) \/ SweepLinks(p)
  PROVE  TypeInv'
<1>1. RestType /\ ProcType
  BY TypeParts DEF TypeInv
<1>2. faults' \in 0..MaxFaults
  BY <1>1, SyncAssumption DEF Crash, DownloadFails, SweepLinks, Fault, RestType
<1>3. RestType'
  <2>1. /\ canonical' \in [Names -> Revs \cup {None}]
        /\ \A n \in Names : canonical'[n] # None => Name[canonical'[n]] = n
    <3>1. CASE SweepLinks(p)
      <4>1. \A n \in Names : canonical'[n] \in {canonical[n], None}
        BY <3>1 DEF SweepLinks
      <4>2. canonical' = [n \in Names |-> canonical'[n]]
        BY <3>1 DEF SweepLinks
      <4> QED
        BY <1>1, <4>1, <4>2 DEF RestType
    <3>2. CASE Crash(p) \/ DownloadFails(p)
      BY <1>1, <3>2 DEF Crash, DownloadFails, RestType
    <3> QED
      BY <3>1, <3>2
  <2>2. record' \in [Procs -> Row \cup {None}]
    BY <1>1 DEF Crash, DownloadFails, SweepLinks, Return, RestType
  <2> QED
    BY <1>1, <1>2, <2>1, <2>2 DEF Crash, DownloadFails, SweepLinks, Return, RestType, registry, database
<1> QED
  BY <1>3, SameJournal, ReturnStep DEF Crash, DownloadFails, SweepLinks, Return

LEMMA SyncTypes ==
  ASSUME TypeInv, Recorded, NEW p \in Procs,
         \/ StartSync(p) \/ RemoveManaged(p) \/ NothingToRemove(p) \/ ProtectEdits(p)
         \/ CreateFork(p) \/ ReplaceSubscription(p) \/ RecoveryDone(p) \/ RemoveEnded(p)
         \/ UpsertDesired(p) \/ RemoveRenamed(p) \/ ApplyDesired(p)
         \/ DownloadSnapshot(p) \/ ReadLinks(p)
  PROVE  TypeInv'
<1>1. RestType /\ ProcType /\ Informed(p)
  BY TypeParts DEF TypeInv
<1>2. UNCHANGED journal /\ JournalKept
  BY SameJournal DEF StartSync, RemoveManaged, NothingToRemove, ProtectEdits, CreateFork, ReplaceSubscription,
       RecoveryDone, RemoveEnded, UpsertDesired, RemoveRenamed, ApplyDesired, OpenRemoval,
       DownloadSnapshot, ReadLinks
<1> USE DEF Places, Working, Recovering, Removing, Applying
<1>3. CASE StartSync(p)
  BY <1>1, <1>2, <1>3, GotoStep DEF StartSync, RestType, registry, database
<1>4. CASE RemoveManaged(p)
  <2>1. PICK x \in removal :
          \/ /\ canonical' = [canonical EXCEPT ![x.name] = None]
             /\ removal' = (removal \ {x}) \cup {[x EXCEPT !.part = "row"]}
             /\ UNCHANGED <<desired, materialized>>
          \/ /\ desired' = None /\ materialized' = None /\ removal' = removal \ {x}
             /\ UNCHANGED canonical
    BY <1>4 DEF RemoveManaged
  <2>2. x \in Removal /\ x.name \in Names
    BY <1>1, <2>1 DEF RestType, Removal
  <2>3. [x EXCEPT !.part = "row"] \in Removal
    BY <2>2 DEF Removal
  <2>4. removal' \subseteq Removal
    <3> DEFINE new == [x EXCEPT !.part = "row"]
    <3>1. new \in Removal
      BY <2>3
    <3>2. removal' \subseteq removal \cup {new}
      BY <2>1
    <3> HIDE DEF new
    <3> QED
      BY <1>1, <3>1, <3>2 DEF RestType
  <2>5. /\ canonical' \in [Names -> Revs \cup {None}]
        /\ \A n \in Names : canonical'[n] # None => Name[canonical'[n]] = n
    <3>1. CASE UNCHANGED canonical
      BY <1>1, <3>1 DEF RestType
    <3>2. CASE canonical' = [canonical EXCEPT ![x.name] = None]
      BY <1>1, <2>2, <3>2, LinkTypes
    <3> QED
      BY <2>1, <3>1, <3>2
  <2>6. desired' \in Revs \cup {None} /\ materialized' \in Revs \cup {None}
    BY <1>1, <2>1 DEF RestType
  <2>7. RestType'
    BY <1>1, <1>4, <2>4, <2>5, <2>6 DEF RemoveManaged, RestType, registry
  <2> QED
    BY <1>2, <1>4, <2>7, StillStep DEF RemoveManaged
<1>5. CASE NothingToRemove(p)
  <2>1. locked' \in BOOLEAN
    BY <1>5 DEF NothingToRemove
  <2>2. record' \in [Procs -> Row \cup {None}] /\ lease' \in Ops \cup {None}
    BY <1>1, <1>5 DEF NothingToRemove, Return, RestType
  <2>3. RestType'
    BY <1>1, <1>5, <2>1, <2>2 DEF NothingToRemove, RestType, registry
  <2>4. CASE Return(p)
    BY <1>2, <2>3, <2>4, ReturnStep DEF Return
  <2>5. CASE ~Return(p)
    <3>1. PICK place \in {"protect", "prepare", "recover", "reconcile", "links", "download"} :
            /\ Goto(p, place) /\ UNCHANGED <<want, op>> /\ (place = "download" => pc[p] = "move")
      BY <1>5, <2>5 DEF NothingToRemove
    <3>2. place = "download" => want[p] # None
      BY <1>1, <3>1 DEF Informed
    <3> QED
      BY <1>2, <1>5, <2>3, <3>1, <3>2, GotoStep DEF NothingToRemove
  <2> QED
    BY <2>4, <2>5
<1>6. CASE ProtectEdits(p)
  <2>1. locked' \in BOOLEAN
    BY <1>1, <1>6 DEF ProtectEdits, RestType
  <2>2. record' \in [Procs -> Row \cup {None}]
    BY <1>1, <1>6, RowTypes DEF ProtectEdits, RestType
  <2>3. RestType'
    BY <1>1, <1>6, <2>1, <2>2 DEF ProtectEdits, RestType, registry
  <2>4. PICK place \in {"forkRecover", "prepare"} : Goto(p, place)
    BY <1>6 DEF ProtectEdits
  <2> QED
    BY <1>2, <1>6, <2>3, <2>4, GotoStep DEF ProtectEdits
<1>7. CASE CreateFork(p)
  <2>1. record' \in [Procs -> Row \cup {None}] /\ lease' \in Ops \cup {None}
    BY <1>1, <1>7 DEF CreateFork, Return, RestType
  <2>2. RestType'
    BY <1>1, <1>7, <2>1 DEF CreateFork, RestType, registry
  <2>3. CASE Return(p)
    BY <1>2, <2>2, <2>3, ReturnStep DEF Return
  <2>4. CASE Goto(p, "forked") /\ UNCHANGED <<want, op>>
    BY <1>2, <1>7, <2>2, <2>4, GotoStep DEF CreateFork
  <2> QED
    BY <1>7, <2>3, <2>4 DEF CreateFork
<1>8. CASE RecoveryDone(p)
  <2>1. RestType'
    BY <1>1, <1>8 DEF RecoveryDone, RestType, registry, database
  <2>2. PICK place \in {"fork", "lifecycleAgain", "claim"} :
          Goto(p, place) /\ (place = "claim" => pc[p] = "matRecover")
    BY <1>8 DEF RecoveryDone
  <2>3. place = "claim" => want[p] # None
    BY <1>1, <2>2 DEF Informed
  <2> QED
    BY <1>2, <1>8, <2>1, <2>2, <2>3, GotoStep DEF RecoveryDone
<1>9. CASE ReplaceSubscription(p) \/ RemoveEnded(p) \/ RemoveRenamed(p)
  <2>1. PICK place \in {"forkRemove", "unsubscribe", "move"} :
          /\ OpenRemoval(p, place) /\ pc[p] \in {"forked", "remove", "applied"}
          /\ place = "move" => pc[p] = "applied"
    BY <1>9 DEF ReplaceSubscription, RemoveEnded, RemoveRenamed
  <2>2. record[p] # None
    BY <1>9 DEF ReplaceSubscription, RemoveEnded, RemoveRenamed, Renamed, Recorded
  <2>3. RestType' /\ UNCHANGED <<want, op>> /\ Goto(p, place)
    BY <1>1, <2>1, <2>2, OpenRemovalTypes
  <2>4. place = "move" => want[p] # None
    BY <1>1, <2>1 DEF Informed
  <2> QED
    BY <1>2, <2>1, <2>3, <2>4, GotoStep
<1>10. CASE UpsertDesired(p)
  <2>1. want[p] \in Revs \cup {None} /\ want[p] # None
    BY <1>1, <1>10 DEF ProcType, UpsertDesired, Informed
  <2>2. record' \in [Procs -> Row \cup {None}]
    BY <1>1, <1>10, RowTypes DEF UpsertDesired, RestType
  <2>3. RestType'
    BY <1>1, <1>10, <2>1, <2>2 DEF UpsertDesired, RestType, registry
  <2> QED
    BY <1>2, <1>10, <2>1, <2>3, GotoStep DEF UpsertDesired
<1>11. CASE ApplyDesired(p)
  <2>1. want[p] # None
    BY <1>1, <1>11 DEF ApplyDesired, Informed
  <2>2. record' \in [Procs -> Row \cup {None}]
    BY <1>1, <1>11 DEF ApplyDesired, RestType
  <2>3. RestType'
    BY <1>1, <1>11, <2>2 DEF ApplyDesired, RestType, registry, database
  <2>4. PICK place \in {"links", "download"} : Goto(p, place)
    BY <1>11 DEF ApplyDesired
  <2> QED
    BY <1>2, <1>11, <2>1, <2>3, <2>4, GotoStep DEF ApplyDesired
<1>12. CASE DownloadSnapshot(p)
  <2>1. RestType'
    BY <1>1, <1>12 DEF DownloadSnapshot, RestType, registry, database
  <2>2. want[p] # None
    BY <1>1, <1>12 DEF DownloadSnapshot, Informed
  <2> QED
    BY <1>2, <1>12, <2>1, <2>2, GotoStep DEF DownloadSnapshot
<1>13. CASE ReadLinks(p)
  <2>1. record' \in [Procs -> Row \cup {None}]
    BY <1>1, <1>13, RowTypes DEF ReadLinks, RestType
  <2>2. RestType'
    BY <1>1, <1>13, <2>1 DEF ReadLinks, RestType, registry, database
  <2> QED
    BY <1>2, <1>13, <2>2, GotoStep DEF ReadLinks
<1> QED
  BY <1>3, <1>4, <1>5, <1>6, <1>7, <1>8, <1>9, <1>10, <1>11, <1>12, <1>13

LEMMA ReconcileTypes ==
  ASSUME TypeInv, NEW p \in Procs, Reconcile(p)
  PROVE  TypeInv'
<1>1. RestType /\ ProcType /\ OpOwned(p) /\ Informed(p)
  BY TypeParts DEF TypeInv
<1>2. JournalKept /\ RestType'
  <2>1. record' \in [Procs -> Row \cup {None}]
    BY <1>1, RowTypes DEF Reconcile, RestType
  <2> QED
    BY <1>1, <2>1, SameJournal DEF Reconcile, RestType, registry, database
<1> USE DEF Places, Working, Recovering, Removing, Applying
<1>3. CASE Goto(p, "remove") /\ UNCHANGED want
  BY <1>2, <1>3, GotoStep DEF Reconcile
<1>4. CASE Goto(p, "links") /\ UNCHANGED want
  BY <1>2, <1>4, GotoStep DEF Reconcile
<1>5. CASE remote # None /\ Goto(p, "apply") /\ want' = [want EXCEPT ![p] = remote]
  <2>1. remote \in Revs
    BY <1>1, <1>5 DEF RestType, remote
  <2>2. /\ pc' \in [Procs -> Places] /\ todo' \in [Procs -> SUBSET Listed]
        /\ pc'[p] = "apply" /\ todo'[p] = {}
        /\ \A q \in Procs \ {p} : pc'[q] = pc[q] /\ todo'[q] = todo[q]
    BY <1>5, GotoMoves
  <2>3. /\ want' \in [Procs -> Revs \cup {None}] /\ want'[p] = remote
        /\ \A q \in Procs \ {p} : want'[q] = want[q]
    BY <1>1, <1>5, <2>1 DEF ProcType
  <2>4. ProcType' /\ Elsewhere(p)
    BY <1>1, <2>2, <2>3 DEF ProcType, Elsewhere, Reconcile
  <2>5. OpOwned(p)'
    BY <1>1, <2>2 DEF OpOwned, Reconcile
  <2>6. Informed(p)'
    BY <1>5, <2>2, <2>3 DEF Informed
  <2> QED
    BY <1>2, <2>4, <2>5, <2>6, TypeStep
<1> QED
  BY <1>3, <1>4, <1>5 DEF Reconcile

\* What a recovery does to its list.
LEMMA RelistMoves ==
  ASSUME ProcType, NEW p \in Procs, NEW j \in todo[p],
         NEW state \in {"deleting", "marking", "marked"}, Relist(p, j, state) \/ Handled(p, j)
  PROVE  /\ todo' = [todo EXCEPT ![p] = todo'[p]] /\ todo'[p] \in SUBSET Listed
         /\ \A k \in todo'[p] : k \in todo[p] \/ (k.op = j.op /\ k.state = state /\ k.rev = j.rev)
         /\ \A k \in todo'[p] : \E l \in todo[p] : k.op = l.op
         /\ Handled(p, j) => todo'[p] = todo[p] \ {j}
         /\ Relist(p, j, state) => /\ [j EXCEPT !.state = state] \in todo'[p]
                                   /\ todo[p] \ {j} \subseteq todo'[p]
                                   /\ j # [j EXCEPT !.state = state] => j \notin todo'[p]
         /\ [j EXCEPT !.state = state].op = j.op
<1>1. todo[p] \subseteq Listed /\ j \in Listed /\ todo \in [Procs -> SUBSET Listed]
  BY DEF ProcType
<1> DEFINE n == [j EXCEPT !.state = state]
<1>2. n \in Listed /\ n.op = j.op /\ n.rev = j.rev /\ n.state = state
  BY <1>1 DEF Listed
<1> HIDE DEF n
<1>3. /\ todo' = [todo EXCEPT ![p] = todo'[p]]
      /\ Handled(p, j) => todo'[p] = todo[p] \ {j}
      /\ Relist(p, j, state) => todo'[p] = (todo[p] \ {j}) \cup {n}
  BY <1>1 DEF Relist, Handled, n
<1>4. todo'[p] \subseteq Listed
  BY <1>1, <1>2, <1>3
<1>5. \A k \in todo'[p] : k \in todo[p] \/ k = n
  BY <1>3
<1>6. \A k \in todo'[p] : \E l \in todo[p] : k.op = l.op
  BY <1>2, <1>5
<1>7. \A k \in todo'[p] : k \in todo[p] \/ (k.op = j.op /\ k.state = state /\ k.rev = j.rev)
  BY <1>2, <1>5
<1>8. Relist(p, j, state) => n \in todo'[p] /\ todo[p] \ {j} \subseteq todo'[p] /\ (j # n => j \notin todo'[p])
  BY <1>3
<1> QED
  BY <1>2, <1>3, <1>4, <1>6, <1>7, <1>8 DEF n

LEMMA RelistTypes ==
  ASSUME ProcType, NEW p \in Procs, NEW j \in todo[p], NEW state,
         state \in {"deleting", "marking", "marked"}, Relist(p, j, state)
  PROVE  /\ todo' = [todo EXCEPT ![p] = todo'[p]] /\ todo'[p] \in SUBSET Listed
         /\ \A k \in todo'[p] : \E l \in todo[p] : k.op = l.op
<1>1. CASE state = "deleting"
  BY <1>1, RelistMoves
<1>2. CASE state = "marking"
  BY <1>2, RelistMoves
<1>3. CASE state = "marked"
  BY <1>3, RelistMoves
<1> QED
  BY <1>1, <1>2, <1>3

\* Everything but the journal and the lease is of its type.
LEMMA RecoverAdvanceTypes ==
  ASSUME TypeInv, NEW p \in Procs, NEW j \in todo[p], NEW from, NEW next \in JournalState, NEW listed,
         listed \in {"deleting", "marking", "marked"} \/ next = "complete",
         RecoverAdvance(p, j, from, next, listed),
         canonical' \in [Names -> Revs \cup {None}],
         \A n \in Names : canonical'[n] # None => Name[canonical'[n]] = n,
         UNCHANGED <<registry, database, tree, stage, faults>>
  PROVE  TypeInv'
<1>1. RestType /\ ProcType /\ Informed(p)
  BY TypeParts DEF TypeInv
<1>2. j.op \in Ops /\ journal[j.op] # None
  BY <1>1 DEF ProcType, Listed, Informed
<1>3. CASE journal[j.op].state = from
  <2>1. PICK o \in Ops : o = j.op
    BY <1>2
  <2>2. SetJournal(o, next) /\ UNCHANGED <<pc, lease, want, op, record>>
    BY <1>3, <2>1 DEF RecoverAdvance
  <2>3. journal' \in [Ops -> Journal \cup {None}] /\ JournalKept
    BY <1>1, <1>2, <2>1, <2>2, SetJournalKeeps
  <2>4. RestType'
    BY <1>1, <2>2, <2>3 DEF RestType, registry, database
  <2>5. CASE next = "complete"
    <3>1. Handled(p, j)
      BY <1>3, <2>5 DEF RecoverAdvance
    <3> PICK state \in {"deleting", "marking", "marked"} : TRUE
      OBVIOUS
    <3>2. /\ todo' = [todo EXCEPT ![p] = todo'[p]] /\ todo'[p] \in SUBSET Listed
          /\ \A k \in todo'[p] : \E l \in todo[p] : k.op = l.op
      BY <1>1, <3>1, RelistMoves
    <3> QED
      BY <2>2, <2>3, <2>4, <3>2, TodoStep
  <2>6. CASE next # "complete"
    <3>1. Relist(p, j, listed)
      BY <1>3, <2>6 DEF RecoverAdvance
    <3>2. /\ todo' = [todo EXCEPT ![p] = todo'[p]] /\ todo'[p] \in SUBSET Listed
          /\ \A k \in todo'[p] : \E l \in todo[p] : k.op = l.op
      <4>1. listed \in {"deleting", "marking", "marked"}
        BY <2>6
      <4> QED
        BY <1>1, <3>1, <4>1, RelistTypes
    <3> QED
      BY <2>2, <2>3, <2>4, <3>2, TodoStep
  <2> QED
    BY <2>5, <2>6
<1>4. CASE journal[j.op].state # from
  <2>1. Return(p) /\ UNCHANGED journal
    BY <1>4 DEF RecoverAdvance
  <2>2. RestType'
    BY <1>1, <2>1 DEF Return, RestType, registry, database
  <2> QED
    BY <2>1, <2>2, SameJournal, ReturnStep DEF Return
<1> QED
  BY <1>3, <1>4

LEMMA RecoverTypes ==
  ASSUME TypeInv, NEW p \in Procs, NEW j \in todo[p],
         \/ RecoverDeleteStage(p, j) \/ RecoverDiscard(p, j)
         \/ RecoverSwitch(p, j) \/ RecoverMark(p, j) \/ RecoverComplete(p, j)
  PROVE  TypeInv'
<1>1. RestType /\ ProcType /\ Informed(p)
  BY TypeParts DEF TypeInv
<1>2. j.op \in Ops /\ journal[j.op] # None /\ j.rev \in Revs
  BY <1>1 DEF ProcType, Listed, Informed
<1>3. CASE RecoverDeleteStage(p, j)
  <2>1. RestType'
    BY <1>1, <1>2, <1>3 DEF RecoverDeleteStage, RestType, registry, database
  <2>2. /\ todo' = [todo EXCEPT ![p] = todo'[p]] /\ todo'[p] \in SUBSET Listed
        /\ \A k \in todo'[p] : \E l \in todo[p] : k.op = l.op
    BY <1>1, <1>3, RelistMoves DEF RecoverDeleteStage
  <2> QED
    BY <1>3, <2>1, <2>2, SameJournal, TodoStep DEF RecoverDeleteStage
<1>4. CASE RecoverDiscard(p, j)
  <2>1. journal' \in [Ops -> Journal \cup {None}] /\ JournalKept
    <3>1. CASE SetJournal(j.op, "discarded")
      <4>1. PICK o \in Ops : o = j.op
        BY <1>2
      <4>2. SetJournal(o, "discarded") /\ journal[o] # None /\ "discarded" \in JournalState
        BY <1>2, <3>1, <4>1 DEF JournalState
      <4> QED
        BY <1>1, <4>2, SetJournalKeeps
    <3>2. CASE UNCHANGED journal
      BY <1>1, <3>2, SameJournal DEF RestType
    <3> QED
      BY <1>4, <3>1, <3>2 DEF RecoverDiscard
  <2>2. RestType'
    BY <1>1, <1>2, <1>4, <2>1 DEF RecoverDiscard, RestType, registry, database
  <2>3. /\ todo' = [todo EXCEPT ![p] = todo'[p]] /\ todo'[p] \in SUBSET Listed
        /\ \A k \in todo'[p] : \E l \in todo[p] : k.op = l.op
    BY <1>1, <1>4, RelistMoves DEF RecoverDiscard
  <2> QED
    BY <1>4, <2>1, <2>2, <2>3, TodoStep DEF RecoverDiscard
<1>5. CASE RecoverSwitch(p, j)
  <2>1. CASE Return(p) /\ UNCHANGED <<canonical, journal>>
    <3>1. RestType'
      BY <1>1, <1>5, <2>1 DEF RecoverSwitch, Return, RestType, registry, database
    <3> QED
      BY <2>1, <3>1, SameJournal, ReturnStep DEF Return
  <2>2. CASE /\ canonical' = [canonical EXCEPT ![Name[j.rev]] = j.rev]
             /\ RecoverAdvance(p, j, "verified", "switched", "marking")
    <3>1. "switched" \in JournalState /\ Name[j.rev] \in Names
      BY <1>2, SyncAssumption DEF JournalState, Revs
    <3>2. /\ canonical' \in [Names -> Revs \cup {None}]
          /\ \A n \in Names : canonical'[n] # None => Name[canonical'[n]] = n
      BY <1>1, <1>2, <2>2, <3>1, LinkTypes
    <3> QED
      BY <1>5, <2>2, <3>1, <3>2, RecoverAdvanceTypes DEF RecoverSwitch
  <2> QED
    BY <1>5, <2>1, <2>2 DEF RecoverSwitch
<1>6. CASE RecoverMark(p, j)
  <2>1. RestType'
    BY <1>1, <1>2, <1>6 DEF RecoverMark, Return, RestType, registry
  <2>2. JournalKept
    BY <1>6, SameJournal DEF RecoverMark
  <2>3. CASE Return(p)
    BY <2>1, <2>2, <2>3, ReturnStep DEF Return
  <2>4. CASE Relist(p, j, "marked") /\ UNCHANGED <<pc, lease, want, op, record>>
    <3>1. /\ todo' = [todo EXCEPT ![p] = todo'[p]] /\ todo'[p] \in SUBSET Listed
          /\ \A k \in todo'[p] : \E l \in todo[p] : k.op = l.op
      BY <1>1, <2>4, RelistMoves
    <3> QED
      BY <2>1, <2>2, <2>4, <3>1, TodoStep
  <2> QED
    BY <1>6, <2>3, <2>4 DEF RecoverMark
<1>7. CASE RecoverComplete(p, j)
  <2>1. /\ "complete" \in JournalState /\ canonical' \in [Names -> Revs \cup {None}]
        /\ \A n \in Names : canonical'[n] # None => Name[canonical'[n]] = n
    BY <1>1, <1>7 DEF JournalState, RecoverComplete, RestType
  <2> QED
    BY <1>7, <2>1, RecoverAdvanceTypes DEF RecoverComplete
<1> QED
  BY <1>3, <1>4, <1>5, <1>6, <1>7

LEMMA ClaimTypes ==
  ASSUME TypeInv, NEW p \in Procs, ClaimLease(p)
  PROVE  TypeInv'
<1>1. RestType /\ ProcType /\ Informed(p)
  BY TypeParts DEF TypeInv
<1>2. CASE Return(p) /\ UNCHANGED journal
  <2>1. RestType'
    BY <1>1, <1>2 DEF ClaimLease, Return, RestType, registry, database
  <2> QED
    BY <1>2, <2>1, SameJournal, ReturnStep DEF Return
<1>3. CASE ~(Return(p) /\ UNCHANGED journal)
  <2>1. PICK o \in Ops : /\ journal[o] = None /\ lease' = o
                         /\ op' = [op EXCEPT ![p] = o]
                         /\ journal' = [journal EXCEPT ![o] = [rev |-> want[p], state |-> "planned"]]
                         /\ Goto(p, "check") /\ UNCHANGED <<want, record>>
    BY <1>3 DEF ClaimLease
  <2>2. want[p] \in Revs
    BY <1>1 DEF ClaimLease, Informed, ProcType, Applying
  <2> DEFINE new == [rev |-> want[p], state |-> "planned"]
  <2>3. new \in Journal /\ new.rev = want[p]
    BY <2>2 DEF Journal, JournalState
  <2>4. new # None
    BY <2>3, NoneIsNoJournal
  <2> HIDE DEF new
  <2>5. /\ journal' \in [Ops -> Journal \cup {None}] /\ journal'[o] = new
        /\ \A x \in Ops \ {o} : journal'[x] = journal[x]
    BY <1>1, <2>1, <2>3 DEF RestType, new
  <2>6. JournalKept
    BY <2>1, <2>5 DEF JournalKept
  <2>7. RestType'
    BY <1>1, <2>1, <2>5 DEF ClaimLease, RestType, registry, database
  <2>8. "check" \in Places /\ "check" \in Working /\ "check" \notin Recovering
    BY DEF Places, Working, Recovering
  <2>9. /\ pc' \in [Procs -> Places] /\ todo' \in [Procs -> SUBSET Listed]
        /\ pc'[p] = "check" /\ todo'[p] = {}
        /\ \A q \in Procs \ {p} : pc'[q] = pc[q] /\ todo'[q] = todo[q]
    BY <2>1, <2>8, GotoMoves
  <2>10. /\ op' \in [Procs -> Ops \cup {None}] /\ op'[p] = o
         /\ \A q \in Procs \ {p} : op'[q] = op[q]
    BY <1>1, <2>1 DEF ProcType
  <2>11. ProcType' /\ Elsewhere(p)
    BY <1>1, <2>1, <2>9, <2>10 DEF ProcType, Elsewhere
  <2>12. OpOwned(p)'
    BY <2>1, <2>3, <2>4, <2>5, <2>8, <2>9, <2>10 DEF OpOwned
  <2>13. Informed(p)'
    BY <2>9 DEF Informed, Applying
  <2> QED
    BY <2>6, <2>7, <2>11, <2>12, <2>13, TypeStep
<1> QED
  BY <1>2, <1>3

LEMMA AdvanceTypes ==
  ASSUME TypeInv, NEW p \in Procs, NEW from, NEW next \in JournalState, NEW place \in Working,
         pc[p] \in Working, Advance(p, from, next, place)
  PROVE  TypeInv'
<1>1. RestType /\ ProcType /\ OpOwned(p)
  BY TypeParts DEF TypeInv
<1>2. CASE SetJournal(op[p], next) /\ Goto(p, place) /\ UNCHANGED <<lease, want, op, record>>
  <2>1. PICK o \in Ops : o = op[p] /\ journal[o] # None
    BY <1>1 DEF OpOwned
  <2>2. SetJournal(o, next)
    BY <1>2, <2>1
  <2>3. journal' \in [Ops -> Journal \cup {None}] /\ JournalKept
    BY <1>1, <2>1, <2>2, SetJournalKeeps
  <2>4. RestType'
    BY <1>1, <1>2, <2>3 DEF Advance, RestType, registry, database
  <2>5. place \in Places /\ place \notin Applying
    BY DEF Places, Working, Applying
  <2> QED
    BY <1>2, <2>3, <2>4, <2>5, GotoStep
<1>3. CASE Return(p) /\ UNCHANGED journal
  <2>1. RestType'
    BY <1>1, <1>3 DEF Advance, Return, RestType, registry, database
  <2> QED
    BY <1>3, <2>1, SameJournal, ReturnStep DEF Return
<1> QED
  BY <1>2, <1>3 DEF Advance

LEMMA MaterializeTypes ==
  ASSUME TypeInv, NEW p \in Procs,
         \/ CheckGeneration(p) \/ ClearGeneration(p) \/ WriteStage(p) \/ RecordStaged(p)
         \/ VerifyStage(p) \/ RenameStage(p) \/ RecordVerified(p) \/ SwitchLink(p)
         \/ RecordSwitched(p) \/ MarkMaterialized(p)
  PROVE  TypeInv'
<1>1. RestType /\ ProcType /\ OpOwned(p)
  BY TypeParts DEF TypeInv
<1>2. pc[p] \in Working
  BY DEF CheckGeneration, ClearGeneration, WriteStage, RecordStaged, VerifyStage, RenameStage,
         RecordVerified, SwitchLink, RecordSwitched, MarkMaterialized, Working
<1>3. op[p] \in Ops /\ want[p] \in Revs
  <2>1. op[p] \in Ops /\ journal[op[p]] \in Journal /\ journal[op[p]].rev = want[p]
    BY <1>1, <1>2 DEF OpOwned, RestType
  <2> QED
    BY <2>1 DEF Journal
<1>4. ASSUME RestType', UNCHANGED journal, Return(p)
      PROVE  TypeInv'
  BY <1>4, SameJournal, ReturnStep DEF Return
<1>5. ASSUME RestType', UNCHANGED <<journal, want, op>>, NEW place \in Working, Goto(p, place)
      PROVE  TypeInv'
  <2>1. place \in Places /\ place \notin Applying
    BY DEF Places, Working, Applying
  <2> QED
    BY <1>2, <1>5, <2>1, SameJournal, GotoStep
<1>6. {"staged", "verified", "switched"} \subseteq JournalState
  BY DEF JournalState
<1>7. Working = {"check", "clear", "clearing", "write", "writing", "wrote", "verify",
                 "rename", "renamed", "switch", "switched", "mark", "marked"}
  BY DEF Working
<1>8. CASE CheckGeneration(p)
  <2>1. RestType'
    BY <1>1, <1>8 DEF CheckGeneration, Return, RestType, registry, database
  <2>2. CASE Return(p)
    BY <1>4, <1>8, <2>1, <2>2 DEF CheckGeneration
  <2>3. CASE ~Return(p)
    <3>1. PICK place \in {"write", "wrote", "clear"} : Goto(p, place) /\ UNCHANGED <<lease, want, op, record>>
      BY <1>8, <2>3 DEF CheckGeneration
    <3> QED
      BY <1>5, <1>7, <1>8, <2>1, <3>1 DEF CheckGeneration
  <2> QED
    BY <2>2, <2>3
<1>9. CASE ClearGeneration(p)
  <2>1. RestType'
    BY <1>1, <1>3, <1>9 DEF ClearGeneration, RestType, registry, database
  <2>2. PICK place \in {"write", "clearing"} : Goto(p, place)
    BY <1>9 DEF ClearGeneration
  <2> QED
    BY <1>5, <1>7, <1>9, <2>1, <2>2 DEF ClearGeneration
<1>10. CASE WriteStage(p)
  <2>1. RestType'
    BY <1>1, <1>3, <1>10 DEF WriteStage, RestType, registry, database
  <2>2. PICK place \in {"wrote", "writing"} : Goto(p, place)
    BY <1>10 DEF WriteStage
  <2> QED
    BY <1>5, <1>7, <1>10, <2>1, <2>2 DEF WriteStage
<1>11. CASE RecordStaged(p)
  BY <1>2, <1>6, <1>7, <1>11, AdvanceTypes DEF RecordStaged
<1>12. CASE VerifyStage(p)
  <2>1. RestType'
    BY <1>1, <1>12 DEF VerifyStage, Return, RestType, registry, database
  <2>2. CASE Return(p)
    BY <1>4, <1>12, <2>1, <2>2 DEF VerifyStage
  <2>3. CASE ~Return(p)
    <3>1. PICK place \in {"rename", "renamed"} : Goto(p, place) /\ UNCHANGED <<lease, want, op, record>>
      BY <1>12, <2>3 DEF VerifyStage
    <3> QED
      BY <1>5, <1>7, <1>12, <2>1, <3>1 DEF VerifyStage
  <2> QED
    BY <2>2, <2>3
<1>13. CASE RenameStage(p)
  <2>1. RestType'
    BY <1>1, <1>3, <1>13 DEF RenameStage, Return, RestType, registry, database
  <2>2. CASE Return(p)
    BY <1>4, <1>13, <2>1, <2>2 DEF RenameStage
  <2>3. CASE ~Return(p)
    BY <1>5, <1>7, <1>13, <2>1, <2>3 DEF RenameStage
  <2> QED
    BY <2>2, <2>3
<1>14. CASE RecordVerified(p)
  BY <1>2, <1>6, <1>7, <1>14, AdvanceTypes DEF RecordVerified
<1>15. CASE SwitchLink(p)
  <2>1. Name[want[p]] \in Names
    BY <1>3, SyncAssumption DEF Revs
  <2>2. /\ canonical' \in [Names -> Revs \cup {None}]
        /\ \A n \in Names : canonical'[n] # None => Name[canonical'[n]] = n
    BY <1>1, <1>3, <1>15, <2>1, LinkTypes DEF SwitchLink
  <2>3. RestType'
    BY <1>1, <1>15, <2>2 DEF SwitchLink, RestType, registry, database
  <2> QED
    BY <1>5, <1>7, <1>15, <2>3 DEF SwitchLink
<1>16. CASE RecordSwitched(p)
  BY <1>2, <1>6, <1>7, <1>16, AdvanceTypes DEF RecordSwitched
<1>17. CASE MarkMaterialized(p)
  <2>1. RestType'
    BY <1>1, <1>3, <1>17 DEF MarkMaterialized, Return, RestType, registry
  <2>2. CASE Return(p)
    BY <1>4, <1>17, <2>1, <2>2 DEF MarkMaterialized
  <2>3. CASE ~Return(p)
    BY <1>5, <1>7, <1>17, <2>1, <2>3 DEF MarkMaterialized
  <2> QED
    BY <2>2, <2>3
<1> QED
  BY <1>8, <1>9, <1>10, <1>11, <1>12, <1>13, <1>14, <1>15, <1>16, <1>17

LEMMA CompleteTypes ==
  ASSUME TypeInv, NEW p \in Procs, CompleteJournal(p)
  PROVE  TypeInv'
<1>1. RestType /\ ProcType /\ OpOwned(p)
  BY TypeParts DEF TypeInv
<1>2. PICK o \in Ops : o = op[p] /\ journal[o] # None
  BY <1>1 DEF OpOwned, CompleteJournal, Working
<1>3. PICK place \in {"links", "idle"} : Goto(p, place)
  BY DEF CompleteJournal
<1>4. journal' \in [Ops -> Journal \cup {None}] /\ JournalKept
  <2>1. CASE SetJournal(op[p], "complete")
    <3>1. SetJournal(o, "complete") /\ "complete" \in JournalState
      BY <1>2, <2>1 DEF JournalState
    <3> QED
      BY <1>1, <1>2, <3>1, SetJournalKeeps
  <2>2. CASE UNCHANGED journal
    BY <1>1, <2>2, SameJournal DEF RestType
  <2> QED
    BY <2>1, <2>2 DEF CompleteJournal
<1>5. RestType'
  BY <1>1, <1>4 DEF CompleteJournal, RestType, registry, database
<1>6. place \in Places /\ place \notin Working /\ place \notin Recovering
      /\ place \notin Applying
  BY DEF Places, Working, Recovering, Applying
<1>7. /\ pc' \in [Procs -> Places] /\ todo' \in [Procs -> SUBSET Listed]
      /\ pc'[p] = place /\ todo'[p] = {}
      /\ \A q \in Procs \ {p} : pc'[q] = pc[q] /\ todo'[q] = todo[q]
  BY <1>3, <1>6, GotoMoves
<1>8. /\ op' \in [Procs -> Ops \cup {None}] /\ op'[p] = None
      /\ want' \in [Procs -> Revs \cup {None}]
      /\ \A q \in Procs \ {p} : op'[q] = op[q] /\ want'[q] = want[q]
  BY <1>1 DEF ProcType, CompleteJournal
<1>9. ProcType' /\ Elsewhere(p)
  BY <1>7, <1>8 DEF ProcType, Elsewhere
<1>10. OpOwned(p)' /\ Informed(p)'
  BY <1>6, <1>7, <1>8 DEF OpOwned, Informed
<1> QED
  BY <1>4, <1>5, <1>9, <1>10, TypeStep

LEMMA TypesKept ==
  ASSUME TypeInv, Recorded, [Next]_vars
  PROVE  TypeInv'
<1>1. CASE UNCHANGED vars
  BY <1>1 DEF vars, TypeInv, TypeOK, Informed, registry
<1>2. CASE \E p \in Procs : Step(p) \/ Crash(p) \/ DownloadFails(p)
  <2>1. PICK p \in Procs : Step(p) \/ Crash(p) \/ DownloadFails(p)
    BY <1>2
  <2>2. CASE Recover(p)
    BY <2>2, RecoverTypes, SyncTypes DEF Recover
  <2>3. CASE Materialize(p)
    BY <2>3, MaterializeTypes, ClaimTypes, CompleteTypes DEF Materialize
  <2> QED
    BY <2>1, <2>2, <2>3, SyncTypes, ReconcileTypes, StopTypes DEF Step
<1> QED
  BY <1>1, <1>2, OutsideTypes DEF Next

\* The places of Recorded are entered with a row or from one another.
Holding == {"forkRecover", "fork", "forked", "remove"}

LEMMA RecordStep ==
  ASSUME TypeInv, Recorded, NEW p \in Procs, NEW place, NEW row,
         \/ UNCHANGED <<pc, record>>
         \/ /\ Goto(p, place) /\ record' = [record EXCEPT ![p] = row]
            /\ place \in Holding => row # None
         \/ Goto(p, place) /\ UNCHANGED record /\ (place \in Holding => pc[p] \in Holding)
  PROVE  Recorded'
<1>1. pc \in [Procs -> Places] /\ record \in [Procs -> Row \cup {None}]
  BY DEF TypeInv, TypeOK
<1>2. CASE UNCHANGED <<pc, record>>
  BY <1>2 DEF Recorded
<1>3. CASE /\ Goto(p, place) /\ record' = [record EXCEPT ![p] = row]
           /\ place \in Holding => row # None
  BY <1>1, <1>3 DEF Recorded, Goto, Holding
<1>4. CASE Goto(p, place) /\ UNCHANGED record /\ (place \in Holding => pc[p] \in Holding)
  BY <1>1, <1>4 DEF Recorded, Goto, Holding
<1> QED
  BY <1>2, <1>3, <1>4

LEMMA RecordedReturn ==
  ASSUME TypeInv, Recorded, NEW p \in Procs, Return(p) \/ Crash(p)
  PROVE  Recorded'
<1>1. "idle" \notin Holding
  BY DEF Holding
<1> QED
  BY <1>1, RecordStep DEF Return, Crash

LEMMA RecordedKept ==
  ASSUME TypeInv, Recorded, [Next]_vars
  PROVE  Recorded'
<1>1. CASE UNCHANGED vars \/ LeaseExpires \/ Publish \/ ChangeSubscription \/ UserEdits
  BY <1>1 DEF vars, LeaseExpires, Publish, ChangeSubscription, UserEdits, Recorded
<1>2. ASSUME NEW p \in Procs, Step(p) \/ Crash(p) \/ DownloadFails(p)
      PROVE  Recorded'
  <2>1. CASE Return(p) \/ Crash(p) \/ DownloadFails(p) \/ SweepLinks(p)
    BY <2>1, RecordedReturn DEF DownloadFails, SweepLinks
  <2>2. ASSUME NEW place, place \notin Holding, NEW row, Goto(p, place),
               UNCHANGED record \/ record' = [record EXCEPT ![p] = row]
        PROVE  Recorded'
    BY <2>2, RecordStep
  <2>3. CASE UNCHANGED <<pc, record>>
    BY <2>3, RecordStep
  <2>4. CASE ~Return(p) /\ Recover(p)
    <3>1. CASE RecoveryDone(p)
      <4>1. \/ Goto(p, "fork") /\ pc[p] = "forkRecover"
            \/ Goto(p, "lifecycleAgain") \/ Goto(p, "claim")
        BY <3>1 DEF RecoveryDone, Recovering
      <4>2. UNCHANGED record /\ "lifecycleAgain" \notin Holding /\ "claim" \notin Holding
            /\ "forkRecover" \in Holding
        BY <3>1 DEF RecoveryDone, Holding
      <4> QED
        BY <2>2, <4>1, <4>2, RecordStep
    <3>2. ASSUME NEW j \in todo[p],
                 \/ RecoverDeleteStage(p, j) \/ RecoverDiscard(p, j)
                 \/ RecoverSwitch(p, j) \/ RecoverMark(p, j) \/ RecoverComplete(p, j)
          PROVE  Recorded'
      <4>1. UNCHANGED <<pc, record>>
        BY <2>4, <3>2 DEF RecoverDeleteStage, RecoverDiscard, RecoverSwitch, RecoverMark, RecoverComplete,
             RecoverAdvance
      <4> QED
        BY <2>3, <4>1
    <3> QED
      BY <2>4, <3>1, <3>2 DEF Recover
  <2>5. CASE ~Return(p) /\ Materialize(p)
    <3>1. /\ UNCHANGED record \/ record' = [record EXCEPT ![p] = None]
          /\ \E place \in Working \cup {"links", "idle"} : Goto(p, place)
      BY <2>5 DEF Materialize, ClaimLease, CheckGeneration, ClearGeneration, WriteStage, RecordStaged,
           VerifyStage, RenameStage, RecordVerified, SwitchLink, RecordSwitched, MarkMaterialized,
           CompleteJournal, Advance, Working
    <3>2. \A place \in Working \cup {"links", "idle"} : place \notin Holding
      BY DEF Working, Holding
    <3> QED
      BY <2>2, <3>1, <3>2
  <2>6. CASE \/ StartSync(p) \/ ReplaceSubscription(p) \/ RemoveEnded(p) \/ RemoveRenamed(p)
             \/ UpsertDesired(p) \/ ApplyDesired(p) \/ DownloadSnapshot(p) \/ ReadLinks(p)
    <3>1. /\ \E row : UNCHANGED record \/ record' = [record EXCEPT ![p] = row]
          /\ \E place \in {"lifecycle", "forkRemove", "unsubscribe", "move", "applied", "links", "download",
                           "matRecover", "sweep"} : Goto(p, place)
      BY <2>6 DEF StartSync, ReplaceSubscription, RemoveEnded, RemoveRenamed, UpsertDesired, ApplyDesired,
           DownloadSnapshot, ReadLinks, OpenRemoval
    <3>2. \A place \in {"lifecycle", "forkRemove", "unsubscribe", "move", "applied", "links", "download",
                        "matRecover", "sweep"} : place \notin Holding
      BY DEF Holding
    <3> QED
      BY <2>2, <3>1, <3>2
  <2>7. CASE RemoveManaged(p)
    BY <2>3, <2>7 DEF RemoveManaged
  <2>8. CASE ~Return(p) /\ NothingToRemove(p)
    <3>1. /\ UNCHANGED record
          /\ \E place \in {"protect", "prepare", "recover", "reconcile", "links", "download"} : Goto(p, place)
      BY <2>8 DEF NothingToRemove
    <3>2. \A place \in {"protect", "prepare", "recover", "reconcile", "links", "download"} : place \notin Holding
      BY DEF Holding
    <3> QED
      BY <2>2, <3>1, <3>2
  <2>9. CASE ProtectEdits(p)
    <3>1. RestType
      BY TypeParts DEF TypeInv
    <3>2. CASE LooksEdited
      <4>1. desired # None /\ RowRead # None
        BY <3>1, <3>2, RowTypes DEF LooksEdited, Link
      <4>2. record' = [record EXCEPT ![p] = RowRead] /\ Goto(p, "forkRecover")
        BY <2>9, <3>2 DEF ProtectEdits
      <4> QED
        BY <4>1, <4>2, RecordStep
    <3>3. CASE ~LooksEdited
      <4>1. record' = [record EXCEPT ![p] = None] /\ Goto(p, "prepare") /\ "prepare" \notin Holding
        BY <2>9, <3>3 DEF ProtectEdits, Holding
      <4> QED
        BY <2>2, <4>1
    <3> QED
      BY <3>2, <3>3
  <2>10. CASE ~Return(p) /\ CreateFork(p)
    <3>1. Goto(p, "forked") /\ UNCHANGED record /\ pc[p] \in Holding
      BY <2>10 DEF CreateFork, Holding
    <3> QED
      BY <3>1, RecordStep
  <2>11. CASE Reconcile(p)
    <3>1. RestType
      BY TypeParts DEF TypeInv
    <3>2. \/ desired # None /\ Goto(p, "remove") /\ record' = [record EXCEPT ![p] = RowRead]
          \/ Goto(p, "apply") /\ UNCHANGED record
          \/ Goto(p, "links") /\ UNCHANGED record
      BY <2>11 DEF Reconcile
    <3>3. "apply" \notin Holding /\ "links" \notin Holding
      BY DEF Holding
    <3> QED
      BY <2>2, <3>1, <3>2, <3>3, RowTypes, RecordStep
  <2> QED
    BY <1>2, <2>1, <2>4, <2>5, <2>6, <2>7, <2>8, <2>9, <2>10, <2>11 DEF Step
<1> QED
  BY <1>1, <1>2 DEF Next

LEMMA InitTypes == Init => TypeInv /\ Recorded
<1> SUFFICES ASSUME Init PROVE TypeInv /\ Recorded
  OBVIOUS
<1>1. RestType
  <2>1. MaxRev \in Nat /\ MaxRev # 0 /\ MaxSubs \in Nat /\ MaxFaults \in Nat
    BY SyncAssumption
  <2>2. 1 \in Revs /\ 0 \in 0..MaxSubs /\ 0 \in 0..MaxFaults
    BY <2>1 DEF Revs
  <2> QED
    BY <2>2 DEF Init, RestType
<1>2. "idle" \in Places /\ "idle" \notin Working
  BY DEF Places, Working
<1>3. ProcType
  BY <1>2 DEF Init, ProcType
<1>4. \A p \in Procs : OpOwned(p) /\ Informed(p)
  BY <1>2 DEF Init, OpOwned, Informed, Applying
<1>5. Recorded
  BY DEF Init, Recorded
<1> QED
  BY <1>1, <1>3, <1>4, <1>5, TypeParts DEF TypeInv

\* Types are kept by every step of any number of processes: a process at work
\* in materialize_skill_snapshot always has a journal row of its own, for the
\* release it wants.
THEOREM TypeCorrect == Spec => []TypeOK
<1>1. TypeInv => TypeOK
  BY DEF TypeInv
<1>2. TypeInv /\ Recorded /\ [Next]_vars => TypeInv' /\ Recorded'
  BY TypesKept, RecordedKept
<1> QED
  BY <1>1, <1>2, InitTypes, PTL DEF Spec

-------------------------------------------------------------------------------
(* What the user sees while one process at a time syncs *)

Alone == \A p, q \in Procs : p = q

\* What is left to show of a step of the only process.
LEMMA AloneStep ==
  ASSUME Alone, NEW p \in Procs, TypeInv', Recorded', VerifiedIntact', VisibleIsWhole',
         RecoveryInv(p)', WorkInv(p)'
  PROVE  AloneInv'
<1>1. \A q \in Procs : q = p
  BY DEF Alone
<1>2. ASSUME NEW q \in Procs PROVE RecoveryInv(q)' /\ WorkInv(q)'
  BY <1>1
<1> QED
  BY <1>2 DEF AloneInv

\* A recovery that starts lists what is open; elsewhere there is no list.
LEMMA ListsOpen ==
  ASSUME TypeInv, NEW p \in Procs, NEW place \in Places, Goto(p, place), UNCHANGED journal
  PROVE  RecoveryInv(p)'
<1>1. RestType
  BY TypeParts DEF TypeInv
<1>2. pc'[p] = place /\ todo'[p] = (IF place \in Recovering THEN Open ELSE {})
  BY GotoMoves
<1>3. CASE place \notin Recovering
  BY <1>2, <1>3 DEF RecoveryInv
<1>4. CASE place \in Recovering
  <2>1. pc'[p] \in Recovering /\ todo'[p] = Open /\ \A o : IsOpen(o)' <=> IsOpen(o)
    BY <1>2, <1>4 DEF IsOpen
  <2>2. \A j \in Open : /\ journal[j.op].rev = j.rev
                        /\ Agree(j.state, journal[j.op].state)
    <3> SUFFICES ASSUME NEW j \in Open
                 PROVE  journal[j.op].rev = j.rev /\ Agree(j.state, journal[j.op].state)
      OBVIOUS
    <3>1. j.op \in Ops /\ IsOpen(j.op) /\ j.rev = journal[j.op].rev /\ j.state = journal[j.op].state
      BY <1>1, OpenListed
    <3>2. journal[j.op] \in Journal
      BY <1>1, <3>1 DEF RestType, IsOpen
    <3> QED
      BY <3>1, <3>2 DEF IsOpen, Agree, Journal, JournalState
  <2>3. /\ \A o \in Ops : IsOpen(o) => \E j \in Open : j.op = o
        /\ \A j, k \in Open : j.op = k.op => j = k
    BY <1>1, OpenListed
  <2> HIDE DEF Open
  <2> QED
    BY <2>1, <2>2, <2>3 DEF RecoveryInv
<1> QED
  BY <1>3, <1>4

\* A step that leaves the journal and the generations alone, outside of a
\* materialization.
LEMMA QuietStep ==
  ASSUME AloneInv, Alone, NEW p \in Procs, TypeInv', Recorded', UNCHANGED <<journal, tree>>,
         \A n \in Names : canonical'[n] \in {canonical[n], None},
         NEW place \in Places \ Working, place # "claim",
         Goto(p, place)
  PROVE  AloneInv'
<1>1. TypeInv /\ VerifiedIntact /\ VisibleIsWhole
  BY DEF AloneInv
<1>2. RecoveryInv(p)'
  BY <1>1, ListsOpen
<1>3. pc'[p] = place
  BY <1>1, GotoMoves
<1>4. WorkInv(p)'
  BY <1>3 DEF WorkInv, Working
<1>5. VerifiedIntact'
  BY <1>1 DEF VerifiedIntact, Intact
<1>6. VisibleIsWhole'
  BY <1>1 DEF VisibleIsWhole
<1> QED
  BY <1>2, <1>4, <1>5, <1>6, AloneStep

LEMMA OutsideAlone ==
  ASSUME AloneInv, TypeInv', Recorded', Publish \/ ChangeSubscription \/ UserEdits \/ LeaseExpires
  PROVE  AloneInv'
<1>1. UNCHANGED <<journal, canonical, stage, pc, want, op, todo>>
  BY DEF Publish, ChangeSubscription, UserEdits, LeaseExpires
<1>2. TypeInv /\ VerifiedIntact /\ VisibleIsWhole /\ RestType
  BY TypeParts DEF AloneInv, TypeInv
<1>3. \A r \in Revs : \/ tree'[r] = tree[r]
                      \/ tree[r] \in {"clean", "dirty", "broken"} /\ tree'[r] \in {"dirty", "broken"}
  <2>1. CASE UserEdits
    <3>1. PICK n \in Names, edit \in {"dirty", "broken"} :
            /\ canonical[n] # None /\ tree[canonical[n]] \in {"clean", "dirty", "broken"}
            /\ tree' = [tree EXCEPT ![canonical[n]] = edit]
      BY <2>1 DEF UserEdits
    <3>2. /\ tree \in [Revs -> {"absent", "clean", "dirty", "broken", "partial", "headless"}]
          /\ canonical[n] \in Revs
      BY <1>2, <3>1 DEF RestType
    <3> QED
      BY <3>1, <3>2
  <2>2. CASE Publish \/ ChangeSubscription \/ LeaseExpires
    <3>1. UNCHANGED tree
      BY <2>2 DEF Publish, ChangeSubscription, LeaseExpires
    <3> QED
      BY <3>1
  <2> QED
    BY <2>1, <2>2
<1>4. VisibleIsWhole'
  BY <1>1, <1>2, <1>3 DEF VisibleIsWhole, RestType
<1>5. VerifiedIntact'
  <2> SUFFICES ASSUME NEW o \in Ops, journal[o] # None, journal[o].state \in {"verified", "switched"}
               PROVE  Intact(journal[o].rev)'
    BY <1>1 DEF VerifiedIntact
  <2>1. journal[o].rev \in Revs /\ Intact(journal[o].rev)
    BY <1>2 DEF RestType, Journal, VerifiedIntact
  <2> QED
    BY <1>1, <1>3, <2>1 DEF Intact
<1>6. ASSUME NEW p \in Procs PROVE RecoveryInv(p)' /\ WorkInv(p)'
  <2>1. RecoveryInv(p) /\ WorkInv(p) /\ want[p] \in Revs \cup {None} /\ OpOwned(p)
    BY <1>2, TypeParts DEF AloneInv, TypeInv, ProcType
  <2>2. RecoveryInv(p)'
    BY <1>1, <2>1 DEF RecoveryInv, IsOpen
  <2>3. pc[p] \in Working => want[p] \in Revs
    BY <1>2, <2>1 DEF OpOwned, RestType, Journal
  <2>4. pc[p] \in {"write", "writing", "wrote", "verify", "rename", "renamed"} => want[p] \in Revs
    BY <2>3 DEF Working
  <2>5. WorkInv(p)'
    BY <1>1, <1>3, <2>1, <2>4 DEF WorkInv, IsOpen, Intact
  <2> QED
    BY <2>2, <2>5
<1> QED
  BY <1>4, <1>5, <1>6 DEF AloneInv

LEMMA SyncAlone ==
  ASSUME AloneInv, Alone, TypeInv', Recorded', NEW p \in Procs,
         \/ StartSync(p) \/ NothingToRemove(p) \/ ProtectEdits(p) \/ CreateFork(p) \/ ReplaceSubscription(p)
         \/ Reconcile(p) \/ RemoveEnded(p) \/ UpsertDesired(p) \/ RemoveRenamed(p) \/ ApplyDesired(p)
         \/ DownloadSnapshot(p) \/ ReadLinks(p) \/ SweepLinks(p) \/ Crash(p) \/ DownloadFails(p)
  PROVE  AloneInv'
<1>1. UNCHANGED <<journal, tree>> /\ \A n \in Names : canonical'[n] \in {canonical[n], None}
  BY DEF StartSync, NothingToRemove, ProtectEdits, CreateFork, ReplaceSubscription, Reconcile, RemoveEnded,
       UpsertDesired, RemoveRenamed, ApplyDesired, OpenRemoval, DownloadSnapshot, ReadLinks, SweepLinks, Crash,
       DownloadFails
<1>2. PICK place \in Places \ Working : place # "claim" /\ Goto(p, place)
  <2> DEFINE Quiet == {"idle", "lifecycle", "protect", "prepare", "recover", "reconcile", "links", "forkRecover",
                       "forked", "forkRemove", "remove", "apply", "applied", "move", "unsubscribe", "download",
                       "matRecover", "sweep"}
  <2>1. \A place \in Quiet : place \in Places \ Working /\ place # "claim"
    BY DEF Places, Working, Recovering, Removing
  <2>2. CASE NothingToRemove(p)
    <3>1. \E place \in {"idle", "protect", "prepare", "recover", "reconcile", "links", "download"} : Goto(p, place)
      BY <2>2 DEF NothingToRemove, Return
    <3> QED
      BY <2>1, <3>1
  <2>3. CASE ProtectEdits(p) \/ ApplyDesired(p) \/ CreateFork(p)
    <3>1. \E place \in {"idle", "forkRecover", "prepare", "links", "download", "forked"} : Goto(p, place)
      BY <2>3 DEF ProtectEdits, ApplyDesired, CreateFork, Return
    <3> QED
      BY <2>1, <3>1
  <2>4. CASE \/ StartSync(p) \/ ReplaceSubscription(p) \/ Reconcile(p) \/ RemoveEnded(p) \/ UpsertDesired(p)
             \/ RemoveRenamed(p) \/ DownloadSnapshot(p) \/ ReadLinks(p) \/ SweepLinks(p) \/ Crash(p)
             \/ DownloadFails(p)
    <3>1. \E place \in {"idle", "lifecycle", "forkRemove", "remove", "apply", "applied", "move", "links",
                       "unsubscribe", "matRecover", "sweep"} : Goto(p, place)
      BY <2>4 DEF StartSync, ReplaceSubscription, Reconcile, RemoveEnded, UpsertDesired, RemoveRenamed,
           OpenRemoval, DownloadSnapshot, ReadLinks, SweepLinks, Crash, DownloadFails, Return
    <3> QED
      BY <2>1, <3>1
  <2> QED
    BY <2>2, <2>3, <2>4
<1> QED
  BY <1>1, <1>2, QuietStep

\* RemoveManaged only takes the link away.
LEMMA RemoveAlone ==
  ASSUME AloneInv, Alone, TypeInv', Recorded', NEW p \in Procs, RemoveManaged(p)
  PROVE  AloneInv'
<1>1. UNCHANGED <<journal, tree, pc, todo>> /\ pc[p] \in Removing
  BY DEF RemoveManaged
<1>2. TypeInv /\ VerifiedIntact /\ VisibleIsWhole /\ RecoveryInv(p) /\ RestType
  BY TypeParts DEF AloneInv, TypeInv
<1>3. \A n \in Names : canonical'[n] \in {canonical[n], None}
  BY <1>2 DEF RemoveManaged, RestType
<1>4. WorkInv(p)'
  BY <1>1 DEF WorkInv, Working, Removing
<1>5. RecoveryInv(p)'
  BY <1>1, <1>2 DEF RecoveryInv, IsOpen
<1>6. VerifiedIntact' /\ VisibleIsWhole'
  BY <1>1, <1>2, <1>3 DEF VerifiedIntact, Intact, VisibleIsWhole
<1> QED
  BY <1>4, <1>5, <1>6, AloneStep

\* A recovery that has listed every open journal finds none when it is done.
LEMMA DoneAlone ==
  ASSUME AloneInv, Alone, TypeInv', Recorded', NEW p \in Procs, RecoveryDone(p)
  PROVE  AloneInv'
<1>1. /\ UNCHANGED <<journal, tree, canonical>> /\ pc[p] \in Recovering /\ todo[p] = {}
  BY DEF RecoveryDone
<1>2. TypeInv /\ VerifiedIntact /\ VisibleIsWhole /\ RecoveryInv(p)
  BY DEF AloneInv
<1>3. PICK place \in {"fork", "lifecycleAgain", "claim"} : Goto(p, place)
  BY <1>1 DEF RecoveryDone, Recovering
<1>4. place \in Places /\ place \notin Working
  BY DEF Places, Working, Removing
<1>5. CASE place # "claim"
  BY <1>1, <1>3, <1>4, <1>5, QuietStep
<1>6. CASE place = "claim"
  <2>1. pc'[p] = "claim"
    BY <1>2, <1>3, <1>4, <1>6, GotoMoves
  <2>2. \A o \in Ops : ~IsOpen(o)
    BY <1>1, <1>2 DEF RecoveryInv
  <2>3. WorkInv(p)'
    BY <1>1, <2>1, <2>2 DEF WorkInv, Working, IsOpen
  <2>4. RecoveryInv(p)'
    BY <1>1, <1>2, <1>3, <1>4, ListsOpen
  <2>5. VerifiedIntact' /\ VisibleIsWhole'
    BY <1>1, <1>2 DEF VerifiedIntact, Intact, VisibleIsWhole
  <2> QED
    BY <2>3, <2>4, <2>5, AloneStep
<1> QED
  BY <1>5, <1>6

\* A recovery moves one row on: n stands for it on the list, or it is closed.
LEMMA RecoverStep ==
  ASSUME AloneInv, Alone, TypeInv', Recorded', NEW p \in Procs, NEW j \in todo[p], NEW n,
         UNCHANGED <<pc, tree>>, VisibleIsWhole',
         \A x \in Ops \ {j.op} : journal'[x] = journal[x],
         journal'[j.op] # None, journal'[j.op].rev = journal[j.op].rev,
         journal'[j.op].state \in {"verified", "switched"} => journal[j.op].state \in {"verified", "switched"},
         \/ ~IsOpen(j.op)' /\ todo'[p] = todo[p] \ {j}
         \/ /\ n.op = j.op /\ n.rev = j.rev /\ Agree(n.state, journal'[j.op].state)
            /\ todo'[p] = (todo[p] \ {j}) \cup {n}
  PROVE  AloneInv'
<1>1. TypeInv /\ VerifiedIntact /\ RecoveryInv(p) /\ RestType /\ ProcType /\ Informed(p)
  BY TypeParts DEF AloneInv, TypeInv
<1>2. /\ pc'[p] \in Recovering /\ j.op \in Ops /\ journal[j.op].rev = j.rev /\ journal[j.op] # None
      /\ \A k \in todo[p] : k.op \in Ops /\ (k.op = j.op => k = j)
  BY <1>1 DEF RecoveryInv, Informed, ProcType, Listed
<1>3. VerifiedIntact'
  BY <1>1, <1>2 DEF VerifiedIntact, Intact
<1>4. WorkInv(p)'
  BY <1>2 DEF WorkInv, Working, Recovering
<1>5. \A k \in todo[p] \ {j} : /\ k.op # j.op /\ k.op \in Ops /\ journal'[k.op] = journal[k.op]
                              /\ journal[k.op].rev = k.rev /\ Agree(k.state, journal[k.op].state)
  BY <1>1, <1>2 DEF RecoveryInv
<1>6. \A o \in Ops \ {j.op} : IsOpen(o)' => \E k \in todo[p] \ {j} : k.op = o
  BY <1>1 DEF RecoveryInv, IsOpen
<1>7. \A k, l \in todo[p] : k.op = l.op => k = l
  BY <1>1 DEF RecoveryInv
<1>8. RecoveryInv(p)'
  <2>1. CASE ~IsOpen(j.op)' /\ todo'[p] = todo[p] \ {j}
    <3>1. \A o \in Ops : IsOpen(o)' => \E k \in todo'[p] : k.op = o
      BY <1>6, <2>1
    <3>2. \A k \in todo'[p] : journal'[k.op].rev = k.rev /\ Agree(k.state, journal'[k.op].state)
      BY <1>5, <2>1
    <3>3. \A k, l \in todo'[p] : k.op = l.op => k = l
      BY <1>7, <2>1
    <3> QED
      BY <1>2, <3>1, <3>2, <3>3 DEF RecoveryInv
  <2>2. CASE /\ n.op = j.op /\ n.rev = j.rev /\ Agree(n.state, journal'[j.op].state)
             /\ todo'[p] = (todo[p] \ {j}) \cup {n}
    <3>1. \A o \in Ops : IsOpen(o)' => \E k \in todo'[p] : k.op = o
      BY <1>6, <2>2
    <3>2. \A k \in todo'[p] : journal'[k.op].rev = k.rev /\ Agree(k.state, journal'[k.op].state)
      BY <1>2, <1>5, <2>2
    <3>3. \A k, l \in todo'[p] : k.op = l.op => k = l
      BY <1>5, <1>7, <2>2
    <3> QED
      BY <1>2, <3>1, <3>2, <3>3 DEF RecoveryInv
  <2> QED
    BY <2>1, <2>2
<1> QED
  BY <1>3, <1>4, <1>8, AloneStep

\* The row and the list after a recovery has moved the row on.
LEMMA ListMoves ==
  ASSUME ProcType, NEW p \in Procs, NEW j \in todo[p], NEW state
  PROVE  /\ Handled(p, j) => todo'[p] = todo[p] \ {j}
         /\ Relist(p, j, state) => \E n : /\ n.op = j.op /\ n.rev = j.rev /\ n.state = state
                                          /\ todo'[p] = (todo[p] \ {j}) \cup {n}
<1>1. j \in Listed /\ todo \in [Procs -> SUBSET Listed]
  BY DEF ProcType
<1> DEFINE n == [j EXCEPT !.state = state]
<1>2. n.op = j.op /\ n.rev = j.rev /\ n.state = state
  BY <1>1 DEF Listed
<1>3. /\ Handled(p, j) => todo'[p] = todo[p] \ {j}
      /\ Relist(p, j, state) => todo'[p] = (todo[p] \ {j}) \cup {n}
  BY <1>1 DEF Handled, Relist
<1> HIDE DEF n
<1> QED
  BY <1>2, <1>3

LEMMA RecoverAlone ==
  ASSUME AloneInv, Alone, TypeInv', Recorded', NEW p \in Procs, NEW j \in todo[p],
         \/ RecoverDeleteStage(p, j) \/ RecoverDiscard(p, j)
         \/ RecoverSwitch(p, j) \/ RecoverMark(p, j) \/ RecoverComplete(p, j)
  PROVE  AloneInv'
<1>1. /\ TypeInv /\ VerifiedIntact /\ VisibleIsWhole /\ RecoveryInv(p)
      /\ RestType /\ ProcType /\ Informed(p)
  BY TypeParts DEF AloneInv, TypeInv
<1>2. /\ pc[p] \in Recovering /\ j.op \in Ops /\ journal[j.op] # None /\ j.rev \in Revs
      /\ journal[j.op].rev = j.rev /\ Agree(j.state, journal[j.op].state)
  BY <1>1 DEF RecoveryInv, Informed, ProcType, Listed
<1>3. "idle" \in Places \ Working /\ "idle" # "claim"
  BY DEF Places, Working
<1>4. CASE Return(p) /\ UNCHANGED <<journal, tree, canonical>>
  BY <1>3, <1>4, QuietStep DEF Return
<1>5. CASE RecoverDeleteStage(p, j)
  <2>1. UNCHANGED <<journal, tree, canonical, pc>> /\ j.state \in {"planned", "staged"} /\ Relist(p, j, "deleting")
    BY <1>5 DEF RecoverDeleteStage
  <2>2. PICK n : /\ n.op = j.op /\ n.rev = j.rev /\ n.state = "deleting"
                 /\ todo'[p] = (todo[p] \ {j}) \cup {n}
    BY <1>1, <2>1, ListMoves
  <2>3. Agree(n.state, journal'[j.op].state)
    BY <1>2, <2>1, <2>2 DEF Agree
  <2>4. VisibleIsWhole'
    BY <1>1, <2>1 DEF VisibleIsWhole
  <2> QED
    BY <1>2, <2>1, <2>2, <2>3, <2>4, RecoverStep
<1>6. CASE RecoverDiscard(p, j)
  <2>1. UNCHANGED <<tree, canonical, pc>> /\ j.state = "deleting" /\ Handled(p, j)
    BY <1>6 DEF RecoverDiscard
  <2>2. journal[j.op].state \in {"planned", "staged"}
    BY <1>2, <2>1 DEF Agree
  <2>3. PICK o \in Ops : o = j.op
    BY <1>2
  <2>4. SetJournal(o, "discarded")
    BY <1>6, <2>2, <2>3 DEF RecoverDiscard
  <2>5. "discarded" \in JournalState
    BY DEF JournalState
  <2>6. /\ journal'[o] # None /\ journal'[o].state = "discarded" /\ journal'[o].rev = journal[o].rev
        /\ \A x \in Ops \ {o} : journal'[x] = journal[x]
    BY <1>1, <1>2, <2>3, <2>4, <2>5, SetJournalKeeps
  <2>7. ~IsOpen(j.op)' /\ todo'[p] = todo[p] \ {j}
    BY <1>1, <2>1, <2>3, <2>6, ListMoves DEF IsOpen
  <2>8. VisibleIsWhole'
    BY <1>1, <2>1 DEF VisibleIsWhole
  <2> QED
    BY <2>1, <2>3, <2>6, <2>7, <2>8, RecoverStep
<1>7. CASE RecoverSwitch(p, j) /\ tree[j.rev] # "absent"
  <2>1. UNCHANGED tree /\ j.state = "verified" /\ canonical' = [canonical EXCEPT ![Name[j.rev]] = j.rev]
        /\ RecoverAdvance(p, j, "verified", "switched", "marking")
    BY <1>7 DEF RecoverSwitch
  <2>2. journal[j.op].state = "verified"
    BY <1>2, <2>1 DEF Agree
  <2>3. PICK o \in Ops : o = j.op
    BY <1>2
  <2>4. SetJournal(o, "switched") /\ Relist(p, j, "marking") /\ UNCHANGED pc
    BY <2>1, <2>2, <2>3 DEF RecoverAdvance
  <2>5. "switched" \in JournalState
    BY DEF JournalState
  <2>6. /\ journal'[o] # None /\ journal'[o].state = "switched" /\ journal'[o].rev = journal[o].rev
        /\ \A x \in Ops \ {o} : journal'[x] = journal[x]
    BY <1>1, <1>2, <2>3, <2>4, <2>5, SetJournalKeeps
  <2>7. PICK n : /\ n.op = j.op /\ n.rev = j.rev /\ n.state = "marking"
                 /\ todo'[p] = (todo[p] \ {j}) \cup {n}
    BY <1>1, <2>4, ListMoves
  <2>8. Agree(n.state, journal'[j.op].state)
    BY <2>3, <2>6, <2>7 DEF Agree
  <2>9. VisibleIsWhole'
    <3>1. Intact(j.rev)
      BY <1>1, <1>2, <2>2 DEF VerifiedIntact
    <3>2. \A m \in Names : canonical'[m] \in {canonical[m], j.rev}
      BY <1>1, <2>1 DEF RestType
    <3> QED
      BY <1>1, <2>1, <3>1, <3>2 DEF VisibleIsWhole, Intact
  <2> QED
    BY <2>1, <2>2, <2>3, <2>4, <2>6, <2>7, <2>8, <2>9, RecoverStep
<1>8. CASE RecoverMark(p, j)
  <2>1. UNCHANGED <<journal, tree, canonical>> /\ j.state \in {"switched", "marking"}
    BY <1>8 DEF RecoverMark
  <2>2. CASE Relist(p, j, "marked") /\ UNCHANGED pc
    <3>1. PICK n : /\ n.op = j.op /\ n.rev = j.rev /\ n.state = "marked"
                   /\ todo'[p] = (todo[p] \ {j}) \cup {n}
      BY <1>1, <2>2, ListMoves
    <3>2. Agree(n.state, journal'[j.op].state)
      BY <1>2, <2>1, <3>1 DEF Agree
    <3>3. VisibleIsWhole'
      BY <1>1, <2>1 DEF VisibleIsWhole
    <3> QED
      BY <1>2, <2>1, <2>2, <3>1, <3>2, <3>3, RecoverStep
  <2> QED
    BY <1>4, <1>8, <2>1, <2>2 DEF RecoverMark
<1>9. CASE RecoverComplete(p, j)
  <2>1. UNCHANGED <<tree, canonical>> /\ j.state = "marked"
        /\ RecoverAdvance(p, j, "switched", "complete", "complete")
    BY <1>9 DEF RecoverComplete
  <2>2. journal[j.op].state = "switched"
    BY <1>2, <2>1 DEF Agree
  <2>3. PICK o \in Ops : o = j.op
    BY <1>2
  <2>4. SetJournal(o, "complete") /\ Handled(p, j) /\ UNCHANGED pc
    BY <2>1, <2>2, <2>3 DEF RecoverAdvance
  <2>5. "complete" \in JournalState
    BY DEF JournalState
  <2>6. /\ journal'[o] # None /\ journal'[o].state = "complete" /\ journal'[o].rev = journal[o].rev
        /\ \A x \in Ops \ {o} : journal'[x] = journal[x]
    BY <1>1, <1>2, <2>3, <2>4, <2>5, SetJournalKeeps
  <2>7. ~IsOpen(j.op)' /\ todo'[p] = todo[p] \ {j}
    BY <1>1, <2>3, <2>4, <2>6, ListMoves DEF IsOpen
  <2>8. VisibleIsWhole'
    BY <1>1, <2>1 DEF VisibleIsWhole
  <2> QED
    BY <2>1, <2>3, <2>4, <2>6, <2>7, <2>8, RecoverStep
<1> QED
  BY <1>4, <1>5, <1>6, <1>7, <1>8, <1>9 DEF RecoverSwitch

\* What is known of the process at work.
LEMMA AtWork ==
  ASSUME AloneInv, NEW p \in Procs, pc[p] \in Working
  PROVE  /\ TypeInv /\ VerifiedIntact /\ VisibleIsWhole /\ WorkInv(p) /\ RestType /\ ProcType
         /\ op[p] \in Ops /\ journal[op[p]] # None /\ journal[op[p]].rev = want[p] /\ want[p] \in Revs
         /\ journal[op[p]].state = StateAt(pc[p]) /\ \A o \in Ops : IsOpen(o) => o = op[p]
<1>1. TypeInv /\ VerifiedIntact /\ VisibleIsWhole /\ WorkInv(p) /\ RestType /\ ProcType /\ OpOwned(p)
  BY TypeParts DEF AloneInv, TypeInv
<1>2. /\ op[p] \in Ops /\ journal[op[p]] # None /\ journal[op[p]].rev = want[p]
      /\ journal[op[p]].state = StateAt(pc[p]) /\ \A o \in Ops : IsOpen(o) => o = op[p]
  BY <1>1 DEF OpOwned, WorkInv
<1>3. journal[op[p]] \in Journal
  BY <1>1, <1>2 DEF RestType
<1> QED
  BY <1>1, <1>2, <1>3 DEF Journal

\* Before the generation is verified, no journal vouches for any.
LEMMA NoneVerified ==
  ASSUME AloneInv, NEW p \in Procs, pc[p] \in Working, StateAt(pc[p]) \in {"planned", "staged"},
         UNCHANGED journal
  PROVE  VerifiedIntact'
<1>1. /\ op[p] \in Ops /\ journal[op[p]].state \in {"planned", "staged"}
      /\ \A o \in Ops : IsOpen(o) => o = op[p]
  BY AtWork
<1> QED
  BY <1>1 DEF VerifiedIntact, IsOpen

\* A step from one place of the materialization to the next that leaves the
\* journal alone.
LEMMA WorkStep ==
  ASSUME AloneInv, Alone, TypeInv', Recorded', NEW p \in Procs, pc[p] \in Working, UNCHANGED <<journal, want, op>>,
         NEW place \in Working, Goto(p, place), StateAt(place) = StateAt(pc[p]),
         VerifiedIntact', VisibleIsWhole',
         place \in {"clear", "clearing"} => canonical'[Name[want[p]]] # want[p],
         place \in {"write", "writing"} => tree'[want[p]] = "absent",
         place \in {"wrote", "verify"} => tree'[want[p]] \notin {"partial", "headless"},
         place = "rename" => tree'[want[p]] = "absent" /\ stage'[op[p]] = "whole",
         place = "renamed" => Intact(want[p])'
  PROVE  AloneInv'
<1>1. /\ TypeInv /\ journal[op[p]].state = StateAt(pc[p]) /\ \A o \in Ops : IsOpen(o) => o = op[p]
  BY AtWork
<1>2. place \in Places /\ place # "claim"
  BY DEF Places, Working
<1>3. RecoveryInv(p)'
  BY <1>1, <1>2, ListsOpen
<1>4. pc'[p] = place
  BY <1>1, <1>2, GotoMoves
<1>5. /\ \A o \in Ops : IsOpen(o)' => o = op'[p]
      /\ journal'[op'[p]].state = StateAt(place)
  BY <1>1 DEF IsOpen
<1>6. WorkInv(p)'
  BY <1>2, <1>4, <1>5 DEF WorkInv, Intact
<1> QED
  BY <1>3, <1>6, AloneStep

LEMMA ReturnAlone ==
  ASSUME AloneInv, Alone, TypeInv', Recorded', NEW p \in Procs, Return(p), UNCHANGED <<journal, tree, canonical>>
  PROVE  AloneInv'
<1>1. "idle" \in Places \ Working /\ "idle" # "claim"
  BY DEF Places, Working
<1> QED
  BY <1>1, QuietStep DEF Return

\* A materialization begins when no journal is open.
LEMMA ClaimAlone ==
  ASSUME AloneInv, Alone, TypeInv', Recorded', NEW p \in Procs, ClaimLease(p)
  PROVE  AloneInv'
<1>1. /\ TypeInv /\ VerifiedIntact /\ VisibleIsWhole /\ WorkInv(p) /\ RestType /\ ProcType /\ Informed(p)
      /\ UNCHANGED <<tree, canonical>> /\ pc[p] = "claim"
  BY TypeParts DEF AloneInv, TypeInv, ClaimLease
<1>2. CASE Return(p) /\ UNCHANGED journal
  BY <1>1, <1>2, ReturnAlone
<1>3. CASE ~(Return(p) /\ UNCHANGED journal)
  <2>1. PICK o \in Ops :
          /\ journal[o] = None /\ op' = [op EXCEPT ![p] = o]
          /\ journal' = [journal EXCEPT ![o] = [rev |-> want[p], state |-> "planned"]]
          /\ Goto(p, "check")
    BY <1>3 DEF ClaimLease
  <2>2. \A x \in Ops : ~IsOpen(x)
    BY <1>1 DEF WorkInv
  <2>3. /\ journal'[o].state = "planned" /\ \A x \in Ops \ {o} : journal'[x] = journal[x]
        /\ op'[p] = o
    BY <1>1, <2>1 DEF RestType, ProcType
  <2>4. \A x \in Ops : IsOpen(x)' => x = o
    BY <2>2, <2>3 DEF IsOpen
  <2>5. "check" \in Places /\ "check" \in Working /\ "check" \notin Recovering
    BY DEF Places, Working, Recovering
  <2>6. pc'[p] = "check" /\ todo'[p] = {}
    BY <1>1, <2>1, <2>5, GotoMoves
  <2>7. RecoveryInv(p)'
    BY <2>5, <2>6 DEF RecoveryInv
  <2>8. WorkInv(p)'
    BY <2>3, <2>4, <2>6 DEF WorkInv, StateAt
  <2>9. VerifiedIntact' /\ VisibleIsWhole'
    BY <1>1, <2>2, <2>3 DEF VerifiedIntact, VisibleIsWhole, Intact, IsOpen
  <2> QED
    BY <2>7, <2>8, <2>9, AloneStep
<1> QED
  BY <1>2, <1>3

\* update_materialization_journal always finds the state it expects.
LEMMA AdvanceAlone ==
  ASSUME AloneInv, Alone, TypeInv', Recorded', NEW p \in Procs,
         RecordStaged(p) \/ RecordVerified(p) \/ RecordSwitched(p)
  PROVE  AloneInv'
<1>1. PICK from, next, place :
        /\ \/ pc[p] = "wrote" /\ from = "planned" /\ next = "staged" /\ place = "verify"
           \/ pc[p] = "renamed" /\ from = "staged" /\ next = "verified" /\ place = "switch"
           \/ pc[p] = "switched" /\ from = "verified" /\ next = "switched" /\ place = "mark"
        /\ Advance(p, from, next, place)
  BY DEF RecordStaged, RecordVerified, RecordSwitched
<1>2. /\ pc[p] \in Working /\ place \in Places /\ place \in Working /\ place \notin Recovering
      /\ StateAt(pc[p]) = from /\ StateAt(place) = next /\ next \in JournalState
  BY <1>1 DEF Working, Places, Recovering, StateAt, JournalState
<1>3. /\ TypeInv /\ VerifiedIntact /\ VisibleIsWhole /\ WorkInv(p) /\ RestType /\ ProcType
      /\ op[p] \in Ops /\ journal[op[p]] # None /\ journal[op[p]].rev = want[p] /\ want[p] \in Revs
      /\ journal[op[p]].state = from /\ \A o \in Ops : IsOpen(o) => o = op[p]
  BY <1>2, AtWork
<1>4. PICK o \in Ops : o = op[p]
  BY <1>3
<1>5. SetJournal(o, next) /\ Goto(p, place) /\ UNCHANGED <<want, op, canonical, tree, stage>>
  BY <1>1, <1>3, <1>4 DEF Advance
<1>6. /\ journal'[o] # None /\ journal'[o].state = next /\ journal'[o].rev = journal[o].rev
      /\ \A x \in Ops \ {o} : journal'[x] = journal[x]
  BY <1>2, <1>3, <1>4, <1>5, SetJournalKeeps
<1>7. pc'[p] = place /\ todo'[p] = {}
  BY <1>2, <1>3, <1>5, GotoMoves
<1>8. RecoveryInv(p)'
  BY <1>2, <1>7 DEF RecoveryInv
<1>9. \A x \in Ops : IsOpen(x)' => x = op'[p]
  BY <1>3, <1>4, <1>5, <1>6 DEF IsOpen
<1>10. next \in {"verified", "switched"} => Intact(want[p])
  BY <1>1, <1>3 DEF WorkInv, VerifiedIntact
<1>11. place = "verify" => tree[want[p]] \notin {"partial", "headless"}
  BY <1>1, <1>3 DEF WorkInv
<1>12. WorkInv(p)'
  BY <1>1, <1>2, <1>4, <1>5, <1>6, <1>7, <1>9, <1>11 DEF WorkInv
<1>13. VerifiedIntact' /\ VisibleIsWhole'
  BY <1>3, <1>4, <1>5, <1>6, <1>10 DEF VerifiedIntact, VisibleIsWhole, Intact
<1> QED
  BY <1>8, <1>12, <1>13, AloneStep

LEMMA MaterializeAlone ==
  ASSUME AloneInv, Alone, TypeInv', Recorded', NEW p \in Procs,
         \/ CheckGeneration(p) \/ ClearGeneration(p) \/ WriteStage(p) \/ VerifyStage(p)
         \/ RenameStage(p) \/ SwitchLink(p) \/ MarkMaterialized(p)
  PROVE  AloneInv'
<1>1. pc[p] \in Working /\ UNCHANGED journal
  BY DEF CheckGeneration, ClearGeneration, WriteStage, VerifyStage, RenameStage, SwitchLink,
       MarkMaterialized, Working
<1>2. /\ TypeInv /\ VerifiedIntact /\ VisibleIsWhole /\ WorkInv(p)
      /\ op[p] \in Ops /\ journal[op[p]] # None /\ journal[op[p]].rev = want[p] /\ want[p] \in Revs
      /\ journal[op[p]].state = StateAt(pc[p])
      /\ tree \in [Revs -> {"absent", "clean", "dirty", "broken", "partial", "headless"}]
      /\ stage \in [Ops -> {"none", "whole", "partial"}]
      /\ canonical \in [Names -> Revs \cup {None}]
      /\ \A n \in Names : canonical[n] # None => Name[canonical[n]] = n
  BY <1>1, AtWork DEF RestType
<1>3. UNCHANGED <<tree, canonical>> => VerifiedIntact' /\ VisibleIsWhole'
  BY <1>1, <1>2 DEF VerifiedIntact, VisibleIsWhole, Intact
<1>4. CASE Return(p) /\ UNCHANGED <<tree, canonical>>
  BY <1>1, <1>4, ReturnAlone
<1>5. CASE CheckGeneration(p)
  <2>1. pc[p] = "check" /\ UNCHANGED <<tree, canonical>>
    BY <1>5 DEF CheckGeneration
  <2>2. CASE ~Return(p)
    <3>1. PICK place \in {"write", "wrote", "clear"} :
            /\ Goto(p, place) /\ UNCHANGED <<want, op>>
            /\ place = "write" => tree[want[p]] = "absent"
            /\ place = "wrote" => tree[want[p]] = "clean"
            /\ place = "clear" => canonical[Name[want[p]]] # want[p]
      BY <1>5, <2>2 DEF CheckGeneration, GenerationReady, ActiveGeneration
    <3>2. place \in Working /\ StateAt(place) = StateAt(pc[p])
      BY <2>1 DEF Working, StateAt
    <3> QED
      BY <1>1, <1>3, <2>1, <3>1, <3>2, WorkStep
  <2> QED
    BY <1>4, <2>1, <2>2
<1>6. CASE ClearGeneration(p)
  <2>1. /\ pc[p] \in {"clear", "clearing"} /\ UNCHANGED <<canonical, want, op>>
        /\ canonical[Name[want[p]]] # want[p] /\ StateAt(pc[p]) = "planned"
    BY <1>2, <1>6 DEF ClearGeneration, WorkInv, StateAt
  <2>2. /\ \A r \in Revs \ {want[p]} : tree'[r] = tree[r]
        /\ pc[p] = "clearing" => tree'[want[p]] = "absent"
    BY <1>2, <1>6 DEF ClearGeneration
  <2>3. VerifiedIntact'
    BY <1>1, <2>1, NoneVerified
  <2>4. VisibleIsWhole'
    BY <1>2, <2>1, <2>2 DEF VisibleIsWhole
  <2>5. PICK place \in {"write", "clearing"} : Goto(p, place) /\ (place = "write" <=> pc[p] = "clearing")
    BY <1>6 DEF ClearGeneration
  <2>6. place \in Working /\ StateAt(place) = "planned"
    BY DEF Working, StateAt
  <2> QED
    BY <1>1, <2>1, <2>2, <2>3, <2>4, <2>5, <2>6, WorkStep
<1>7. CASE WriteStage(p)
  <2>1. /\ pc[p] \in {"write", "writing"} /\ UNCHANGED <<canonical, tree, want, op>>
        /\ tree[want[p]] = "absent"
    BY <1>2, <1>7 DEF WriteStage, WorkInv
  <2>2. PICK place \in {"wrote", "writing"} : Goto(p, place)
    BY <1>7 DEF WriteStage
  <2>3. place \in Working /\ StateAt(place) = StateAt(pc[p])
    BY <2>1 DEF Working, StateAt
  <2> QED
    BY <1>1, <1>3, <2>1, <2>2, <2>3, WorkStep
<1>8. CASE VerifyStage(p)
  <2>1. /\ pc[p] = "verify" /\ UNCHANGED <<canonical, tree, stage>>
        /\ tree[want[p]] \notin {"partial", "headless"}
    BY <1>2, <1>8 DEF VerifyStage, WorkInv
  <2>2. CASE ~Return(p)
    <3>1. PICK place \in {"rename", "renamed"} :
            /\ Goto(p, place) /\ UNCHANGED <<want, op>>
            /\ place = "rename" => tree[want[p]] = "absent" /\ stage[op[p]] = "whole"
            /\ place = "renamed" => tree[want[p]] # "absent"
      BY <1>8, <2>2 DEF VerifyStage, Verified
    <3>2. place \in Working /\ StateAt(place) = StateAt(pc[p])
      BY <2>1 DEF Working, StateAt
    <3>3. place = "renamed" => Intact(want[p])'
      BY <1>2, <2>1, <3>1 DEF Intact
    <3> QED
      BY <1>1, <1>3, <2>1, <3>1, <3>2, <3>3, WorkStep
  <2> QED
    BY <1>4, <2>1, <2>2
<1>9. CASE RenameStage(p)
  <2>1. /\ pc[p] = "rename" /\ UNCHANGED canonical /\ tree[want[p]] = "absent" /\ stage[op[p]] = "whole"
        /\ StateAt(pc[p]) = "staged"
    BY <1>2, <1>9 DEF RenameStage, WorkInv, StateAt
  <2>2. /\ tree' = [tree EXCEPT ![want[p]] = "clean"] /\ Goto(p, "renamed") /\ UNCHANGED <<want, op>>
    BY <1>9, <2>1 DEF RenameStage
  <2>3. VerifiedIntact'
    BY <1>1, <2>1, NoneVerified
  <2>4. tree'[want[p]] = "clean" /\ \A r \in Revs \ {want[p]} : tree'[r] = tree[r]
    BY <1>2, <2>2
  <2>5. VisibleIsWhole' /\ Intact(want[p])'
    BY <1>2, <2>1, <2>2, <2>4 DEF VisibleIsWhole, Intact
  <2>6. "renamed" \in Working /\ StateAt("renamed") = "staged"
    BY DEF Working, StateAt
  <2> QED
    BY <1>1, <2>1, <2>2, <2>3, <2>5, <2>6, WorkStep
<1>10. CASE SwitchLink(p)
  <2>1. /\ pc[p] = "switch" /\ UNCHANGED <<tree, want, op>> /\ Goto(p, "switched")
        /\ \A n \in Names : canonical'[n] \in {canonical[n], want[p]}
        /\ StateAt(pc[p]) = "verified"
    BY <1>2, <1>10 DEF SwitchLink, StateAt
  <2>2. Intact(want[p])
    BY <1>2, <2>1 DEF VerifiedIntact
  <2>3. VerifiedIntact' /\ VisibleIsWhole'
    BY <1>1, <1>2, <2>1, <2>2 DEF VerifiedIntact, VisibleIsWhole, Intact
  <2>4. "switched" \in Working /\ StateAt("switched") = "verified"
    BY DEF Working, StateAt
  <2> QED
    BY <1>1, <2>1, <2>3, <2>4, WorkStep
<1>11. CASE MarkMaterialized(p)
  <2>1. pc[p] = "mark" /\ UNCHANGED <<tree, canonical>> /\ StateAt(pc[p]) = "switched"
    BY <1>11 DEF MarkMaterialized, StateAt
  <2>2. "marked" \in Working /\ StateAt("marked") = "switched"
    BY DEF Working, StateAt
  <2>3. CASE ~Return(p)
    <3>1. Goto(p, "marked") /\ UNCHANGED <<want, op>>
      BY <1>11, <2>3 DEF MarkMaterialized
    <3> QED
      BY <1>1, <1>3, <2>1, <2>2, <3>1, WorkStep
  <2> QED
    BY <1>4, <2>1, <2>3
<1> QED
  BY <1>5, <1>6, <1>7, <1>8, <1>9, <1>10, <1>11

LEMMA CompleteAlone ==
  ASSUME AloneInv, Alone, TypeInv', Recorded', NEW p \in Procs, CompleteJournal(p)
  PROVE  AloneInv'
<1>1. pc[p] = "marked" /\ pc[p] \in Working /\ StateAt(pc[p]) = "switched" /\ UNCHANGED <<tree, canonical>>
  BY DEF CompleteJournal, Working, StateAt
<1>2. /\ TypeInv /\ VerifiedIntact /\ VisibleIsWhole /\ RestType
      /\ op[p] \in Ops /\ journal[op[p]] # None /\ journal[op[p]].state = "switched"
  BY <1>1, AtWork
<1>3. PICK o \in Ops : o = op[p]
  BY <1>2
<1>4. SetJournal(o, "complete") /\ Goto(p, "links")
  BY <1>2, <1>3 DEF CompleteJournal
<1>5. "complete" \in JournalState /\ "links" \in Places /\ "links" \notin Recovering \cup Working
  BY DEF JournalState, Places, Recovering, Working
<1>6. journal'[o].state = "complete" /\ \A x \in Ops \ {o} : journal'[x] = journal[x]
  BY <1>2, <1>3, <1>4, <1>5, SetJournalKeeps
<1>7. pc'[p] = "links" /\ todo'[p] = {}
  BY <1>2, <1>4, <1>5, GotoMoves
<1>8. RecoveryInv(p)' /\ WorkInv(p)'
  BY <1>5, <1>7 DEF RecoveryInv, WorkInv
<1>9. VerifiedIntact' /\ VisibleIsWhole'
  BY <1>1, <1>2, <1>6 DEF VerifiedIntact, VisibleIsWhole, Intact
<1> QED
  BY <1>8, <1>9, AloneStep

\* The inductive invariant of the only process.
LEMMA AloneKept ==
  ASSUME AloneInv, Alone, [Next]_vars
  PROVE  AloneInv'
<1>1. TypeInv' /\ Recorded'
  BY TypesKept, RecordedKept DEF AloneInv
<1>2. CASE UNCHANGED vars
  BY <1>1, <1>2 DEF vars, AloneInv, VerifiedIntact, VisibleIsWhole, Intact, RecoveryInv, WorkInv, IsOpen
<1>3. CASE \E p \in Procs : Step(p) \/ Crash(p) \/ DownloadFails(p)
  <2>1. PICK p \in Procs : Step(p) \/ Crash(p) \/ DownloadFails(p)
    BY <1>3
  <2>2. CASE Recover(p)
    BY <1>1, <2>2, RecoverAlone, DoneAlone DEF Recover
  <2>3. CASE Materialize(p)
    BY <1>1, <2>3, ClaimAlone, AdvanceAlone, MaterializeAlone, CompleteAlone DEF Materialize
  <2> QED
    BY <1>1, <2>1, <2>2, <2>3, SyncAlone, RemoveAlone DEF Step
<1> QED
  BY <1>1, <1>2, <1>3, OutsideAlone DEF Next

\* While one process at a time syncs, every journal that recover_materializations
\* or materialize_skill_snapshot works on is in the state it expects, whatever
\* crashed before, and a verified generation stays whole.
THEOREM AloneInvariance == ASSUME Alone PROVE Spec => []AloneInv
<1>1. Init => AloneInv
  <2> SUFFICES ASSUME Init PROVE AloneInv
    OBVIOUS
  <2>1. VerifiedIntact /\ VisibleIsWhole
    BY DEF Init, VerifiedIntact, VisibleIsWhole
  <2>2. \A p \in Procs : RecoveryInv(p) /\ WorkInv(p)
    BY DEF Init, RecoveryInv, WorkInv, IsOpen, Recovering, Working
  <2> QED
    BY <2>1, <2>2, InitTypes DEF AloneInv
<1>2. AloneInv /\ [Next]_vars => AloneInv'
  BY AloneKept
<1> QED
  BY <1>1, <1>2, PTL DEF Spec

\* The canonical link of a device whose syncs do not overlap never points to a
\* missing or half-deleted generation, at whichever step a sync crashes.
THEOREM VisibleWhole == ASSUME Alone PROVE Spec => []VisibleIsWhole
<1>1. AloneInv => VisibleIsWhole
  BY DEF AloneInv
<1> QED
  BY <1>1, AloneInvariance, PTL

\* Nor does such a device ever delete files under an edit the user can see.
THEOREM EditKept == ASSUME Alone PROVE Spec => VisibleEditKept
<1>1. ASSUME AloneInv, [Next]_vars, NEW n \in Names, canonical[n] # None, tree[canonical[n]] \in {"dirty", "broken"}
      PROVE  tree'[canonical[n]] \in {"dirty", "broken"}
  <2>1. TypeInv /\ RestType
    BY <1>1, TypeParts DEF AloneInv, TypeInv
  <2> DEFINE r == canonical[n]
  <2>2. /\ r \in Revs /\ Name[r] = n /\ tree[r] \in {"dirty", "broken"}
        /\ tree \in [Revs -> {"absent", "clean", "dirty", "broken", "partial", "headless"}]
    BY <1>1, <2>1 DEF RestType
  <2> HIDE DEF r
  <2> SUFFICES tree'[r] \in {"dirty", "broken"}
    BY DEF r
  <2>3. CASE UNCHANGED tree
    BY <2>2, <2>3
  <2>4. CASE UserEdits
    <3>1. PICK m \in Names, edit \in {"dirty", "broken"} : tree' = [tree EXCEPT ![canonical[m]] = edit]
      BY <2>4 DEF UserEdits
    <3> QED
      BY <2>2, <3>1
  <2>5. ASSUME NEW p \in Procs, ClearGeneration(p)
        PROVE  tree'[r] \in {"dirty", "broken"}
    <3>1. canonical[Name[want[p]]] # want[p]
      BY <1>1, <2>5 DEF ClearGeneration, AloneInv, WorkInv
    <3>2. r # want[p]
      BY <2>2, <3>1 DEF r
    <3>3. tree' = [tree EXCEPT ![want[p]] = tree'[want[p]]]
      BY <2>2, <2>5 DEF ClearGeneration
    <3> QED
      BY <2>2, <3>2, <3>3
  <2>6. ASSUME NEW p \in Procs, RenameStage(p)
        PROVE  tree'[r] \in {"dirty", "broken"}
    <3>1. UNCHANGED tree \/ (tree[want[p]] = "absent" /\ tree' = [tree EXCEPT ![want[p]] = tree'[want[p]]])
      BY <2>2, <2>6 DEF RenameStage
    <3> QED
      BY <2>2, <3>1
  <2>7. CASE \E p \in Procs : Step(p) \/ Crash(p) \/ DownloadFails(p)
    <3>1. PICK p \in Procs : Step(p) \/ Crash(p) \/ DownloadFails(p)
      BY <2>7
    <3>2. CASE Recover(p)
      <4>1. UNCHANGED tree
        BY <3>2 DEF Recover, RecoverDeleteStage, RecoverDiscard, RecoverSwitch, RecoverMark, RecoverComplete,
             RecoveryDone
      <4> QED
        BY <2>3, <4>1
    <3>3. CASE Materialize(p) /\ ~ClearGeneration(p) /\ ~RenameStage(p)
      <4>1. UNCHANGED tree
        BY <3>3 DEF Materialize, ClaimLease, CheckGeneration, WriteStage, RecordStaged, VerifyStage,
             RecordVerified, SwitchLink, RecordSwitched, MarkMaterialized, CompleteJournal, Advance
      <4> QED
        BY <2>3, <4>1
    <3>4. CASE ~Recover(p) /\ ~Materialize(p)
      <4>1. UNCHANGED tree
        BY <3>1, <3>4 DEF Step, StartSync, RemoveManaged, NothingToRemove, ProtectEdits, CreateFork,
             ReplaceSubscription, Reconcile, RemoveEnded, UpsertDesired, RemoveRenamed, ApplyDesired,
             OpenRemoval, DownloadSnapshot, ReadLinks, SweepLinks, Crash, DownloadFails
      <4> QED
        BY <2>3, <4>1
    <3> QED
      BY <2>5, <2>6, <3>2, <3>3, <3>4
  <2>8. CASE LeaseExpires \/ Publish \/ ChangeSubscription \/ UNCHANGED vars
    <3>1. UNCHANGED tree
      BY <2>8 DEF LeaseExpires, Publish, ChangeSubscription, vars
    <3> QED
      BY <2>3, <3>1
  <2> QED
    BY <1>1, <2>4, <2>7, <2>8 DEF Next
<1>2. AloneInv /\ [Next]_vars =>
        [\A n \in Names : canonical[n] # None /\ tree[canonical[n]] \in {"dirty", "broken"}
                          => tree'[canonical[n]] \in {"dirty", "broken"}]_vars
  BY <1>1
<1> QED
  BY <1>2, AloneInvariance, PTL DEF Spec, VisibleEditKept
=============================================================================
