-------------------------- MODULE WorkspaceSyncProofs --------------------------
(* Proofs about WorkspaceSync, for every set of devices and edits, every      *)
(* relation of overlapping edits and every bound.                             *)
EXTENDS WorkspaceSync, FiniteSetTheorems, SequenceTheorems, TLAPS

\* What the registry and the devices hold was numbered before the next UUID,
\* which is why no generation outgrows the UUIDs.
RowFresh(row) == row.gen < nextId /\ row.rev.op \in Ids
ConflictFresh(c) == c.gen < nextId
ReplyFresh(r) == IF r.state = "advanced" THEN r.gen <= nextId ELSE ConflictFresh(r.conflict)
RemoteFresh(m) == m.gen <= nextId /\ (m.open # None => ConflictFresh(m.open))

\* An operation keeps the row it was prepared with, and what was decided is
\* stored.
OperationInv(o) ==
    operations[o] # None =>
        /\ RowFresh(operations[o].row) /\ operations[o].row.rev.op = o
        /\ operations[o].outcome # None =>
             ReplyFresh(operations[o].outcome) /\ operations[o].row.rev \in stored

\* The open conflict is between the head and a stored save that was made on
\* its base.
OpenInv ==
    /\ ConflictFresh(open) /\ open.active = head
    /\ \A h \in open.heads \ {head} :
         /\ h.op \in Ids /\ operations[h.op] # None
         /\ operations[h.op].row.rev = h /\ operations[h.op].row.head = open.base

RegistryInv ==
    /\ gen <= nextId
    /\ \A o \in Ids : OperationInv(o)
    /\ head.op # 0 => operations[head.op] # None /\ operations[head.op].outcome # None
    /\ open # None => OpenInv

\* What SQLite holds of the skill: a recorded save is queued or stored, and a
\* clean workspace has nothing queued if one process works on it at a time.
StoreInv(d) ==
    /\ base[d] <= nextId
    /\ \A i \in DOMAIN queue[d] : RowFresh(queue[d][i])
    /\ local[d] # None => ConflictFresh(local[d].conflict)
    /\ \A r \in recorded[d] :
         r \in stored \/ \E i \in DOMAIN queue[d] : queue[d][i].rev = r
    /\ d \notin Background /\ status[d] = "clean" => queue[d] = <<>>

Uploading == {"prepared", "answered", "detached", "saved", "refresh"}
Informed == {"owned", "kept", "merge", "cleared", "noneQueued", "someQueued", "upserted", "download",
             "switched"}

\* What a sync carries from one request to the next is still true of the
\* registry when it uses it.
RunInv(d) ==
    LET r == run[d] IN
    /\ \A i \in DOMAIN r.todo : RowFresh(r.todo[i])
    /\ r.reply # None => ReplyFresh(r.reply)
    /\ r.remote # None => RemoteFresh(r.remote)
    /\ r.at \in Uploading => r.todo # <<>>
    /\ r.at = "prepared" => /\ operations[Current(d).rev.op] # None
                            /\ operations[Current(d).rev.op].row = Current(d)
    /\ r.at = "answered" => r.reply # None /\ Current(d).rev \in stored
    /\ r.at = "detached" => r.reply # None /\ r.reply.state = "diverged"
    /\ r.at \in Informed => r.remote # None
    /\ r.at \in {"kept", "merge"} => r.remote.open # None

\* The process that captures is the one that syncs, so nothing is queued
\* between its count of the queue and the status it writes.
AloneInv(d) ==
    /\ scan[d] # None /\ scan[d].at # "abandoned" => run[d].at = "capture"
    /\ scan[d] # None /\ scan[d].at = "setting" /\ scan[d].status = "clean" => queue[d] = <<>>
    /\ run[d].at = "noneQueued" => queue[d] = <<>>

\* What a capture has read was numbered before the next UUID, too.
CarriedFresh(d) ==
    /\ scan[d].at \in {"stated", "compared"} => scan[d].state.base <= nextId
    /\ scan[d].at = "compared" => scan[d].conflict = None \/ ConflictFresh(scan[d].conflict.conflict)
    /\ scan[d].at = "enqueuing" => RowFresh(scan[d].row)

ScanInv(d) ==
    /\ scan[d] # None => CarriedFresh(d)
    /\ d \notin Background => AloneInv(d)

IndInv ==
    /\ TypeOK /\ RegistryInv
    /\ \A d \in Devices : StoreInv(d) /\ RunInv(d) /\ ScanInv(d)
-------------------------------------------------------------------------------
(* The queue of a device *)

\* A row is inserted behind the rows of its generation and before the others.
LEMMA EnqueuedKeeps ==
  ASSUME NEW q \in Seq(Row), NEW row \in Row
  PROVE  /\ Enqueued(q, row) \in Seq(Row)
         /\ \A i \in DOMAIN Enqueued(q, row) :
              Enqueued(q, row)[i] = row \/ \E j \in DOMAIN q : Enqueued(q, row)[i] = q[j]
         /\ \A j \in DOMAIN q : \E i \in DOMAIN Enqueued(q, row) : Enqueued(q, row)[i] = q[j]
         /\ \E i \in DOMAIN Enqueued(q, row) : Enqueued(q, row)[i] = row
<1> DEFINE S == {i \in DOMAIN q : q[i].gen <= row.gen}
           n == Cardinality(S)
           x == SubSeq(q, 1, n)
           y == SubSeq(q, n + 1, Len(q))
<1>1. n \in 0..Len(q)
  <2>1. IsFiniteSet(1..Len(q)) /\ Cardinality(1..Len(q)) = Len(q)
    <3>1. Len(q) \in Nat
      OBVIOUS
    <3> HIDE DEF S
    <3> QED
      BY <3>1, FS_Interval
  <2>2. S \subseteq 1..Len(q)
    OBVIOUS
  <2> HIDE DEF S
  <2>3. Cardinality(S) <= Cardinality(1..Len(q)) /\ IsFiniteSet(S)
    BY <2>1, <2>2, FS_Subset
  <2> QED
    BY <2>1, <2>3, FS_CardinalityType
<1>2. Enqueued(q, row) = x \o <<row>> \o y
  <2> HIDE DEF S
  <2>1. Enqueued(q, row) = SubSeq(q, 1, (n + 1) - 1) \o <<row>> \o SubSeq(q, n + 1, Len(q))
    BY DEF Enqueued, InsertAt, S
  <2>2. (n + 1) - 1 = n
    BY <1>1
  <2> QED
    BY <2>1, <2>2
<1> HIDE DEF n
<1>3. x \in Seq(Row) /\ Len(x) = n /\ \A i \in 1..n : x[i] = q[i]
  <2>1. \A i \in 1..n : q[i] \in Row
    BY <1>1
  <2> QED
    BY <1>1, <2>1, SubSeqProperties, Z3
<1>4. y \in Seq(Row) /\ Len(y) = Len(q) - n /\ \A i \in 1..(Len(q) - n) : y[i] = q[n + i]
  <2>1. \A i \in (n + 1)..Len(q) : q[i] \in Row
    BY <1>1
  <2>2. n + 1 \in Int /\ Len(q) \in Int
    BY <1>1
  <2>3. /\ y \in Seq(Row)
        /\ Len(y) = IF n + 1 <= Len(q) THEN Len(q) - (n + 1) + 1 ELSE 0
        /\ \A i \in 1..(Len(q) - (n + 1) + 1) : y[i] = q[(n + 1) + i - 1]
    BY <2>1, <2>2, SubSeqProperties
  <2> HIDE DEF y
  <2> QED
    BY <1>1, <2>3
<1> DEFINE w == x \o <<row>>
           z == w \o y
<1> HIDE DEF x, y
<1>w. /\ w \in Seq(Row) /\ Len(w) = n + 1
      /\ \A i \in 1..n : w[i] = q[i]
      /\ w[n + 1] = row
  <2>1. <<row>> \in Seq(Row) /\ Len(<<row>>) = 1 /\ <<row>>[1] = row
    OBVIOUS
  <2>2. /\ w \in Seq(Row) /\ Len(w) = Len(x) + 1
        /\ \A i \in 1..(Len(x) + 1) : w[i] = IF i <= Len(x) THEN x[i] ELSE <<row>>[i - Len(x)]
    BY <2>1, <1>3, ConcatProperties
  <2> HIDE DEF w
  <2>3. \A i \in 1..n : w[i] = q[i]
    BY <2>2, <1>1, <1>3
  <2>4. w[n + 1] = <<row>>[(n + 1) - n] /\ (n + 1) - n = 1
    BY <2>2, <1>1, <1>3
  <2> QED
    BY <2>1, <2>2, <2>3, <2>4, <1>3
<1> HIDE DEF w
<1>z. /\ z \in Seq(Row) /\ Len(z) = Len(w) + Len(y)
      /\ \A i \in 1..(Len(w) + Len(y)) : z[i] = IF i <= Len(w) THEN w[i] ELSE y[i - Len(w)]
  BY <1>w, <1>4, ConcatProperties
<1> HIDE DEF z
<1>5. z \in Seq(Row) /\ Len(z) = Len(q) + 1
  BY <1>1, <1>w, <1>4, <1>z
<1>6. \A i \in 1..n : z[i] = q[i]
  BY <1>1, <1>w, <1>4, <1>z
<1>7. z[n + 1] = row
  <2>1. n + 1 \in 1..(Len(w) + Len(y)) /\ n + 1 <= Len(w)
    BY <1>1, <1>w, <1>4
  <2> QED
    BY <2>1, <1>w, <1>z
<1>8. \A i \in (n + 2)..(Len(q) + 1) : z[i] = q[i - 1]
  <2> SUFFICES ASSUME NEW i \in (n + 2)..(Len(q) + 1) PROVE z[i] = q[i - 1]
    OBVIOUS
  <2>1. z[i] = y[i - (n + 1)]
    <3>1. i \in 1..(Len(w) + Len(y)) /\ ~(i <= Len(w)) /\ Len(w) = n + 1
      BY <1>1, <1>w, <1>4
    <3> QED
      BY <3>1, <1>z
  <2>2. i - (n + 1) \in 1..(Len(q) - n) /\ n + (i - (n + 1)) = i - 1
    BY <1>1
  <2> QED
    BY <2>1, <2>2, <1>4
<1>9. \A i \in DOMAIN z : z[i] = row \/ \E j \in DOMAIN q : z[i] = q[j]
  <2> SUFFICES ASSUME NEW i \in DOMAIN z PROVE z[i] = row \/ \E j \in DOMAIN q : z[i] = q[j]
    OBVIOUS
  <2>1. i \in 1..(Len(q) + 1)
    BY <1>5
  <2>2. CASE i \in 1..n
    BY <2>2, <1>6, <1>1
  <2>3. CASE i = n + 1
    BY <2>3, <1>7
  <2>4. CASE i \in (n + 2)..(Len(q) + 1)
    <3>1. i - 1 \in DOMAIN q
      BY <2>4, <1>1
    <3> QED
      BY <3>1, <2>4, <1>8
  <2> QED
    BY <1>1, <2>1, <2>2, <2>3, <2>4
<1>10. \A j \in DOMAIN q : \E i \in DOMAIN z : z[i] = q[j]
  <2> SUFFICES ASSUME NEW j \in DOMAIN q PROVE \E i \in DOMAIN z : z[i] = q[j]
    OBVIOUS
  <2>1. CASE j <= n
    <3>1. j \in 1..n /\ j \in DOMAIN z
      BY <2>1, <1>1, <1>5
    <3> QED
      BY <3>1, <1>6
  <2>2. CASE j > n
    <3>1. j + 1 \in (n + 2)..(Len(q) + 1) /\ j + 1 \in DOMAIN z /\ (j + 1) - 1 = j
      BY <2>2, <1>1, <1>5
    <3> QED
      BY <3>1, <1>8
  <2> QED
    BY <2>1, <2>2, <1>1
<1>11. \E i \in DOMAIN z : z[i] = row
  <2>1. n + 1 \in DOMAIN z
    BY <1>1, <1>5
  <2> QED
    BY <2>1, <1>7
<1> QED
  BY <1>2, <1>5, <1>9, <1>10, <1>11 DEF z, w

\* Only the given row leaves the queue.
LEMMA WithoutKeeps ==
  ASSUME NEW q \in Seq(Row), NEW row
  PROVE  /\ Without(q, row) \in Seq(Row)
         /\ \A i \in DOMAIN Without(q, row) : \E j \in DOMAIN q : Without(q, row)[i] = q[j]
         /\ \A j \in DOMAIN q : q[j] # row =>
              \E i \in DOMAIN Without(q, row) : Without(q, row)[i] = q[j]
         /\ q = <<>> => Without(q, row) = <<>>
<1>1. CASE ~\E i \in DOMAIN q : q[i] = row
  BY <1>1 DEF Without
<1>2. CASE \E i \in DOMAIN q : q[i] = row
  <2> DEFINE k == CHOOSE i \in DOMAIN q : q[i] = row
             z == SubSeq(q, 1, k - 1) \o SubSeq(q, k + 1, Len(q))
  <2>1. k \in 1..Len(q) /\ q[k] = row
    BY <1>2
  <2>2. Without(q, row) = z
    BY <1>2 DEF Without, RemoveAt
  <2> HIDE DEF k
  <2> DEFINE x == SubSeq(q, 1, k - 1)
             y == SubSeq(q, k + 1, Len(q))
  <2>x. x \in Seq(Row) /\ Len(x) = k - 1 /\ \A i \in 1..(k - 1) : x[i] = q[i]
    <3>1. (\A i \in 1..(k - 1) : q[i] \in Row) /\ k - 1 \in Int /\ 1 \in Int
      BY <2>1
    <3>2. /\ x \in Seq(Row)
          /\ Len(x) = IF 1 <= k - 1 THEN (k - 1) - 1 + 1 ELSE 0
          /\ \A i \in 1..((k - 1) - 1 + 1) : x[i] = q[1 + i - 1]
      BY <3>1, SubSeqProperties
    <3> HIDE DEF x
    <3> QED
      BY <2>1, <3>2
  <2>y. y \in Seq(Row) /\ Len(y) = Len(q) - k /\ \A i \in 1..(Len(q) - k) : y[i] = q[k + i]
    <3>1. (\A i \in (k + 1)..Len(q) : q[i] \in Row) /\ k + 1 \in Int /\ Len(q) \in Int
      BY <2>1
    <3>2. /\ y \in Seq(Row)
          /\ Len(y) = IF k + 1 <= Len(q) THEN Len(q) - (k + 1) + 1 ELSE 0
          /\ \A i \in 1..(Len(q) - (k + 1) + 1) : y[i] = q[(k + 1) + i - 1]
      BY <3>1, SubSeqProperties
    <3> HIDE DEF y
    <3> QED
      BY <2>1, <3>2
  <2>z. /\ z \in Seq(Row) /\ Len(z) = Len(x) + Len(y)
        /\ \A i \in 1..(Len(x) + Len(y)) : z[i] = IF i <= Len(x) THEN x[i] ELSE y[i - Len(x)]
    <3>1. z = x \o y
      OBVIOUS
    <3> HIDE DEF x, y, z
    <3> QED
      BY <3>1, <2>x, <2>y, ConcatProperties
  <2> HIDE DEF x, y, z
  <2>3. z \in Seq(Row) /\ Len(z) = Len(q) - 1
    BY <2>1, <2>x, <2>y, <2>z
  <2>4. \A i \in 1..(k - 1) : z[i] = q[i]
    <3> SUFFICES ASSUME NEW i \in 1..(k - 1) PROVE z[i] = q[i]
      OBVIOUS
    <3>1. i \in 1..(Len(x) + Len(y)) /\ i <= Len(x)
      BY <2>1, <2>x, <2>y
    <3> QED
      BY <3>1, <2>x, <2>z
  <2>5. \A i \in k..(Len(q) - 1) : z[i] = q[i + 1]
    <3> SUFFICES ASSUME NEW i \in k..(Len(q) - 1) PROVE z[i] = q[i + 1]
      OBVIOUS
    <3>1. z[i] = y[i - (k - 1)]
      <4>1. i \in 1..(Len(x) + Len(y)) /\ ~(i <= Len(x)) /\ Len(x) = k - 1
        BY <2>1, <2>x, <2>y
      <4> QED
        BY <4>1, <2>z
    <3>2. i - (k - 1) \in 1..(Len(q) - k) /\ k + (i - (k - 1)) = i + 1
      BY <2>1
    <3> QED
      BY <3>1, <3>2, <2>y
  <2>6. \A i \in DOMAIN z : \E j \in DOMAIN q : z[i] = q[j]
    <3> SUFFICES ASSUME NEW i \in DOMAIN z PROVE \E j \in DOMAIN q : z[i] = q[j]
      OBVIOUS
    <3>1. i \in 1..(Len(q) - 1)
      BY <2>3
    <3>2. CASE i < k
      BY <3>1, <3>2, <2>1, <2>4
    <3>3. CASE i >= k
      <4>1. i \in k..(Len(q) - 1) /\ i + 1 \in DOMAIN q
        BY <3>1, <3>3, <2>1
      <4> QED
        BY <4>1, <2>5
    <3> QED
      BY <3>1, <3>2, <3>3, <2>1
  <2>7. ASSUME NEW j \in DOMAIN q, q[j] # row
        PROVE  \E i \in DOMAIN z : z[i] = q[j]
    <3>1. CASE j < k
      <4>1. j \in 1..(k - 1) /\ j \in DOMAIN z
        BY <3>1, <2>1, <2>3
      <4> QED
        BY <4>1, <2>4
    <3>2. CASE j > k
      <4>1. j - 1 \in k..(Len(q) - 1) /\ j - 1 \in DOMAIN z /\ (j - 1) + 1 = j
        BY <3>2, <2>1, <2>3
      <4> QED
        BY <4>1, <2>5
    <3> QED
      BY <2>7, <2>1, <3>1, <3>2
  <2>8. q # <<>>
    BY <2>1
  <2> QED
    BY <2>2, <2>3, <2>6, <2>7, <2>8
<1> QED
  BY <1>1, <1>2
-------------------------------------------------------------------------------
(* Frames: what a step leaves alone stays true *)

\* UUIDs, stored revisions and prepared operations only accumulate.
Grows ==
    /\ nextId <= nextId' /\ stored \subseteq stored'
    /\ \A o \in Ids : operations[o] # None =>
         operations'[o] # None /\ operations'[o].row = operations[o].row

\* A step of one device leaves the others where they are.
Others(d) ==
    \A e \in Devices \ {d} :
        /\ base'[e] = base[e] /\ queue'[e] = queue[e] /\ local'[e] = local[e]
        /\ recorded'[e] = recorded[e] /\ status'[e] = status[e] /\ run'[e] = run[e]
        /\ scan'[e] = scan[e]

\* A step of the sync of d, beside its captures.
Apart(d) ==
    /\ scan' = scan /\ run[d].at # "capture"
    /\ run'[d].at = "noneQueued" => queue'[d] = <<>>

LEMMA NumbersType ==
  /\ MaxIds \in Nat /\ Ids \subseteq Nat /\ Gens \subseteq Nat /\ 0 \notin Ids
  /\ \A r \in Row : r.gen \in Nat /\ r.rev \in Rev /\ r.head \in Rev /\ r.rev.op \in 0..MaxIds
  /\ \A c \in Conflict : c.gen \in Nat
  BY WorkspaceSyncAssumption DEF Ids, Gens, Row, Rev, Conflict

LEMMA FreshStays ==
  ASSUME nextId \in Nat, nextId' \in Nat, nextId <= nextId'
  PROVE  /\ \A row \in Row : RowFresh(row) => RowFresh(row)'
         /\ \A c \in Conflict : ConflictFresh(c) => ConflictFresh(c)'
         /\ \A r \in Reply : ReplyFresh(r) => ReplyFresh(r)'
         /\ \A m \in Remote : RemoteFresh(m) => RemoteFresh(m)'
<1>1. \A row \in Row : RowFresh(row) => RowFresh(row)'
  BY NumbersType DEF RowFresh
<1>2. \A c \in Conflict : ConflictFresh(c) => ConflictFresh(c)'
  BY NumbersType DEF ConflictFresh
<1>3. ASSUME NEW r \in Reply, ReplyFresh(r)
      PROVE  ReplyFresh(r)'
  <2>1. CASE r.state = "advanced"
    <3>1. r.gen \in Nat
      BY <2>1, NumbersType DEF Reply
    <3> QED
      BY <3>1, <2>1, <1>3 DEF ReplyFresh
  <2>2. CASE r.state # "advanced"
    <3>1. r.conflict \in Conflict
      BY <2>2 DEF Reply
    <3> QED
      BY <3>1, <2>2, <1>2, <1>3 DEF ReplyFresh
  <2> QED
    BY <2>1, <2>2
<1>4. ASSUME NEW m \in Remote, RemoteFresh(m)
      PROVE  RemoteFresh(m)'
  <2>1. m.gen \in Nat /\ (m.open # None => m.open \in Conflict)
    BY NumbersType DEF Remote
  <2> QED
    BY <2>1, <1>2, <1>4 DEF RemoteFresh
<1> QED
  BY <1>1, <1>2, <1>3, <1>4

LEMMA NextIdType ==
  ASSUME TypeOK
  PROVE  nextId \in Nat /\ gen \in Nat /\ \A d \in Devices : base[d] \in Nat
  BY WorkspaceSyncAssumption DEF TypeOK, Gens

\* What a sync carries and the queue are rows.
LEMMA RowsType ==
  ASSUME TypeOK, NEW d \in Devices
  PROVE  /\ run[d] \in Run /\ run[d].todo \in Seq(Row) /\ queue[d] \in Seq(Row)
         /\ \A i \in DOMAIN run[d].todo : run[d].todo[i] \in Row
         /\ \A i \in DOMAIN queue[d] : queue[d][i] \in Row
         /\ run[d].todo # <<>> => Current(d) \in Row /\ 1 \in DOMAIN run[d].todo
                                  /\ Current(d) = run[d].todo[1]
<1>1. run[d] \in Run /\ queue[d] \in Seq(Row)
  BY DEF TypeOK
<1>2. run[d].todo \in Seq(Row)
  BY <1>1 DEF Run
<1>3. ASSUME NEW q \in Seq(Row)
      PROVE  /\ \A i \in DOMAIN q : q[i] \in Row
             /\ q # <<>> => Head(q) \in Row /\ 1 \in DOMAIN q /\ Head(q) = q[1]
  OBVIOUS
<1> QED
  BY <1>1, <1>2, <1>3 DEF Current

LEMMA RunFrame ==
  ASSUME TypeOK, TypeOK', Grows, NEW d \in Devices, RunInv(d), run'[d] = run[d]
  PROVE  RunInv(d)'
<1> DEFINE r == run[d]
<1>1. nextId \in Nat /\ nextId' \in Nat /\ nextId <= nextId'
  BY NextIdType DEF Grows, TypeOK, Gens
<1>2. \A i \in DOMAIN r.todo : RowFresh(r.todo[i])'
  BY <1>1, FreshStays, RowsType DEF RunInv
<1>3. r.reply # None => ReplyFresh(r.reply)'
  <2>1. r.reply # None => r.reply \in Reply
    BY RowsType DEF Run
  <2> QED
    BY <2>1, <1>1, FreshStays DEF RunInv
<1>4. r.remote # None => RemoteFresh(r.remote)'
  <2>1. r.remote # None => r.remote \in Remote
    BY RowsType DEF Run
  <2> QED
    BY <2>1, <1>1, FreshStays DEF RunInv
<1>5. r.at = "prepared" => /\ operations'[Head(r.todo).rev.op] # None
                           /\ operations'[Head(r.todo).rev.op].row = Head(r.todo)
  <2> SUFFICES ASSUME r.at = "prepared" PROVE /\ operations'[Head(r.todo).rev.op] # None
                                              /\ operations'[Head(r.todo).rev.op].row = Head(r.todo)
    OBVIOUS
  <2>1. r.todo # <<>> /\ operations[Head(r.todo).rev.op] # None
        /\ operations[Head(r.todo).rev.op].row = Head(r.todo)
    BY DEF RunInv, Uploading, Current
  <2>2. Head(r.todo).rev.op \in Ids
    BY <2>1, RowsType DEF RunInv, RowFresh, Current
  <2> QED
    BY <2>1, <2>2 DEF Grows
<1>6. r.at = "answered" => r.reply # None /\ Head(r.todo).rev \in stored'
  BY DEF RunInv, Grows, Current
<1> QED
  BY <1>2, <1>3, <1>4, <1>5, <1>6 DEF RunInv, Current, Uploading, Informed, RowFresh, ReplyFresh, RemoteFresh

LEMMA StoreFrame ==
  ASSUME TypeOK, TypeOK', Grows, NEW d \in Devices, StoreInv(d),
         base'[d] = base[d], queue'[d] = queue[d], local'[d] = local[d],
         recorded'[d] = recorded[d], status'[d] = status[d]
  PROVE  StoreInv(d)'
<1>1. nextId \in Nat /\ nextId' \in Nat /\ nextId <= nextId' /\ base[d] \in Nat
  BY NextIdType DEF Grows, TypeOK, Gens
<1>2. \A i \in DOMAIN queue[d] : RowFresh(queue[d][i])'
  BY <1>1, FreshStays, RowsType DEF StoreInv
<1>3. local[d] # None => ConflictFresh(local[d].conflict)'
  <2>1. local[d] # None => local[d].conflict \in Conflict
    BY DEF TypeOK, LocalConflict
  <2> QED
    BY <2>1, <1>1, FreshStays DEF StoreInv
<1> QED
  BY <1>1, <1>2, <1>3 DEF StoreInv, Grows, RowFresh, ConflictFresh

\* What a capture carries, by where it is.
LEMMA CarriedType ==
  ASSUME TypeOK, NEW d \in Devices, scan[d] # None
  PROVE  /\ scan[d] \in Capturing
         /\ scan[d].at \in {"scanned", "stated", "compared"} => scan[d].tree \in Trees
         /\ scan[d].at \in {"stated", "compared"} => scan[d].state \in State
         /\ scan[d].at = "compared" => scan[d].conflict \in LocalConflict \cup {None}
         /\ scan[d].at = "setting" => scan[d].status \in Status
         /\ scan[d].at = "enqueuing" => scan[d].row \in Row
<1>1. scan[d] \in Capturing
  BY DEF TypeOK
<1> QED
  BY <1>1 DEF Capturing

LEMMA CarriedStays ==
  ASSUME TypeOK, NEW d \in Devices, ScanInv(d), scan'[d] = scan[d], nextId <= nextId', nextId' \in Nat,
         scan[d] # None
  PROVE  CarriedFresh(d)'
<1>1. nextId \in Nat
  BY NextIdType
<1>2. CarriedFresh(d)
  BY DEF ScanInv
<1>3. ASSUME scan[d].at \in {"stated", "compared"}
      PROVE  scan[d].state.base <= nextId'
  <2>1. scan[d].state.base \in Nat
    BY <1>3, CarriedType, NumbersType DEF State
  <2> QED
    BY <1>1, <1>2, <1>3, <2>1 DEF CarriedFresh
<1>4. ASSUME scan[d].at = "compared", scan[d].conflict # None
      PROVE  ConflictFresh(scan[d].conflict.conflict)'
  <2>1. scan[d].conflict.conflict \in Conflict /\ ConflictFresh(scan[d].conflict.conflict)
    BY <1>2, <1>4, CarriedType DEF LocalConflict, CarriedFresh
  <2>2. scan[d].conflict.conflict.gen \in Nat /\ scan[d].conflict.conflict.gen < nextId
    BY <2>1, NumbersType DEF ConflictFresh
  <2> QED
    BY <1>1, <2>2 DEF ConflictFresh
<1>5. ASSUME scan[d].at = "enqueuing"
      PROVE  RowFresh(scan[d].row)'
  <2>1. scan[d].row \in Row /\ RowFresh(scan[d].row)
    BY <1>2, <1>5, CarriedType DEF CarriedFresh
  <2>2. scan[d].row.gen \in Nat /\ scan[d].row.gen < nextId /\ scan[d].row.rev.op \in Ids
    BY <2>1, NumbersType DEF RowFresh
  <2> QED
    BY <1>1, <2>2 DEF RowFresh
<1> QED
  BY <1>3, <1>4, <1>5 DEF CarriedFresh

LEMMA ScanFrame ==
  ASSUME TypeOK, NEW d \in Devices, ScanInv(d), scan'[d] = scan[d], nextId <= nextId', nextId' \in Nat,
         run'[d] = run[d], queue'[d] = queue[d]
  PROVE  ScanInv(d)'
<1>1. scan'[d] # None => CarriedFresh(d)'
  BY CarriedStays
<1> QED
  BY <1>1 DEF ScanInv, AloneInv

LEMMA ApartScan ==
  ASSUME TypeOK, NEW d \in Devices, ScanInv(d), Apart(d), nextId <= nextId', nextId' \in Nat
  PROVE  ScanInv(d)'
<1>1. scan'[d] # None => CarriedFresh(d)'
  BY CarriedStays DEF Apart
<1>2. d \notin Background => AloneInv(d)'
  BY DEF ScanInv, AloneInv, Apart
<1> QED
  BY <1>1, <1>2 DEF ScanInv

LEMMA RegistryFrame ==
  ASSUME TypeOK, TypeOK', RegistryInv, nextId <= nextId', UNCHANGED registry
  PROVE  RegistryInv' /\ Grows
<1>1. nextId \in Nat /\ nextId' \in Nat /\ gen \in Nat
  BY NextIdType DEF TypeOK, Gens
<1>2. Grows
  BY DEF Grows, registry
<1>3. ASSUME NEW o \in Ids
      PROVE  OperationInv(o)'
  <2>1. operations[o] # None => /\ operations[o].row \in Row
                                /\ operations[o].outcome # None => operations[o].outcome \in Reply
    BY DEF TypeOK, Operation
  <2>2. OperationInv(o)
    BY DEF RegistryInv
  <2>3. operations[o] # None =>
          /\ RowFresh(operations[o].row)'
          /\ operations[o].outcome # None => ReplyFresh(operations[o].outcome)'
    <3> USE <1>1, <2>1, <2>2, FreshStays
    <3>1. ASSUME operations[o] # None PROVE RowFresh(operations[o].row)
      BY <3>1 DEF OperationInv
    <3>2. ASSUME operations[o] # None, operations[o].outcome # None PROVE ReplyFresh(operations[o].outcome)
      BY <3>2 DEF OperationInv
    <3> QED
      BY <3>1, <3>2 DEF registry
  <2> QED
    BY <2>2, <2>3 DEF OperationInv, registry
<1>4. open # None => OpenInv'
  <2>1. open # None => open \in Conflict /\ OpenInv
    BY DEF TypeOK, RegistryInv
  <2>2. open # None => ConflictFresh(open)'
    BY <2>1, <1>1, FreshStays DEF OpenInv, registry
  <2> QED
    BY <2>1, <2>2 DEF OpenInv, registry
<1> QED
  BY <1>1, <1>2, <1>3, <1>4 DEF RegistryInv, registry

\* A step of device d keeps the invariant if it keeps what d has.
LEMMA StepKeeps ==
  ASSUME IndInv, TypeOK', Grows, NEW d \in Devices, Others(d),
         RegistryInv', StoreInv(d)', RunInv(d)', ScanInv(d)'
  PROVE  IndInv'
<1>1. ASSUME NEW e \in Devices, e # d
      PROVE  StoreInv(e)' /\ RunInv(e)' /\ ScanInv(e)'
  <2>1. /\ base'[e] = base[e] /\ queue'[e] = queue[e] /\ local'[e] = local[e]
        /\ recorded'[e] = recorded[e] /\ status'[e] = status[e] /\ run'[e] = run[e]
        /\ scan'[e] = scan[e]
    BY <1>1 DEF Others
  <2>2. TypeOK /\ StoreInv(e) /\ RunInv(e) /\ ScanInv(e)
    BY DEF IndInv
  <2>3. nextId <= nextId' /\ nextId' \in Nat
    BY NextIdType DEF Grows, TypeOK
  <2>4. ScanInv(e)'
    BY <2>1, <2>2, <2>3, ScanFrame
  <2> QED
    BY <2>1, <2>2, <2>4, RunFrame, StoreFrame
<1> QED
  BY <1>1 DEF IndInv
\* Most steps leave the registry alone.
LEMMA LocalStep ==
  ASSUME IndInv, TypeOK', UNCHANGED registry, nextId <= nextId', NEW d \in Devices, Others(d),
         Apart(d), StoreInv(d)', RunInv(d)'
  PROVE  IndInv'
<1>1. TypeOK /\ RegistryInv /\ ScanInv(d)
  BY DEF IndInv
<1>2. ScanInv(d)'
  <2>1. nextId' \in Nat
    BY WorkspaceSyncAssumption DEF TypeOK
  <2> QED
    BY <1>1, <2>1, ApartScan
<1> QED
  BY <1>1, <1>2, RegistryFrame, StepKeeps

LEMMA IdleType == Idle \in Run /\ [Idle EXCEPT !.at = "catalog"] \in Run
<1>1. <<>> \in Seq(Row) /\ FALSE \in BOOLEAN
  OBVIOUS
<1>2. Idle \in Run
  BY <1>1 DEF Idle, Run, Place
<1> QED
  BY <1>2 DEF Run, Place

LEMMA IdleRun ==
  ASSUME NEW d \in Devices, run'[d] = Idle \/ run'[d] = [Idle EXCEPT !.at = "catalog"]
  PROVE  RunInv(d)'
<1>1. /\ run'[d].todo = <<>> /\ run'[d].reply = None /\ run'[d].remote = None
      /\ run'[d].at \in {"idle", "catalog"}
  BY DEF Idle
<1>2. DOMAIN run'[d].todo = {}
  BY <1>1
<1> QED
  BY <1>1, <1>2 DEF RunInv, Uploading, Informed

\* A step that changes only where the sync of d is.
LEMMA RunStep ==
  ASSUME IndInv, NEW d \in Devices, UNCHANGED <<registry, nextId, folder, database>>,
         UNCHANGED <<edits, recorded, overlap>>, faults' \in 0..MaxFaults, Apart(d),
         run' = [run EXCEPT ![d] = run'[d]], run'[d] \in Run, RunInv(d)'
  PROVE  IndInv'
<1>1. TypeOK
  BY DEF IndInv
<1>2. run' \in [Devices -> Run]
  BY <1>1 DEF TypeOK
<1>3. TypeOK'
  BY <1>1, <1>2 DEF TypeOK, Apart, registry, folder, database, wsState
<1>4. Others(d)
  <2>1. \A e \in Devices \ {d} : run'[e] = run[e]
    BY <1>1 DEF TypeOK
  <2> QED
    BY <2>1 DEF Others, Apart, database, wsState
<1>5. StoreInv(d)'
  <2>1. nextId <= nextId'
    BY <1>1, NextIdType
  <2>2. Grows /\ StoreInv(d)
    BY <1>1, <1>3, <2>1, RegistryFrame DEF IndInv
  <2> QED
    BY <1>1, <1>3, <2>2, StoreFrame DEF database, wsState
<1> QED
  BY <1>1, <1>3, <1>4, <1>5, NextIdType, LocalStep

LEMMA StopStep ==
  ASSUME IndInv, NEW d \in Devices, UNCHANGED <<registry, nextId, folder, database>>,
         UNCHANGED <<edits, recorded, overlap>>, faults' \in 0..MaxFaults, Apart(d), Stop(d)
  PROVE  IndInv'
<1>1. run' = [run EXCEPT ![d] = Idle] /\ run'[d] = Idle
  BY DEF Stop, IndInv, TypeOK
<1> QED
  BY <1>1, IdleType, IdleRun, RunStep

\* Goto to a place that carries no obligation of its own.
LEMMA GotoRun ==
  ASSUME TypeOK, NEW d \in Devices, NEW place \in Place, Goto(d, place)
  PROVE  /\ run' = [run EXCEPT ![d] = run'[d]] /\ run'[d] \in Run
         /\ run'[d] = [run[d] EXCEPT !.at = place]
         /\ run'[d].at = place /\ run'[d].todo = run[d].todo
         /\ run'[d].reply = run[d].reply /\ run'[d].remote = run[d].remote
         /\ run'[d].merging = run[d].merging
<1>1. run \in [Devices -> Run] /\ run[d] \in Run
  BY DEF TypeOK
<1>2. run'[d] = [run[d] EXCEPT !.at = place] /\ run' = [run EXCEPT ![d] = run'[d]]
  BY <1>1 DEF Goto
<1> QED
  BY <1>1, <1>2 DEF Run

\* While its capture runs, a sync takes no other step.
LEMMA SyncApart ==
  ASSUME TypeOK, NEW d \in Devices,
         \/ ListQueue(d) \/ DrainDone(d) \/ Prepare(d) \/ PrepareRefused(d) \/ OperationReused(d)
         \/ Commit(d) \/ CommitRefused(d) \/ QuotaExceeded(d)
         \/ RecordAdvanced(d) \/ RecordDetached(d) \/ SaveConflict(d) \/ PauseConflict(d)
         \/ Catalog(d) \/ ReconcileSave(d) \/ ReconcilePause(d) \/ ScanFails(d) \/ Refresh(d)
         \/ SettleClear(d) \/ SettleRefused(d) \/ SettleCount(d) \/ SettleResume(d)
         \/ KeepLocalWork(d) \/ AlreadyCurrent(d) \/ Download(d)
         \/ Materialize(d) \/ MaterializeBusy(d) \/ Adopt(d) \/ ClearConflict(d)
  PROVE  Apart(d)
<1>1. run \in [Devices -> Run] /\ run[d] \in Run
  BY DEF TypeOK
<1>2. ASSUME Stop(d) PROVE run'[d].at # "noneQueued"
  BY <1>1, <1>2 DEF Stop, Idle
<1>3. ASSUME NEW place, Goto(d, place) PROVE run'[d].at = place
  BY <1>1, <1>3 DEF Goto, Run
<1>4. ASSUME NEW s, Blocked(d, s) PROVE run'[d].at # "noneQueued" /\ scan' = scan
  BY <1>1, <1>4 DEF Blocked, Idle
<1>5. ASSUME UploadDone(d) PROVE run'[d].at # "noneQueued"
  BY <1>1, <1>5 DEF UploadDone, Run
<1>6. CASE ListQueue(d)
  BY <1>1, <1>6 DEF ListQueue, Apart, Run
<1>7. CASE DrainDone(d)
  BY <1>3, <1>7 DEF DrainDone, Apart
<1>8. CASE Prepare(d)
  BY <1>3, <1>8 DEF Prepare, Apart
<1>9. CASE PrepareRefused(d)
  BY <1>4, <1>9 DEF PrepareRefused, Apart
<1>10. CASE OperationReused(d)
  BY <1>2, <1>10 DEF OperationReused, Apart
<1>11. CASE Commit(d)
  BY <1>1, <1>11 DEF Commit, Apart, Run
<1>12. CASE CommitRefused(d)
  BY <1>4, <1>12 DEF CommitRefused, Apart
<1>13. CASE QuotaExceeded(d)
  BY <1>4, <1>13 DEF QuotaExceeded, Apart
<1>14. CASE RecordAdvanced(d)
  BY <1>5, <1>14 DEF RecordAdvanced, Apart
<1>15. CASE RecordDetached(d)
  BY <1>3, <1>15 DEF RecordDetached, Apart
<1>16. CASE SaveConflict(d)
  BY <1>3, <1>16 DEF SaveConflict, Apart
<1>17. CASE PauseConflict(d)
  BY <1>5, <1>17 DEF PauseConflict, Apart
<1>18. CASE Catalog(d)
  BY <1>1, <1>18 DEF Catalog, Apart, Run
<1>19. CASE ReconcileSave(d)
  BY <1>3, <1>19 DEF ReconcileSave, RemoteConflict, Apart
<1>20. CASE ReconcilePause(d)
  BY <1>2, <1>3, <1>20 DEF ReconcilePause, Apart
<1>21. CASE ScanFails(d)
  BY <1>2, <1>21 DEF ScanFails, Apart
<1>22. CASE Refresh(d)
  BY <1>1, <1>2, <1>22 DEF Refresh, Apart, Run
<1>23. CASE SettleClear(d)
  BY <1>3, <1>23 DEF SettleClear, NoRemoteConflict, Apart
<1>24. CASE SettleRefused(d)
  BY <1>2, <1>24 DEF SettleRefused, NoRemoteConflict, Apart
<1>25. CASE SettleCount(d)
  <2>1. run'[d].at = "noneQueued" => Resumed(d) = "clean"
    BY <1>3, <1>25 DEF SettleCount
  <2> QED
    BY <1>25, <2>1 DEF SettleCount, Resumed, Apart, database
<1>26. CASE SettleResume(d)
  BY <1>3, <1>26 DEF SettleResume, Apart
<1>27. CASE KeepLocalWork(d)
  BY <1>2, <1>27 DEF KeepLocalWork, NoRemoteConflict, Apart
<1>28. CASE AlreadyCurrent(d)
  BY <1>2, <1>28 DEF AlreadyCurrent, ReadyToShow, NoRemoteConflict, Apart
<1>29. CASE Download(d)
  BY <1>3, <1>29 DEF Download, ReadyToShow, NoRemoteConflict, Apart
<1>30. CASE Materialize(d)
  BY <1>3, <1>30 DEF Materialize, Apart
<1>31. CASE MaterializeBusy(d)
  BY <1>2, <1>31 DEF MaterializeBusy, Apart
<1>32. CASE Adopt(d)
  BY <1>2, <1>3, <1>32 DEF Adopt, Apart
<1>33. CASE ClearConflict(d)
  BY <1>2, <1>33 DEF ClearConflict, Apart
<1> QED
  BY <1>6, <1>7, <1>8, <1>9, <1>10, <1>11, <1>12, <1>13, <1>14, <1>15, <1>16, <1>17, <1>18, <1>19,
     <1>20, <1>21, <1>22, <1>23, <1>24, <1>25, <1>26, <1>27, <1>28, <1>29, <1>30, <1>31, <1>32, <1>33

LEMMA RunOnlyKeeps ==
  ASSUME IndInv, NEW d \in Devices, UNCHANGED overlap,
         \/ ListQueue(d) \/ DrainDone(d) \/ OperationReused(d) \/ Catalog(d) \/ ScanFails(d) \/ Refresh(d)
         \/ SettleRefused(d) \/ SettleCount(d) \/ KeepLocalWork(d) \/ Download(d) \/ MaterializeBusy(d)
  PROVE  IndInv'
<1>1. TypeOK /\ RegistryInv /\ StoreInv(d) /\ RunInv(d)
  BY DEF IndInv
<1>a. Apart(d)
  BY <1>1, SyncApart
<1> USE <1>a
<1>2. faults \in 0..MaxFaults
  BY <1>1 DEF TypeOK
<1>3. run \in [Devices -> Run] /\ run[d] \in Run
  BY <1>1 DEF TypeOK
<1>4. CASE DrainDone(d)
  <2>1. Goto(d, "catalog") /\ "catalog" \in Place
    BY <1>4 DEF DrainDone, Place
  <2>2. RunInv(d)'
    BY <2>1, <1>1, <1>4, GotoRun
       DEF DrainDone, RunInv, Uploading, Informed, RowFresh, ReplyFresh, RemoteFresh, ConflictFresh
  <2> QED
    BY <2>1, <2>2, <1>1, <1>2, <1>4, GotoRun, RunStep DEF DrainDone
<1>5. CASE OperationReused(d)
  BY <1>2, <1>5, StopStep DEF OperationReused
<1>6. CASE ScanFails(d)
  BY <1>2, <1>6, StopStep DEF ScanFails
<1>7. CASE SettleRefused(d)
  BY <1>2, <1>7, StopStep DEF SettleRefused
<1>8. CASE KeepLocalWork(d)
  BY <1>2, <1>8, StopStep DEF KeepLocalWork
<1>9. CASE MaterializeBusy(d)
  BY <1>2, <1>9, StopStep DEF MaterializeBusy
<1>10. CASE Download(d)
  <2>1. Goto(d, "download") /\ "download" \in Place
    BY <1>10 DEF Download, Place
  <2>2. run[d].remote # None
    BY <1>1, <1>10 DEF Download, ReadyToShow, NoRemoteConflict, RunInv, Informed
  <2>3. RunInv(d)'
    BY <2>1, <2>2, <1>1, <1>10, GotoRun
       DEF Download, RunInv, Uploading, Informed, RowFresh, ReplyFresh, RemoteFresh, ConflictFresh
  <2> QED
    BY <2>1, <2>3, <1>1, <1>2, <1>10, GotoRun, RunStep DEF Download
<1>11. ASSUME NEW place \in {"owned", "download"},
              run' = [run EXCEPT ![d].at = place, ![d].remote = [head |-> head, gen |-> gen, open |-> open]],
              UNCHANGED <<registry, nextId>>
       PROVE  run' = [run EXCEPT ![d] = run'[d]] /\ run'[d] \in Run /\ RunInv(d)'
  <2> DEFINE m == [head |-> head, gen |-> gen, open |-> open]
  <2>1. m \in Remote
    BY <1>1 DEF TypeOK, Remote
  <2>2. run'[d] = [run[d] EXCEPT !.at = place, !.remote = m]
    BY <1>3, <1>11
  <2>3. run' = [run EXCEPT ![d] = run'[d]]
    BY <1>3, <1>11, <2>2
  <2>4. RemoteFresh(m)
    BY <1>1 DEF RegistryInv, RemoteFresh, OpenInv
  <2>5. m # None
    BY <2>1, NoneIsNoRecord
  <2>6. RemoteFresh(m)'
    BY <2>4, <1>11 DEF RemoteFresh, ConflictFresh, registry
  <2> HIDE DEF m
  <2>7. /\ run'[d] \in Run /\ run'[d].at = place /\ run'[d].todo = run[d].todo
        /\ run'[d].reply = run[d].reply /\ run'[d].remote = m
    BY <2>1, <2>2, <1>3, <1>11 DEF Run, Place
  <2>8. m' = m
    BY <1>11 DEF m, registry
  <2>9. RunInv(d)'
    BY <2>5, <2>6, <2>7, <2>8, <1>1, <1>11
       DEF RunInv, Uploading, Informed, RowFresh, ReplyFresh, ConflictFresh
  <2> QED
    BY <2>3, <2>7, <2>9
<1>12. CASE Catalog(d)
  BY <1>2, <1>11, <1>12, RunStep DEF Catalog
<1>13. CASE Refresh(d)
  <2>1. CASE open = None /\ head = Current(d).rev
    BY <1>2, <1>11, <1>13, <2>1, RunStep DEF Refresh
  <2>2. CASE ~(open = None /\ head = Current(d).rev)
    BY <1>2, <1>13, <2>2, StopStep DEF Refresh
  <2> QED
    BY <2>1, <2>2
<1>14. CASE ListQueue(d)
  <2>1. /\ run'[d] = [run[d] EXCEPT !.at = "drain", !.todo = queue[d]]
        /\ run' = [run EXCEPT ![d] = run'[d]] /\ queue[d] \in Seq(Row)
    BY <1>1, <1>3, <1>14 DEF ListQueue, TypeOK
  <2>2. /\ run'[d] \in Run /\ run'[d].at = "drain" /\ run'[d].todo = queue[d]
        /\ run'[d].reply = run[d].reply /\ run'[d].remote = run[d].remote
    BY <1>3, <2>1 DEF Run, Place
  <2>3. \A i \in DOMAIN queue[d] : RowFresh(queue[d][i])
    BY <1>1 DEF StoreInv
  <2>4. RunInv(d)'
    BY <1>1, <1>14, <2>2, <2>3
       DEF ListQueue, RunInv, Uploading, Informed, RowFresh, ReplyFresh, RemoteFresh, ConflictFresh
  <2> QED
    BY <1>2, <1>14, <2>1, <2>2, <2>4, RunStep DEF ListQueue
<1>15. CASE SettleCount(d)
  <2>1. PICK place \in {"noneQueued", "someQueued"} : Goto(d, place)
    BY <1>15 DEF SettleCount
  <2>2. place \in Place
    BY DEF Place
  <2>3. /\ run' = [run EXCEPT ![d] = run'[d]] /\ run'[d] \in Run
        /\ run'[d].at = place /\ run'[d].todo = run[d].todo
        /\ run'[d].reply = run[d].reply /\ run'[d].remote = run[d].remote
    BY <1>1, <2>1, <2>2, GotoRun
  <2>4. run[d].remote # None
    BY <1>1, <1>15 DEF SettleCount, RunInv, Informed
  <2>5. RunInv(d)'
    BY <1>1, <1>15, <2>3, <2>4
       DEF SettleCount, RunInv, Uploading, Informed, RowFresh, ReplyFresh, RemoteFresh, ConflictFresh
  <2> QED
    BY <1>2, <1>15, <2>3, <2>5, RunStep DEF SettleCount
<1> QED
  BY <1>4, <1>5, <1>6, <1>7, <1>8, <1>9, <1>10, <1>12, <1>13, <1>14, <1>15
-------------------------------------------------------------------------------
(* Steps that end or pause an upload *)

\* A step that leaves the registry, the queue, the records and the conflict
\* alone, and does not call the workspace clean.
LEMMA PauseStep ==
  ASSUME IndInv, NEW d \in Devices, NEW s \in Status, Pause(d, s),
         d \notin Background /\ s = "clean" => queue[d] = <<>>,
         UNCHANGED <<registry, nextId, folder, base, localHead, valid, queue, local>>,
         UNCHANGED <<edits, recorded, overlap>>, faults' \in 0..MaxFaults, Apart(d),
         run' = [run EXCEPT ![d] = run'[d]], run'[d] \in Run, RunInv(d)'
  PROVE  IndInv'
<1>1. TypeOK /\ StoreInv(d)
  BY DEF IndInv
<1>2. run' \in [Devices -> Run] /\ \A e \in Devices \ {d} : run'[e] = run[e]
  BY <1>1 DEF TypeOK
<1>3. /\ status' \in [Devices -> Status] /\ status'[d] = s
      /\ \A e \in Devices \ {d} : status'[e] = status[e]
  BY <1>1 DEF TypeOK, Pause
<1>4. TypeOK'
  BY <1>1, <1>2, <1>3 DEF TypeOK, Apart, registry, folder
<1>5. Others(d)
  BY <1>2, <1>3 DEF Others, Apart
<1>6. StoreInv(d)'
  BY <1>1, <1>3 DEF StoreInv, registry, RowFresh, ConflictFresh
<1> QED
  BY <1>1, <1>4, <1>5, <1>6, NextIdType, LocalStep

LEMMA BlockedStep ==
  ASSUME IndInv, NEW d \in Devices, NEW s \in Status \ {"clean"}, Blocked(d, s),
         UNCHANGED overlap, faults' \in 0..MaxFaults, Apart(d)
  PROVE  IndInv'
<1>1. run \in [Devices -> Run]
  BY DEF IndInv, TypeOK
<1>2. /\ run' = [run EXCEPT ![d] = run'[d]]
      /\ run'[d] = Idle \/ run'[d] = [Idle EXCEPT !.at = "catalog"]
  BY <1>1 DEF Blocked
<1> QED
  BY <1>2, IdleType, IdleRun, PauseStep DEF Blocked

LEMMA RefusedKeeps ==
  ASSUME IndInv, NEW d \in Devices, UNCHANGED overlap,
         PrepareRefused(d) \/ CommitRefused(d) \/ QuotaExceeded(d)
  PROVE  IndInv'
<1>a. Apart(d)
  BY SyncApart DEF IndInv
<1> USE <1>a
<1>1. faults \in 0..MaxFaults
  BY DEF IndInv, TypeOK
<1>2. "conflict" \in Status \ {"clean"} /\ "quota" \in Status \ {"clean"}
  BY DEF Status
<1>3. CASE PrepareRefused(d)
  BY <1>1, <1>2, <1>3, BlockedStep DEF PrepareRefused
<1>4. CASE CommitRefused(d)
  BY <1>1, <1>2, <1>4, BlockedStep DEF CommitRefused
<1>5. CASE QuotaExceeded(d)
  <2>1. faults' \in 0..MaxFaults
    BY <1>1, <1>5, WorkspaceSyncAssumption DEF QuotaExceeded
  <2> QED
    BY <2>1, <1>2, <1>5, BlockedStep DEF QuotaExceeded
<1> QED
  BY <1>3, <1>4, <1>5

\* upload_one returns: the merge still has its row.
LEMMA UploadDoneRun ==
  ASSUME TypeOK, NEW d \in Devices, RunInv(d), run[d].at \in Uploading, UploadDone(d),
         UNCHANGED <<nextId, operations, stored>>
  PROVE  /\ run' = [run EXCEPT ![d] = run'[d]] /\ run'[d] \in Run
         /\ RunInv(d)'
<1>1. run \in [Devices -> Run] /\ run[d] \in Run /\ run[d].todo \in Seq(Row) /\ run[d].todo # <<>>
  BY RowsType DEF TypeOK, RunInv
<1>2. CASE run[d].merging
  <2>1. run'[d] = [run[d] EXCEPT !.at = "refresh", !.reply = None] /\ run' = [run EXCEPT ![d] = run'[d]]
    BY <1>1, <1>2 DEF UploadDone
  <2>2. /\ run'[d] \in Run /\ run'[d].at = "refresh" /\ run'[d].todo = run[d].todo
        /\ run'[d].reply = None /\ run'[d].remote = run[d].remote
    BY <1>1, <2>1 DEF Run, Place
  <2>3. RunInv(d)'
    BY <1>1, <2>2 DEF RunInv, Informed, RowFresh, RemoteFresh, ConflictFresh
  <2> QED
    BY <2>1, <2>2, <2>3
<1>3. CASE ~run[d].merging
  <2>1. /\ run'[d] = [run[d] EXCEPT !.at = "drain", !.reply = None, !.todo = Tail(run[d].todo)]
        /\ run' = [run EXCEPT ![d] = run'[d]]
    BY <1>1, <1>3 DEF UploadDone
  <2>2. /\ Tail(run[d].todo) \in Seq(Row)
        /\ \A i \in DOMAIN Tail(run[d].todo) : i + 1 \in DOMAIN run[d].todo
                                               /\ Tail(run[d].todo)[i] = run[d].todo[i + 1]
    BY <1>1
  <2>3. /\ run'[d] \in Run /\ run'[d].at = "drain" /\ run'[d].todo = Tail(run[d].todo)
        /\ run'[d].reply = None /\ run'[d].remote = run[d].remote
    BY <1>1, <2>1, <2>2 DEF Run, Place
  <2>4. \A i \in DOMAIN run'[d].todo : RowFresh(run'[d].todo[i])
    BY <2>2, <2>3 DEF RunInv
  <2>5. RunInv(d)'
    BY <2>3, <2>4 DEF RunInv, Uploading, Informed, RowFresh, RemoteFresh, ConflictFresh
  <2> QED
    BY <2>1, <2>3, <2>5
<1> QED
  BY <1>2, <1>3

LEMMA PausesKeep ==
  ASSUME IndInv, NEW d \in Devices, UNCHANGED overlap,
         PauseConflict(d) \/ ReconcilePause(d) \/ SettleResume(d)
  PROVE  IndInv'
<1>a. Apart(d)
  BY SyncApart DEF IndInv
<1> USE <1>a
<1>1. TypeOK /\ RegistryInv /\ StoreInv(d) /\ RunInv(d)
  BY DEF IndInv
<1>2. faults \in 0..MaxFaults /\ run \in [Devices -> Run] /\ run[d] \in Run
  BY <1>1 DEF TypeOK
<1>3. "conflict" \in Status /\ "queued" \in Status /\ "clean" \in Status
  BY DEF Status
<1>4. CASE PauseConflict(d)
  <2>1. run[d].at \in Uploading /\ UNCHANGED <<nextId, operations, stored>>
    BY <1>4 DEF PauseConflict, Uploading, registry
  <2>2. run' = [run EXCEPT ![d] = run'[d]] /\ run'[d] \in Run /\ RunInv(d)'
    BY <1>1, <1>4, <2>1, UploadDoneRun DEF PauseConflict
  <2> QED
    BY <1>2, <1>3, <1>4, <2>2, PauseStep DEF PauseConflict
<1>5. CASE ReconcilePause(d)
  <2>1. CASE Stop(d)
    <3>1. run'[d] = Idle /\ run' = [run EXCEPT ![d] = run'[d]]
      BY <1>2, <2>1 DEF Stop
    <3> QED
      BY <1>2, <1>3, <1>5, <3>1, IdleType, IdleRun, PauseStep DEF ReconcilePause
  <2>2. CASE Goto(d, "merge")
    <3>1. "merge" \in Place
      BY DEF Place
    <3>2. /\ run' = [run EXCEPT ![d] = run'[d]] /\ run'[d] \in Run
          /\ run'[d].at = "merge" /\ run'[d].todo = run[d].todo
          /\ run'[d].reply = run[d].reply /\ run'[d].remote = run[d].remote
      BY <1>1, <2>2, <3>1, GotoRun
    <3>3. run[d].remote # None /\ run[d].remote.open # None
      BY <1>1, <1>5 DEF ReconcilePause, RunInv, Informed
    <3>4. RunInv(d)'
      BY <1>1, <1>5, <3>2, <3>3
         DEF ReconcilePause, registry, RunInv, Uploading, RowFresh, ReplyFresh, RemoteFresh, ConflictFresh
    <3> QED
      BY <1>2, <1>3, <1>5, <3>2, <3>4, PauseStep DEF ReconcilePause
  <2> QED
    BY <1>5, <2>1, <2>2 DEF ReconcilePause
<1>6. CASE SettleResume(d)
  <2>1. d \notin Background /\ run[d].at = "noneQueued" => queue[d] = <<>>
    BY DEF IndInv, ScanInv, AloneInv
  <2>2. "upserted" \in Place
    BY DEF Place
  <2>3. /\ run' = [run EXCEPT ![d] = run'[d]] /\ run'[d] \in Run
        /\ run'[d].at = "upserted" /\ run'[d].todo = run[d].todo
        /\ run'[d].reply = run[d].reply /\ run'[d].remote = run[d].remote
    BY <1>1, <1>6, <2>2, GotoRun DEF SettleResume
  <2>4. RunInv(d)'
    <3>1. run[d].remote # None
      BY <1>1, <1>6 DEF SettleResume, RunInv, Informed
    <3> QED
      BY <1>1, <1>6, <2>3, <3>1
         DEF SettleResume, registry, RunInv, Uploading, RowFresh, ReplyFresh, RemoteFresh, ConflictFresh
  <2>5. PICK s \in Status : s = IF run[d].at = "noneQueued" THEN "clean" ELSE "queued"
    BY <1>3
  <2>6. Pause(d, s) /\ (d \notin Background /\ s = "clean" => queue[d] = <<>>)
    BY <1>6, <2>1, <2>5 DEF SettleResume, Pause
  <2> QED
    BY <1>2, <1>6, <2>3, <2>4, <2>6, PauseStep DEF SettleResume
<1> QED
  BY <1>4, <1>5, <1>6
-------------------------------------------------------------------------------
(* Steps on the directory and on the conflict record *)

LEMMA UserKeeps ==
  ASSUME IndInv, NEW d \in Devices, UNCHANGED overlap,
         Break(d) \/ Repair(d) \/ \E e \in Edits : Edit(d, e)
  PROVE  IndInv'
<1>1. TypeOK /\ RegistryInv /\ \A e \in Devices : StoreInv(e) /\ RunInv(e) /\ ScanInv(e)
  BY DEF IndInv
<1>2. /\ tree' \in [Devices -> Trees] /\ broken' \in [Devices -> BOOLEAN]
      /\ edits' \in Trees /\ faults' \in 0..MaxFaults
  <2>1. CASE Break(d)
    BY <1>1, <2>1, WorkspaceSyncAssumption DEF Break, TypeOK
  <2>2. CASE Repair(d)
    BY <1>1, <2>2 DEF Repair, TypeOK
  <2>3. CASE \E e \in Edits : Edit(d, e)
    <3>1. PICK e \in Edits : Edit(d, e)
      BY <2>3
    <3>2. edits' \in Trees /\ tree[d] \cup {e} \in Trees
      BY <1>1, <3>1 DEF Edit, TypeOK, Trees
    <3> QED
      BY <1>1, <3>1, <3>2 DEF Edit, TypeOK
  <2> QED
    BY <2>1, <2>2, <2>3
<1>3. UNCHANGED <<registry, nextId, shown, database, run, recorded, scan>>
  BY DEF Break, Repair, Edit
<1>4. TypeOK'
  BY <1>1, <1>2, <1>3 DEF TypeOK, registry, database, wsState
<1>5. Others(d)
  BY <1>3 DEF Others, database, wsState
<1>6. Grows /\ RegistryInv'
  BY <1>1, <1>3, <1>4, RegistryFrame, NextIdType
<1>7. StoreInv(d)' /\ RunInv(d)'
  BY <1>1, <1>3, <1>4, <1>6, StoreFrame, RunFrame DEF database, wsState
<1>8. ScanInv(d)'
  BY <1>1, <1>3, NextIdType, ScanFrame DEF database
<1> QED
  BY <1>4, <1>5, <1>6, <1>7, <1>8, StepKeeps

LEMMA MaterializeKeeps ==
  ASSUME IndInv, NEW d \in Devices, UNCHANGED overlap, Materialize(d)
  PROVE  IndInv'
<1>a. Apart(d)
  BY SyncApart DEF IndInv
<1> USE <1>a
<1>1. TypeOK /\ RegistryInv /\ StoreInv(d) /\ RunInv(d)
  BY DEF IndInv
<1>2. run[d].remote # None /\ run[d].remote.head \in Rev /\ run[d].remote.head.tree \in Trees
  <2>1. run[d].remote # None /\ run[d] \in Run
    BY <1>1 DEF Materialize, RunInv, Informed, TypeOK
  <2>2. run[d].remote \in Remote
    BY <2>1 DEF Run
  <2>3. run[d].remote.head \in Rev
    BY <2>2 DEF Remote
  <2> QED
    BY <2>1, <2>3 DEF Rev
<1>3. "switched" \in Place
  BY DEF Place
<1>4. /\ run' = [run EXCEPT ![d] = run'[d]] /\ run'[d] \in Run
      /\ run'[d].at = "switched" /\ run'[d].todo = run[d].todo
      /\ run'[d].reply = run[d].reply /\ run'[d].remote = run[d].remote
  BY <1>1, <1>3, GotoRun DEF Materialize
<1>5. /\ tree' \in [Devices -> Trees] /\ broken' \in [Devices -> BOOLEAN]
      /\ shown' \in [Devices -> Rev] /\ run' \in [Devices -> Run]
      /\ \A e \in Devices \ {d} : run'[e] = run[e]
  BY <1>1, <1>2, <1>4 DEF Materialize, TypeOK
<1>6. UNCHANGED <<registry, nextId, database, edits, recorded, faults>>
  BY DEF Materialize
<1>7. TypeOK'
  BY <1>1, <1>5, <1>6 DEF TypeOK, Apart, registry, database, wsState
<1>8. Others(d)
  BY <1>5, <1>6 DEF Others, Apart, database, wsState
<1>9. Grows
  BY <1>1, <1>6, <1>7, RegistryFrame, NextIdType
<1>10. StoreInv(d)'
  BY <1>1, <1>6, <1>7, <1>9, StoreFrame DEF database, wsState
<1>11. RunInv(d)'
  BY <1>1, <1>2, <1>4, <1>6
     DEF registry, RunInv, Uploading, RowFresh, ReplyFresh, RemoteFresh, ConflictFresh
<1> QED
  BY <1>1, <1>6, <1>7, <1>8, <1>10, <1>11, NextIdType, LocalStep

\* A step that replaces the conflict record and moves the sync.
LEMMA RecordStep ==
  ASSUME IndInv, NEW d \in Devices, local' = [local EXCEPT ![d] = local'[d]],
         local'[d] = None \/ (local'[d] \in LocalConflict /\ ConflictFresh(local'[d].conflict)),
         UNCHANGED <<registry, nextId, folder, wsState, queue>>,
         UNCHANGED <<edits, recorded, faults, overlap>>, Apart(d),
         run' = [run EXCEPT ![d] = run'[d]], run'[d] \in Run, RunInv(d)'
  PROVE  IndInv'
<1>1. TypeOK /\ RegistryInv /\ StoreInv(d)
  BY DEF IndInv
<1>2. run' \in [Devices -> Run] /\ \A e \in Devices \ {d} : run'[e] = run[e]
  BY <1>1 DEF TypeOK
<1>3. local' \in [Devices -> LocalConflict \cup {None}] /\ \A e \in Devices \ {d} : local'[e] = local[e]
  BY <1>1 DEF TypeOK
<1>4. TypeOK'
  BY <1>1, <1>2, <1>3 DEF TypeOK, Apart, registry, folder, wsState
<1>5. Others(d)
  BY <1>2, <1>3 DEF Others, Apart, wsState
<1>6. StoreInv(d)'
  BY <1>1 DEF StoreInv, registry, wsState, RowFresh, ConflictFresh
<1> QED
  BY <1>1, <1>4, <1>5, <1>6, NextIdType, LocalStep

LEMMA RememberType ==
  ASSUME TypeOK, NEW d \in Devices, NEW c \in Conflict, NEW t \in Trees, NEW asked \in BOOLEAN,
         Remember(d, c, t, asked), ConflictFresh(c)
  PROVE  /\ local' = [local EXCEPT ![d] = local'[d]]
         /\ local'[d] \in LocalConflict /\ ConflictFresh(local'[d].conflict)
<1>1. local'[d] = [conflict |-> c, working |-> t, required |-> asked]
      /\ local' = [local EXCEPT ![d] = local'[d]]
  BY DEF TypeOK, Remember
<1>2. local'[d] \in LocalConflict
  BY <1>1 DEF LocalConflict
<1>3. local'[d].conflict = c
  BY <1>1
<1> QED
  BY <1>1, <1>2, <1>3

LEMMA RecordsKeep ==
  ASSUME IndInv, NEW d \in Devices, UNCHANGED overlap,
         SaveConflict(d) \/ ReconcileSave(d) \/ SettleClear(d) \/ ClearConflict(d)
  PROVE  IndInv'
<1>a. Apart(d)
  BY SyncApart DEF IndInv
<1> USE <1>a
<1>1. TypeOK /\ RegistryInv /\ StoreInv(d) /\ RunInv(d)
  BY DEF IndInv
<1>2. run[d] \in Run /\ run \in [Devices -> Run] /\ tree[d] \in Trees
  BY <1>1 DEF TypeOK
<1>3. {"saved", "kept", "cleared"} \subseteq Place
  BY DEF Place
<1>4. CASE SaveConflict(d)
  <2>1. run[d].reply # None /\ run[d].reply.state = "diverged" /\ run[d].todo # <<>>
    BY <1>1, <1>4 DEF SaveConflict, RunInv, Uploading
  <2>2. run[d].reply.conflict \in Conflict /\ ConflictFresh(run[d].reply.conflict)
    <3>1. run[d].reply \in Reply /\ ReplyFresh(run[d].reply)
      BY <1>1, <1>2, <2>1 DEF Run, RunInv
    <3> QED
      BY <2>1, <3>1 DEF Reply, ReplyFresh
  <2>3. Current(d).rev.tree \in Trees
    BY <1>1, <2>1, RowsType DEF Row, Rev
  <2>4. PICK c \in Conflict, t \in Trees : c = run[d].reply.conflict /\ t = Current(d).rev.tree
    BY <2>2, <2>3
  <2>5. Remember(d, c, t, FALSE) /\ ConflictFresh(c)
    BY <1>4, <2>2, <2>4 DEF SaveConflict, Remember
  <2>6. /\ local' = [local EXCEPT ![d] = local'[d]]
        /\ local'[d] \in LocalConflict /\ ConflictFresh(local'[d].conflict)
    BY <1>1, <2>5, RememberType
  <2>7. /\ run' = [run EXCEPT ![d] = run'[d]] /\ run'[d] \in Run
        /\ run'[d].at = "saved" /\ run'[d].todo = run[d].todo
        /\ run'[d].reply = run[d].reply /\ run'[d].remote = run[d].remote
    BY <1>1, <1>3, <1>4, GotoRun DEF SaveConflict
  <2>8. RunInv(d)'
    BY <1>1, <1>4, <2>1, <2>7
       DEF SaveConflict, registry, RunInv, Informed, RowFresh, ReplyFresh, RemoteFresh, ConflictFresh
  <2> QED
    BY <1>4, <2>6, <2>7, <2>8, RecordStep DEF SaveConflict
<1>5. CASE ReconcileSave(d)
  <2>1. run[d].remote # None /\ run[d].remote.open # None
    BY <1>1, <1>5 DEF ReconcileSave, RemoteConflict, RunInv, Informed
  <2>2. run[d].remote.open \in Conflict /\ ConflictFresh(run[d].remote.open)
    <3>1. run[d].remote \in Remote /\ RemoteFresh(run[d].remote)
      BY <1>1, <1>2, <2>1 DEF Run, RunInv
    <3> QED
      BY <2>1, <3>1 DEF Remote, RemoteFresh
  <2>3. PICK c \in Conflict : c = run[d].remote.open
    BY <2>2
  <2>4. PICK asked \in BOOLEAN : asked = ~(Untouched(d, c) /\ Mergeable(c))
    OBVIOUS
  <2>5. PICK t \in Trees : t = tree[d]
    BY <1>2
  <2>6. Remember(d, c, t, asked) /\ ConflictFresh(c)
    BY <1>5, <2>2, <2>3, <2>4, <2>5 DEF ReconcileSave, Remember
  <2>7. /\ local' = [local EXCEPT ![d] = local'[d]]
        /\ local'[d] \in LocalConflict /\ ConflictFresh(local'[d].conflict)
    BY <1>1, <2>6, RememberType
  <2>8. /\ run' = [run EXCEPT ![d] = run'[d]] /\ run'[d] \in Run
        /\ run'[d].at = "kept" /\ run'[d].todo = run[d].todo
        /\ run'[d].reply = run[d].reply /\ run'[d].remote = run[d].remote
    BY <1>1, <1>3, <1>5, GotoRun DEF ReconcileSave
  <2>9. RunInv(d)'
    BY <1>1, <1>5, <2>1, <2>8
       DEF ReconcileSave, registry, RunInv, Uploading, RowFresh, ReplyFresh, RemoteFresh, ConflictFresh
  <2> QED
    BY <1>5, <2>7, <2>8, <2>9, RecordStep DEF ReconcileSave
<1>6. CASE SettleClear(d)
  <2>1. local' = [local EXCEPT ![d] = local'[d]] /\ local'[d] = None
    BY <1>1, <1>6 DEF SettleClear, TypeOK
  <2>2. /\ run' = [run EXCEPT ![d] = run'[d]] /\ run'[d] \in Run
        /\ run'[d].at = "cleared" /\ run'[d].todo = run[d].todo
        /\ run'[d].reply = run[d].reply /\ run'[d].remote = run[d].remote
    BY <1>1, <1>3, <1>6, GotoRun DEF SettleClear
  <2>3. RunInv(d)'
    <3>1. run[d].remote # None
      BY <1>1, <1>6 DEF SettleClear, NoRemoteConflict, RunInv, Informed
    <3> QED
      BY <1>1, <1>6, <2>2, <3>1
         DEF SettleClear, registry, RunInv, Uploading, RowFresh, ReplyFresh, RemoteFresh, ConflictFresh
  <2> QED
    BY <1>6, <2>1, <2>2, <2>3, RecordStep DEF SettleClear
<1>7. CASE ClearConflict(d)
  <2>1. local' = [local EXCEPT ![d] = local'[d]] /\ local'[d] = None
    BY <1>1, <1>7 DEF ClearConflict, TypeOK
  <2>2. run'[d] = Idle /\ run' = [run EXCEPT ![d] = run'[d]]
    BY <1>2, <1>7 DEF ClearConflict, Stop
  <2> QED
    BY <1>7, <2>1, <2>2, IdleType, IdleRun, RecordStep DEF ClearConflict
<1> QED
  BY <1>4, <1>5, <1>6, <1>7
-------------------------------------------------------------------------------
(* Steps on workspace_state and the queue *)

\* The baseline moves only in a clean workspace, which has nothing queued.
LEMMA BaselineStep ==
  ASSUME IndInv, NEW d \in Devices, run[d].remote # None, AdvanceBaseline(d),
         UNCHANGED <<registry, nextId, folder, queue, local>>,
         UNCHANGED <<edits, recorded, faults, overlap>>, Apart(d),
         run' = [run EXCEPT ![d] = run'[d]], run'[d] \in Run, RunInv(d)'
  PROVE  IndInv'
<1>1. TypeOK /\ RegistryInv /\ StoreInv(d) /\ RunInv(d)
  BY DEF IndInv
<1>2. run' \in [Devices -> Run] /\ \A e \in Devices \ {d} : run'[e] = run[e]
  BY <1>1 DEF TypeOK
<1>3. /\ run[d].remote.gen \in Gens /\ run[d].remote.gen <= nextId
      /\ run[d].remote.head \in Rev /\ run[d].remote.head.tree \in Trees
  <2>1. run[d] \in Run
    BY <1>1 DEF TypeOK
  <2>2. run[d].remote \in Remote /\ RemoteFresh(run[d].remote)
    BY <1>1, <2>1 DEF Run, RunInv
  <2>3. run[d].remote.gen \in Gens /\ run[d].remote.head \in Rev
    BY <2>2 DEF Remote
  <2> QED
    BY <2>2, <2>3 DEF RemoteFresh, Rev
<1>4. CASE StillClean(d)
  <2>1. /\ base' = [base EXCEPT ![d] = run[d].remote.gen]
        /\ localHead' = [localHead EXCEPT ![d] = run[d].remote.head]
        /\ valid' = [valid EXCEPT ![d] = run[d].remote.head.tree]
        /\ status' = [status EXCEPT ![d] = "clean"]
    BY <1>4 DEF AdvanceBaseline, Pause
  <2>2. /\ base' \in [Devices -> Gens] /\ localHead' \in [Devices -> Rev]
        /\ valid' \in [Devices -> Trees] /\ status' \in [Devices -> Status]
    BY <1>1, <1>3, <2>1 DEF TypeOK, Status
  <2>3. /\ base'[d] = run[d].remote.gen
        /\ \A e \in Devices \ {d} : base'[e] = base[e] /\ status'[e] = status[e]
    BY <1>1, <2>1 DEF TypeOK
  <2>4. TypeOK'
    BY <1>1, <1>2, <2>2 DEF TypeOK, Apart, registry, folder
  <2>5. Others(d)
    BY <1>2, <2>3 DEF Others, Apart
  <2>6. StoreInv(d)'
    <3>1. d \notin Background => queue[d] = <<>>
      BY <1>1, <1>4 DEF StoreInv, StillClean
    <3> QED
      BY <1>1, <1>3, <2>3, <3>1 DEF StoreInv, registry, RowFresh, ConflictFresh
  <2> QED
    BY <1>1, <2>4, <2>5, <2>6, NextIdType, LocalStep
<1>5. CASE ~StillClean(d)
  <2>1. UNCHANGED <<registry, nextId, folder, database>> /\ faults' \in 0..MaxFaults
    BY <1>1, <1>5 DEF AdvanceBaseline, database, TypeOK
  <2> QED
    BY <2>1, RunStep
<1> QED
  BY <1>4, <1>5

LEMMA BaselinesKeep ==
  ASSUME IndInv, NEW d \in Devices, UNCHANGED overlap, AlreadyCurrent(d) \/ Adopt(d)
  PROVE  IndInv'
<1>a. Apart(d)
  BY SyncApart DEF IndInv
<1> USE <1>a
<1>1. TypeOK /\ RunInv(d)
  BY DEF IndInv
<1>2. run[d] \in Run /\ run \in [Devices -> Run]
  BY <1>1 DEF TypeOK
<1>3. run[d].remote # None
  BY <1>1 DEF AlreadyCurrent, Adopt, ReadyToShow, NoRemoteConflict, RunInv, Informed
<1>4. ASSUME Stop(d)
      PROVE  run' = [run EXCEPT ![d] = run'[d]] /\ run'[d] \in Run /\ RunInv(d)'
  <2>1. run'[d] = Idle /\ run' = [run EXCEPT ![d] = run'[d]]
    BY <1>2, <1>4 DEF Stop
  <2> QED
    BY <2>1, IdleType, IdleRun
<1>5. CASE AlreadyCurrent(d)
  BY <1>3, <1>4, <1>5, BaselineStep DEF AlreadyCurrent
<1>6. CASE Adopt(d)
  <2>1. CASE Stop(d)
    BY <1>3, <1>4, <1>6, <2>1, BaselineStep DEF Adopt
  <2>2. CASE Goto(d, "adopted")
    <3>1. "adopted" \in Place
      BY DEF Place
    <3>2. /\ run' = [run EXCEPT ![d] = run'[d]] /\ run'[d] \in Run
          /\ run'[d].at = "adopted" /\ run'[d].todo = run[d].todo
          /\ run'[d].reply = run[d].reply /\ run'[d].remote = run[d].remote
      BY <1>1, <2>2, <3>1, GotoRun
    <3>3. RunInv(d)'
      BY <1>1, <1>6, <3>2
         DEF Adopt, registry, RunInv, Uploading, Informed, RowFresh, ReplyFresh, RemoteFresh, ConflictFresh
    <3> QED
      BY <1>3, <1>6, <3>2, <3>3, BaselineStep DEF Adopt
  <2> QED
    BY <1>6, <2>1, <2>2 DEF Adopt
<1> QED
  BY <1>5, <1>6

\* Only a stored revision leaves the queue.
LEMMA DequeueStore ==
  ASSUME TypeOK, NEW d \in Devices, StoreInv(d), NEW row, row.rev \in stored, Dequeue(d, row)
  PROVE  /\ queue' \in [Devices -> Seq(Row)]
         /\ \A e \in Devices \ {d} : queue'[e] = queue[e]
         /\ \A i \in DOMAIN queue'[d] : RowFresh(queue'[d][i])
         /\ \A r \in recorded[d] :
              r \in stored \/ \E i \in DOMAIN queue'[d] : queue'[d][i].rev = r
         /\ queue[d] = <<>> => queue'[d] = <<>>
<1>1. queue[d] \in Seq(Row) /\ queue \in [Devices -> Seq(Row)]
  BY DEF TypeOK
<1>2. queue'[d] = Without(queue[d], row) /\ queue' = [queue EXCEPT ![d] = Without(queue[d], row)]
  BY <1>1 DEF Dequeue
<1>3. /\ queue'[d] \in Seq(Row)
      /\ \A i \in DOMAIN queue'[d] : \E j \in DOMAIN queue[d] : queue'[d][i] = queue[d][j]
      /\ \A j \in DOMAIN queue[d] : queue[d][j] # row =>
           \E i \in DOMAIN queue'[d] : queue'[d][i] = queue[d][j]
      /\ queue[d] = <<>> => queue'[d] = <<>>
  BY <1>1, <1>2, WithoutKeeps
<1>4. queue' \in [Devices -> Seq(Row)] /\ \A e \in Devices \ {d} : queue'[e] = queue[e]
  BY <1>1, <1>2, <1>3
<1>5. \A i \in DOMAIN queue'[d] : RowFresh(queue'[d][i])
  BY <1>3 DEF StoreInv
<1>6. ASSUME NEW r \in recorded[d], r \notin stored
      PROVE  \E i \in DOMAIN queue'[d] : queue'[d][i].rev = r
  <2>1. PICK j \in DOMAIN queue[d] : queue[d][j].rev = r
    BY <1>6 DEF StoreInv
  <2>2. queue[d][j] # row
    BY <1>6, <2>1
  <2> QED
    BY <1>3, <2>1, <2>2
<1> QED
  BY <1>3, <1>4, <1>5, <1>6

LEMMA RecordAdvancedKeeps ==
  ASSUME IndInv, NEW d \in Devices, UNCHANGED overlap, RecordAdvanced(d)
  PROVE  IndInv'
<1>a. Apart(d)
  BY SyncApart DEF IndInv
<1> USE <1>a
<1>1. TypeOK /\ RegistryInv /\ StoreInv(d) /\ RunInv(d)
  BY DEF IndInv
<1>2. /\ run[d].at = "answered" /\ run[d].at \in Uploading /\ run[d].reply.state = "advanced"
      /\ run[d].reply # None /\ Current(d).rev \in stored
      /\ UNCHANGED <<registry, nextId, folder, localHead, valid, local, edits, recorded, faults>>
      /\ Dequeue(d, Current(d)) /\ UploadDone(d) /\ StatusSynced(d)
      /\ base' = [base EXCEPT ![d] = run[d].reply.gen]
  BY <1>1 DEF RecordAdvanced, RunInv, Uploading
<1>3. run' = [run EXCEPT ![d] = run'[d]] /\ run'[d] \in Run /\ RunInv(d)'
  BY <1>1, <1>2, UploadDoneRun DEF registry
<1>4. run' \in [Devices -> Run] /\ \A e \in Devices \ {d} : run'[e] = run[e]
  BY <1>1, <1>3 DEF TypeOK
<1>5. PICK row : row = Current(d)
  OBVIOUS
<1>6. row.rev \in stored /\ Dequeue(d, row)
  BY <1>2, <1>5 DEF Dequeue
<1>7. /\ queue' \in [Devices -> Seq(Row)]
      /\ \A e \in Devices \ {d} : queue'[e] = queue[e]
      /\ \A i \in DOMAIN queue'[d] : RowFresh(queue'[d][i])
      /\ \A r \in recorded[d] :
           r \in stored \/ \E i \in DOMAIN queue'[d] : queue'[d][i].rev = r
      /\ queue[d] = <<>> => queue'[d] = <<>>
  BY <1>1, <1>6, DequeueStore
<1>8. run[d].reply.gen \in Gens /\ run[d].reply.gen <= nextId
  <2>1. run[d].reply \in Reply /\ ReplyFresh(run[d].reply)
    BY <1>1, <1>2 DEF TypeOK, Run, RunInv
  <2> QED
    BY <1>2, <2>1 DEF Reply, ReplyFresh
<1>9. /\ base' \in [Devices -> Gens] /\ base'[d] = run[d].reply.gen
      /\ \A e \in Devices \ {d} : base'[e] = base[e]
  BY <1>1, <1>2, <1>8 DEF TypeOK
<1>10. /\ status' \in [Devices -> Status]
       /\ d \notin Background /\ status'[d] = "clean" => queue'[d] = <<>>
       /\ \A e \in Devices \ {d} : status'[e] = status[e]
  BY <1>1, <1>2, <1>7 DEF TypeOK, Status, StatusSynced, StoreInv
<1>11. TypeOK'
  BY <1>1, <1>2, <1>4, <1>7, <1>9, <1>10 DEF TypeOK, Apart, registry, folder
<1>12. Others(d)
  BY <1>2, <1>4, <1>7, <1>9, <1>10 DEF Others, Apart
<1>13. StoreInv(d)'
  BY <1>1, <1>2, <1>7, <1>8, <1>9, <1>10 DEF StoreInv, registry, RowFresh, ConflictFresh
<1> QED
  BY <1>1, <1>2, <1>3, <1>11, <1>12, <1>13, NextIdType, LocalStep

LEMMA RecordDetachedKeeps ==
  ASSUME IndInv, NEW d \in Devices, UNCHANGED overlap, RecordDetached(d)
  PROVE  IndInv'
<1>a. Apart(d)
  BY SyncApart DEF IndInv
<1> USE <1>a
<1>1. TypeOK /\ RegistryInv /\ StoreInv(d) /\ RunInv(d)
  BY DEF IndInv
<1>2. /\ run[d].at = "answered" /\ run[d].reply.state = "diverged" /\ run[d].todo # <<>>
      /\ run[d].reply # None /\ Current(d).rev \in stored
      /\ UNCHANGED <<registry, nextId, folder, wsState, local, edits, recorded, faults>>
      /\ Dequeue(d, Current(d)) /\ Goto(d, "detached")
  BY <1>1 DEF RecordDetached, RunInv, Uploading
<1>3. "detached" \in Place
  BY DEF Place
<1>4. /\ run' = [run EXCEPT ![d] = run'[d]] /\ run'[d] \in Run
      /\ run'[d].at = "detached" /\ run'[d].todo = run[d].todo
      /\ run'[d].reply = run[d].reply /\ run'[d].remote = run[d].remote
  BY <1>1, <1>2, <1>3, GotoRun
<1>5. RunInv(d)'
  BY <1>1, <1>2, <1>4 DEF registry, RunInv, Informed, RowFresh, ReplyFresh, RemoteFresh, ConflictFresh
<1>6. run' \in [Devices -> Run] /\ \A e \in Devices \ {d} : run'[e] = run[e]
  BY <1>1, <1>4 DEF TypeOK
<1>7. PICK row : row = Current(d)
  OBVIOUS
<1>8. row.rev \in stored /\ Dequeue(d, row)
  BY <1>2, <1>7 DEF Dequeue
<1>9. /\ queue' \in [Devices -> Seq(Row)]
      /\ \A e \in Devices \ {d} : queue'[e] = queue[e]
      /\ \A i \in DOMAIN queue'[d] : RowFresh(queue'[d][i])
      /\ \A r \in recorded[d] :
           r \in stored \/ \E i \in DOMAIN queue'[d] : queue'[d][i].rev = r
      /\ queue[d] = <<>> => queue'[d] = <<>>
  BY <1>1, <1>8, DequeueStore
<1>10. TypeOK'
  BY <1>1, <1>2, <1>6, <1>9 DEF TypeOK, Apart, registry, folder, wsState
<1>11. Others(d)
  BY <1>2, <1>6, <1>9 DEF Others, Apart, wsState
<1>12. StoreInv(d)'
  BY <1>1, <1>2, <1>9 DEF StoreInv, registry, wsState, RowFresh, ConflictFresh
<1> QED
  BY <1>1, <1>2, <1>5, <1>10, <1>11, <1>12, NextIdType, LocalStep
-------------------------------------------------------------------------------
(* Captures and merges: a row joins the queue *)

\* The database of d changed to another consistent one, and no other did.
StoreMoves(d) ==
    /\ base' \in [Devices -> Gens] /\ localHead' \in [Devices -> Rev]
    /\ valid' \in [Devices -> Trees] /\ status' \in [Devices -> Status]
    /\ queue' \in [Devices -> Seq(Row)] /\ recorded' \in [Devices -> SUBSET Rev]
    /\ \A e \in Devices \ {d} : /\ base'[e] = base[e] /\ queue'[e] = queue[e]
                                /\ recorded'[e] = recorded[e] /\ status'[e] = status[e]
    /\ StoreInv(d)'

LEMMA EnqueueMoves ==
  ASSUME TypeOK, NEW d \in Devices, StoreInv(d), NEW row \in Row, RowFresh(row)', Enqueue(d, row),
         nextId <= nextId', nextId' \in Nat, UNCHANGED <<local, stored>>
  PROVE  StoreMoves(d)
<1>1. queue[d] \in Seq(Row) /\ queue \in [Devices -> Seq(Row)]
  BY DEF TypeOK
<1>2. nextId \in Nat /\ base[d] \in Nat
  BY NextIdType
<1>3. queue'[d] = Enqueued(queue[d], row) /\ queue' = [queue EXCEPT ![d] = Enqueued(queue[d], row)]
  BY <1>1 DEF Enqueue
<1>4. /\ queue'[d] \in Seq(Row)
      /\ \A i \in DOMAIN queue'[d] : queue'[d][i] = row \/ \E j \in DOMAIN queue[d] : queue'[d][i] = queue[d][j]
      /\ \A j \in DOMAIN queue[d] : \E i \in DOMAIN queue'[d] : queue'[d][i] = queue[d][j]
      /\ \E i \in DOMAIN queue'[d] : queue'[d][i] = row
  <2> DEFINE z == Enqueued(queue[d], row)
  <2>1. /\ z \in Seq(Row)
        /\ \A i \in DOMAIN z : z[i] = row \/ \E j \in DOMAIN queue[d] : z[i] = queue[d][j]
        /\ \A j \in DOMAIN queue[d] : \E i \in DOMAIN z : z[i] = queue[d][j]
        /\ \E i \in DOMAIN z : z[i] = row
    BY <1>1, EnqueuedKeeps
  <2> HIDE DEF z
  <2>2. queue'[d] = z
    BY <1>3 DEF z
  <2> QED
    BY <2>1, <2>2
<1>5. queue' \in [Devices -> Seq(Row)] /\ \A e \in Devices \ {d} : queue'[e] = queue[e]
  BY <1>1, <1>3, <1>4
<1>6. row.rev \in Rev /\ row.rev.tree \in Trees
  BY DEF Row, Rev
<1>7. /\ localHead' \in [Devices -> Rev] /\ valid' \in [Devices -> Trees]
      /\ status' \in [Devices -> Status] /\ status'[d] = "queued" /\ base' = base
      /\ recorded' \in [Devices -> SUBSET Rev] /\ recorded'[d] = recorded[d] \cup {row.rev}
      /\ \A e \in Devices \ {d} : recorded'[e] = recorded[e] /\ status'[e] = status[e]
  BY <1>6 DEF Enqueue, TypeOK, Status
<1>8. \A j \in DOMAIN queue[d] : queue[d][j].gen < nextId' /\ queue[d][j].rev.op \in Ids
  <2> SUFFICES ASSUME NEW j \in DOMAIN queue[d]
               PROVE  queue[d][j].gen < nextId' /\ queue[d][j].rev.op \in Ids
    OBVIOUS
  <2>1. queue[d][j].gen \in Nat /\ RowFresh(queue[d][j])
    BY RowsType, NumbersType DEF StoreInv
  <2> QED
    BY <1>2, <2>1 DEF RowFresh
<1>9. \A i \in DOMAIN queue'[d] : queue'[d][i].gen < nextId' /\ queue'[d][i].rev.op \in Ids
  <2>1. row.gen < nextId' /\ row.rev.op \in Ids
    BY DEF RowFresh
  <2> QED
    BY <1>4, <1>8, <2>1
<1>10. local[d] # None => local[d].conflict.gen < nextId'
  <2>1. ASSUME local[d] # None
        PROVE  local[d].conflict.gen < nextId'
    <3>1. local[d].conflict \in Conflict /\ local[d].conflict.gen < nextId
      BY <2>1 DEF TypeOK, LocalConflict, StoreInv, ConflictFresh
    <3>2. local[d].conflict.gen \in Nat
      BY <3>1, NumbersType
    <3> QED
      BY <3>1, <3>2, <1>2
  <2> QED
    BY <2>1
<1>11. \A r \in recorded'[d] :
         r \in stored \/ \E i \in DOMAIN queue'[d] : queue'[d][i].rev = r
  <2> SUFFICES ASSUME NEW r \in recorded'[d], r \notin stored
               PROVE  \E i \in DOMAIN queue'[d] : queue'[d][i].rev = r
    OBVIOUS
  <2>1. CASE r = row.rev
    BY <1>4, <2>1
  <2>2. CASE r \in recorded[d]
    <3>1. PICK j \in DOMAIN queue[d] : queue[d][j].rev = r
      BY <2>2 DEF StoreInv
    <3> QED
      BY <3>1, <1>4
  <2> QED
    BY <1>7, <2>1, <2>2
<1>12. StoreInv(d)'
  <2>1. base'[d] <= nextId'
    BY <1>2, <1>7 DEF StoreInv
  <2> QED
    BY <1>7, <1>9, <1>10, <1>11, <2>1 DEF StoreInv, ConflictFresh, RowFresh
<1>13. base' \in [Devices -> Gens]
  BY <1>7 DEF TypeOK
<1> QED
  BY <1>5, <1>7, <1>12, <1>13 DEF StoreMoves

\* A conflict has a head besides the active one.
LEMMA OtherHead ==
  ASSUME NEW c \in Conflict
  PROVE  \E h \in c.heads : h # c.active
<1>1. Cardinality(c.heads) = 2 /\ c.active \in c.heads
  BY DEF Conflict
<1>2. SUFFICES ASSUME \A h \in c.heads : h = c.active
               PROVE  FALSE
  OBVIOUS
<1>3. c.heads = {c.active}
  BY <1>1, <1>2
<1>4. Cardinality({c.active}) = 1
  BY FS_Singleton
<1> QED
  BY <1>1, <1>3, <1>4

LEMMA MergeRowType ==
  ASSUME NEW c \in Conflict, NEW t \in Trees
  PROVE  /\ MergeRow(c, t) \in Row /\ MergeRow(c, t).rev.op \in Ids /\ MergeRow(c, t).gen = c.gen
<1> DEFINE h == CHOOSE x \in c.heads : x # c.active
<1>1. h \in c.heads
  BY OtherHead
<1>2. c.heads \subseteq Rev /\ c.active \in Rev /\ c.gen \in Gens /\ c.id \in Ids
  BY DEF Conflict
<1>3. c.id \in 0..MaxIds
  BY <1>2, WorkspaceSyncAssumption DEF Ids
<1>4. [op |-> c.id, tree |-> t] \in Rev
  BY <1>3 DEF Rev
<1>5. h \in Rev
  BY <1>1, <1>2
<1>6. MergeRow(c, t) = [rev |-> [op |-> c.id, tree |-> t], head |-> c.active, other |-> h, gen |-> c.gen]
  BY DEF MergeRow
<1> HIDE DEF h
<1> QED
  BY <1>2, <1>4, <1>5, <1>6 DEF Row

LEMMA SaveRowType ==
  ASSUME TypeOK, NEW d \in Devices, StoreInv(d), nextId \in Ids, NEW t \in Trees, NEW state \in State,
         state.base <= nextId
  PROVE  /\ SaveRow(d, t, state) \in Row /\ SaveRow(d, t, state).rev.op \in Ids
         /\ SaveRow(d, t, state).gen < nextId + 1
<1>1. /\ nextId \in Nat /\ nextId <= MaxIds /\ MaxIds \in Nat /\ nextId \in 0..MaxIds
      /\ state.head \in Rev /\ state.base \in Gens /\ queue[d] \in Seq(Row)
  BY WorkspaceSyncAssumption DEF TypeOK, Ids, State
<1>2. [op |-> nextId, tree |-> t] \in Rev
  BY <1>1 DEF Rev
<1>3. CASE queue[d] = <<>>
  <2>1. SaveRow(d, t, state) = [rev |-> [op |-> nextId, tree |-> t], other |-> None,
                                head |-> state.head, gen |-> state.base]
    BY <1>3 DEF SaveRow
  <2>2. state.base < nextId + 1
    BY <1>1 DEF Gens
  <2> QED
    BY <1>1, <1>2, <2>1, <2>2 DEF Row
<1>4. CASE queue[d] # <<>>
  <2> DEFINE l == Last(queue[d])
  <2>1. l \in Row /\ RowFresh(l)
    <3>1. Len(queue[d]) \in DOMAIN queue[d] /\ l = queue[d][Len(queue[d])]
      BY <1>1, <1>4 DEF Last
    <3> QED
      BY <3>1, RowsType DEF StoreInv
  <2>2. SaveRow(d, t, state) = [rev |-> [op |-> nextId, tree |-> t], other |-> None,
                                head |-> l.rev, gen |-> l.gen + 1]
    BY <1>4 DEF SaveRow
  <2> HIDE DEF l
  <2>3. l.rev \in Rev /\ l.gen \in Gens /\ l.gen < nextId
    BY <2>1 DEF Row, RowFresh
  <2>4. l.gen + 1 \in Gens /\ l.gen + 1 < nextId + 1
    BY <1>1, <2>3 DEF Gens
  <2> QED
    BY <1>1, <1>2, <2>2, <2>3, <2>4 DEF Row
<1> QED
  BY <1>3, <1>4

\* Only the status changes, and not to clean with work queued.
LEMMA StatusMoves ==
  ASSUME TypeOK, NEW d \in Devices, StoreInv(d), status' \in [Devices -> Status],
         \A e \in Devices \ {d} : status'[e] = status[e],
         d \notin Background /\ status'[d] = "clean" => queue[d] = <<>>,
         UNCHANGED <<base, localHead, valid, queue, recorded, local, stored>>,
         nextId <= nextId', nextId' \in Nat
  PROVE  StoreMoves(d)
<1>1. nextId \in Nat /\ base[d] \in Nat
  BY NextIdType
<1>2. base[d] <= nextId'
  BY <1>1 DEF StoreInv
<1>3. \A i \in DOMAIN queue[d] : RowFresh(queue[d][i])'
  BY <1>1, FreshStays, RowsType DEF StoreInv
<1>4. local[d] # None => ConflictFresh(local[d].conflict)'
  <2>1. local[d] # None => local[d].conflict \in Conflict
    BY DEF TypeOK, LocalConflict
  <2> QED
    BY <2>1, <1>1, FreshStays DEF StoreInv
<1>5. StoreInv(d)'
  BY <1>2, <1>3, <1>4 DEF StoreInv, RowFresh, ConflictFresh
<1> QED
  BY <1>5 DEF StoreMoves, TypeOK

LEMMA StoreStays ==
  ASSUME TypeOK, NEW d \in Devices, StoreInv(d),
         UNCHANGED <<wsState, queue, recorded, local, stored>>, nextId <= nextId', nextId' \in Nat
  PROVE  StoreMoves(d)
<1>1. /\ status' \in [Devices -> Status] /\ (d \notin Background /\ status'[d] = "clean" => queue[d] = <<>>)
      /\ \A e \in Devices \ {d} : status'[e] = status[e]
      /\ UNCHANGED <<base, localHead, valid, queue, recorded, local, stored>>
  BY DEF wsState, TypeOK, StoreInv
<1> QED
  BY <1>1, StatusMoves

\* A step that moves the database of d, its sync and its capture.
LEMMA MoveStep ==
  ASSUME IndInv, NEW d \in Devices, StoreMoves(d), nextId <= nextId', nextId' \in 1..(MaxIds + 1),
         UNCHANGED <<registry, folder, local, edits, overlap>>, faults' \in 0..MaxFaults,
         run' = [run EXCEPT ![d] = run'[d]], run'[d] \in Run,
         scan' = [scan EXCEPT ![d] = scan'[d]], scan'[d] \in Capturing \cup {None}, ScanInv(d)',
         TypeOK' => RunInv(d)'
  PROVE  IndInv'
<1>1. TypeOK /\ RegistryInv
  BY DEF IndInv
<1>2. /\ run' \in [Devices -> Run] /\ \A e \in Devices \ {d} : run'[e] = run[e]
      /\ scan' \in [Devices -> Capturing \cup {None}] /\ \A e \in Devices \ {d} : scan'[e] = scan[e]
  BY <1>1 DEF TypeOK
<1>3. TypeOK'
  BY <1>1, <1>2 DEF TypeOK, StoreMoves, registry, folder
<1>4. Others(d)
  BY <1>2 DEF Others, StoreMoves
<1>5. RegistryInv' /\ Grows
  BY <1>1, <1>3, RegistryFrame
<1> QED
  BY <1>3, <1>4, <1>5, StepKeeps DEF StoreMoves

\* A sync or the service takes the lease, or loses it.
LEMMA LeaseKeeps ==
  ASSUME IndInv, NEW d \in Devices, UNCHANGED overlap,
         StartSync(d) \/ BackgroundCapture(d) \/ LeaseExpires(d) \/ Fail(d) \/ CaptureFails(d)
  PROVE  IndInv'
<1>1. /\ TypeOK /\ StoreInv(d) /\ RunInv(d) /\ ScanInv(d)
      /\ run \in [Devices -> Run] /\ run[d] \in Run /\ scan \in [Devices -> Capturing \cup {None}]
      /\ nextId \in Nat /\ nextId \in 1..(MaxIds + 1) /\ faults \in 0..MaxFaults
      /\ tree[d] \in Trees /\ broken[d] \in BOOLEAN
  BY NextIdType DEF IndInv, TypeOK
<1>2. UNCHANGED <<registry, nextId, folder, database, edits, recorded>>
  BY DEF StartSync, BackgroundCapture, LeaseExpires, Fail, CaptureFails
<1>3. StoreMoves(d) /\ nextId <= nextId' /\ nextId' \in 1..(MaxIds + 1)
  BY <1>1, <1>2, StoreStays DEF database, registry
<1>4. faults' \in 0..MaxFaults
  <2>1. CASE Fail(d)
    BY <1>1, <2>1, WorkspaceSyncAssumption DEF Fail
  <2>2. CASE CaptureFails(d)
    BY <1>1, <2>2, WorkspaceSyncAssumption DEF CaptureFails
  <2> QED
    BY <1>1, <2>1, <2>2 DEF StartSync, BackgroundCapture, LeaseExpires
<1>5. ASSUME run' = [run EXCEPT ![d] = run'[d]], run'[d] \in Run, RunInv(d)',
             scan' = [scan EXCEPT ![d] = scan'[d]], scan'[d] \in Capturing \cup {None}, ScanInv(d)'
      PROVE  IndInv'
  BY <1>2, <1>3, <1>4, <1>5, MoveStep DEF database
<1>6. ASSUME UNCHANGED run
      PROVE  run' = [run EXCEPT ![d] = run'[d]] /\ run'[d] \in Run /\ RunInv(d)'
  <2>1. RunInv(d)'
    BY <1>1, <1>2, <1>6
       DEF registry, RunInv, Current, RowFresh, ReplyFresh, RemoteFresh, ConflictFresh
  <2> QED
    BY <1>1, <1>6, <2>1
<1>7. ASSUME NEW place \in {"capture", "list"}, Goto(d, place)
      PROVE  /\ run' = [run EXCEPT ![d] = run'[d]] /\ run'[d] \in Run /\ RunInv(d)'
             /\ run'[d].at = place
  <2>1. place \in Place
    BY DEF Place
  <2>2. /\ run' = [run EXCEPT ![d] = run'[d]] /\ run'[d] \in Run
        /\ run'[d].at = place /\ run'[d].todo = run[d].todo
        /\ run'[d].reply = run[d].reply /\ run'[d].remote = run[d].remote
    BY <1>1, <1>7, <2>1, GotoRun
  <2>3. RunInv(d)'
    BY <1>1, <1>2, <1>7, <2>2
       DEF registry, RunInv, Uploading, Informed, RowFresh, ReplyFresh, RemoteFresh, ConflictFresh
  <2> QED
    BY <2>2, <2>3
<1>8. ASSUME NEW next \in [at : {"invalid", "abandoned"}] \cup [at : {"scanned"}, tree : Trees],
             scan' = [scan EXCEPT ![d] = next]
      PROVE  /\ scan' = [scan EXCEPT ![d] = scan'[d]] /\ scan'[d] \in Capturing \cup {None}
             /\ scan'[d] = next /\ CarriedFresh(d)'
  <2>1. scan'[d] = next /\ scan' = [scan EXCEPT ![d] = scan'[d]]
    BY <1>1, <1>8
  <2>2. next \in Capturing
    BY DEF Capturing
  <2>3. next.at \in {"invalid", "abandoned", "scanned"}
    OBVIOUS
  <2> QED
    BY <2>1, <2>2, <2>3 DEF CarriedFresh
<1>9. ASSUME Scan(d)
      PROVE  \E next \in [at : {"invalid"}] \cup [at : {"scanned"}, tree : Trees] :
                scan' = [scan EXCEPT ![d] = next]
  BY <1>1, <1>9 DEF Scan
<1>10. CASE StartSync(d) /\ Scan(d) /\ Goto(d, "capture")
  <2>1. PICK next \in [at : {"invalid"}] \cup [at : {"scanned"}, tree : Trees] :
          scan' = [scan EXCEPT ![d] = next]
    BY <1>9, <1>10
  <2>2. /\ scan' = [scan EXCEPT ![d] = scan'[d]] /\ scan'[d] \in Capturing \cup {None}
        /\ scan'[d] = next /\ CarriedFresh(d)' /\ next.at # "setting"
    BY <1>8, <2>1
  <2>3. ScanInv(d)'
    BY <1>7, <1>10, <2>2 DEF ScanInv, AloneInv
  <2> QED
    BY <1>5, <1>7, <1>10, <2>2, <2>3
<1>11. CASE StartSync(d) /\ scan[d] # None /\ Goto(d, "list") /\ UNCHANGED scan
  <2>1. Apart(d)
    BY <1>7, <1>11 DEF StartSync, Apart
  <2>2. ScanInv(d)' /\ scan' = [scan EXCEPT ![d] = scan'[d]] /\ scan'[d] \in Capturing \cup {None}
    BY <1>1, <1>3, <1>11, <2>1, ApartScan
  <2> QED
    BY <1>5, <1>7, <1>11, <2>2
<1>12. CASE BackgroundCapture(d)
  <2>1. PICK next \in [at : {"invalid"}] \cup [at : {"scanned"}, tree : Trees] :
          scan' = [scan EXCEPT ![d] = next]
    BY <1>9, <1>12 DEF BackgroundCapture
  <2>2. /\ scan' = [scan EXCEPT ![d] = scan'[d]] /\ scan'[d] \in Capturing \cup {None}
        /\ CarriedFresh(d)'
    BY <1>8, <2>1
  <2>3. ScanInv(d)'
    BY <1>12, <2>2 DEF ScanInv, BackgroundCapture
  <2> QED
    BY <1>5, <1>6, <1>12, <2>2, <2>3 DEF BackgroundCapture
<1>13. CASE LeaseExpires(d)
  <2>1. scan'[d] = None /\ scan' = [scan EXCEPT ![d] = scan'[d]]
    BY <1>1, <1>13 DEF LeaseExpires
  <2>2. ScanInv(d)'
    BY <1>1, <1>13, <2>1 DEF LeaseExpires, ScanInv, AloneInv, database
  <2> QED
    BY <1>5, <1>6, <1>13, <2>1, <2>2 DEF LeaseExpires
<1>14. ASSUME Abandon(d)
       PROVE  /\ scan' = [scan EXCEPT ![d] = scan'[d]] /\ scan'[d] \in Capturing \cup {None}
              /\ scan'[d].at = "abandoned" /\ CarriedFresh(d)'
  <2>1. PICK next \in [at : {"invalid", "abandoned"}] : next = [at |-> "abandoned"]
    OBVIOUS
  <2> QED
    BY <1>8, <1>14, <2>1 DEF Abandon
<1>15. CASE Fail(d)
  <2>1. run'[d] = Idle /\ run' = [run EXCEPT ![d] = run'[d]]
    BY <1>1, <1>15 DEF Fail, Stop
  <2>2. run'[d] \in Run /\ RunInv(d)' /\ run'[d].at = "idle"
    <3>1. run'[d].at = "idle"
      BY <2>1 DEF Idle
    <3> QED
      BY <2>1, <3>1, IdleType, IdleRun
  <2>3. CASE run[d].at = "capture"
    <3>1. Abandon(d)
      BY <1>15, <2>3 DEF Fail
    <3>2. ScanInv(d)'
      BY <1>14, <2>2, <3>1 DEF ScanInv, AloneInv
    <3> QED
      BY <1>5, <1>14, <2>1, <2>2, <3>1, <3>2
  <2>4. CASE run[d].at # "capture"
    <3>1. Apart(d) /\ UNCHANGED scan
      BY <1>15, <2>2, <2>4 DEF Fail, Apart
    <3>2. ScanInv(d)' /\ scan' = [scan EXCEPT ![d] = scan'[d]] /\ scan'[d] \in Capturing \cup {None}
      BY <1>1, <1>3, <3>1, ApartScan
    <3> QED
      BY <1>5, <2>1, <2>2, <3>2
  <2> QED
    BY <2>3, <2>4
<1>16. CASE CaptureFails(d)
  <2>1. Abandon(d) /\ UNCHANGED run
    BY <1>16 DEF CaptureFails
  <2>2. ScanInv(d)'
    BY <1>1, <1>2, <1>14, <2>1 DEF ScanInv, AloneInv, database
  <2> QED
    BY <1>5, <1>6, <1>14, <2>1, <2>2
<1> QED
  BY <1>10, <1>11, <1>12, <1>13, <1>15, <1>16 DEF StartSync

\* A capture goes on with what it has read, or ends.
LEMMA CaptureGoesKeeps ==
  ASSUME IndInv, NEW d \in Devices, UNCHANGED overlap, NEW next \in Capturing \cup {None},
         scan[d] # None, scan[d].at # "abandoned", CaptureGoes(d, next), StoreMoves(d),
         nextId <= nextId', nextId' \in 1..(MaxIds + 1), next = None => nextId' = nextId,
         next # None => CarriedFresh(d)',
         next # None /\ next.at = "setting" /\ next.status = "clean" => queue'[d] = <<>>
  PROVE  IndInv'
<1>1. /\ TypeOK /\ RunInv(d) /\ ScanInv(d) /\ faults \in 0..MaxFaults
      /\ run \in [Devices -> Run] /\ run[d] \in Run /\ scan \in [Devices -> Capturing \cup {None}]
  BY DEF IndInv, TypeOK
<1>2. /\ UNCHANGED <<registry, folder, local, edits, faults>> /\ scan'[d] = next
      /\ scan' = [scan EXCEPT ![d] = scan'[d]]
  BY <1>1 DEF CaptureGoes
<1>3. d \notin Background => run[d].at = "capture"
  BY <1>1 DEF ScanInv, AloneInv
<1>4. CASE next = None /\ run[d].at = "capture"
  <2>1. Goto(d, "list") /\ "list" \in Place
    BY <1>4 DEF CaptureGoes, Goto, Place
  <2>2. /\ run' = [run EXCEPT ![d] = run'[d]] /\ run'[d] \in Run
        /\ run'[d].at = "list" /\ run'[d].todo = run[d].todo
        /\ run'[d].reply = run[d].reply /\ run'[d].remote = run[d].remote
    BY <1>1, <2>1, GotoRun
  <2>3. RunInv(d)'
    BY <1>1, <1>2, <1>4, <2>2
       DEF registry, RunInv, Uploading, Informed, RowFresh, ReplyFresh, RemoteFresh, ConflictFresh
  <2>4. ScanInv(d)'
    BY <1>2, <1>4, <2>2 DEF ScanInv, AloneInv
  <2> QED
    BY <1>1, <1>2, <2>2, <2>3, <2>4, MoveStep
<1>5. CASE ~(next = None /\ run[d].at = "capture")
  <2>1. run' = run /\ run' = [run EXCEPT ![d] = run'[d]] /\ run'[d] \in Run
    BY <1>1, <1>5 DEF CaptureGoes
  <2>2. ASSUME TypeOK' PROVE RunInv(d)'
    <3>1. Grows
      BY <1>2 DEF Grows, registry
    <3> QED
      BY <1>1, <2>1, <2>2, <3>1, RunFrame
  <2>3. ScanInv(d)'
    BY <1>2, <1>3, <1>5, <2>1 DEF ScanInv, AloneInv
  <2> QED
    BY <1>1, <1>2, <2>1, <2>2, <2>3, MoveStep
<1> QED
  BY <1>4, <1>5

LEMMA CapturesKeep ==
  ASSUME IndInv, NEW d \in Devices, UNCHANGED overlap, CaptureStep(d)
  PROVE  IndInv'
<1>1. /\ TypeOK /\ StoreInv(d) /\ ScanInv(d) /\ scan[d] # None /\ CarriedFresh(d)
      /\ nextId \in Nat /\ nextId \in 1..(MaxIds + 1) /\ MaxIds \in Nat
      /\ scan \in [Devices -> Capturing \cup {None}]
  BY WorkspaceSyncAssumption, NextIdType DEF IndInv, TypeOK, CaptureStep, ScanInv
<1>2. ASSUME NEW next, CaptureGoes(d, next)
      PROVE  scan'[d] = next /\ UNCHANGED <<registry, local>>
  BY <1>1, <1>2 DEF CaptureGoes
<1>3. None \in Capturing \cup {None} /\ {"clean", "queued", "pausedValidation"} \subseteq Status
  BY DEF Status
<1>4. ASSUME NEW next \in Capturing \cup {None}, CaptureGoes(d, next), scan[d].at # "abandoned",
             UNCHANGED <<wsState, queue, recorded, nextId>>, next # None => CarriedFresh(d)',
             next # None /\ next.at = "setting" /\ next.status = "clean" => queue[d] = <<>>
      PROVE  IndInv'
  <2>1. StoreMoves(d)
    BY <1>1, <1>2, <1>4, StoreStays DEF registry
  <2> QED
    BY <1>1, <1>4, <2>1, CaptureGoesKeeps
<1>5. CASE CaptureInvalid(d)
  <2>1. PICK next \in Capturing : next = [at |-> "setting", status |-> "pausedValidation"]
    BY <1>3 DEF Capturing
  <2>2. CaptureGoes(d, next) /\ next.at = "setting" /\ next.status # "clean"
    BY <1>5, <2>1 DEF CaptureInvalid
  <2>3. CarriedFresh(d)'
    BY <1>2, <2>2 DEF CarriedFresh
  <2> QED
    BY <1>4, <1>5, <2>2, <2>3 DEF CaptureInvalid
<1>6. CASE CaptureState(d)
  <2> DEFINE state == [base |-> base[d], head |-> localHead[d], valid |-> valid[d], status |-> status[d]]
             n == [at |-> "stated", tree |-> scan[d].tree, state |-> state]
  <2>1. scan[d].tree \in Trees /\ state \in State /\ state.base = base[d] /\ base[d] <= nextId
    BY <1>1, <1>6, CarriedType DEF CaptureState, TypeOK, State, StoreInv
  <2>2. n \in Capturing
    BY <2>1 DEF Capturing
  <2>3. PICK next \in Capturing : next = n
    BY <2>2
  <2>4. CaptureGoes(d, next) /\ next.at = "stated" /\ next.state = state
    BY <1>6, <2>3 DEF CaptureState
  <2> HIDE DEF n
  <2>5. CarriedFresh(d)'
    <3>1. next.state.base <= nextId'
      BY <1>6, <2>1, <2>4 DEF CaptureState
    <3> QED
      BY <1>2, <2>4, <3>1 DEF CarriedFresh
  <2> QED
    BY <1>4, <1>6, <2>4, <2>5 DEF CaptureState
<1>7. CASE CaptureUnchanged(d)
  <2>1. CASE CaptureGoes(d, None)
    BY <1>3, <1>4, <1>7, <2>1 DEF CaptureUnchanged
  <2>2. CASE CaptureGoes(d, [at |-> "setting", status |-> Resumed(d)])
    <3>1. Resumed(d) \in Status /\ (Resumed(d) = "clean" => queue[d] = <<>>)
      BY <1>3 DEF Resumed
    <3>2. PICK next \in Capturing : next = [at |-> "setting", status |-> Resumed(d)]
      BY <3>1 DEF Capturing
    <3>3. CaptureGoes(d, next) /\ next.at = "setting" /\ next.status = Resumed(d)
      BY <2>2, <3>2
    <3>4. CarriedFresh(d)'
      BY <1>2, <3>3 DEF CarriedFresh
    <3> QED
      BY <1>4, <1>7, <3>1, <3>3, <3>4 DEF CaptureUnchanged
  <2> QED
    BY <1>7, <2>1, <2>2 DEF CaptureUnchanged
<1>8. CASE CaptureChanged(d)
  <2>1. PICK c \in LocalConflict \cup {None} :
          /\ CaptureGoes(d, [at |-> "compared", tree |-> scan[d].tree, state |-> scan[d].state, conflict |-> c])
          /\ c # None => ConflictFresh(c.conflict)
    <3>1. local[d] \in LocalConflict \cup {None}
      BY <1>1 DEF TypeOK
    <3> QED
      BY <1>1, <1>8, <3>1 DEF CaptureChanged, StoreInv
  <2>2. scan[d].tree \in Trees /\ scan[d].state \in State /\ scan[d].state.base <= nextId
    BY <1>1, <1>8, CarriedType DEF CaptureChanged, CarriedFresh
  <2>3. [at |-> "compared", tree |-> scan[d].tree, state |-> scan[d].state, conflict |-> c] \in Capturing
    BY <2>2 DEF Capturing
  <2>4. PICK next \in Capturing :
          next = [at |-> "compared", tree |-> scan[d].tree, state |-> scan[d].state, conflict |-> c]
    BY <2>3
  <2>5. CaptureGoes(d, next) /\ next.at = "compared" /\ next.state = scan[d].state /\ next.conflict = c
    BY <2>1, <2>4
  <2>6. nextId' = nextId
    BY <1>8 DEF CaptureChanged
  <2>7. CarriedFresh(d)'
    <3>1. next.state.base <= nextId' /\ (c # None => ConflictFresh(next.conflict.conflict)')
      BY <2>1, <2>2, <2>5, <2>6 DEF ConflictFresh
    <3> QED
      BY <1>2, <2>5, <3>1 DEF CarriedFresh, ConflictFresh
  <2> QED
    BY <1>4, <1>8, <2>5, <2>7 DEF CaptureChanged
<1>9. CASE CaptureResolution(d)
  <2>1. CASE CaptureGoes(d, None)
    BY <1>3, <1>4, <1>9, <2>1 DEF CaptureResolution
  <2>2. CASE CaptureGoes(d, [at |-> "enqueuing", row |-> MergeRow(scan[d].conflict.conflict, scan[d].tree)])
    <3>1. /\ scan[d].conflict.conflict \in Conflict /\ ConflictFresh(scan[d].conflict.conflict)
          /\ scan[d].tree \in Trees
      BY <1>1, <1>9, CarriedType DEF CaptureResolution, CarriedFresh, LocalConflict
    <3>2. PICK row \in Row : row = MergeRow(scan[d].conflict.conflict, scan[d].tree)
      BY <3>1, MergeRowType
    <3>3. row.gen < nextId /\ row.rev.op \in Ids
      BY <3>1, <3>2, MergeRowType DEF ConflictFresh
    <3>4. PICK next \in Capturing : next = [at |-> "enqueuing", row |-> row]
      BY DEF Capturing
    <3>5. CaptureGoes(d, next) /\ next.at = "enqueuing" /\ next.row = row
      BY <2>2, <3>2, <3>4
    <3>6. CarriedFresh(d)'
      BY <1>2, <1>9, <3>3, <3>5 DEF CaptureResolution, CarriedFresh, RowFresh
    <3> QED
      BY <1>4, <1>9, <3>5, <3>6 DEF CaptureResolution
  <2> QED
    BY <1>9, <2>1, <2>2 DEF CaptureResolution
<1>10. CASE CaptureSave(d)
  <2>1. /\ scan[d].tree \in Trees /\ scan[d].state \in State /\ scan[d].state.base <= nextId
        /\ nextId \in Ids /\ nextId' = nextId + 1
    BY <1>1, <1>10, CarriedType DEF CaptureSave, CarriedFresh
  <2>2. PICK row \in Row : row = SaveRow(d, scan[d].tree, scan[d].state)
    BY <1>1, <2>1, SaveRowType
  <2>3. row.gen < nextId + 1 /\ row.rev.op \in Ids
    BY <1>1, <2>1, <2>2, SaveRowType
  <2>4. PICK next \in Capturing : next = [at |-> "enqueuing", row |-> row]
    BY DEF Capturing
  <2>5. CaptureGoes(d, next) /\ next.at = "enqueuing" /\ next.row = row
    BY <1>10, <2>2, <2>4 DEF CaptureSave
  <2>6. CarriedFresh(d)'
    BY <1>2, <2>1, <2>3, <2>5 DEF CarriedFresh, RowFresh
  <2>7. nextId <= nextId' /\ nextId' \in 1..(MaxIds + 1) /\ nextId' \in Nat
    BY <1>1, <2>1 DEF Ids
  <2>8. StoreMoves(d)
    BY <1>1, <1>2, <1>10, <2>5, <2>7, StoreStays DEF CaptureSave, registry
  <2>9. next # None /\ scan[d].at # "abandoned" /\ next.at # "setting"
    BY <1>10, <2>4, <2>5, NoneIsNoRecord DEF CaptureSave
  <2> QED
    BY <1>1, <2>5, <2>6, <2>7, <2>8, <2>9, CaptureGoesKeeps
<1>11. CASE CaptureStatus(d)
  <2>1. scan[d].status \in Status /\ scan[d].at # "abandoned"
    BY <1>1, <1>11, CarriedType DEF CaptureStatus
  <2>2. d \notin Background /\ scan[d].status = "clean" => queue[d] = <<>>
    BY <1>1, <1>11 DEF CaptureStatus, ScanInv, AloneInv
  <2>3. /\ status' \in [Devices -> Status] /\ status'[d] = scan[d].status
        /\ \A e \in Devices \ {d} : status'[e] = status[e]
    BY <1>1, <1>11, <2>1 DEF CaptureStatus, TypeOK
  <2>4. CaptureGoes(d, None) /\ UNCHANGED <<nextId, base, localHead, valid, queue, recorded>>
    BY <1>11 DEF CaptureStatus
  <2>5. UNCHANGED <<local, stored>> /\ nextId <= nextId' /\ nextId' \in Nat /\ nextId' \in 1..(MaxIds + 1)
    BY <1>1, <1>2, <2>4 DEF registry
  <2>6. StoreMoves(d)
    BY <1>1, <2>2, <2>3, <2>4, <2>5, StatusMoves
  <2> QED
    BY <1>1, <1>3, <2>1, <2>4, <2>5, <2>6, CaptureGoesKeeps
<1>12. CASE CaptureEnqueue(d)
  <2>1. scan[d].row \in Row /\ RowFresh(scan[d].row) /\ scan[d].at # "abandoned"
    BY <1>1, <1>12, CarriedType DEF CaptureEnqueue, CarriedFresh
  <2>2. CaptureGoes(d, None) /\ UNCHANGED nextId
    BY <1>12 DEF CaptureEnqueue
  <2>3. UNCHANGED <<local, stored>> /\ nextId <= nextId' /\ nextId' \in Nat /\ nextId' \in 1..(MaxIds + 1)
    BY <1>1, <1>2, <2>2 DEF registry
  <2>4. CASE Enqueue(d, scan[d].row)
    <3>1. PICK row \in Row : row = scan[d].row
      BY <2>1
    <3>2. RowFresh(row)' /\ Enqueue(d, row)
      BY <2>1, <2>2, <2>4, <3>1 DEF RowFresh
    <3>3. StoreMoves(d)
      BY <1>1, <2>3, <3>2, EnqueueMoves
    <3> QED
      BY <1>1, <1>3, <2>1, <2>2, <2>3, <3>3, CaptureGoesKeeps
  <2>5. CASE UNCHANGED <<wsState, queue, recorded>>
    BY <1>3, <1>4, <2>1, <2>2, <2>5
  <2> QED
    BY <1>12, <2>4, <2>5 DEF CaptureEnqueue
<1> QED
  BY <1>5, <1>6, <1>7, <1>8, <1>9, <1>10, <1>11, <1>12 DEF CaptureStep

LEMMA StartMergeKeeps ==
  ASSUME IndInv, NEW d \in Devices, UNCHANGED overlap, NEW row \in Row, RowFresh(row),
         run[d].at # "capture", StartMerge(d, row)
  PROVE  IndInv'
<1>1. /\ TypeOK /\ StoreInv(d) /\ ScanInv(d) /\ run \in [Devices -> Run] /\ nextId \in Nat
      /\ faults \in 0..MaxFaults /\ scan \in [Devices -> Capturing \cup {None}]
  BY NextIdType DEF IndInv, TypeOK
<1>2. RowFresh(row)' /\ nextId <= nextId' /\ nextId' \in Nat /\ nextId' \in 1..(MaxIds + 1)
  BY <1>1 DEF StartMerge, RowFresh, TypeOK
<1>3. UNCHANGED <<registry, folder, local, edits, scan, faults>>
  BY DEF StartMerge
<1>4. ASSUME run' = [run EXCEPT ![d] = run'[d]], run'[d] \in Run, RunInv(d)', run'[d].at # "noneQueued",
             StoreMoves(d)
      PROVE  IndInv'
  <2>1. Apart(d)
    BY <1>3, <1>4 DEF Apart
  <2>2. ScanInv(d)' /\ scan' = [scan EXCEPT ![d] = scan'[d]] /\ scan'[d] \in Capturing \cup {None}
    BY <1>1, <1>2, <1>3, <2>1, ApartScan
  <2> QED
    BY <1>1, <1>2, <1>3, <1>4, <2>2, MoveStep
<1>5. CASE Unrecorded(d, row.rev.op)
  <2>1. Enqueue(d, row)
    BY <1>5 DEF StartMerge
  <2>2. StoreMoves(d)
    BY <1>1, <1>2, <1>3, <2>1, EnqueueMoves DEF registry
  <2>3. run'[d] = [Idle EXCEPT !.at = "drain", !.todo = <<row>>, !.merging = TRUE]
        /\ run' = [run EXCEPT ![d] = run'[d]]
    BY <1>1, <1>5 DEF StartMerge
  <2>4. /\ run'[d] \in Run /\ run'[d].at = "drain" /\ run'[d].todo = <<row>>
        /\ run'[d].reply = None /\ run'[d].remote = None
    <3>1. "drain" \in Place /\ <<row>> \in Seq(Row) /\ TRUE \in BOOLEAN
      BY DEF Place
    <3>2. [Idle EXCEPT !.at = "drain", !.todo = <<row>>, !.merging = TRUE] \in Run
      BY <3>1, IdleType DEF Run
    <3> QED
      BY <2>3, <3>2 DEF Idle
  <2>5. RunInv(d)'
    <3>1. DOMAIN <<row>> = {1} /\ <<row>>[1] = row
      OBVIOUS
    <3> QED
      BY <1>2, <2>4, <3>1 DEF RunInv, RowFresh, Uploading, Informed
  <2> QED
    BY <1>4, <2>2, <2>3, <2>4, <2>5
<1>6. CASE ~Unrecorded(d, row.rev.op)
  <2>1. Stop(d) /\ UNCHANGED <<wsState, queue, recorded>>
    BY <1>6 DEF StartMerge
  <2>2. run'[d] = Idle /\ run' = [run EXCEPT ![d] = run'[d]] /\ run'[d].at = "idle"
    BY <1>1, <2>1 DEF Stop, Idle
  <2>3. StoreMoves(d)
    BY <1>1, <1>2, <1>3, <2>1, StoreStays DEF registry
  <2> QED
    BY <1>4, <2>2, <2>3, IdleType, IdleRun
<1> QED
  BY <1>5, <1>6

LEMMA MergesKeep ==
  ASSUME IndInv, NEW d \in Devices, UNCHANGED overlap,
         ReconcileMerge(d) \/ \E h \in stored : ResolveWith(d, h)
  PROVE  IndInv'
<1>1. TypeOK /\ RegistryInv /\ RunInv(d) /\ run[d] \in Run
  BY DEF IndInv, TypeOK
<1>2. ASSUME NEW c \in Conflict, NEW t \in Trees, ConflictFresh(c), StartMerge(d, MergeRow(c, t)),
             run[d].at # "capture"
      PROVE  IndInv'
  <2>1. PICK row \in Row : row = MergeRow(c, t)
    BY MergeRowType
  <2>2. RowFresh(row)
    BY <1>2, <2>1, MergeRowType DEF RowFresh, ConflictFresh
  <2>3. StartMerge(d, row)
    BY <1>2, <2>1
  <2> QED
    BY <1>2, <2>2, <2>3, StartMergeKeeps
<1>3. CASE ReconcileMerge(d)
  <2>1. run[d].remote # None /\ run[d].remote.open # None
    BY <1>1, <1>3 DEF ReconcileMerge, RunInv, Informed
  <2>2. run[d].remote \in Remote /\ RemoteFresh(run[d].remote)
    BY <1>1, <2>1 DEF Run, RunInv
  <2>3. run[d].remote.open \in Conflict /\ ConflictFresh(run[d].remote.open)
    BY <2>1, <2>2 DEF Remote, RemoteFresh
  <2>4. PICK c \in Conflict : c = run[d].remote.open
    BY <2>3
  <2>5. MergedTree(c) \in Trees
    <3> DEFINE x == CHOOSE h \in c.heads : h # c.active
    <3>1. x \in c.heads
      BY OtherHead
    <3>2. c.heads \subseteq Rev /\ c.active \in Rev /\ c.base \in Rev
      BY DEF Conflict
    <3> HIDE DEF x
    <3>3. x.tree \subseteq Edits /\ c.active.tree \subseteq Edits
      BY <3>1, <3>2 DEF Rev, Trees
    <3>4. MergedTree(c) = Merge3(c.base.tree, c.active.tree, x.tree)
      BY DEF MergedTree, x
    <3> QED
      BY <3>3, <3>4 DEF Merge3, Trees
  <2>6. PICK t \in Trees : t = MergedTree(c)
    BY <2>5
  <2>7. StartMerge(d, MergeRow(c, t))
    BY <1>3, <2>4, <2>6 DEF ReconcileMerge
  <2>8. ConflictFresh(c)
    BY <2>3, <2>4
  <2> QED
    BY <1>2, <1>3, <2>7, <2>8 DEF ReconcileMerge
<1>4. CASE \E h \in stored : ResolveWith(d, h)
  <2>1. PICK h \in stored : ResolveWith(d, h)
    BY <1>4
  <2>2. open # None /\ open \in Conflict /\ ConflictFresh(open)
    BY <1>1, <2>1 DEF ResolveWith, TypeOK, RegistryInv, OpenInv
  <2>3. PICK c \in Conflict : c = open
    BY <2>2
  <2>4. PICK t \in Trees : t = h.tree
    BY <1>1 DEF TypeOK, Rev
  <2>5. StartMerge(d, MergeRow(c, t)) /\ ConflictFresh(c)
    BY <2>1, <2>2, <2>3, <2>4 DEF ResolveWith
  <2> QED
    BY <1>2, <2>1, <2>5 DEF ResolveWith
<1> QED
  BY <1>3, <1>4
-------------------------------------------------------------------------------
(* Steps of the registry *)

\* A step that leaves the devices' databases and directories alone.
LEMMA ServerStep ==
  ASSUME IndInv, NEW d \in Devices, UNCHANGED <<folder, database, edits, recorded, faults, overlap>>,
         Apart(d), head' \in Rev, gen' \in Gens, stored' \subseteq Rev,
         operations' \in [Ids -> Operation \cup {None}], open' \in Conflict \cup {None},
         nextId' \in 1..(MaxIds + 1), Grows,
         run' = [run EXCEPT ![d] = run'[d]], run'[d] \in Run, RegistryInv', RunInv(d)'
  PROVE  IndInv'
<1>1. TypeOK /\ StoreInv(d)
  BY DEF IndInv
<1>2. run' \in [Devices -> Run] /\ \A e \in Devices \ {d} : run'[e] = run[e]
  BY <1>1 DEF TypeOK
<1>3. TypeOK'
  BY <1>1, <1>2 DEF TypeOK, Apart, folder, database, wsState
<1>4. Others(d)
  BY <1>2 DEF Others, Apart, database, wsState
<1>5. StoreInv(d)'
  BY <1>1, <1>3, StoreFrame DEF database, wsState
<1>6. ScanInv(d)'
  <2>1. nextId' \in Nat /\ nextId <= nextId' /\ ScanInv(d)
    BY WorkspaceSyncAssumption DEF IndInv, Grows
  <2> QED
    BY <1>1, <2>1, ApartScan
<1> QED
  BY <1>3, <1>4, <1>5, <1>6, StepKeeps

LEMMA PrepareKeeps ==
  ASSUME IndInv, NEW d \in Devices, UNCHANGED overlap, Prepare(d)
  PROVE  IndInv'
<1>a. Apart(d)
  BY SyncApart DEF IndInv
<1> USE <1>a
<1>1. TypeOK /\ RegistryInv /\ StoreInv(d) /\ RunInv(d) /\ run[d] \in Run
  BY DEF IndInv, TypeOK
<1>2. run[d].todo # <<>> /\ Current(d) \in Row /\ RowFresh(Current(d))
  BY <1>1, RowsType DEF Prepare, RunInv
<1>3. PICK row \in Row : row = Current(d)
  BY <1>2
<1> DEFINE o == row.rev.op
<1>4. o \in Ids /\ RowFresh(row)
  BY <1>2, <1>3 DEF RowFresh
<1>5. UNCHANGED <<head, gen, stored, open, nextId, folder, database, edits, recorded, faults>>
  BY DEF Prepare
<1>6. "prepared" \in Place
  BY DEF Place
<1>7. /\ run' = [run EXCEPT ![d] = run'[d]] /\ run'[d] \in Run
      /\ run'[d].at = "prepared" /\ run'[d].todo = run[d].todo
      /\ run'[d].reply = run[d].reply /\ run'[d].remote = run[d].remote
  BY <1>1, <1>6, GotoRun DEF Prepare
<1>8. Current(d)' = row
  BY <1>3, <1>7 DEF Current
<1>9. CASE operations[o] = None /\ operations' = [operations EXCEPT ![o] = [row |-> row, outcome |-> None]]
  <2> DEFINE known == [row |-> row, outcome |-> None]
  <2>1. known \in Operation /\ known.row = row /\ known.outcome = None
    BY DEF Operation
  <2>2. known # None
    BY <2>1, NoneIsNoRecord
  <2> HIDE DEF known
  <2>3. operations' = [operations EXCEPT ![o] = known]
    BY <1>9 DEF known
  <2>4. /\ operations' \in [Ids -> Operation \cup {None}] /\ operations'[o] = known
        /\ \A p \in Ids \ {o} : operations'[p] = operations[p]
    BY <1>1, <1>4, <2>1, <2>3 DEF TypeOK
  <2>5. Grows
    <3>1. nextId <= nextId' /\ stored \subseteq stored'
      BY <1>1, <1>5, NextIdType
    <3> QED
      BY <1>9, <2>4, <3>1 DEF Grows
  <2>6. \A p \in Ids : OperationInv(p)'
    <3> SUFFICES ASSUME NEW p \in Ids PROVE OperationInv(p)'
      OBVIOUS
    <3>1. CASE p = o
      <4>1. operations'[p].row = row /\ operations'[p].outcome = None
        BY <2>1, <2>4, <3>1
      <4>2. row.gen < nextId' /\ row.rev.op \in Ids
        BY <1>4, <1>5 DEF RowFresh
      <4> QED
        BY <3>1, <4>1, <4>2 DEF OperationInv, RowFresh
    <3>2. CASE p # o
      BY <1>1, <1>5, <2>4, <3>2 DEF RegistryInv, OperationInv, RowFresh, ReplyFresh, ConflictFresh
    <3> QED
      BY <3>1, <3>2
  <2>7. RegistryInv'
    <3>1. head.op # 0 => head.op \in Ids
      BY <1>1, WorkspaceSyncAssumption DEF TypeOK, Rev, Ids
    <3>2. head.op # 0 => operations'[head.op] = operations[head.op]
      BY <1>1, <1>9, <2>4, <3>1 DEF RegistryInv
    <3>3. open # None => OpenInv'
      BY <1>1, <1>5, <1>9, <2>4 DEF RegistryInv, OpenInv, ConflictFresh
    <3> QED
      BY <1>1, <1>5, <2>6, <3>2, <3>3 DEF RegistryInv
  <2>8. RunInv(d)'
    <3>1. operations'[o] # None /\ operations'[o].row = row
      BY <2>1, <2>2, <2>4
    <3> QED
      BY <1>1, <1>2, <1>5, <1>7, <1>8, <3>1
         DEF RunInv, Informed, RowFresh, ReplyFresh, RemoteFresh, ConflictFresh
  <2>9. /\ head' \in Rev /\ gen' \in Gens /\ stored' \subseteq Rev /\ open' \in Conflict \cup {None}
        /\ nextId' \in 1..(MaxIds + 1)
    BY <1>1, <1>5 DEF TypeOK
  <2> QED
    BY <1>5, <1>7, <2>4, <2>5, <2>7, <2>8, <2>9, ServerStep
<1>10. CASE operations[o] # None /\ operations[o].row = row /\ UNCHANGED operations
  <2>1. RunInv(d)'
    BY <1>1, <1>2, <1>5, <1>7, <1>8, <1>10
       DEF RunInv, Informed, RowFresh, ReplyFresh, RemoteFresh, ConflictFresh
  <2>2. faults' \in 0..MaxFaults /\ UNCHANGED registry
    BY <1>1, <1>5, <1>10 DEF TypeOK, registry
  <2> QED
    BY <1>5, <1>7, <2>1, <2>2, RunStep
<1> QED
  BY <1>3, <1>9, <1>10 DEF Prepare

\* The answer of a commit is recorded with its operation.
LEMMA AnswerRun ==
  ASSUME TypeOK, NEW d \in Devices, NEW reply \in Reply,
         run' = [run EXCEPT ![d].at = "answered", ![d].reply = reply]
  PROVE  /\ run' = [run EXCEPT ![d] = run'[d]] /\ run'[d] \in Run
         /\ run'[d].at = "answered" /\ run'[d].todo = run[d].todo
         /\ run'[d].reply = reply /\ run'[d].remote = run[d].remote
<1>1. run \in [Devices -> Run] /\ run[d] \in Run
  BY DEF TypeOK
<1>2. /\ run'[d] = [run[d] EXCEPT !.at = "answered", !.reply = reply]
      /\ run' = [run EXCEPT ![d] = run'[d]]
  BY <1>1
<1>3. "answered" \in Place
  BY DEF Place
<1> QED
  BY <1>1, <1>2, <1>3 DEF Run

LEMMA OperationNow ==
  ASSUME NEW p, NEW x, operations'[p] = x,
         x # None => /\ RowFresh(x.row)' /\ x.row.rev.op = p
                     /\ x.outcome # None => ReplyFresh(x.outcome)' /\ x.row.rev \in stored'
  PROVE  OperationInv(p)'
<1> SUFFICES ASSUME x # None
             PROVE  /\ RowFresh(operations[p].row)' /\ operations'[p].row.rev.op = p
                    /\ operations'[p].outcome # None =>
                         ReplyFresh(operations[p].outcome)' /\ operations'[p].row.rev \in stored'
  BY DEF OperationInv
<1>1. RowFresh(operations[p].row)'
  BY DEF RowFresh
<1>2. x.outcome # None => ReplyFresh(operations[p].outcome)'
  BY DEF ReplyFresh, ConflictFresh
<1> QED
  BY <1>1, <1>2

LEMMA DecideKeeps ==
  ASSUME IndInv, NEW d \in Devices, UNCHANGED overlap, NEW row \in Row, row = Current(d),
         run[d].at = "prepared", Apart(d), NEW reply \in Reply,
         UNCHANGED <<folder, database, edits, recorded, faults>>,
         run' = [run EXCEPT ![d].at = "answered", ![d].reply = reply],
         operations' = [operations EXCEPT ![row.rev.op].outcome = reply],
         stored' = stored \cup {row.rev},
         nextId <= nextId', nextId' \in 1..(MaxIds + 1), ReplyFresh(reply)',
         head' \in Rev, gen' \in Gens, gen' <= nextId', head' \in {head, row.rev},
         open' \in Conflict \cup {None},
         open' # None => /\ ConflictFresh(open)' /\ open'.active = head' /\ open'.base = row.head
                         /\ open'.heads \ {head'} = {row.rev}
  PROVE  IndInv'
<1>1. TypeOK /\ RegistryInv /\ StoreInv(d) /\ RunInv(d)
  BY DEF IndInv
<1> DEFINE o == row.rev.op
<1>2. /\ run[d].todo # <<>> /\ RowFresh(row) /\ o \in Ids
      /\ operations[o] # None /\ operations[o].row = row
  <2>1. run[d].todo # <<>> /\ operations[o] # None /\ operations[o].row = row
    BY <1>1 DEF RunInv, Uploading
  <2> QED
    BY <1>1, <2>1, RowsType DEF RunInv, RowFresh
<1>3. nextId \in Nat /\ nextId' \in Nat
  BY <1>1, NextIdType
<1>4. operations[o] \in Operation /\ operations \in [Ids -> Operation \cup {None}]
  BY <1>1, <1>2 DEF TypeOK
<1> DEFINE known == [operations[o] EXCEPT !.outcome = reply]
<1>5. known \in Operation /\ known.row = row /\ known.outcome = reply
  BY <1>2, <1>4 DEF Operation
<1>6. operations' = [operations EXCEPT ![o] = known]
  BY <1>2, <1>4
<1>7. reply # None /\ known # None
  BY <1>5, NoneIsNoRecord
<1>8. PICK k : k = known
  OBVIOUS
<1>9. /\ operations' \in [Ids -> Operation \cup {None}] /\ operations'[o] = k
      /\ \A p \in Ids \ {o} : operations'[p] = operations[p]
      /\ k \in Operation /\ k.row = row /\ k.outcome = reply /\ k # None
  <2> HIDE DEF known
  <2> QED
    BY <1>2, <1>4, <1>5, <1>6, <1>7, <1>8
<1>10. Grows
  BY <1>2, <1>9 DEF Grows
<1>11. row.rev \in Rev
  BY DEF Row
<1>12. RowFresh(row)'
  BY <1>2, <1>3, FreshStays
<1>13. \A p \in Ids : OperationInv(p)'
  <2> SUFFICES ASSUME NEW p \in Ids PROVE OperationInv(p)'
    OBVIOUS
  <2>1. CASE p = o
    <3>1. row.rev \in stored'
      OBVIOUS
    <3> QED
      BY <1>9, <1>12, <2>1, <3>1, OperationNow
  <2>2. CASE p # o
    <3>1. operations'[p] = operations[p] /\ OperationInv(p)
      BY <1>1, <1>9, <2>2 DEF RegistryInv
    <3>2. operations[p] # None => /\ operations[p].row \in Row
                                  /\ operations[p].outcome # None => operations[p].outcome \in Reply
      BY <1>1 DEF TypeOK, Operation
    <3>3. PICK x : x = operations[p]
      OBVIOUS
    <3>4. x # None => /\ RowFresh(x.row)' /\ x.row.rev.op = p
                      /\ x.outcome # None => ReplyFresh(x.outcome)' /\ x.row.rev \in stored
      <4>1. x # None => /\ RowFresh(x.row) /\ x.row \in Row /\ x.row.rev.op = p
                        /\ x.outcome # None => /\ ReplyFresh(x.outcome) /\ x.outcome \in Reply
                                               /\ x.row.rev \in stored
        BY <3>1, <3>2, <3>3 DEF OperationInv
      <4> QED
        BY <1>3, <4>1, FreshStays
    <3>5. operations'[p] = x /\ stored \subseteq stored'
      BY <3>1, <3>3
    <3> QED
      BY <3>4, <3>5, OperationNow
  <2> QED
    BY <2>1, <2>2
<1>14. head'.op # 0 => operations'[head'.op] # None /\ operations'[head'.op].outcome # None
  <2>1. CASE head' = row.rev
    BY <1>7, <1>9, <2>1
  <2>2. CASE head' = head
    <3>1. head.op # 0 => head.op \in Ids
      BY <1>1, WorkspaceSyncAssumption DEF TypeOK, Rev, Ids
    <3> QED
      BY <1>1, <1>7, <1>9, <2>2, <3>1 DEF RegistryInv
  <2> QED
    BY <2>1, <2>2
<1>15. open' # None => OpenInv'
  BY <1>2, <1>9 DEF OpenInv
<1>16. RegistryInv'
  BY <1>13, <1>14, <1>15 DEF RegistryInv
<1>17. /\ run' = [run EXCEPT ![d] = run'[d]] /\ run'[d] \in Run
       /\ run'[d].at = "answered" /\ run'[d].todo = run[d].todo
       /\ run'[d].reply = reply /\ run'[d].remote = run[d].remote
  BY <1>1, AnswerRun
<1>18. RunInv(d)'
  <2>1. Current(d)' = row
    BY <1>17 DEF Current
  <2>2. PICK todo, m : todo = run[d].todo /\ m = run[d].remote
    OBVIOUS
  <2>3. \A i \in DOMAIN todo : RowFresh(todo[i])'
    BY <1>1, <1>3, <2>2, FreshStays, RowsType DEF RunInv
  <2>4. m # None => RemoteFresh(m)'
    <3>1. m # None => m \in Remote /\ RemoteFresh(m)
      BY <1>1, <2>2 DEF TypeOK, Run, RunInv
    <3> QED
      BY <1>3, <3>1, FreshStays
  <2> QED
    BY <1>2, <1>7, <1>17, <2>1, <2>2, <2>3, <2>4
       DEF RunInv, Informed, RowFresh, RemoteFresh, ReplyFresh, ConflictFresh
<1>19. stored' \subseteq Rev
  BY <1>1, <1>11 DEF TypeOK
<1> QED
  BY <1>9, <1>10, <1>16, <1>17, <1>18, <1>19, ServerStep
\* A commit is decided once: afterwards it is answered from its row.
LEMMA CommitKeeps ==
  ASSUME IndInv, NEW d \in Devices, UNCHANGED overlap, Commit(d)
  PROVE  IndInv'
<1>a. Apart(d)
  BY SyncApart DEF IndInv
<1> USE <1>a
<1>1. TypeOK /\ RegistryInv /\ StoreInv(d) /\ RunInv(d)
  BY DEF IndInv
<1>2. run[d].at = "prepared" /\ UNCHANGED <<folder, database, edits, recorded, faults>>
  BY DEF Commit
<1>3. run[d].todo # <<>> /\ Current(d) \in Row /\ RowFresh(Current(d))
  <2>1. run[d].todo # <<>>
    BY <1>1, <1>2 DEF RunInv, Uploading
  <2> QED
    BY <1>1, <2>1, RowsType DEF RunInv
<1>4. PICK row \in Row : row = Current(d)
  BY <1>3
<1> DEFINE o == row.rev.op
<1>5. RowFresh(row) /\ o \in Ids /\ operations[o] # None /\ operations[o].row = row
  BY <1>1, <1>2, <1>3, <1>4 DEF RunInv, RowFresh
<1>6. /\ operations[o] \in Operation /\ operations \in [Ids -> Operation \cup {None}]
      /\ head \in Rev /\ gen \in Gens /\ gen \in Nat /\ nextId \in Nat /\ gen <= nextId
      /\ nextId \in 1..(MaxIds + 1) /\ open \in Conflict \cup {None} /\ OperationInv(o)
  BY <1>1, <1>5, NextIdType DEF TypeOK, RegistryInv
<1>7. row.gen \in Nat /\ row.gen < nextId /\ row.rev \in Rev /\ row.head \in Rev
  BY <1>5, NumbersType DEF RowFresh
<1>8. CASE /\ Decided(row)
           /\ run' = [run EXCEPT ![d].at = "answered", ![d].reply = operations[o].outcome]
           /\ UNCHANGED <<registry, nextId>>
  <2>1. operations[o].outcome # None /\ operations[o].outcome \in Reply
    BY <1>6, <1>8 DEF Decided, Operation
  <2>2. ReplyFresh(operations[o].outcome) /\ row.rev \in stored
    BY <1>5, <1>6, <2>1 DEF OperationInv
  <2>3. PICK reply \in Reply : reply = operations[o].outcome
    BY <2>1
  <2>4. run' = [run EXCEPT ![d].at = "answered", ![d].reply = reply]
    BY <1>8, <2>3
  <2>5. /\ run' = [run EXCEPT ![d] = run'[d]] /\ run'[d] \in Run
        /\ run'[d].at = "answered" /\ run'[d].todo = run[d].todo
        /\ run'[d].reply = reply /\ run'[d].remote = run[d].remote
    BY <1>1, <2>4, AnswerRun
  <2>6. ReplyFresh(reply) /\ reply # None
    BY <2>1, <2>2, <2>3
  <2>7. Current(d)' = row
    BY <1>4, <2>5 DEF Current
  <2>8. RunInv(d)'
    BY <1>1, <1>3, <1>8, <2>2, <2>5, <2>6, <2>7
       DEF RunInv, registry, Informed, RowFresh, RemoteFresh, ReplyFresh, ConflictFresh
  <2>9. faults' \in 0..MaxFaults
    BY <1>1, <1>2 DEF TypeOK
  <2> QED
    BY <1>2, <1>8, <2>5, <2>8, <2>9, RunStep
<1>9. CASE /\ ~Decided(row) /\ CommitAllowed(row) /\ stored' = stored \cup {row.rev}
           /\ Advance(row)
           /\ run' = [run EXCEPT ![d].at = "answered", ![d].reply = operations'[o].outcome]
  <2> DEFINE r == [state |-> "advanced", gen |-> gen + 1]
  <2>1. /\ head = row.head /\ head' = row.rev /\ gen' = gen + 1 /\ nextId' = nextId
        /\ operations' = [operations EXCEPT ![o].outcome = r]
        /\ open' = IF IsMerge(row) THEN None ELSE open
    BY <1>9 DEF Advance, BasedOnHead
  <2>2. gen = row.gen /\ gen + 1 \in Gens /\ gen + 1 <= nextId
    <3> HIDE DEF r
    <3>1. gen = row.gen
      BY <1>9, <2>1 DEF CommitAllowed
    <3> QED
      BY <1>6, <1>7, <3>1, WorkspaceSyncAssumption DEF Gens
  <2>3. r \in Reply
    BY <2>2 DEF Reply
  <2>4. PICK reply \in Reply : reply = r
    BY <2>3
  <2>5. operations'[o].outcome = reply
    <3>1. operations'[o] = [operations[o] EXCEPT !.outcome = reply]
      BY <1>5, <1>6, <2>1, <2>4
    <3> QED
      BY <1>6, <3>1 DEF Operation
  <2>6. reply.state = "advanced" /\ reply.gen <= nextId'
    BY <2>1, <2>2, <2>4
  <2>7. ReplyFresh(reply)'
    BY <2>6 DEF ReplyFresh
  <2>8. open' = None
    BY <1>9, <2>1 DEF CommitAllowed
  <2> HIDE DEF r
  <2>9. /\ run' = [run EXCEPT ![d].at = "answered", ![d].reply = reply]
        /\ operations' = [operations EXCEPT ![row.rev.op].outcome = reply]
    BY <1>9, <2>1, <2>4, <2>5
  <2>10. /\ nextId <= nextId' /\ nextId' \in 1..(MaxIds + 1) /\ head' \in Rev /\ gen' \in Gens
         /\ gen' <= nextId' /\ head' \in {head, row.rev} /\ open' \in Conflict \cup {None}
    BY <1>6, <1>7, <2>1, <2>2, <2>8
  <2> QED
    BY <1>2, <1>4, <1>9, <2>7, <2>8, <2>9, <2>10, DecideKeeps
<1>10. CASE /\ ~Decided(row) /\ CommitAllowed(row) /\ stored' = stored \cup {row.rev}
            /\ Diverge(row)
            /\ run' = [run EXCEPT ![d].at = "answered", ![d].reply = operations'[o].outcome]
  <2> DEFINE k == [id |-> nextId, base |-> row.head, heads |-> {row.rev, head},
                   active |-> head, gen |-> gen]
             r == [state |-> "diverged", conflict |-> k]
  <2>1. /\ nextId \in Ids /\ nextId' = nextId + 1 /\ open' = k
        /\ operations' = [operations EXCEPT ![o].outcome = r] /\ head' = head /\ gen' = gen
    BY <1>10 DEF Diverge
  <2>2. row.rev # head
    <3>1. operations[o].outcome = None
      BY <1>10 DEF Decided
    <3>2. o # 0
      BY <1>5, NumbersType
    <3> QED
      BY <1>1, <3>1, <3>2 DEF RegistryInv
  <2>3. Cardinality({row.rev, head}) = 2
    <3> DEFINE S == {head}
    <3>1. IsFiniteSet(S) /\ Cardinality(S) = 1 /\ row.rev \notin S
      BY <2>2, FS_Singleton
    <3>3. S \cup {row.rev} = {row.rev, head}
      OBVIOUS
    <3> HIDE DEF S, k, r
    <3>2. Cardinality(S \cup {row.rev}) = 2
      <4>1. PICK x : x = row.rev
        OBVIOUS
      <4>2. Cardinality(S \cup {x}) = IF x \in S THEN Cardinality(S) ELSE Cardinality(S) + 1
        BY <3>1, FS_AddElement
      <4> QED
        BY <3>1, <4>1, <4>2
    <3> QED
      BY <3>2, <3>3
  <2>4. k \in [id : Ids, base : Rev, heads : SUBSET Rev, active : Rev, gen : Gens]
    BY <1>6, <1>7, <2>1
  <2>5. k \in Conflict /\ k.heads = {row.rev, head} /\ k.active = head /\ k.base = row.head /\ k.gen = gen
    BY <2>3, <2>4 DEF Conflict
  <2>6. PICK c \in Conflict : c = k
    BY <2>5
  <2>7. c.heads = {row.rev, head} /\ c.active = head /\ c.base = row.head /\ c.gen = gen /\ open' = c
    BY <2>1, <2>5, <2>6
  <2> HIDE DEF k
  <2>8. [state |-> "diverged", conflict |-> c] \in Reply
    BY DEF Reply
  <2>9. PICK reply \in Reply : reply = [state |-> "diverged", conflict |-> c]
    BY <2>8
  <2>10. operations' = [operations EXCEPT ![o].outcome = reply]
    BY <2>1, <2>6, <2>9
  <2>11. operations'[o].outcome = reply
    <3>1. operations'[o] = [operations[o] EXCEPT !.outcome = reply]
      BY <1>5, <1>6, <2>10
    <3> QED
      BY <1>6, <3>1 DEF Operation
  <2>12. run' = [run EXCEPT ![d].at = "answered", ![d].reply = reply]
    BY <1>10, <2>11
  <2>13. gen < nextId' /\ nextId <= nextId' /\ nextId' \in 1..(MaxIds + 1)
    BY <1>6, <2>1, WorkspaceSyncAssumption DEF Ids
  <2>14. reply.state # "advanced" /\ reply.conflict = c /\ c.gen < nextId'
    BY <2>7, <2>9, <2>13
  <2>15. ReplyFresh(reply)'
    BY <2>14 DEF ReplyFresh, ConflictFresh
  <2>16. /\ ConflictFresh(open)' /\ open'.active = head' /\ open'.base = row.head
         /\ open'.heads \ {head'} = {row.rev}
    BY <2>1, <2>2, <2>7, <2>13 DEF ConflictFresh
  <2>17. /\ head' \in Rev /\ gen' \in Gens /\ gen' <= nextId' /\ head' \in {head, row.rev}
         /\ open' \in Conflict \cup {None}
    BY <1>6, <2>1, <2>7, <2>13
  <2> QED
    BY <1>2, <1>4, <1>10, <2>10, <2>12, <2>13, <2>15, <2>16, <2>17, DecideKeeps
<1> QED
  BY <1>4, <1>8, <1>9, <1>10 DEF Commit

-------------------------------------------------------------------------------
(* Theorems *)

LEMMA InitHolds ==
  ASSUME Init
  PROVE  IndInv
<1>1. 0 \in 0..MaxIds /\ 1 \in Gens /\ 1 \in 1..(MaxIds + 1) /\ 0 \in 0..MaxFaults /\ {} \in Trees
  BY WorkspaceSyncAssumption DEF Gens, Trees
<1>2. Base \in Rev /\ Base.op = 0
  BY <1>1 DEF Base, Rev
<1>3. <<>> \in Seq(Row) /\ "clean" \in Status
  BY DEF Status
<1>4. TypeOK
  BY <1>1, <1>2, <1>3, IdleType DEF Init, TypeOK
<1>5. RegistryInv
  BY <1>2 DEF Init, RegistryInv, OperationInv
<1>6. ASSUME NEW d \in Devices
      PROVE  StoreInv(d) /\ RunInv(d) /\ ScanInv(d)
  <2>1. /\ base[d] = 1 /\ nextId = 1 /\ queue[d] = <<>> /\ local[d] = None /\ recorded[d] = {}
        /\ run[d] = Idle /\ scan[d] = None
    BY DEF Init
  <2>2. DOMAIN queue[d] = {}
    BY <2>1
  <2>3. StoreInv(d)
    BY <2>1, <2>2 DEF StoreInv
  <2>4. /\ run[d].at = "idle" /\ DOMAIN run[d].todo = {} /\ run[d].reply = None /\ run[d].remote = None
    BY <2>1 DEF Idle
  <2>5. RunInv(d)
    BY <2>4 DEF RunInv, Uploading, Informed
  <2>6. ScanInv(d)
    BY <2>1 DEF ScanInv, AloneInv
  <2> QED
    BY <2>3, <2>5, <2>6
<1> QED
  BY <1>4, <1>5, <1>6 DEF IndInv

LEMMA NextKeeps ==
  ASSUME IndInv, [Next]_vars
  PROVE  IndInv'
<1>1. CASE Next
  <2>1. PICK d \in Devices :
          \/ SyncStep(d) \/ CaptureStep(d) \/ BackgroundCapture(d) \/ LeaseExpires(d)
          \/ QuotaExceeded(d) \/ Fail(d) \/ CaptureFails(d) \/ Break(d) \/ Repair(d)
          \/ \E h \in stored : ResolveWith(d, h)
          \/ \E e \in Edits : Edit(d, e)
    BY <1>1 DEF Next
  <2>2. UNCHANGED overlap
    BY <1>1 DEF Next
  <2> USE <2>2
  <2>3. CASE SyncStep(d)
    BY <2>3, RunOnlyKeeps, RefusedKeeps, PausesKeep, MaterializeKeeps, RecordsKeep, BaselinesKeep,
       RecordAdvancedKeeps, RecordDetachedKeeps, LeaseKeeps, MergesKeep, PrepareKeeps, CommitKeeps
       DEF SyncStep
  <2>4. CASE QuotaExceeded(d)
    BY <2>4, RefusedKeeps
  <2>5. CASE BackgroundCapture(d) \/ LeaseExpires(d) \/ Fail(d) \/ CaptureFails(d)
    BY <2>5, LeaseKeeps
  <2>6. CASE CaptureStep(d)
    BY <2>6, CapturesKeep
  <2>7. CASE Break(d) \/ Repair(d) \/ \E e \in Edits : Edit(d, e)
    BY <2>7, UserKeeps
  <2>8. CASE \E h \in stored : ResolveWith(d, h)
    BY <2>8, MergesKeep
  <2> QED
    BY <2>1, <2>3, <2>4, <2>5, <2>6, <2>7, <2>8
<1>2. CASE UNCHANGED vars
  BY <1>2 DEF vars, IndInv, TypeOK, RegistryInv, OperationInv, OpenInv, StoreInv, RunInv, ScanInv, AloneInv,
       CarriedFresh, Current, RowFresh, ReplyFresh, RemoteFresh, ConflictFresh
<1> QED
  BY <1>1, <1>2

\* The inductive invariant holds throughout.
THEOREM Invariance == Spec => []IndInv
  BY InitHolds, NextKeeps, PTL DEF Spec

\* Every device's database, its sync and the registry stay well typed: in
\* particular a conflict always has two heads, one of them active.
THEOREM TypeCorrect == Spec => []TypeOK
<1>1. IndInv => TypeOK
  BY DEF IndInv
<1> QED
  BY <1>1, Invariance, PTL

\* A recorded save is queued or stored, for any number of devices, faults,
\* refusals, repetitions and captures in the background.
THEOREM WorkDurable == Spec => []CapturedWorkDurable
<1>1. IndInv => CapturedWorkDurable
  BY DEF IndInv, StoreInv, CapturedWorkDurable
<1> QED
  BY <1>1, Invariance, PTL

\* On a device where one process at a time captures and syncs, a clean
\* workspace has nothing queued, whatever crashed before.
THEOREM CleanUploaded == Spec => []CleanMeansUploaded
<1>1. IndInv => CleanMeansUploaded
  BY DEF IndInv, StoreInv, CleanMeansUploaded
<1> QED
  BY <1>1, Invariance, PTL

LEMMA HeadMovesByCommit ==
  ASSUME IndInv, [Next]_vars, head' # head
  PROVE  \E row \in Row : /\ operations[row.rev.op] # None /\ operations[row.rev.op].row = row
                          /\ CommitAllowed(row) /\ head = row.head /\ head' = row.rev
<1>1. Next
  BY DEF vars
<1>2. PICK d \in Devices : Commit(d)
  <2>1. PICK d \in Devices :
          \/ SyncStep(d) \/ CaptureStep(d) \/ BackgroundCapture(d) \/ LeaseExpires(d)
          \/ QuotaExceeded(d) \/ Fail(d) \/ CaptureFails(d) \/ Break(d) \/ Repair(d)
          \/ \E h \in stored : ResolveWith(d, h)
          \/ \E e \in Edits : Edit(d, e)
    BY <1>1 DEF Next
  <2>2. ~UNCHANGED registry
    BY DEF registry
  <2>3. ~(QuotaExceeded(d) \/ Fail(d) \/ CaptureFails(d) \/ Break(d) \/ Repair(d))
    BY <2>2 DEF QuotaExceeded, Blocked, Fail, CaptureFails, Break, Repair
  <2>c. ~(CaptureStep(d) \/ BackgroundCapture(d) \/ LeaseExpires(d))
    <3>1. \A next : ~CaptureGoes(d, next)
      BY <2>2 DEF CaptureGoes
    <3>2. ~CaptureStep(d)
      BY <3>1 DEF CaptureStep, CaptureInvalid, CaptureState, CaptureUnchanged, CaptureChanged, CaptureResolution,
           CaptureSave, CaptureStatus, CaptureEnqueue
    <3> QED
      BY <2>2, <3>2 DEF BackgroundCapture, LeaseExpires
  <2>4. ~(\E h \in stored : ResolveWith(d, h)) /\ ~(\E e \in Edits : Edit(d, e))
    <3>1. \A row : ~StartMerge(d, row)
      BY <2>2 DEF StartMerge
    <3> QED
      BY <2>2, <3>1 DEF ResolveWith, Edit
  <2>5. ~(StartSync(d) \/ ListQueue(d) \/ DrainDone(d) \/ PrepareRefused(d) \/ OperationReused(d) \/ CommitRefused(d))
    BY <2>2 DEF StartSync, ListQueue, DrainDone, PrepareRefused, Blocked, OperationReused, CommitRefused
  <2>6. ~Prepare(d)
    BY DEF Prepare
  <2>7. ~(RecordAdvanced(d) \/ RecordDetached(d) \/ SaveConflict(d) \/ PauseConflict(d) \/ Catalog(d))
    BY <2>2 DEF RecordAdvanced, RecordDetached, SaveConflict, PauseConflict, Catalog
  <2>8. ~(ReconcileSave(d) \/ ReconcilePause(d) \/ ReconcileMerge(d) \/ ScanFails(d) \/ Refresh(d))
    BY <2>2 DEF ReconcileSave, ReconcilePause, ReconcileMerge, StartMerge, ScanFails, Refresh
  <2>9. ~(SettleClear(d) \/ SettleRefused(d) \/ SettleCount(d) \/ SettleResume(d) \/ KeepLocalWork(d))
    BY <2>2 DEF SettleClear, SettleRefused, SettleCount, SettleResume, KeepLocalWork
  <2>10. ~(\/ AlreadyCurrent(d) \/ Download(d) \/ Materialize(d) \/ MaterializeBusy(d) \/ Adopt(d)
           \/ ClearConflict(d))
    BY <2>2 DEF AlreadyCurrent, Download, Materialize, MaterializeBusy, Adopt, ClearConflict
  <2>11. Commit(d)
    BY <2>1, <2>3, <2>4, <2>5, <2>6, <2>7, <2>8, <2>9, <2>10, <2>c DEF SyncStep
  <2> QED
    BY <2>11
<1>3. TypeOK /\ RunInv(d)
  BY DEF IndInv
<1>4. run[d].at = "prepared" /\ run[d].todo # <<>>
  BY <1>2, <1>3 DEF Commit, RunInv, Uploading
<1>5. PICK row \in Row : row = Current(d)
  BY <1>3, <1>4, RowsType
<1>6. operations[row.rev.op] # None /\ operations[row.rev.op].row = row
  BY <1>3, <1>4, <1>5 DEF RunInv
<1>7. CommitAllowed(row) /\ Advance(row)
  BY <1>2, <1>5 DEF Commit, registry, Diverge
<1> QED
  BY <1>6, <1>7 DEF Advance, BasedOnHead

\* An automatic merge keeps what the active head has, unless the other head
\* had dropped it.
LEMMA MergeKeepsActive ==
  ASSUME NEW b, NEW x, NEW y, b \subseteq y
  PROVE  x \subseteq Merge3(b, x, y)
  BY DEF Merge3

\* An edit leaves the head only by a directory that lacks it.
THEOREM EditsKept == Spec => HeadNeverLosesEdits
<1>1. ASSUME IndInv, [Next]_vars
      PROVE  [head.tree \subseteq head'.tree \/ FromDirectory(operations[head'.op].row)]_vars
  <2> SUFFICES ASSUME head' # head, ~FromDirectory(operations[head'.op].row)
               PROVE  head.tree \subseteq head'.tree
    OBVIOUS
  <2>1. PICK row \in Row : /\ operations[row.rev.op] # None /\ operations[row.rev.op].row = row
                           /\ CommitAllowed(row) /\ head = row.head /\ head' = row.rev
    BY <1>1, HeadMovesByCommit
  <2>2. ~FromDirectory(row)
    BY <2>1
  <2>3. CASE ~IsMerge(row)
    BY <2>1, <2>2, <2>3 DEF FromDirectory, Drops
  <2>4. CASE IsMerge(row)
    <3>1. row.rev.tree = MergedTree(open) /\ ~Drops(operations[row.other.op].row)
      BY <2>2, <2>4 DEF FromDirectory
    <3>2. open # None /\ open.heads = {row.head, row.other}
      BY <2>1, <2>4 DEF CommitAllowed, ValidMerge
    <3>3. open \in Conflict /\ OpenInv
      BY <1>1, <3>2 DEF IndInv, TypeOK, RegistryInv
    <3> DEFINE x == CHOOSE h \in open.heads : h # open.active
    <3>4. x \in open.heads /\ x # open.active
      BY <3>3, OtherHead
    <3>5. MergedTree(open) = Merge3(open.base.tree, open.active.tree, x.tree)
      BY DEF MergedTree
    <3> HIDE DEF x
    <3>6. open.active = head /\ x = row.other
      BY <2>1, <3>2, <3>3, <3>4 DEF OpenInv
    <3>7. operations[x.op].row.rev = x /\ operations[x.op].row.head = open.base
      BY <3>3, <3>4, <3>6 DEF OpenInv
    <3>8. open.base.tree \subseteq x.tree
      BY <3>1, <3>6, <3>7 DEF Drops
    <3> QED
      BY <2>1, <3>1, <3>5, <3>6, <3>8, MergeKeepsActive
  <2> QED
    BY <2>3, <2>4
<1> QED
  BY <1>1, Invariance, PTL DEF Spec, HeadNeverLosesEdits
=============================================================================
