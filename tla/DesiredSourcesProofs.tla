------------------------- MODULE DesiredSourcesProofs -------------------------
(* Proofs about DesiredSources, for every set of skills and revisions and    *)
(* every number of changes and crashes, when one process at a time syncs and *)
(* the sources of a skill with a direct subscription cannot disagree.        *)
EXTENDS DesiredSources, FiniteSetTheorems, WellFoundedInduction, TLAPS

Alone == \A p, q \in Procs : p = q

\* A skill that only teams and packs bring.
Plain(r) == DirectRevs[r] = {}

Agreeing(S) == \A u, v \in S : u = v

\* The sources of any other skill agree with each other.
Separate == \A r \in Resources : Plain(r) \/ (Agreeing(TeamRevs[r]) /\ Agreeing(PackRevs[r]))

\* The registry stays within what it may require.
RemoteInv ==
    \A r \in Resources :
        team[r] \subseteq TeamRevs[r] /\ pack[r] \subseteq PackRevs[r] /\ direct[r] \in DirectRevs[r] \cup {None}

\* A journal has the old pack rows of the links that are being switched.
JournalInv == \A q \in Procs : jn[q] # None => \A r \in DOMAIN jn[q] : jn[q][r] = pk[r]

\* The link of a plain skill shows its pack row, unless a switch is under way
\* or was cut off.
LinkInv ==
    \A r \in Resources : Plain(r) =>
        /\ sub[r] = None
        /\ link[r] = pk[r] \/ \E q \in Procs : jn[q] # None /\ r \in DOMAIN jn[q]

NoJournal == \A q \in Procs : jn[q] = None

Answers == {"quarantined", "removed", "sent", "silent"}
Catalogs == [want : [Resources -> Value], conf : SUBSET Resources]

\* What a sync knows at each of its places.
EnforceInv(p) ==
    /\ pr[p] \in [pc : {"enforce"}, todo : SUBSET Resources]
    /\ \A r \in pr[p].todo : ~Plain(r)

Listing(p) ==
    /\ \A q \in pr[p].todo : jn[q] = pr[p].listed[q] /\ jn[q] # None
    /\ \A q \in Procs \ pr[p].todo : jn[q] = None

RecoverInv(p) ==
    /\ pr[p] \in [pc : {"recover"}, listed : [Procs -> Journals \cup {None}], todo : SUBSET Procs]
    /\ Listing(p)

DiscardInv(p) ==
    /\ pr[p] \in [pc : {"discard"}, listed : [Procs -> Journals \cup {None}], todo : SUBSET Procs, of : Procs]
    /\ Listing(p)
    /\ pr[p].of \in pr[p].todo
    /\ \A r \in DOMAIN jn[pr[p].of] : link[r] = pk[r]

RefreshedInv(p) ==
    /\ pr[p] \in [pc : {"refreshed"}, cat : Catalogs, conf0 : SUBSET Resources, supp0 : SUBSET Resources]
    /\ NoJournal
    /\ \A r \in pr[p].cat.conf \cup pr[p].conf0 : Plain(r)

DirectPlaces == {"direct", "stored", "place"}

DirectInv(p) ==
    /\ pr[p] \in [pc : DirectPlaces, cat : Catalogs, conf0 : SUBSET Resources, supp0 : SUBSET Resources,
                  of : Resources \cup {None}, todo : SUBSET Resources, answer : [Resources -> Answers], value : [Resources -> Value]]
    /\ NoJournal
    /\ \A r \in pr[p].cat.conf \cup pr[p].conf0 : Plain(r)
    /\ \A r \in pr[p].todo : /\ ~Plain(r) /\ pr[p].answer[r] # "silent"
                             /\ pr[p].answer[r] = "sent" => pr[p].value[r] \in Revs
    /\ pr[p].pc # "direct" =>
         pr[p].of \in pr[p].todo /\ pr[p].answer[pr[p].of] = "sent" /\ sub[pr[p].of] # None

\* The plan of an apply: what is not switched shows its new row already.
Planned(p, r) ==
    LET n == pr[p] IN
    /\ r \in DOMAIN n.to => r \in n.todo \/ link[r] = n.to[r]
    /\ n.rows[r] # None => /\ r \notin Held
                           /\ IF r \in DOMAIN n.to THEN n.to[r] = n.rows[r] ELSE link[r] = n.rows[r]
    /\ Plain(r) => IF r \in DOMAIN n.to THEN n.to[r] = n.rows[r] ELSE pk[r] = n.rows[r]
    /\ r \in n.conf => Plain(r) /\ r \notin DOMAIN n.to

SwitchInv(p) ==
    /\ pr[p] \in [pc : {"switch"}, rows : [Resources -> Value], todo : SUBSET Resources,
                  conf : SUBSET Resources, to : Journals]
    /\ jn[p] # None /\ DOMAIN jn[p] = DOMAIN pr[p].to /\ pr[p].todo \subseteq DOMAIN pr[p].to
    /\ \A r \in Resources : Planned(p, r)

SweepInv(p) ==
    /\ pr[p] \in [pc : {"sweep"}, conf : SUBSET Resources]
    /\ NoJournal
    /\ \A r \in pr[p].conf : Plain(r)
    /\ \A r \in Resources : pk[r] # None => link[r] = pk[r] /\ r \notin Held

RunInv(p) ==
    \/ pr[p].pc = "idle" \/ EnforceInv(p) \/ RecoverInv(p) \/ DiscardInv(p) \/ RefreshedInv(p)
    \/ DirectInv(p) \/ SwitchInv(p) \/ SweepInv(p)

StoreInv == TypeOK /\ RemoteInv /\ JournalInv /\ LinkInv /\ DOMAIN pr = Procs

IndInv == StoreInv /\ \A p \in Procs : RunInv(p)

-------------------------------------------------------------------------------
(* The resolver *)

LEMMA FewAgree ==
  ASSUME NEW S, Agreeing(S)
  PROVE  ~(Cardinality(S) > 1)
<1>1. CASE S = {}
  BY <1>1, FS_EmptySet
<1>2. CASE S # {}
  <2>1. PICK x : x \in S
    BY <1>2
  <2>2. S = {x}
    BY <2>1 DEF Agreeing
  <2>3. Cardinality({x}) = 1
    BY FS_Singleton
  <2> QED
    BY <2>2, <2>3
<1> QED
  BY <1>1, <1>2

\* Only plain skills are ever in conflict.
LEMMA OnlyPlainConflicts ==
  ASSUME Separate, RemoteInv, NEW r \in Resources, NEW d, Conflicted(r, d)
  PROVE  Plain(r)
<1> SUFFICES ASSUME ~Plain(r) PROVE FALSE
  OBVIOUS
<1>1. Agreeing(TeamRevs[r]) /\ Agreeing(PackRevs[r])
  BY DEF Separate
<1>2. team[r] \subseteq TeamRevs[r] /\ pack[r] \subseteq PackRevs[r]
  BY DEF RemoteInv
<1>3. Agreeing(Strongest(r, d))
  BY <1>1, <1>2 DEF Agreeing, Strongest
<1> QED
  BY <1>3, FewAgree DEF Conflicted

LEMMA WinnerType ==
  ASSUME TypeOK, NEW r \in Resources, NEW d \in Value
  PROVE  PackWinner(r, d) \in Value
<1>1. Strongest(r, d) \subseteq Revs
  BY DEF TypeOK, Strongest, Value
<1>2. CASE Cardinality(Strongest(r, d)) = 1
  <2>1. Strongest(r, d) # {}
    BY <1>2, FS_EmptySet
  <2>2. (CHOOSE v \in Strongest(r, d) : TRUE) \in Strongest(r, d)
    BY <2>1
  <2> QED
    BY <1>1, <2>2 DEF PackWinner, Value
<1>3. CASE Cardinality(Strongest(r, d)) # 1
  BY <1>3 DEF PackWinner, Value
<1> QED
  BY <1>2, <1>3

LEMMA RowTypes ==
  ASSUME TypeOK, NEW r \in Resources
  PROVE  Known(r) \in Value /\ Mat(r) \in Value
  BY DEF TypeOK, Known, Mat, Value, SubRows

LEMMA CatalogTrue ==
  ASSUME Separate, TypeOK, RemoteInv
  PROVE  Catalog \in Catalogs /\ Suppressions \subseteq Resources /\ \A r \in Catalog.conf : Plain(r)
<1>1. \A r \in Resources : PackWinner(r, Known(r)) \in Value
  BY WinnerType, RowTypes
<1>2. \A r \in Resources : Conflicted(r, Known(r)) => Plain(r)
  BY OnlyPlainConflicts
<1>3. /\ Catalog.conf = {r \in Resources : Conflicted(r, Known(r))}
      /\ Catalog.want = [r \in Resources |-> PackWinner(r, Known(r))]
      /\ Catalog = [want |-> Catalog.want, conf |-> Catalog.conf]
  BY DEF Catalog
<1>4. Catalog.conf \subseteq Resources /\ Catalog.want \in [Resources -> Value]
  BY <1>1, <1>3
<1> QED
  BY <1>2, <1>3, <1>4 DEF Catalogs, Suppressions

LEMMA MinIsMember ==
  ASSUME NEW S, S \subseteq Nat, S # {}
  PROVE  Min(S) \in S
<1> DEFINE R == OpToRel(<, Nat)
<1>1. PICK x \in S : \A y \in S : ~ (<<y, x>> \in R)
  <2>1. IsWellFoundedOn(R, Nat)
    BY NatLessThanWellFounded
  <2> HIDE DEF R
  <2> QED
    BY <2>1, WFMin
<1>2. ASSUME NEW y \in S
      PROVE  x <= y
  <2>1. <<y, x>> \notin {ss \in Nat \X Nat : ss[1] < ss[2]}
    BY <1>1 DEF OpToRel
  <2> QED
    BY <2>1
<1> QED
  BY <1>1, <1>2 DEF Min

-------------------------------------------------------------------------------
(* One step *)

\* The place of a sync says which of the cases holds.
LEMMA AtPlace ==
  ASSUME NEW p \in Procs, RunInv(p)
  PROVE  /\ pr[p].pc = "enforce" => EnforceInv(p)
         /\ pr[p].pc = "recover" => RecoverInv(p)
         /\ pr[p].pc = "discard" => DiscardInv(p)
         /\ pr[p].pc = "refreshed" => RefreshedInv(p)
         /\ pr[p].pc \in DirectPlaces => DirectInv(p)
         /\ pr[p].pc = "direct" => DirectInv(p)
         /\ pr[p].pc = "switch" => SwitchInv(p)
         /\ pr[p].pc = "sweep" => SweepInv(p)
<1>1. /\ EnforceInv(p) => pr[p].pc = "enforce"
      /\ RecoverInv(p) => pr[p].pc = "recover"
      /\ DiscardInv(p) => pr[p].pc = "discard"
      /\ RefreshedInv(p) => pr[p].pc = "refreshed"
      /\ DirectInv(p) => pr[p].pc \in DirectPlaces
      /\ SwitchInv(p) => pr[p].pc = "switch"
      /\ SweepInv(p) => pr[p].pc = "sweep"
  BY DEF EnforceInv, RecoverInv, DiscardInv, RefreshedInv, DirectInv, SwitchInv, SweepInv
<1> QED
  BY <1>1 DEF RunInv, DirectPlaces

LEMMA Stepped ==
  ASSUME Alone, NEW p \in Procs, StoreInv', RunInv(p)'
  PROVE  IndInv'
<1>1. ASSUME NEW q \in Procs PROVE RunInv(q)'
  <2>1. q = p
    BY DEF Alone
  <2> QED
    BY <2>1
<1> QED
  BY <1>1 DEF IndInv

LEMMA InitInv == Init => IndInv
<1> SUFFICES ASSUME Init PROVE IndInv
  OBVIOUS
<1>1. TypeOK
  BY DEF Init, TypeOK, Value
<1>2. RemoteInv /\ JournalInv /\ LinkInv /\ DOMAIN pr = Procs
  BY DEF Init, RemoteInv, JournalInv, LinkInv
<1>3. \A p \in Procs : RunInv(p)
  BY DEF Init, RunInv, Idle
<1> QED
  BY <1>1, <1>2, <1>3 DEF IndInv, StoreInv

\* Changes at the registry do not disturb the device.
LEMMA RemoteStep ==
  ASSUME IndInv, UNCHANGED <<local, link, jn, pr>>,
         team' \in [Resources -> SUBSET Revs], pack' \in [Resources -> SUBSET Revs],
         direct' \in [Resources -> Value], quar' \subseteq Resources, RemoteInv'
  PROVE  IndInv'
<1>1. StoreInv /\ \A p \in Procs : RunInv(p)
  BY DEF IndInv
<1>2. UNCHANGED <<sub, pk, supp, link, jn, pr>>
  BY DEF local
<1>3. StoreInv'
  BY <1>1, <1>2 DEF StoreInv, TypeOK, JournalInv, LinkInv
<1>4. ASSUME NEW p \in Procs PROVE RunInv(p)'
  <2>1. RunInv(p)
    BY <1>1
  <2>2. Held' = Held
    BY <1>2 DEF Held
  <2>3. /\ EnforceInv(p) => EnforceInv(p)'
        /\ RecoverInv(p) => RecoverInv(p)'
        /\ DiscardInv(p) => DiscardInv(p)'
        /\ RefreshedInv(p) => RefreshedInv(p)'
        /\ DirectInv(p) => DirectInv(p)'
    BY <1>2 DEF EnforceInv, RecoverInv, DiscardInv, RefreshedInv, DirectInv, Listing, NoJournal
  <2>4. SwitchInv(p) => SwitchInv(p)'
    BY <1>2, <2>2 DEF SwitchInv, Planned
  <2>5. SweepInv(p) => SweepInv(p)'
    BY <1>2, <2>2 DEF SweepInv, NoJournal
  <2> QED
    BY <1>2, <2>1, <2>3, <2>4, <2>5 DEF RunInv
<1> QED
  BY <1>3, <1>4 DEF IndInv

LEMMA RegistryStep ==
  ASSUME IndInv, NEW r \in Resources,
         \/ \E vs \in SUBSET TeamRevs[r] : SetTeam(r, vs)
         \/ \E vs \in SUBSET PackRevs[r] : SetPack(r, vs)
         \/ \E v \in DirectRevs[r] \cup {None} : SetDirect(r, v)
         \/ SetQuarantine(r)
  PROVE  IndInv'
<1>1. TypeOK /\ RemoteInv
  BY DEF IndInv, StoreInv
<1>2. TeamRevs[r] \subseteq Revs /\ PackRevs[r] \subseteq Revs /\ DirectRevs[r] \subseteq Revs
  BY DesiredSourcesAssumption
<1>3. ASSUME NEW vs \in SUBSET TeamRevs[r], SetTeam(r, vs) PROVE IndInv'
  <2>1. team' = [team EXCEPT ![r] = vs] /\ UNCHANGED <<pack, direct, quar, local, link, jn, pr>>
    BY <1>3 DEF SetTeam
  <2>2. team' \in [Resources -> SUBSET Revs] /\ RemoteInv'
    BY <1>1, <1>2, <2>1 DEF TypeOK, RemoteInv
  <2> QED
    BY <1>1, <2>1, <2>2, RemoteStep DEF TypeOK
<1>4. ASSUME NEW vs \in SUBSET PackRevs[r], SetPack(r, vs) PROVE IndInv'
  <2>1. pack' = [pack EXCEPT ![r] = vs] /\ UNCHANGED <<team, direct, quar, local, link, jn, pr>>
    BY <1>4 DEF SetPack
  <2>2. pack' \in [Resources -> SUBSET Revs] /\ RemoteInv'
    BY <1>1, <1>2, <2>1 DEF TypeOK, RemoteInv
  <2> QED
    BY <1>1, <2>1, <2>2, RemoteStep DEF TypeOK
<1>5. ASSUME NEW v \in DirectRevs[r] \cup {None}, SetDirect(r, v) PROVE IndInv'
  <2>1. direct' = [direct EXCEPT ![r] = v] /\ UNCHANGED <<team, pack, quar, local, link, jn, pr>>
    BY <1>5 DEF SetDirect
  <2>2. direct' \in [Resources -> Value] /\ RemoteInv'
    BY <1>1, <1>2, <2>1 DEF TypeOK, RemoteInv, Value
  <2> QED
    BY <1>1, <2>1, <2>2, RemoteStep DEF TypeOK
<1>6. CASE SetQuarantine(r)
  <2>1. quar' \subseteq quar \cup {r} /\ UNCHANGED <<team, pack, direct, local, link, jn, pr>>
    BY <1>6 DEF SetQuarantine
  <2>2. quar' \subseteq Resources /\ RemoteInv'
    BY <1>1, <2>1 DEF TypeOK, RemoteInv
  <2> QED
    BY <1>1, <2>1, <2>2, RemoteStep DEF TypeOK
<1> QED
  BY <1>3, <1>4, <1>5, <1>6


-------------------------------------------------------------------------------
(* The steps of a sync *)

\* Quarantine and the direct subscriptions touch skills that are not plain.
LEMMA DirectMoves ==
  ASSUME StoreInv, NEW r \in Resources, ~Plain(r),
         sub' \in [Resources -> SubRows \cup {None}], link' \in [Resources -> Value], supp' \subseteq Resources,
         \A x \in Resources \ {r} : sub'[x] = sub[x] /\ link'[x] = link[x],
         UNCHANGED <<remote, pk, jn>>, DOMAIN pr' = Procs
  PROVE  StoreInv'
<1>1. UNCHANGED <<team, pack, direct, quar, pk, jn>>
  BY DEF remote
<1>2. TypeOK' /\ RemoteInv' /\ JournalInv'
  BY <1>1 DEF StoreInv, TypeOK, RemoteInv, JournalInv
<1>3. LinkInv'
  BY <1>1 DEF StoreInv, LinkInv
<1> QED
  BY <1>2, <1>3 DEF StoreInv

LEMMA QuarantineMoves ==
  ASSUME TypeOK, NEW r \in Resources,
         IF sub[r] # None THEN Quarantined(r) ELSE UNCHANGED <<sub, link>>
  PROVE  /\ sub' \in [Resources -> SubRows \cup {None}] /\ link' \in [Resources -> Value]
         /\ \A x \in Resources \ {r} : sub'[x] = sub[x] /\ link'[x] = link[x]
<1>1. CASE sub[r] # None
  <2>1. sub' = [sub EXCEPT ![r] = None] /\ (link' = link \/ link' = [link EXCEPT ![r] = None])
    BY <1>1 DEF Quarantined
  <2> QED
    BY <2>1 DEF TypeOK, Value
<1>2. CASE sub[r] = None
  BY <1>2 DEF TypeOK
<1> QED
  BY <1>1, <1>2

LEMMA EnforceStep ==
  ASSUME Alone, IndInv, NEW p \in Procs,
         Start(p) \/ \E r \in Resources : Enforce(p, r)
  PROVE  IndInv'
<1>1. StoreInv /\ TypeOK /\ RemoteInv /\ RunInv(p) /\ DOMAIN pr = Procs
  BY DEF IndInv, StoreInv
<1>2. CASE Start(p)
  <2> DEFINE S == {r \in quar : direct[r] # None /\ sub[r] # None}
  <2>1. pr' = [pr EXCEPT ![p] = [pc |-> "enforce", todo |-> S]] /\ UNCHANGED <<remote, local, link, jn>>
    BY <1>2 DEF Start
  <2>2. S \subseteq Resources /\ \A r \in S : ~Plain(r)
    BY <1>1 DEF TypeOK, RemoteInv, Plain
  <2> HIDE DEF S
  <2>3. pr'[p] = [pc |-> "enforce", todo |-> S] /\ DOMAIN pr' = Procs
    BY <1>1, <2>1
  <2>4. RunInv(p)'
    BY <2>2, <2>3 DEF RunInv, EnforceInv
  <2>5. StoreInv'
    BY <1>1, <2>1, <2>3 DEF StoreInv, TypeOK, RemoteInv, JournalInv, LinkInv, remote, local
  <2> QED
    BY <2>4, <2>5, Stepped
<1>3. ASSUME NEW r \in Resources, Enforce(p, r) PROVE IndInv'
  <2>1. EnforceInv(p)
    BY <1>1, <1>3, AtPlace DEF Enforce
  <2>2. /\ r \in pr[p].todo /\ pr' = [pr EXCEPT ![p].todo = @ \ {r}]
        /\ IF sub[r] # None THEN Quarantined(r) ELSE UNCHANGED <<sub, link>>
        /\ UNCHANGED <<remote, pk, supp, jn>>
    BY <1>3 DEF Enforce
  <2>3. pr'[p] = [pr[p] EXCEPT !.todo = @ \ {r}] /\ DOMAIN pr' = Procs
    BY <1>1, <2>2
  <2>4. EnforceInv(p)'
    BY <2>1, <2>3 DEF EnforceInv
  <2>5. ~Plain(r)
    BY <2>1, <2>2 DEF EnforceInv
  <2>6. /\ sub' \in [Resources -> SubRows \cup {None}] /\ link' \in [Resources -> Value]
        /\ \A x \in Resources \ {r} : sub'[x] = sub[x] /\ link'[x] = link[x]
    BY <1>1, <2>2, QuarantineMoves
  <2>7. StoreInv'
    BY <1>1, <2>2, <2>3, <2>5, <2>6, DirectMoves DEF TypeOK
  <2> QED
    BY <2>4, <2>7, Stepped DEF RunInv
<1> QED
  BY <1>2, <1>3

\* Recovery puts back the rows' links before it forgets a journal.
LEMMA RecoveryStep ==
  ASSUME Alone, IndInv, NEW p \in Procs,
         RecoverList(p) \/ (\E q \in Procs : RecoverRestore(p, q)) \/ RecoverDiscard(p)
  PROVE  IndInv'
<1>1. StoreInv /\ TypeOK /\ RemoteInv /\ JournalInv /\ LinkInv /\ RunInv(p) /\ DOMAIN pr = Procs
  BY DEF IndInv, StoreInv
<1>2. jn \in [Procs -> Journals \cup {None}]
  BY <1>1 DEF TypeOK
<1>3. CASE RecoverList(p)
  <2> DEFINE S == {q \in Procs : jn[q] # None}
  <2>1. /\ pr' = [pr EXCEPT ![p] = [pc |-> "recover", listed |-> jn, todo |-> S]]
        /\ UNCHANGED <<remote, local, link, jn>>
    BY <1>3 DEF RecoverList
  <2>2. pr'[p] = [pc |-> "recover", listed |-> jn, todo |-> S] /\ DOMAIN pr' = Procs
    BY <1>1, <2>1
  <2>3. RecoverInv(p)'
    BY <1>2, <2>1, <2>2 DEF RecoverInv, Listing
  <2>4. StoreInv'
    BY <1>1, <2>1, <2>2 DEF StoreInv, TypeOK, RemoteInv, JournalInv, LinkInv, remote, local
  <2> QED
    BY <2>3, <2>4, Stepped DEF RunInv
<1>4. ASSUME NEW q \in Procs, RecoverRestore(p, q) PROVE IndInv'
  <2>1. RecoverInv(p)
    BY <1>1, <1>4, AtPlace DEF RecoverRestore
  <2>2. /\ q \in pr[p].todo /\ link' = Restored(pr[p].listed[q]) /\ UNCHANGED <<remote, local, jn>>
        /\ pr' = [pr EXCEPT ![p] = [pc |-> "discard", listed |-> @.listed, todo |-> @.todo, of |-> q]]
    BY <1>4 DEF RecoverRestore
  <2>3. pr'[p] = [pc |-> "discard", listed |-> pr[p].listed, todo |-> pr[p].todo, of |-> q] /\ DOMAIN pr' = Procs
    BY <1>1, <2>2
  <2>4. PICK old \in Journals : old = jn[q] /\ old = pr[p].listed[q] /\ old # None
    BY <1>2, <2>1, <2>2 DEF RecoverInv, Listing
  <2>5. \A r \in DOMAIN old : old[r] = pk[r] /\ r \in Resources /\ old[r] \in Value
    BY <1>1, <2>4 DEF JournalInv, Journals
  <2>6. /\ link' \in [Resources -> Value]
        /\ \A r \in DOMAIN old : link'[r] = pk[r]
        /\ \A x \in Resources \ DOMAIN old : link'[x] = link[x]
    BY <1>1, <2>2, <2>4, <2>5 DEF Restored, TypeOK
  <2>7. UNCHANGED <<team, pack, direct, quar, sub, pk, supp, jn>>
    BY <2>2 DEF remote, local
  <2>8. DiscardInv(p)'
    BY <2>1, <2>2, <2>3, <2>4, <2>6, <2>7 DEF DiscardInv, RecoverInv, Listing
  <2>9. LinkInv'
    <3>1. ASSUME NEW r \in Resources, Plain(r)
          PROVE  sub[r] = None /\ (link'[r] = pk[r] \/ \E x \in Procs : jn[x] # None /\ r \in DOMAIN jn[x])
      BY <1>1, <2>6, <3>1 DEF LinkInv
    <3> QED
      BY <2>7, <3>1 DEF LinkInv
  <2>10. StoreInv'
    BY <1>1, <2>3, <2>6, <2>7, <2>9 DEF StoreInv, TypeOK, RemoteInv, JournalInv
  <2> QED
    BY <2>8, <2>10, Stepped DEF RunInv
<1>5. CASE RecoverDiscard(p)
  <2>1. DiscardInv(p)
    BY <1>1, <1>5, AtPlace DEF RecoverDiscard
  <2>2. PICK q \in Procs : q = pr[p].of /\ q \in pr[p].todo
    BY <2>1 DEF DiscardInv
  <2>3. /\ jn' = [jn EXCEPT ![q] = None] /\ UNCHANGED <<team, pack, direct, quar, sub, pk, supp, link>>
        /\ pr' = [pr EXCEPT ![p] = [pc |-> "recover", listed |-> pr[p].listed, todo |-> pr[p].todo \ {q}]]
    BY <1>1, <1>5, <2>2 DEF RecoverDiscard, remote, local
  <2>4. pr'[p] = [pc |-> "recover", listed |-> pr[p].listed, todo |-> pr[p].todo \ {q}] /\ DOMAIN pr' = Procs
    BY <1>1, <2>3
  <2>5. jn' \in [Procs -> Journals \cup {None}] /\ jn'[q] = None /\ \A x \in Procs \ {q} : jn'[x] = jn[x]
    BY <1>2, <2>3
  <2>6. RecoverInv(p)'
    BY <2>1, <2>4, <2>5 DEF RecoverInv, DiscardInv, Listing
  <2>7. LinkInv'
    BY <1>1, <2>1, <2>2, <2>3, <2>5 DEF LinkInv, DiscardInv
  <2>8. StoreInv'
    BY <1>1, <2>3, <2>4, <2>5, <2>7 DEF StoreInv, TypeOK, RemoteInv, JournalInv
  <2> QED
    BY <2>6, <2>8, Stepped DEF RunInv
<1> QED
  BY <1>3, <1>4, <1>5

LEMMA RefreshStep ==
  ASSUME Alone, Separate, IndInv, NEW p \in Procs, Refresh(p) \/ Reconcile(p)
  PROVE  IndInv'
<1>1. StoreInv /\ TypeOK /\ RemoteInv /\ LinkInv /\ RunInv(p) /\ DOMAIN pr = Procs
  BY DEF IndInv, StoreInv
<1>2. CASE Refresh(p)
  <2>1. RecoverInv(p) /\ pr[p].todo = {}
    BY <1>1, <1>2, AtPlace DEF Refresh
  <2>2. NoJournal
    BY <2>1 DEF RecoverInv, Listing, NoJournal
  <2>3. PICK c \in Catalogs, s \in SUBSET Resources : c = Catalog /\ s = Suppressions /\ \A r \in c.conf : Plain(r)
    BY <1>1, CatalogTrue
  <2>4. /\ supp' = s /\ UNCHANGED <<team, pack, direct, quar, sub, pk, link, jn>>
        /\ pr' = [pr EXCEPT ![p] = [pc |-> "refreshed", cat |-> c, conf0 |-> c.conf, supp0 |-> s]]
    BY <1>2, <2>3 DEF Refresh, remote
  <2>5. pr'[p] = [pc |-> "refreshed", cat |-> c, conf0 |-> c.conf, supp0 |-> s] /\ DOMAIN pr' = Procs
    BY <1>1, <2>4
  <2>6. c.conf \subseteq Resources
    BY DEF Catalogs
  <2>7. RefreshedInv(p)'
    BY <2>2, <2>3, <2>4, <2>5, <2>6 DEF RefreshedInv, NoJournal
  <2>8. StoreInv'
    BY <1>1, <2>4, <2>5 DEF StoreInv, TypeOK, RemoteInv, JournalInv, LinkInv
  <2> QED
    BY <2>7, <2>8, Stepped DEF RunInv
<1>3. CASE Reconcile(p)
  <2>1. RefreshedInv(p)
    BY <1>1, <1>3, AtPlace DEF Reconcile
  <2>2. ASSUME NEW r \in Resources
        PROVE  /\ Answer(r) \in Answers /\ (Answer(r) # "silent" => ~Plain(r))
               /\ Answer(r) = "sent" => direct[r] \in Revs
    <3>1. Plain(r) => direct[r] = None /\ sub[r] = None
      BY <1>1 DEF RemoteInv, LinkInv, Plain
    <3>2. direct[r] \in Value
      BY <1>1 DEF TypeOK
    <3> QED
      BY <3>1, <3>2 DEF Answer, Answers, Value
  <2> DEFINE S == {r \in Resources : Answer(r) # "silent"}
             a == [r \in Resources |-> Answer(r)]
  <2>3. /\ UNCHANGED <<team, pack, direct, quar, sub, pk, supp, link, jn>>
        /\ pr' = [pr EXCEPT ![p] = [pc |-> "direct", cat |-> pr[p].cat, conf0 |-> pr[p].conf0, supp0 |-> pr[p].supp0,
                                    of |-> None, todo |-> S, answer |-> a, value |-> direct]]
    BY <1>1, <1>3 DEF Reconcile, remote, local
  <2>4. /\ S \subseteq Resources /\ a \in [Resources -> Answers] /\ direct \in [Resources -> Value]
        /\ \A r \in S : /\ ~Plain(r) /\ a[r] # "silent"
                        /\ a[r] = "sent" => direct[r] \in Revs
    BY <1>1, <2>2 DEF TypeOK
  <2> HIDE DEF S, a
  <2>5. /\ pr'[p] = [pc |-> "direct", cat |-> pr[p].cat, conf0 |-> pr[p].conf0, supp0 |-> pr[p].supp0,
                     of |-> None, todo |-> S, answer |-> a, value |-> direct]
        /\ DOMAIN pr' = Procs
    BY <1>1, <2>3
  <2>6. DirectInv(p)'
    BY <2>1, <2>3, <2>4, <2>5 DEF RefreshedInv, DirectInv, DirectPlaces, NoJournal
  <2>7. StoreInv'
    BY <1>1, <2>3, <2>5 DEF StoreInv, TypeOK, RemoteInv, JournalInv, LinkInv
  <2> QED
    BY <2>6, <2>7, Stepped DEF RunInv
<1> QED
  BY <1>2, <1>3


LEMMA DirectStepKept ==
  ASSUME Alone, Separate, IndInv, NEW p \in Procs, NEW r \in Resources, DirectStep(p, r)
  PROVE  IndInv'
<1>1. StoreInv /\ TypeOK /\ RemoteInv /\ RunInv(p) /\ DOMAIN pr = Procs
  BY DEF IndInv, StoreInv
<1>2. DirectInv(p) /\ r \in pr[p].todo /\ UNCHANGED <<remote, jn>>
  BY <1>1, AtPlace DEF DirectStep
<1>3. /\ ~Plain(r) /\ pr[p].answer[r] \in {"quarantined", "removed", "sent"}
      /\ pr[p].answer[r] = "sent" => pr[p].value[r] \in Revs
  BY <1>2 DEF DirectInv, Answers
<1>4. ASSUME pr' = [pr EXCEPT ![p].todo = @ \ {r}]
      PROVE  DirectInv(p)' /\ DOMAIN pr' = Procs
  <2>1. pr'[p] = [pr[p] EXCEPT !.todo = @ \ {r}] /\ DOMAIN pr' = Procs
    BY <1>1, <1>4
  <2> QED
    BY <1>2, <2>1 DEF DirectInv, DirectStep, NoJournal
<1>5. CASE pr[p].answer[r] = "quarantined"
  <2>1. DirectQuarantined(p, r)
    BY <1>5 DEF DirectStep
  <2>2. /\ IF sub[r] # None THEN Quarantined(r) ELSE UNCHANGED <<sub, link>>
        /\ pr' = [pr EXCEPT ![p].todo = @ \ {r}] /\ UNCHANGED <<pk, supp>>
    BY <2>1 DEF DirectQuarantined
  <2>3. /\ sub' \in [Resources -> SubRows \cup {None}] /\ link' \in [Resources -> Value]
        /\ \A x \in Resources \ {r} : sub'[x] = sub[x] /\ link'[x] = link[x]
    BY <1>1, <2>2, QuarantineMoves
  <2>4. StoreInv'
    BY <1>1, <1>2, <1>3, <1>4, <2>2, <2>3, DirectMoves DEF TypeOK
  <2> QED
    BY <1>4, <2>2, <2>4, Stepped DEF RunInv
<1>6. CASE pr[p].answer[r] = "removed"
  <2>1. DirectRemoved(p, r)
    BY <1>6 DEF DirectStep
  <2>2. /\ sub' \in {sub, [sub EXCEPT ![r] = None]} /\ link' \in {link, [link EXCEPT ![r] = None]}
        /\ pr' = [pr EXCEPT ![p].todo = @ \ {r}] /\ UNCHANGED <<pk, supp>>
    BY <2>1 DEF DirectRemoved
  <2>3. /\ sub' \in [Resources -> SubRows \cup {None}] /\ link' \in [Resources -> Value]
        /\ \A x \in Resources \ {r} : sub'[x] = sub[x] /\ link'[x] = link[x]
    BY <1>1, <2>2 DEF TypeOK, Value
  <2>4. StoreInv'
    BY <1>1, <1>2, <1>3, <1>4, <2>2, <2>3, DirectMoves DEF TypeOK
  <2> QED
    BY <1>4, <2>2, <2>4, Stepped DEF RunInv
<1>7. CASE pr[p].answer[r] = "sent"
  <2>1. DirectSent(p, r)
    BY <1>7 DEF DirectStep
  <2>2. /\ sub' = [sub EXCEPT ![r] = [des |-> pr[p].value[r], mat |-> Mat(r)]] /\ UNCHANGED <<pk, supp, link>>
        /\ pr' = [pr EXCEPT ![p].pc = "stored", ![p].of = r]
    BY <2>1 DEF DirectSent
  <2>3. [des |-> pr[p].value[r], mat |-> Mat(r)] \in SubRows
    BY <1>1, <1>3, <1>7, RowTypes DEF SubRows
  <2>4. /\ sub' \in [Resources -> SubRows \cup {None}] /\ link' \in [Resources -> Value]
        /\ \A x \in Resources \ {r} : sub'[x] = sub[x] /\ link'[x] = link[x]
        /\ sub'[r] = [des |-> pr[p].value[r], mat |-> Mat(r)]
    BY <1>1, <2>2, <2>3 DEF TypeOK
  <2>5. pr'[p] = [pr[p] EXCEPT !.pc = "stored", !.of = r] /\ DOMAIN pr' = Procs
    BY <1>1, <2>2
  <2>6. DirectInv(p)'
    <3>1. sub'[r] # None
      BY <2>4, NoneIsNoRow, <2>3
    <3> QED
      BY <1>2, <1>7, <2>5, <3>1 DEF DirectInv, DirectPlaces, NoJournal
  <2>7. StoreInv'
    BY <1>1, <1>2, <1>3, <2>2, <2>4, <2>5, DirectMoves DEF TypeOK
  <2> QED
    BY <2>6, <2>7, Stepped DEF RunInv
<1> QED
  BY <1>3, <1>5, <1>6, <1>7

\* Storing a sent skill is followed by the catalogue and the materialization.
LEMMA SentKept ==
  ASSUME Alone, Separate, IndInv, NEW p \in Procs, SentRefresh(p) \/ SentPlace(p)
  PROVE  IndInv'
<1>1. StoreInv /\ TypeOK /\ RemoteInv /\ RunInv(p) /\ DOMAIN pr = Procs
  BY DEF IndInv, StoreInv
<1>2. DirectInv(p) /\ pr[p].pc # "direct" /\ UNCHANGED <<remote, pk, jn>>
  BY <1>1, AtPlace DEF SentRefresh, SentPlace, DirectPlaces
<1>3. PICK r \in Resources : r = pr[p].of /\ ~Plain(r) /\ sub[r] # None /\ pr[p].value[r] \in Revs
  BY <1>2 DEF DirectInv
<1>4. CASE SentRefresh(p)
  <2>1. PICK c \in Catalogs, t \in SUBSET Resources : c = Catalog /\ t = Suppressions /\ \A x \in c.conf : Plain(x)
    BY <1>1, CatalogTrue
  <2>2. supp' = t /\ UNCHANGED <<sub, link>> /\ pr' = [pr EXCEPT ![p].pc = "place", ![p].cat = c]
    BY <1>4, <2>1 DEF SentRefresh
  <2>3. pr'[p] = [pr[p] EXCEPT !.pc = "place", !.cat = c] /\ DOMAIN pr' = Procs
    BY <1>1, <2>2
  <2>4. DirectInv(p)'
    <3>1. pr'[p] \in [pc : DirectPlaces, cat : Catalogs, conf0 : SUBSET Resources, supp0 : SUBSET Resources,
                    of : Resources \cup {None}, todo : SUBSET Resources, answer : [Resources -> Answers], value : [Resources -> Value]]
      BY <1>2, <2>3 DEF DirectInv, DirectPlaces
    <3>2. /\ pr'[p].cat = c /\ pr'[p].pc = "place" /\ pr'[p].conf0 = pr[p].conf0 /\ pr'[p].todo = pr[p].todo
          /\ pr'[p].of = pr[p].of /\ pr'[p].answer = pr[p].answer /\ pr'[p].value = pr[p].value
      BY <1>2, <2>3 DEF DirectInv
    <3> QED
      BY <1>2, <2>1, <2>2, <3>1, <3>2 DEF DirectInv, NoJournal
  <2>5. StoreInv'
    BY <1>1, <1>2, <1>3, <2>2, <2>3, DirectMoves DEF TypeOK
  <2> QED
    BY <2>4, <2>5, Stepped DEF RunInv
<1>5. CASE SentPlace(p)
  <2>1. /\ sub' \in {sub, [sub EXCEPT ![r].mat = pr[p].value[r]]}
        /\ link' \in {link, [link EXCEPT ![r] = pr[p].value[r]]} /\ UNCHANGED supp
        /\ pr' = [pr EXCEPT ![p].pc = "direct", ![p].of = None, ![p].todo = @ \ {r}]
    BY <1>3, <1>5 DEF SentPlace
  <2>2. sub[r] \in SubRows /\ pr[p].value[r] \in Value
    BY <1>1, <1>3 DEF TypeOK, Value
  <2>3. [sub[r] EXCEPT !.mat = pr[p].value[r]] \in SubRows
    BY <2>2 DEF SubRows
  <2>4. /\ sub' \in [Resources -> SubRows \cup {None}] /\ link' \in [Resources -> Value]
        /\ \A x \in Resources \ {r} : sub'[x] = sub[x] /\ link'[x] = link[x]
    BY <1>1, <2>1, <2>2, <2>3 DEF TypeOK
  <2>5. pr'[p] = [pr[p] EXCEPT !.pc = "direct", !.of = None, !.todo = @ \ {r}] /\ DOMAIN pr' = Procs
    BY <1>1, <2>1
  <2>6. DirectInv(p)'
    <3>1. PICK S : S = pr[p].todo \ {r}
      OBVIOUS
    <3>2. pr'[p] = [pr[p] EXCEPT !.pc = "direct", !.of = None, !.todo = S]
      BY <2>5, <3>1
    <3>3. pr'[p] \in [pc : DirectPlaces, cat : Catalogs, conf0 : SUBSET Resources, supp0 : SUBSET Resources,
                    of : Resources \cup {None}, todo : SUBSET Resources, answer : [Resources -> Answers], value : [Resources -> Value]]
      <4>1. pr[p] \in [pc : DirectPlaces, cat : Catalogs, conf0 : SUBSET Resources, supp0 : SUBSET Resources,
                      of : Resources \cup {None}, todo : SUBSET Resources, answer : [Resources -> Answers], value : [Resources -> Value]]
        BY <1>2 DEF DirectInv
      <4>2. S \in SUBSET Resources
        BY <3>1, <4>1
      <4>3. "direct" \in DirectPlaces /\ None \in Resources \cup {None}
        BY DEF DirectPlaces
      <4> QED
        BY <3>2, <4>1, <4>2, <4>3
    <3>4. /\ pr'[p].cat = pr[p].cat /\ pr'[p].pc = "direct" /\ pr'[p].conf0 = pr[p].conf0 /\ pr'[p].todo = S
          /\ pr'[p].answer = pr[p].answer /\ pr'[p].value = pr[p].value
      BY <1>2, <3>2 DEF DirectInv
    <3> QED
      BY <1>2, <3>1, <3>3, <3>4 DEF DirectInv, NoJournal
  <2>7. StoreInv'
    BY <1>1, <1>2, <1>3, <2>1, <2>4, <2>5, DirectMoves DEF TypeOK
  <2> QED
    BY <2>6, <2>7, Stepped DEF RunInv
<1> QED
  BY <1>4, <1>5

\* What the plan of an apply says of a skill.
LEMMA PlanTrue ==
  ASSUME StoreInv, NEW p \in Procs, DirectInv(p), NEW r \in Resources
  PROVE  /\ NewRows(p)[r] \in Value /\ Target(p, r) \in Value
         /\ NewRows(p)[r] # None =>
              /\ r \notin Held
              /\ IF r \in Touched(p) THEN Target(p, r) = NewRows(p)[r] ELSE link[r] = NewRows(p)[r]
         /\ Plain(r) => IF r \in Touched(p) THEN Target(p, r) = NewRows(p)[r] ELSE pk[r] = NewRows(p)[r]
         /\ r \in pr[p].cat.conf => r \notin Touched(p)
<1>1. TypeOK /\ LinkInv
  BY DEF StoreInv
<1>2. /\ pr[p].cat \in Catalogs /\ (r \in pr[p].cat.conf => Plain(r))
  BY DEF DirectInv
<1>3. pr[p].cat.want[r] \in Value /\ pk[r] \in Value
  BY <1>1, <1>2 DEF Catalogs, TypeOK
<1>4. Plain(r) => r \notin Held /\ link[r] = pk[r]
  BY <1>1 DEF LinkInv, Held, DirectInv, NoJournal
<1>5. PICK n : n = NewRows(p)[r]
  OBVIOUS
<1>6. n = IF r \in Held THEN None ELSE IF r \in pr[p].cat.conf THEN pk[r] ELSE pr[p].cat.want[r]
  BY <1>5 DEF NewRows
<1>7. n \in Value
  BY <1>3, <1>6 DEF Value
<1>8. r \in Touched(p) <=> \/ n = None /\ pk[r] # None
                           \/ n # None /\ r \notin pr[p].cat.conf /\ ~(pk[r] = n /\ link[r] = n)
  BY <1>5 DEF Touched
<1>9. Target(p, r) = IF n # None THEN n ELSE IF r \in Held THEN sub[r].mat ELSE None
  BY <1>5 DEF Target
<1>10. r \in Held => sub[r].mat \in Value
  BY <1>1 DEF Held, TypeOK, SubRows
<1> QED
  BY <1>2, <1>4, <1>5, <1>6, <1>7, <1>8, <1>9, <1>10 DEF Value

LEMMA PlanStep ==
  ASSUME Alone, IndInv, NEW p \in Procs, ApplyPlan(p)
  PROVE  IndInv'
<1>1. StoreInv /\ TypeOK /\ RemoteInv /\ JournalInv /\ LinkInv /\ RunInv(p) /\ DOMAIN pr = Procs
  BY DEF IndInv, StoreInv
<1>2. DirectInv(p)
  BY <1>1, AtPlace DEF ApplyPlan
<1>3. PICK n : n = NewRows(p)
  OBVIOUS
<1>4. PICK T \in SUBSET Resources : T = Touched(p)
  BY DEF Touched
<1>5. PICK to : to = [r \in T |-> Target(p, r)]
  OBVIOUS
<1>6. PICK c : c = pr[p].conf0 \cap pr[p].cat.conf
  OBVIOUS
<1>7. PICK old : old = [r \in T |-> pk[r]]
  OBVIOUS
<1>8. /\ jn' = [jn EXCEPT ![p] = old] /\ UNCHANGED <<team, pack, direct, quar, sub, pk, supp, link>>
      /\ pr' = [pr EXCEPT ![p] = [pc |-> "switch", rows |-> n, todo |-> T, conf |-> c, to |-> to]]
  BY <1>3, <1>4, <1>5, <1>6, <1>7 DEF ApplyPlan, remote, local
<1>9. \A r \in Resources :
         /\ n[r] \in Value /\ Target(p, r) \in Value
         /\ n[r] # None => r \notin Held /\ IF r \in T THEN Target(p, r) = n[r] ELSE link[r] = n[r]
         /\ Plain(r) => IF r \in T THEN Target(p, r) = n[r] ELSE pk[r] = n[r]
         /\ r \in pr[p].cat.conf => r \notin T
  BY <1>1, <1>2, <1>3, <1>4, PlanTrue
<1>10. /\ n \in [Resources -> Value] /\ to \in [T -> Value] /\ old \in [T -> Value]
       /\ c \subseteq Resources /\ \A r \in c : Plain(r) /\ r \in pr[p].cat.conf
  <2>1. n = [r \in Resources |-> n[r]]
    BY <1>3 DEF NewRows
  <2>2. c \subseteq Resources /\ \A r \in c : Plain(r) /\ r \in pr[p].cat.conf
    BY <1>2, <1>6 DEF DirectInv
  <2>3. old \in [T -> Value]
    BY <1>1, <1>4, <1>7 DEF TypeOK
  <2>4. to \in [T -> Value]
    BY <1>4, <1>5, <1>9
  <2> QED
    BY <1>9, <2>1, <2>2, <2>3, <2>4
<1>11. to \in Journals /\ old \in Journals /\ old # None /\ DOMAIN to = T /\ DOMAIN old = T
  BY <1>10, NoneIsNoApply DEF Journals
<1>12. pr'[p] = [pc |-> "switch", rows |-> n, todo |-> T, conf |-> c, to |-> to] /\ DOMAIN pr' = Procs
  BY <1>1, <1>8
<1>13. jn' \in [Procs -> Journals \cup {None}] /\ jn'[p] = old /\ \A q \in Procs \ {p} : jn'[q] = jn[q]
  BY <1>1, <1>8, <1>11 DEF TypeOK
<1>14. Held' = Held
  BY <1>8 DEF Held
<1>15. SwitchInv(p)'
  <2>1. \A r \in Resources : Planned(p, r)'
    <3>1. \A r \in T : to[r] = Target(p, r)
      BY <1>5
    <3> QED
      BY <1>8, <1>9, <1>10, <1>11, <1>12, <1>14, <3>1 DEF Planned
  <2>2. pr'[p] \in [pc : {"switch"}, rows : [Resources -> Value], todo : SUBSET Resources,
                    conf : SUBSET Resources, to : Journals]
    BY <1>10, <1>11, <1>12
  <2> QED
    BY <1>11, <1>12, <1>13, <2>1, <2>2 DEF SwitchInv
<1>16. JournalInv'
  <2>1. \A r \in T : old[r] = pk[r]
    BY <1>7
  <2> QED
    BY <1>1, <1>8, <1>11, <1>13, <2>1 DEF JournalInv
<1>17. LinkInv'
  <2>1. NoJournal
    BY <1>2 DEF DirectInv
  <2> QED
    BY <1>1, <1>8, <2>1 DEF LinkInv, NoJournal
<1>18. StoreInv'
  BY <1>1, <1>8, <1>12, <1>13, <1>16, <1>17 DEF StoreInv, TypeOK, RemoteInv
<1> QED
  BY <1>15, <1>18, Stepped DEF RunInv


LEMMA SwitchStep ==
  ASSUME Alone, IndInv, NEW p \in Procs, ApplySwitch(p)
  PROVE  IndInv'
<1>1. StoreInv /\ TypeOK /\ LinkInv /\ JournalInv /\ RunInv(p) /\ DOMAIN pr = Procs
  BY DEF IndInv, StoreInv
<1>2. SwitchInv(p) /\ pr[p].todo # {}
  BY <1>1, AtPlace DEF ApplySwitch
<1>3. PICK n : n = pr[p]
  OBVIOUS
<1>4. n \in [pc : {"switch"}, rows : [Resources -> Value], todo : SUBSET Resources,
             conf : SUBSET Resources, to : Journals]
  BY <1>2, <1>3 DEF SwitchInv
<1>5. PICK r \in n.todo : r = Min(n.todo)
  <2>1. n.todo \subseteq Nat
    BY <1>4, DesiredSourcesAssumption
  <2> QED
    BY <1>2, <1>3, <2>1, MinIsMember
<1>6. /\ link' = [link EXCEPT ![r] = n.to[r]] /\ UNCHANGED <<team, pack, direct, quar, sub, pk, supp, jn>>
      /\ pr' = [pr EXCEPT ![p].todo = @ \ {r}]
  BY <1>3, <1>5 DEF ApplySwitch, remote, local
<1>7. r \in Resources /\ r \in DOMAIN n.to /\ n.to[r] \in Value
  BY <1>2, <1>3, <1>4 DEF SwitchInv, Journals
<1>8. PICK T : T = n.todo \ {r}
  OBVIOUS
<1>9. pr'[p] = [n EXCEPT !.todo = T] /\ DOMAIN pr' = Procs
  BY <1>1, <1>3, <1>6, <1>8
<1>10. /\ pr'[p] \in [pc : {"switch"}, rows : [Resources -> Value], todo : SUBSET Resources,
                      conf : SUBSET Resources, to : Journals]
       /\ pr'[p].rows = n.rows /\ pr'[p].conf = n.conf /\ pr'[p].to = n.to /\ pr'[p].todo = T
  BY <1>4, <1>8, <1>9
<1>11. link' \in [Resources -> Value] /\ link'[r] = n.to[r] /\ \A x \in Resources \ {r} : link'[x] = link[x]
  BY <1>1, <1>6, <1>7 DEF TypeOK
<1>12. Held' = Held
  BY <1>6 DEF Held
<1>13. ASSUME NEW x \in Resources PROVE Planned(p, x)'
  <2>1. Planned(p, x)
    BY <1>2 DEF SwitchInv
  <2>2. CASE x = r
    BY <1>3, <1>6, <1>7, <1>10, <1>11, <1>12, <2>1, <2>2 DEF Planned
  <2>3. CASE x # r
    <3>1. link'[x] = link[x] /\ (x \in T <=> x \in n.todo)
      BY <1>8, <1>11, <2>3
    <3> QED
      BY <1>3, <1>6, <1>10, <1>12, <2>1, <3>1 DEF Planned
  <2> QED
    BY <2>2, <2>3
<1>14. SwitchInv(p)'
  BY <1>2, <1>3, <1>6, <1>8, <1>10, <1>13 DEF SwitchInv
<1>15. LinkInv'
  <2>1. jn[p] # None /\ r \in DOMAIN jn[p]
    BY <1>2, <1>3, <1>7 DEF SwitchInv
  <2>2. ASSUME NEW x \in Resources, Plain(x)
        PROVE  sub[x] = None /\ (link'[x] = pk[x] \/ \E q \in Procs : jn[q] # None /\ x \in DOMAIN jn[q])
    BY <1>1, <1>11, <2>1, <2>2 DEF LinkInv
  <2> QED
    BY <1>6, <2>2 DEF LinkInv
<1>16. StoreInv'
  BY <1>1, <1>6, <1>9, <1>11, <1>15 DEF StoreInv, TypeOK, RemoteInv, JournalInv
<1> QED
  BY <1>14, <1>16, Stepped DEF RunInv

LEMMA FailStep ==
  ASSUME Alone, IndInv, NEW p \in Procs, ApplyFail(p)
  PROVE  IndInv'
<1>1. StoreInv /\ TypeOK /\ LinkInv /\ JournalInv /\ RunInv(p) /\ DOMAIN pr = Procs
  BY DEF IndInv, StoreInv
<1>2. PICK old \in Journals : old = jn[p] /\ old # None
  BY <1>1 DEF ApplyFail, TypeOK
<1>3. /\ link' = Restored(old) /\ jn' = [jn EXCEPT ![p] = None] /\ pr' = [pr EXCEPT ![p] = Idle]
      /\ UNCHANGED <<team, pack, direct, quar, sub, pk, supp>>
  BY <1>2 DEF ApplyFail, remote, local
<1>4. \A r \in DOMAIN old : old[r] = pk[r] /\ r \in Resources /\ old[r] \in Value
  BY <1>1, <1>2 DEF JournalInv, Journals
<1>5. /\ link' \in [Resources -> Value]
      /\ \A r \in DOMAIN old : link'[r] = pk[r]
      /\ \A x \in Resources \ DOMAIN old : link'[x] = link[x]
  BY <1>1, <1>3, <1>4 DEF Restored, TypeOK
<1>6. jn' \in [Procs -> Journals \cup {None}] /\ \A q \in Procs : jn'[q] = None
  BY <1>1, <1>3 DEF TypeOK, Alone
<1>7. LinkInv'
  <2>1. ASSUME NEW r \in Resources, Plain(r) PROVE sub[r] = None /\ link'[r] = pk[r]
    BY <1>1, <1>2, <1>5, <2>1 DEF LinkInv, Alone
  <2> QED
    BY <1>3, <2>1 DEF LinkInv
<1>8. pr'[p] = Idle /\ DOMAIN pr' = Procs
  BY <1>1, <1>3
<1>9. StoreInv'
  BY <1>1, <1>3, <1>5, <1>6, <1>7, <1>8 DEF StoreInv, TypeOK, RemoteInv, JournalInv
<1> QED
  BY <1>8, <1>9, Stepped DEF RunInv, Idle

LEMMA CommitStep ==
  ASSUME Alone, IndInv, NEW p \in Procs, ApplyCommit(p)
  PROVE  IndInv'
<1>1. StoreInv /\ TypeOK /\ LinkInv /\ JournalInv /\ RunInv(p) /\ DOMAIN pr = Procs
  BY DEF IndInv, StoreInv
<1>2. SwitchInv(p) /\ pr[p].todo = {}
  BY <1>1, AtPlace DEF ApplyCommit
<1>3. PICK n : n = pr[p]
  OBVIOUS
<1>4. n \in [pc : {"switch"}, rows : [Resources -> Value], todo : SUBSET Resources,
             conf : SUBSET Resources, to : Journals]
  BY <1>2, <1>3 DEF SwitchInv
<1>5. /\ pk' = n.rows /\ jn' = [jn EXCEPT ![p] = None]
      /\ pr' = [pr EXCEPT ![p] = [pc |-> "sweep", conf |-> n.conf]]
      /\ UNCHANGED <<team, pack, direct, quar, sub, supp, link>>
  BY <1>1, <1>2, <1>3 DEF ApplyCommit, SwitchInv, remote
<1>6. \A r \in Resources :
         /\ n.rows[r] # None => r \notin Held /\ link[r] = n.rows[r]
         /\ Plain(r) => link[r] = n.rows[r]
         /\ r \in n.conf => Plain(r)
  <2>1. ASSUME NEW r \in Resources
        PROVE  /\ n.rows[r] # None => r \notin Held /\ link[r] = n.rows[r]
               /\ Plain(r) => link[r] = n.rows[r]
               /\ r \in n.conf => Plain(r)
    <3>1. Planned(p, r) /\ n.todo = {}
      BY <1>2, <1>3 DEF SwitchInv
    <3>2. Plain(r) /\ r \notin DOMAIN n.to => link[r] = pk[r]
      BY <1>1, <1>2, <1>3 DEF LinkInv, SwitchInv, Alone
    <3> QED
      BY <1>3, <3>1, <3>2 DEF Planned
  <2> QED
    BY <2>1
<1>7. pr'[p] = [pc |-> "sweep", conf |-> n.conf] /\ DOMAIN pr' = Procs
  BY <1>1, <1>5
<1>8. jn' \in [Procs -> Journals \cup {None}] /\ \A q \in Procs : jn'[q] = None
  BY <1>1, <1>5 DEF TypeOK, Alone
<1>9. Held' = Held
  BY <1>5 DEF Held
<1>10. SweepInv(p)'
  BY <1>4, <1>5, <1>6, <1>7, <1>8, <1>9 DEF SweepInv, NoJournal
<1>11. LinkInv'
  BY <1>1, <1>5, <1>6 DEF LinkInv
<1>12. StoreInv'
  BY <1>1, <1>4, <1>5, <1>7, <1>8, <1>11 DEF StoreInv, TypeOK, RemoteInv, JournalInv
<1> QED
  BY <1>10, <1>12, Stepped DEF RunInv

LEMMA SweepMoves ==
  ASSUME StoreInv, NEW p \in Procs, SweepInv(p), Sweep(p)
  PROVE  /\ link' \in [Resources -> Value]
         /\ \A r \in Resources : Plain(r) => link'[r] = link[r] /\ link[r] = pk[r]
<1>1. TypeOK /\ LinkInv /\ NoJournal
  BY DEF StoreInv, SweepInv
<1>2. \A r \in Resources : Plain(r) => link[r] = pk[r]
  BY <1>1 DEF LinkInv, NoJournal
<1>3. \/ link' = link
      \/ link' = [r \in Resources |-> IF r \in Held \/ pk[r] # None THEN link[r] ELSE None]
  BY DEF Sweep
<1> QED
  BY <1>1, <1>2, <1>3 DEF TypeOK, Value

LEMMA SweepStep ==
  ASSUME Alone, IndInv, NEW p \in Procs, Sweep(p)
  PROVE  IndInv'
<1>1. StoreInv /\ TypeOK /\ LinkInv /\ RunInv(p) /\ DOMAIN pr = Procs
  BY DEF IndInv, StoreInv
<1>2. SweepInv(p)
  BY <1>1, AtPlace DEF Sweep
<1>3. /\ pr' = [pr EXCEPT ![p] = Idle] /\ UNCHANGED <<team, pack, direct, quar, sub, pk, supp, jn>>
  BY DEF Sweep, remote, local
<1>4. link' \in [Resources -> Value] /\ \A r \in Resources : Plain(r) => link'[r] = link[r] /\ link[r] = pk[r]
  BY <1>1, <1>2, SweepMoves
<1>5. pr'[p] = Idle /\ DOMAIN pr' = Procs
  BY <1>1, <1>3
<1>6. StoreInv'
  BY <1>1, <1>3, <1>4, <1>5 DEF StoreInv, TypeOK, RemoteInv, JournalInv, LinkInv
<1> QED
  BY <1>5, <1>6, Stepped DEF RunInv, Idle

LEMMA CrashStep ==
  ASSUME Alone, IndInv, NEW p \in Procs, Crash(p)
  PROVE  IndInv'
<1>1. StoreInv /\ DOMAIN pr = Procs
  BY DEF IndInv, StoreInv
<1>2. /\ pr' = [pr EXCEPT ![p] = Idle] /\ UNCHANGED <<team, pack, direct, quar, sub, pk, supp, link, jn>>
  BY DEF Crash, remote, local
<1>3. pr'[p] = Idle /\ DOMAIN pr' = Procs
  BY <1>1, <1>2
<1>4. StoreInv'
  BY <1>1, <1>2, <1>3 DEF StoreInv, TypeOK, RemoteInv, JournalInv, LinkInv
<1> QED
  BY <1>3, <1>4, Stepped DEF RunInv, Idle

LEMMA NextKeeps ==
  ASSUME Alone, Separate, IndInv, Next \/ UNCHANGED vars
  PROVE  IndInv'
<1>1. CASE UNCHANGED vars
  <2>1. TypeOK /\ RemoteInv
    BY DEF IndInv, StoreInv
  <2>2. UNCHANGED <<team, pack, direct, quar, local, link, jn, pr>>
    BY <1>1 DEF vars, remote, local
  <2>3. RemoteInv'
    BY <2>1, <2>2 DEF RemoteInv
  <2> QED
    BY <2>1, <2>2, <2>3, RemoteStep DEF TypeOK
<1>2. ASSUME NEW p \in Procs, SyncStep(p) PROVE IndInv'
  BY <1>2, EnforceStep, RecoveryStep, RefreshStep, DirectStepKept, SentKept, PlanStep, SwitchStep, CommitStep, SweepStep DEF SyncStep
<1>3. CASE \E r \in Quarantinable : SetQuarantine(r)
  BY <1>3, RegistryStep, DesiredSourcesAssumption
<1>4. CASE \E r \in Resources :
             \/ \E vs \in SUBSET TeamRevs[r] : SetTeam(r, vs)
             \/ \E vs \in SUBSET PackRevs[r] : SetPack(r, vs)
             \/ \E v \in DirectRevs[r] \cup {None} : SetDirect(r, v)
  BY <1>4, RegistryStep
<1>5. CASE \E p \in Procs : ApplyFail(p) \/ Crash(p)
  BY <1>5, FailStep, CrashStep
<1> QED
  BY <1>1, <1>2, <1>3, <1>4, <1>5 DEF Next

-------------------------------------------------------------------------------
(* The theorems *)

\* With one process, and no direct subscription to a skill whose sources may
\* disagree, every change at the registry, step of a sync, failed switch and
\* crash keeps the inductive invariant.
THEOREM Invariance == ASSUME Alone, Separate PROVE Spec => []IndInv
<1>1. IndInv /\ [Next]_vars => IndInv'
  BY NextKeeps
<1> QED
  BY <1>1, InitInv, PTL DEF Spec

\* Whenever an apply has committed, each pack row is what its link shows and
\* no direct subscription claims the skill too: a switch of many skills, cut
\* off and recovered or not, is never half visible (commit_pack_apply,
\* recover_incomplete_apply).
THEOREM RowsVisible == ASSUME Alone, Separate PROVE Spec => []AppliedRowsVisible
<1>1. IndInv => AppliedRowsVisible
  <2> SUFFICES ASSUME IndInv PROVE AppliedRowsVisible
    OBVIOUS
  <2>1. TypeOK
    BY DEF IndInv, StoreInv
  <2>2. \A p \in Procs : pr[p].pc = "sweep" => SweepInv(p)
    BY AtPlace DEF IndInv
  <2> QED
    BY <2>1, <2>2 DEF AppliedRowsVisible, SweepInv
<1> QED
  BY <1>1, Invariance, PTL

\* The link of a skill in conflict does not move while the sync that saw the
\* conflict works.
LEMMA ConflictStep ==
  ASSUME Alone, Separate, IndInv, Next, NEW p \in Procs, NEW r \in Resources,
         \/ pr[p].pc \in DirectPlaces /\ pr'[p].pc \in DirectPlaces /\ r \in pr[p].conf0
         \/ pr[p].pc = "refreshed" /\ r \in pr[p].conf0
         \/ pr[p].pc \in {"switch", "sweep"} /\ r \in pr[p].conf
  PROVE  link'[r] = link[r]
<1>1. StoreInv /\ TypeOK /\ JournalInv /\ RunInv(p) /\ DOMAIN pr = Procs
  BY DEF IndInv, StoreInv
<1>2. CASE UNCHANGED link
  BY <1>2
<1>3. ASSUME NEW q \in Procs,
             SyncStep(q) \/ ApplyFail(q)
      PROVE  link'[r] = link[r]
  <2>1. q = p
    BY DEF Alone
  <2>2. CASE pr[p].pc \in DirectPlaces /\ pr'[p].pc \in DirectPlaces /\ r \in pr[p].conf0
    <3>1. DirectInv(p) /\ Plain(r)
      BY <1>1, <2>2, AtPlace DEF DirectInv
    <3>2. CASE UNCHANGED link
      BY <3>2
    <3>3. ASSUME NEW x \in Resources, DirectStep(p, x) PROVE link'[r] = link[r]
      <4>1. x # r /\ pr[p].answer[x] \in {"quarantined", "removed", "sent"}
        BY <3>1, <3>3 DEF DirectInv, DirectStep, Answers
      <4>2. CASE pr[p].answer[x] = "quarantined"
        <5>1. IF sub[x] # None THEN Quarantined(x) ELSE UNCHANGED <<sub, link>>
          BY <3>3, <4>2 DEF DirectStep, DirectQuarantined
        <5> QED
          BY <1>1, <4>1, <5>1, QuarantineMoves
      <4>3. CASE pr[p].answer[x] = "removed"
        <5>1. link' \in {link, [link EXCEPT ![x] = None]}
          BY <3>3, <4>3 DEF DirectStep, DirectRemoved
        <5> QED
          BY <1>1, <4>1, <5>1 DEF TypeOK
      <4>4. CASE pr[p].answer[x] = "sent"
        BY <3>3, <4>4 DEF DirectStep, DirectSent
      <4> QED
        BY <4>1, <4>2, <4>3, <4>4
    <3>4. CASE SentPlace(p)
      <4>1. PICK x \in Resources : x = pr[p].of /\ x # r
        BY <3>1, <3>4 DEF DirectInv, SentPlace
      <4>2. link' \in {link, [link EXCEPT ![x] = pr[p].value[x]]}
        BY <3>4, <4>1 DEF SentPlace
      <4> QED
        BY <1>1, <4>1, <4>2 DEF TypeOK
    <3> QED
      BY <1>3, <2>1, <2>2, <3>3, <3>4 DEF SyncStep, DirectPlaces, SentRefresh, Start, RecoverList, RecoverDiscard, Refresh, Reconcile,
         RecoverRestore, Enforce, ApplyPlan, ApplySwitch, ApplyCommit, Sweep, ApplyFail
  <2>3. CASE pr[p].pc = "refreshed"
    BY <1>3, <2>1, <2>3 DEF SyncStep, Start, RecoverList, RecoverDiscard, Refresh, Reconcile,
       RecoverRestore, Enforce, DirectStep, SentRefresh, SentPlace, ApplyPlan, ApplySwitch, ApplyCommit, Sweep, ApplyFail
  <2>4. CASE pr[p].pc = "switch" /\ r \in pr[p].conf
    <3>1. SwitchInv(p)
      BY <1>1, <2>4, AtPlace
    <3>2. Planned(p, r)
      BY <3>1 DEF SwitchInv
    <3>3. r \notin DOMAIN pr[p].to /\ r \notin DOMAIN jn[p] /\ pr[p].todo \subseteq DOMAIN pr[p].to
      BY <2>4, <3>1, <3>2 DEF Planned, SwitchInv
    <3>4. CASE ApplySwitch(p)
      <4>1. pr[p].todo # {} /\ pr[p].todo \subseteq Nat
        BY <3>1, <3>4, DesiredSourcesAssumption DEF ApplySwitch, SwitchInv
      <4>2. PICK x \in pr[p].todo : x = Min(pr[p].todo)
        BY <4>1, MinIsMember
      <4>3. link' = [link EXCEPT ![x] = pr[p].to[x]] /\ x # r
        BY <3>3, <3>4, <4>2 DEF ApplySwitch
      <4> QED
        BY <1>1, <4>3 DEF TypeOK
    <3>5. CASE ApplyFail(p)
      BY <3>3, <3>5 DEF ApplyFail, Restored
    <3>6. CASE ApplyCommit(p)
      BY <3>6 DEF ApplyCommit
    <3>7. ApplySwitch(p) \/ ApplyFail(p) \/ ApplyCommit(p)
      BY <1>3, <2>1, <2>4 DEF SyncStep, Start, RecoverList, RecoverDiscard, Refresh, Reconcile,
         RecoverRestore, Enforce, DirectStep, SentRefresh, SentPlace, ApplyPlan, Sweep
    <3> QED
      BY <3>4, <3>5, <3>6, <3>7
  <2>5. CASE pr[p].pc = "sweep" /\ r \in pr[p].conf
    <3>1. SweepInv(p)
      BY <1>1, <2>5, AtPlace
    <3>2. Plain(r)
      BY <2>5, <3>1 DEF SweepInv
    <3>3. Sweep(p)
      BY <1>3, <2>1, <2>5 DEF SyncStep, Start, RecoverList, RecoverDiscard, Refresh, Reconcile,
         RecoverRestore, Enforce, DirectStep, SentRefresh, SentPlace, ApplyPlan, ApplySwitch, ApplyCommit, ApplyFail
    <3> QED
      BY <1>1, <3>1, <3>2, <3>3, SweepMoves
  <2> QED
    BY <2>2, <2>3, <2>4, <2>5
<1> QED
  BY <1>2, <1>3 DEF Next, SetTeam, SetPack, SetDirect, SetQuarantine, Crash

\* A sync that saw the sources of a skill disagree neither picks a winner nor
\* takes its last good revision away, at any step and whatever fails
\* (preserve_conflicted_existing).
THEOREM LastGoodKept == ASSUME Alone, Separate PROVE Spec => ConflictKeepsLastGood
<1> DEFINE Watched(p) ==
      CASE {pr[p].pc, pr'[p].pc} \subseteq {"direct", "stored", "place"} -> pr[p].conf0 \cap pr[p].cat.conf \cap pr'[p].cat.conf
        [] pr[p].pc = "refreshed" -> pr[p].conf0
        [] pr[p].pc \in {"switch", "sweep"} -> pr[p].conf
        [] OTHER -> {}
<1>1. ASSUME IndInv, [Next]_vars
      PROVE  [\A p \in Procs : \A r \in Watched(p) : link'[r] = link[r] \/ r \in quar]_vars
  <2>1. CASE UNCHANGED vars
    BY <2>1
  <2>2. CASE Next
    <3>1. ASSUME NEW p \in Procs, NEW r \in Watched(p) PROVE link'[r] = link[r]
      <4>1. /\ \/ pr[p].pc \in DirectPlaces /\ pr'[p].pc \in DirectPlaces /\ r \in pr[p].conf0
               \/ pr[p].pc = "refreshed" /\ r \in pr[p].conf0
               \/ pr[p].pc \in {"switch", "sweep"} /\ r \in pr[p].conf
        BY <3>1 DEF DirectPlaces
      <4>2. RunInv(p)
        BY <1>1 DEF IndInv
      <4>3. r \in Resources
        BY <4>1, <4>2, AtPlace DEF DirectInv, RefreshedInv, SwitchInv, SweepInv
      <4> QED
        BY <1>1, <2>2, <4>1, <4>3, ConflictStep
    <3> QED
      BY <3>1
  <2> QED
    BY <1>1, <2>1, <2>2
<1>2. Spec => [][\A p \in Procs : \A r \in Watched(p) : link'[r] = link[r] \/ r \in quar]_vars
  BY <1>1, Invariance, PTL DEF Spec
<1> QED
  BY <1>2 DEF ConflictKeepsLastGood

===============================================================================
