--------------------------- MODULE PackFanoutProofs ---------------------------
(* Proofs about PackFanout, for every set of skills, packs, drains and       *)
(* authors and every bound.                                                  *)
EXTENDS PackFanout, FiniteSetTheorems, WellFoundedInduction, TLAPS

\* The releases of a skill are numbered in the order of their events, and
\* completion is recorded for committed events only.
EventsNumbered ==
    /\ \A s \in Skills : latest[s] <= seq
    /\ \A e \in DOMAIN event : e <= seq /\ event[e].ver <= latest[event[e].skill]
    /\ \A e, f \in DOMAIN event :
         event[e].skill = event[f].skill /\ e < f => event[e].ver < event[f].ver
    /\ done \subseteq DOMAIN event

\* A publish that has inserted its event holds the skill's lock: its id is
\* above every committed event of the skill, and no other publish has it.
PublishesOrdered ==
    \A s \in Skills : pub[s] # None =>
        /\ skillLock[s] = s
        /\ pub[s] <= seq /\ pub[s] \notin DOMAIN event
        /\ latest[s] < pub[s]
        /\ \A e \in DOMAIN event : event[e].skill = s => e < pub[s]
        /\ \A t \in Skills \ {s} : pub[t] # pub[s]

\* A drain works on the first event of the skill that is not complete, and it
\* only completes an event no pack waits for.
DrainsInOrder ==
    \A d \in Drains : dr[d].pc # "idle" =>
        /\ dr[d].ev \in DOMAIN event
        /\ \A e \in DOMAIN event :
             event[e].skill = event[dr[d].ev].skill /\ e < dr[d].ev => e \in done
        /\ dr[d].pc = "complete" => \A p \in Packs : pack[p].live => ~Follows(p, dr[d].ev)

\* A member's watermark was taken while no publish of its skill was open, and
\* what it shows is a release, or the draft where the pack may show one.
MemberInOrder(p, s) ==
    /\ intent[p][s].pin = rev[p][s].pin
    /\ intent[p][s].after <= seq
    /\ pub[s] # None => intent[p][s].after < pub[s]
    /\ rev[p][s].ver <= latest[s]
    /\ intent[p][s].pin \/ pack[p].public => rev[p][s].ver > 0

\* What is pending for a pack is newer than what it shows; for a live pack it
\* is not complete, and nothing newer than what it shows is not pending.
EventInOrder(p, e) ==
    LET s == event[e].skill IN
    /\ Follows(p, e) => rev[p][s].ver < event[e].ver
    /\ pack[p].live /\ Follows(p, e) => e \notin done
    /\ pack[p].live /\ s \in DOMAIN intent[p] /\ ~intent[p][s].pin =>
         rev[p][s].ver >= event[e].ver \/ Follows(p, e)

PackInOrder(p) ==
    /\ DOMAIN intent[p] = DOMAIN rev[p]
    /\ \A s \in DOMAIN intent[p] : MemberInOrder(p, s)
    /\ applied[p] \subseteq DOMAIN event
    /\ \A e \in DOMAIN event : EventInOrder(p, e)

IndInv ==
    /\ TypeOK /\ EventsNumbered /\ PublishesOrdered /\ DrainsInOrder
    /\ \A p \in Packs : PackInOrder(p)
-------------------------------------------------------------------------------
(* Smallest and largest ids *)

LEMMA MinIsLeast ==
  ASSUME NEW S, S \subseteq Nat, S # {}
  PROVE  Min(S) \in S /\ \A y \in S : Min(S) <= y
<1> DEFINE R == OpToRel(<, Nat)
<1>1. PICK x \in S : \A y \in S : ~ (<<y, x>> \in R)
  <2>1. IsWellFoundedOn(R, Nat)
    BY NatLessThanWellFounded
  <2> HIDE DEF R
  <2> QED
    BY <2>1, WFMin
<1>2. ASSUME NEW y \in S
      PROVE  x <= y
  <2>1. <<y, x>> \notin {ss \in Nat \X Nat : ss[1] < ss[2]}
    BY <1>1 DEF OpToRel
  <2> QED
    BY <2>1
<1> QED
  BY <1>1, <1>2 DEF Min

\* Event ids are bounded, so the largest id is the smallest one seen from
\* the bound.
LEMMA MaxIsGreatest ==
  ASSUME NEW S, NEW n \in Nat, S \subseteq 1..n, S # {}
  PROVE  Max(S) \in S /\ \A y \in S : Max(S) >= y
<1> DEFINE T == {n - y : y \in S}
<1>1. T \subseteq Nat /\ T # {}
  OBVIOUS
<1>2. Min(T) \in T /\ \A y \in T : Min(T) <= y
  <2> HIDE DEF T
  <2> QED
    BY <1>1, MinIsLeast
<1>3. PICK x \in S : Min(T) = n - x
  BY <1>2
<1>4. ASSUME NEW y \in S
      PROVE  x >= y
  <2>1. n - y \in T
    OBVIOUS
  <2>2. n - x <= n - y
    BY <1>2, <1>3, <2>1
  <2> QED
    BY <2>2
<1> QED
  BY <1>4 DEF Max

-------------------------------------------------------------------------------
(* Steps that leave the tables alone *)

LEMMA TablesFrame ==
  ASSUME EventsNumbered, \A p \in Packs : PackInOrder(p),
         UNCHANGED <<seq, event, pub, latest, store, done>>
  PROVE  EventsNumbered' /\ \A p \in Packs : PackInOrder(p)'
BY DEF EventsNumbered, PackInOrder, MemberInOrder, EventInOrder, Follows, store

LEMMA PublishFrame ==
  ASSUME PublishesOrdered, UNCHANGED <<seq, event, pub, latest>>,
         \A s \in Skills : skillLock[s] = s => skillLock'[s] = s
  PROVE  PublishesOrdered'
BY DEF PublishesOrdered

\* Once an event is committed no step makes a live pack wait for it anew.
LEMMA DrainFrame ==
  ASSUME DrainsInOrder, UNCHANGED event, done \subseteq done',
         \A p \in Packs, e \in DOMAIN event :
             pack'[p].live /\ Follows(p, e)' => pack[p].live /\ Follows(p, e),
         \A d \in Drains : dr'[d].pc # "idle" =>
             /\ dr[d].pc # "idle" /\ dr'[d].ev = dr[d].ev
             /\ dr'[d].pc = "complete" => dr[d].pc = "complete"
  PROVE  DrainsInOrder'
<1> SUFFICES ASSUME NEW d \in Drains, dr'[d].pc # "idle"
             PROVE  /\ dr'[d].ev \in DOMAIN event'
                    /\ \A e \in DOMAIN event' :
                         event'[e].skill = event'[dr'[d].ev].skill /\ e < dr'[d].ev
                           => e \in done'
                    /\ dr'[d].pc = "complete" =>
                         \A p \in Packs : pack'[p].live => ~Follows(p, dr[d].ev)'
  BY DEF DrainsInOrder, Follows
<1>1. /\ dr[d].pc # "idle" /\ dr'[d].ev = dr[d].ev
      /\ dr'[d].pc = "complete" => dr[d].pc = "complete"
  OBVIOUS
<1>2. dr[d].ev \in DOMAIN event
  BY <1>1 DEF DrainsInOrder
<1>3. \A e \in DOMAIN event : event[e].skill = event[dr[d].ev].skill /\ e < dr[d].ev
                                => e \in done
  BY <1>1 DEF DrainsInOrder
<1>4. ASSUME dr'[d].pc = "complete", NEW p \in Packs, pack'[p].live, Follows(p, dr[d].ev)'
      PROVE  FALSE
  <2>1. pack[p].live /\ Follows(p, dr[d].ev)
    BY <1>2, <1>4
  <2> QED
    BY <1>1, <1>4, <2>1 DEF DrainsInOrder
<1> QED
  BY <1>1, <1>2, <1>3, <1>4

-------------------------------------------------------------------------------
(* Changes of one pack *)

StoreTyped ==
    /\ pack \in [Packs -> [gen : Nat, public : BOOLEAN, live : BOOLEAN]]
    /\ DOMAIN intent = Packs /\ DOMAIN rev = Packs
    /\ \A p \in Packs :
        /\ DOMAIN intent[p] \subseteq Skills
        /\ intent[p] \in [DOMAIN intent[p] -> [pin : BOOLEAN, after : 0..MaxEvents]]
        /\ rev[p] \in [DOMAIN rev[p] -> [pin : BOOLEAN, ver : 0..MaxEvents]]
    /\ applied \in [Packs -> SUBSET EventIds]

\* A skill pack p follows before and after the step shows no older release.
NoRegress(p) ==
    \A s \in DOMAIN intent[p] \cap DOMAIN intent'[p] :
        ~intent[p][s].pin /\ ~intent'[p][s].pin => rev'[p][s].ver >= rev[p][s].ver

\* What every change of a pack does for the invariant.
PackStep(p) ==
    /\ StoreTyped'
    /\ \A q \in Packs \ {p} :
         /\ pack'[q] = pack[q] /\ intent'[q] = intent[q]
         /\ rev'[q] = rev[q] /\ applied'[q] = applied[q]
    /\ pack'[p].live => pack[p].live
    /\ \A e \in DOMAIN event : Follows(p, e)' => Follows(p, e)
    /\ PackInOrder(p)'
    /\ NoRegress(p)

LEMMA MembersTyped ==
  ASSUME TypeOK, NEW p \in Packs, NEW s \in DOMAIN intent[p]
  PROVE  /\ s \in Skills /\ intent[p][s].pin \in BOOLEAN
         /\ intent[p][s].after \in 0..MaxEvents
BY DEF TypeOK

LEMMA ShownTyped ==
  ASSUME TypeOK, NEW p \in Packs, NEW s \in DOMAIN rev[p]
  PROVE  rev[p][s].pin \in BOOLEAN /\ rev[p][s].ver \in 0..MaxEvents
BY DEF TypeOK

LEMMA GenerationUp ==
  ASSUME pack \in [Packs -> [gen : Nat, public : BOOLEAN, live : BOOLEAN]],
         NEW p \in Packs, NEW n \in Nat, pack' = [pack EXCEPT ![p].gen = @ + n]
  PROVE  /\ pack' \in [Packs -> [gen : Nat, public : BOOLEAN, live : BOOLEAN]]
         /\ pack'[p].public = pack[p].public /\ pack'[p].live = pack[p].live
         /\ \A q \in Packs \ {p} : pack'[q] = pack[q]
<1>1. pack[p].gen + n \in Nat
  OBVIOUS
<1>2. pack'[p] = [pack[p] EXCEPT !.gen = pack[p].gen + n]
  OBVIOUS
<1> QED
  BY <1>1, <1>2

LEMMA VisibilitySet ==
  ASSUME pack \in [Packs -> [gen : Nat, public : BOOLEAN, live : BOOLEAN]],
         NEW p \in Packs, NEW n \in Nat, NEW b \in BOOLEAN,
         pack' = [pack EXCEPT ![p].gen = @ + n, ![p].public = b]
  PROVE  /\ pack' \in [Packs -> [gen : Nat, public : BOOLEAN, live : BOOLEAN]]
         /\ pack'[p].public = b /\ pack'[p].live = pack[p].live
         /\ \A q \in Packs \ {p} : pack'[q] = pack[q]
<1> DEFINE h == [pack EXCEPT ![p].gen = @ + n]
<1>1. h[p] = [pack[p] EXCEPT !.gen = pack[p].gen + n] /\ pack[p].gen + n \in Nat
  OBVIOUS
<1>2. h[p] \in [gen : Nat, public : BOOLEAN, live : BOOLEAN] /\ h[p].live = pack[p].live
  BY <1>1
<1>3. /\ h \in [Packs -> [gen : Nat, public : BOOLEAN, live : BOOLEAN]]
      /\ \A q \in Packs \ {p} : h[q] = pack[q]
  BY <1>2
<1>4. pack' = [h EXCEPT ![p].public = b]
  OBVIOUS
<1> HIDE DEF h
<1>5. pack'[p] = [h[p] EXCEPT !.public = b]
  BY <1>3, <1>4
<1>6. pack'[p] \in [gen : Nat, public : BOOLEAN, live : BOOLEAN]
  BY <1>2, <1>5
<1> QED
  BY <1>2, <1>3, <1>4, <1>5, <1>6

\* A pack takes in some of its pending events, and with an event every earlier
\* one of the skill that is pending: this is why the order of the drains, and
\* of the catch-up, matters.
LEMMA TakeIn ==
  ASSUME IndInv, NEW p \in Packs, NEW es \in SUBSET Pending(p),
         \A e \in es, f \in Pending(p) :
             event[f].skill = event[e].skill /\ f < e => f \in es,
         UNCHANGED <<seq, event, pub, latest, done>>, intent'[p] = intent[p],
         pack'[p].public = pack[p].public, pack'[p].live = pack[p].live,
         applied'[p] = applied[p] \cup es,
         DOMAIN rev'[p] = DOMAIN rev[p],
         \A s \in DOMAIN rev[p] :
             /\ rev'[p][s].pin = rev[p][s].pin
             /\ \/ rev'[p][s].ver = rev[p][s].ver /\ \A e \in es : event[e].skill # s
                \/ \E m \in es : /\ event[m].skill = s /\ rev'[p][s].ver = event[m].ver
                                 /\ \A e \in es : event[e].skill = s => e <= m
  PROVE  /\ \A e \in DOMAIN event : Follows(p, e)' => Follows(p, e)
         /\ PackInOrder(p)' /\ NoRegress(p)
<1> USE DEF IndInv
<1>1. \A e \in DOMAIN event : /\ e \in Nat /\ event[e].ver \in Nat /\ event[e].ver > 0
                              /\ event[e].skill \in Skills
                              /\ event[e].ver <= latest[event[e].skill]
  BY PackFanoutAssumption DEF TypeOK, EventsNumbered, EventIds
<1>2. /\ DOMAIN intent[p] = DOMAIN rev[p] /\ applied[p] \subseteq DOMAIN event
      /\ \A s \in DOMAIN intent[p] : MemberInOrder(p, s)
      /\ \A e \in DOMAIN event : EventInOrder(p, e)
  BY DEF PackInOrder
<1>3. \A e \in es : e \in DOMAIN event /\ Follows(p, e)
  BY DEF Pending
<1>4. \A e \in DOMAIN event : Follows(p, e)' <=> Follows(p, e) /\ e \notin es
  BY DEF Follows
<1>5. \A s \in DOMAIN rev[p] : rev[p][s].ver \in Nat /\ latest[s] \in Nat
  BY ShownTyped, MembersTyped, <1>2, PackFanoutAssumption DEF TypeOK
<1>6. ASSUME NEW s \in DOMAIN rev[p]
      PROVE  /\ rev'[p][s].ver \in Nat /\ rev'[p][s].ver >= rev[p][s].ver
             /\ rev'[p][s].ver <= latest[s]
  <2>1. CASE rev'[p][s].ver = rev[p][s].ver
    BY <2>1, <1>2, <1>5 DEF MemberInOrder
  <2>2. CASE \E m \in es : event[m].skill = s /\ rev'[p][s].ver = event[m].ver
    <3>1. PICK m \in es : event[m].skill = s /\ rev'[p][s].ver = event[m].ver
      BY <2>2
    <3>2. rev[p][s].ver < event[m].ver
      BY <1>2, <1>3, <3>1 DEF EventInOrder
    <3> QED
      BY <1>1, <1>3, <1>5, <3>1, <3>2
  <2> QED
    BY <2>1, <2>2
<1>7. \A s \in DOMAIN intent[p] : MemberInOrder(p, s)'
  BY <1>2, <1>5, <1>6 DEF MemberInOrder
<1>8. ASSUME NEW e \in DOMAIN event
      PROVE  EventInOrder(p, e)'
  <2> DEFINE s == event[e].skill
  <2>1. ASSUME Follows(p, e), e \notin es
        PROVE  rev'[p][s].ver < event[e].ver
    <3>1. s \in DOMAIN rev[p] /\ rev[p][s].ver < event[e].ver
      BY <1>2, <2>1 DEF EventInOrder, Follows
    <3>2. ASSUME NEW m \in es, event[m].skill = s
          PROVE  event[m].ver < event[e].ver
      <4>1. e \in Pending(p) /\ m # e
        BY <2>1 DEF Pending
      <4>2. m < e
        BY <3>2, <4>1, <2>1, <1>1, <1>3
      <4> QED
        BY <3>2, <4>2, <1>3 DEF EventsNumbered
    <3> QED
      BY <3>1, <3>2
  <2>2. ASSUME s \in DOMAIN rev[p], rev[p][s].ver >= event[e].ver
        PROVE  rev'[p][s].ver >= event[e].ver
    BY <1>1, <1>5, <1>6, <2>2
  <2>3. ASSUME e \in es
        PROVE  rev'[p][s].ver >= event[e].ver
    <3>1. s \in DOMAIN rev[p]
      BY <1>2, <1>3, <2>3 DEF Follows
    <3>2. PICK m \in es : event[m].skill = s /\ rev'[p][s].ver = event[m].ver /\ e <= m
      BY <2>3, <3>1
    <3>3. CASE m = e
      BY <3>2, <3>3, <1>1
    <3>4. CASE e < m
      BY <3>2, <3>4, <1>1, <1>3 DEF EventsNumbered
    <3> QED
      BY <3>2, <3>3, <3>4, <1>1, <1>3
  <2>4. EventInOrder(p, e)
    BY <1>2
  <2> QED
    BY <1>2, <1>4, <2>1, <2>2, <2>3, <2>4 DEF EventInOrder
<1>9. NoRegress(p)
  BY <1>2, <1>6 DEF NoRegress
<1>10. PackInOrder(p)'
  BY <1>2, <1>3, <1>7, <1>8 DEF PackInOrder
<1> QED
  BY <1>4, <1>9, <1>10

\* advance_pack_event_in_tx on a live pack, for an event whose predecessors are
\* complete.
LEMMA AdvanceStep ==
  ASSUME IndInv, NEW p \in Packs, NEW e \in DOMAIN event, AdvanceInTx(p, e),
         pack[p].live, Follows(p, e),
         \A f \in DOMAIN event : event[f].skill = event[e].skill /\ f < e => f \in done,
         UNCHANGED <<seq, event, pub, latest, done>>
  PROVE  PackStep(p)
<1> USE DEF IndInv
<1> DEFINE s == event[e].skill
<1>1. /\ s \in Skills /\ s \in DOMAIN intent[p] /\ s \in DOMAIN rev[p]
      /\ event[e].ver \in EventIds
  BY DEF TypeOK, Follows, PackInOrder
<1>2. /\ DOMAIN rev' = Packs /\ DOMAIN rev'[p] = DOMAIN rev[p] /\ intent' = intent
      /\ \A q \in Packs \ {p} : rev'[q] = rev[q]
      /\ rev'[p] = [rev[p] EXCEPT ![s].ver = event[e].ver]
  BY DEF TypeOK, AdvanceInTx, Resolve
<1>3. ASSUME NEW t \in DOMAIN rev[p]
      PROVE  /\ rev'[p][t] \in [pin : BOOLEAN, ver : 0..MaxEvents]
             /\ rev'[p][t].pin = rev[p][t].pin
             /\ rev'[p][t].ver = IF t = s THEN event[e].ver ELSE rev[p][t].ver
  <2>1. rev[p][t] \in [pin : BOOLEAN, ver : 0..MaxEvents]
    BY DEF TypeOK
  <2>2. event[e].ver \in 0..MaxEvents
    BY <1>1, PackFanoutAssumption DEF EventIds
  <2>3. rev'[p][t] = IF t = s THEN [rev[p][t] EXCEPT !.ver = event[e].ver] ELSE rev[p][t]
    BY <1>1, <1>2
  <2> HIDE DEF s
  <2> QED
    BY <2>1, <2>2, <2>3
<1>4. rev'[p] \in [DOMAIN rev[p] -> [pin : BOOLEAN, ver : 0..MaxEvents]]
  <2>1. rev'[p] = [t \in DOMAIN rev[p] |-> rev'[p][t]]
    BY <1>2 DEF TypeOK
  <2> QED
    BY <1>3, <2>1
<1>5. /\ applied' \in [Packs -> SUBSET EventIds] /\ applied'[p] = applied[p] \cup {e}
      /\ \A q \in Packs \ {p} : applied'[q] = applied[q]
  BY DEF TypeOK, AdvanceInTx
<1>6. /\ pack' \in [Packs -> [gen : Nat, public : BOOLEAN, live : BOOLEAN]]
      /\ pack'[p].public = pack[p].public /\ pack'[p].live = pack[p].live
      /\ \A q \in Packs \ {p} : pack'[q] = pack[q]
  BY GenerationUp DEF TypeOK, AdvanceInTx
<1>7. StoreTyped'
  <2>1. \A q \in Packs : rev'[q] \in [DOMAIN rev'[q] -> [pin : BOOLEAN, ver : 0..MaxEvents]]
    BY <1>2, <1>4 DEF TypeOK
  <2> QED
    BY <1>2, <1>5, <1>6, <2>1 DEF TypeOK, StoreTyped
<1>8. {e} \in SUBSET Pending(p)
  BY DEF Pending
<1>9. \A g \in {e}, f \in Pending(p) :
        event[f].skill = event[g].skill /\ f < g => f \in {e}
  BY DEF Pending, PackInOrder, EventInOrder
<1>10. \A t \in DOMAIN rev[p] :
         /\ rev'[p][t].pin = rev[p][t].pin
         /\ \/ rev'[p][t].ver = rev[p][t].ver /\ \A g \in {e} : event[g].skill # t
            \/ \E m \in {e} : /\ event[m].skill = t /\ rev'[p][t].ver = event[m].ver
                              /\ \A g \in {e} : event[g].skill = t => g <= m
  <2>1. e <= e
    BY DEF TypeOK, EventIds
  <2> SUFFICES ASSUME NEW t \in DOMAIN rev[p]
               PROVE  /\ rev'[p][t].pin = rev[p][t].pin
                      /\ t # s => rev'[p][t].ver = rev[p][t].ver
                      /\ t = s => rev'[p][t].ver = event[e].ver
    BY <2>1
  <2> QED
    BY <1>3
<1>11. /\ \A g \in DOMAIN event : Follows(p, g)' => Follows(p, g)
       /\ PackInOrder(p)' /\ NoRegress(p)
  <2> HIDE DEF IndInv
  <2> QED
    BY TakeIn, <1>2, <1>5, <1>6, <1>8, <1>9, <1>10
<1> QED
  BY <1>2, <1>5, <1>6, <1>7, <1>11 DEF PackStep

\* The catch-up of an authored change takes in everything that is pending.
LEMMA CatchUpStep ==
  ASSUME IndInv, NEW p \in Packs, CatchUp(p),
         UNCHANGED <<seq, event, pub, latest, done>>
  PROVE  PackStep(p)
<1> USE DEF IndInv
<1> DEFINE es == Pending(p)
           last(s) == {e \in es : event[e].skill = s}
           shown(s) == IF last(s) = {} THEN rev[p][s].ver ELSE event[Max(last(s))].ver
<1>1. es \subseteq DOMAIN event /\ es \subseteq 1..MaxEvents /\ IsFiniteSet(es)
  <2>1. es \subseteq 1..MaxEvents
    BY DEF Pending, TypeOK, EventIds
  <2>2. IsFiniteSet(es)
    <3>1. IsFiniteSet(1..MaxEvents)
      BY FS_Interval, PackFanoutAssumption
    <3> HIDE DEF es
    <3> QED
      BY <2>1, <3>1, FS_Subset
  <2> QED
    BY <2>1, <2>2 DEF Pending
<1>2. Cardinality(es) \in Nat
  <2> HIDE DEF es
  <2> QED
    BY <1>1, FS_CardinalityType
<1>3. ASSUME NEW s, last(s) # {}
      PROVE  /\ Max(last(s)) \in es /\ event[Max(last(s))].skill = s
             /\ event[Max(last(s))].ver \in 0..MaxEvents
             /\ \A e \in es : event[e].skill = s => e <= Max(last(s))
  <2>1. last(s) \subseteq 1..MaxEvents /\ last(s) \subseteq es /\ last(s) \subseteq DOMAIN event
    BY <1>1
  <2>2. Max(last(s)) \in last(s) /\ \A y \in last(s) : Max(last(s)) >= y
    <3> HIDE DEF last
    <3> QED
      BY <1>3, <2>1, MaxIsGreatest, PackFanoutAssumption
  <2>3. Max(last(s)) \in DOMAIN event
    BY <2>1, <2>2
  <2>4. event[Max(last(s))].ver \in 0..MaxEvents
    BY <2>3, PackFanoutAssumption DEF TypeOK, EventIds
  <2>5. \A e \in es : event[e].skill = s => e <= Max(last(s))
    <3> SUFFICES ASSUME NEW e \in es, event[e].skill = s
                 PROVE  e <= Max(last(s))
      OBVIOUS
    <3>1. e \in last(s)
      OBVIOUS
    <3>2. Max(last(s)) >= e /\ Max(last(s)) \in 1..MaxEvents /\ e \in 1..MaxEvents
      BY <2>1, <2>2, <3>1
    <3> HIDE DEF last
    <3> QED
      BY <3>2, PackFanoutAssumption
  <2> QED
    BY <2>2, <2>4, <2>5
<1>4. /\ intent' = intent /\ DOMAIN rev' = Packs /\ \A q \in Packs \ {p} : rev'[q] = rev[q]
      /\ rev'[p] = [s \in DOMAIN rev[p] |->
                      IF last(s) = {} THEN rev[p][s]
                      ELSE [rev[p][s] EXCEPT !.ver = event[Max(last(s))].ver]]
  BY DEF CatchUp, TypeOK
<1>5. DOMAIN rev'[p] = DOMAIN rev[p]
  BY <1>4
<1>6. \A s \in DOMAIN rev[p] :
        /\ rev'[p][s].pin = rev[p][s].pin /\ rev'[p][s].ver = shown(s)
        /\ rev'[p][s] \in [pin : BOOLEAN, ver : 0..MaxEvents]
  <2> SUFFICES ASSUME NEW s \in DOMAIN rev[p]
               PROVE  /\ rev'[p][s].pin = rev[p][s].pin /\ rev'[p][s].ver = shown(s)
                      /\ rev'[p][s] \in [pin : BOOLEAN, ver : 0..MaxEvents]
    OBVIOUS
  <2>1. rev[p][s] \in [pin : BOOLEAN, ver : 0..MaxEvents]
    BY DEF TypeOK
  <2>2. rev'[p][s] = IF last(s) = {} THEN rev[p][s]
                     ELSE [rev[p][s] EXCEPT !.ver = event[Max(last(s))].ver]
    BY <1>4
  <2>3. last(s) # {} => event[Max(last(s))].ver \in 0..MaxEvents
    BY <1>3
  <2> HIDE DEF last
  <2> QED
    BY <2>1, <2>2, <2>3
<1>7. rev'[p] \in [DOMAIN rev[p] -> [pin : BOOLEAN, ver : 0..MaxEvents]]
  <2>1. rev'[p] = [s \in DOMAIN rev[p] |-> rev'[p][s]]
    BY <1>4
  <2> QED
    BY <1>6, <2>1
<1>8. /\ applied' \in [Packs -> SUBSET EventIds] /\ applied'[p] = applied[p] \cup es
      /\ \A q \in Packs \ {p} : applied'[q] = applied[q]
  BY <1>1 DEF TypeOK, CatchUp, EventIds
<1>9. /\ pack' \in [Packs -> [gen : Nat, public : BOOLEAN, live : BOOLEAN]]
      /\ pack'[p].public = pack[p].public /\ pack'[p].live = pack[p].live
      /\ \A q \in Packs \ {p} : pack'[q] = pack[q]
  <2>1. pack' = [pack EXCEPT ![p].gen = @ + Cardinality(es)]
    BY DEF CatchUp
  <2> HIDE DEF es
  <2> QED
    BY <1>2, <2>1, GenerationUp DEF TypeOK
<1>10. StoreTyped'
  <2>1. \A q \in Packs : rev'[q] \in [DOMAIN rev'[q] -> [pin : BOOLEAN, ver : 0..MaxEvents]]
    BY <1>4, <1>5, <1>7 DEF TypeOK
  <2> QED
    BY <1>4, <1>8, <1>9, <2>1 DEF TypeOK, StoreTyped
<1>11. \A t \in DOMAIN rev[p] :
         /\ rev'[p][t].pin = rev[p][t].pin
         /\ \/ rev'[p][t].ver = rev[p][t].ver /\ \A g \in es : event[g].skill # t
            \/ \E m \in es : /\ event[m].skill = t /\ rev'[p][t].ver = event[m].ver
                             /\ \A g \in es : event[g].skill = t => g <= m
  <2> SUFFICES ASSUME NEW t \in DOMAIN rev[p]
               PROVE  \/ rev'[p][t].ver = rev[p][t].ver /\ \A g \in es : event[g].skill # t
                      \/ \E m \in es : /\ event[m].skill = t /\ rev'[p][t].ver = event[m].ver
                                       /\ \A g \in es : event[g].skill = t => g <= m
    BY <1>6
  <2>1. CASE last(t) = {}
    BY <1>6, <2>1
  <2>2. CASE last(t) # {}
    BY <1>3, <1>6, <2>2
  <2> QED
    BY <2>1, <2>2
<1>12. /\ \A g \in DOMAIN event : Follows(p, g)' => Follows(p, g)
       /\ PackInOrder(p)' /\ NoRegress(p)
  <2>1. es \in SUBSET Pending(p) /\ \A e \in es, f \in Pending(p) :
          event[f].skill = event[e].skill /\ f < e => f \in es
    OBVIOUS
  <2> HIDE DEF IndInv, es
  <2> QED
    BY TakeIn, <1>4, <1>5, <1>8, <1>9, <1>11, <2>1
<1> QED
  BY <1>4, <1>8, <1>9, <1>10, <1>12 DEF PackStep

\* No change, or one of the pack's row alone.
LEMMA RowStep ==
  ASSUME IndInv, NEW p \in Packs,
         UNCHANGED <<seq, event, pub, latest, done, intent, rev, applied>>,
         pack' \in [Packs -> [gen : Nat, public : BOOLEAN, live : BOOLEAN]],
         pack'[p].public => pack[p].public, pack'[p].live => pack[p].live,
         \A q \in Packs \ {p} : pack'[q] = pack[q]
  PROVE  PackStep(p)
<1> USE DEF IndInv
<1>1. StoreTyped'
  BY DEF TypeOK, StoreTyped
<1>2. \A e \in DOMAIN event : Follows(p, e)' <=> Follows(p, e)
  BY DEF Follows
<1>3. PackInOrder(p)
  OBVIOUS
<1>4. PackInOrder(p)'
  BY <1>2, <1>3 DEF PackInOrder, MemberInOrder, EventInOrder
<1>5. NoRegress(p)
  <2>1. \A s \in DOMAIN intent[p] : rev[p][s].ver \in 0..MaxEvents
    BY <1>3, ShownTyped DEF PackInOrder
  <2> QED
    BY <2>1, PackFanoutAssumption DEF NoRegress
<1> QED
  BY <1>1, <1>2, <1>4, <1>5 DEF PackStep

\* A member added, pinned or unpinned with the skill's lock held: its watermark
\* is above every committed event of the skill, and no publish is open.
LEMMA SetMemberStep ==
  ASSUME IndInv, NEW p \in Packs, NEW s \in Skills, NEW isPin \in BOOLEAN,
         SetMember(p, s, isPin), pub[s] = None,
         isPin \/ pack[p].public => latest[s] > 0,
         UNCHANGED <<seq, event, pub, latest, done>>
  PROVE  PackStep(p)
<1> USE DEF IndInv
<1> DEFINE same == s \in DOMAIN intent[p] /\ intent[p][s].pin = isPin
                     /\ (isPin => rev[p][s].ver = latest[s])
           m == [pin |-> isPin, after |-> seq]
           r == [pin |-> isPin, ver |-> latest[s]]
<1>1. CASE same
  <2>1. UNCHANGED store
    BY <1>1 DEF SetMember
  <2> QED
    BY <2>1, RowStep DEF store, TypeOK
<1>2. CASE ~same
  <2>1. /\ intent' = [intent EXCEPT ![p] = Upsert(intent[p], s, m)]
        /\ rev' = [rev EXCEPT ![p] = Upsert(rev[p], s, r)]
        /\ pack' = [pack EXCEPT ![p].gen = @ + 1] /\ applied' = applied
    BY <1>2 DEF SetMember, Watermark
  <2>2. /\ DOMAIN intent' = Packs /\ DOMAIN rev' = Packs
        /\ \A q \in Packs \ {p} : intent'[q] = intent[q] /\ rev'[q] = rev[q]
        /\ intent'[p] = Upsert(intent[p], s, m) /\ rev'[p] = Upsert(rev[p], s, r)
    BY <2>1 DEF TypeOK
  <2>3. /\ pack' \in [Packs -> [gen : Nat, public : BOOLEAN, live : BOOLEAN]]
        /\ pack'[p].public = pack[p].public /\ pack'[p].live = pack[p].live
        /\ \A q \in Packs \ {p} : pack'[q] = pack[q]
    BY <2>1, GenerationUp DEF TypeOK
  <2>4. /\ m \in [pin : BOOLEAN, after : 0..MaxEvents] /\ m.pin = isPin /\ m.after = seq
        /\ r \in [pin : BOOLEAN, ver : 0..MaxEvents] /\ r.pin = isPin /\ r.ver = latest[s]
        /\ latest[s] \in Nat /\ seq \in Nat
    BY PackFanoutAssumption DEF TypeOK
  <2> HIDE DEF m, r, same
  <2>5. /\ DOMAIN intent[p] = DOMAIN rev[p]
        /\ DOMAIN intent'[p] = DOMAIN intent[p] \cup {s}
        /\ DOMAIN rev'[p] = DOMAIN intent[p] \cup {s}
        /\ intent'[p][s] = m /\ rev'[p][s] = r
        /\ \A x \in DOMAIN intent[p] \ {s} :
             intent'[p][x] = intent[p][x] /\ rev'[p][x] = rev[p][x]
    BY <2>2 DEF Upsert, PackInOrder
  <2>6. /\ intent'[p] \in [DOMAIN intent'[p] -> [pin : BOOLEAN, after : 0..MaxEvents]]
        /\ rev'[p] \in [DOMAIN rev'[p] -> [pin : BOOLEAN, ver : 0..MaxEvents]]
        /\ DOMAIN intent'[p] \subseteq Skills
    <3>1. /\ intent'[p] = [x \in DOMAIN intent'[p] |-> intent'[p][x]]
          /\ rev'[p] = [x \in DOMAIN rev'[p] |-> rev'[p][x]]
      BY <2>2 DEF Upsert
    <3>2. /\ \A x \in DOMAIN intent'[p] : intent'[p][x] \in [pin : BOOLEAN, after : 0..MaxEvents]
          /\ \A x \in DOMAIN rev'[p] : rev'[p][x] \in [pin : BOOLEAN, ver : 0..MaxEvents]
      BY <2>4, <2>5 DEF TypeOK
    <3>3. DOMAIN intent'[p] \subseteq Skills
      BY <2>5 DEF TypeOK
    <3> QED
      BY <3>1, <3>2, <3>3
  <2>7. StoreTyped'
    BY <2>1, <2>2, <2>3, <2>6 DEF TypeOK, StoreTyped
  <2>8. \A e \in DOMAIN event : /\ e \in Nat /\ e <= seq /\ event[e].ver \in Nat
                                /\ event[e].ver <= latest[event[e].skill]
    BY PackFanoutAssumption DEF EventsNumbered, TypeOK, EventIds
  <2>9. ASSUME NEW e \in DOMAIN event, Follows(p, e)'
        PROVE  Follows(p, e) /\ event[e].skill # s
    <3>1. event[e].skill # s
      BY <2>4, <2>5, <2>8, <2>9 DEF Follows
    <3> QED
      BY <2>1, <2>5, <2>9, <3>1 DEF Follows
  <2>10. ASSUME NEW x \in DOMAIN intent'[p]
         PROVE  MemberInOrder(p, x)'
    <3>1. CASE x = s
      BY <2>3, <2>4, <2>5, <3>1 DEF MemberInOrder
    <3>2. CASE x # s
      BY <2>3, <2>5, <3>2 DEF MemberInOrder, PackInOrder
    <3> QED
      BY <3>1, <3>2
  <2>11. ASSUME NEW e \in DOMAIN event
         PROVE  EventInOrder(p, e)'
    <3>1. EventInOrder(p, e)
      BY DEF PackInOrder
    <3>2. CASE event[e].skill = s
      <4>1. ~Follows(p, e)'
        BY <2>9, <3>2
      <4>2. rev'[p][s].ver >= event[e].ver
        BY <2>4, <2>5, <2>8, <3>2
      <4> QED
        BY <3>2, <4>1, <4>2 DEF EventInOrder
    <3>3. CASE event[e].skill # s
      <4>1. Follows(p, e)' <=> Follows(p, e)
        BY <2>1, <2>5, <3>3 DEF Follows
      <4> QED
        BY <2>3, <2>5, <3>1, <3>3, <4>1 DEF EventInOrder, Follows
    <3> QED
      BY <3>2, <3>3
  <2>12. PackInOrder(p)'
    BY <2>1, <2>5, <2>10, <2>11 DEF PackInOrder
  <2>13. NoRegress(p)
    <3>1. \A x \in DOMAIN intent[p] : /\ rev[p][x].ver \in Nat
                                      /\ rev[p][x].ver <= latest[x]
      BY <2>5, ShownTyped, PackFanoutAssumption DEF PackInOrder, MemberInOrder
    <3> QED
      BY <2>4, <2>5, <3>1 DEF NoRegress
  <2> QED
    BY <2>1, <2>2, <2>3, <2>7, <2>9, <2>12, <2>13 DEF PackStep
<1> QED
  BY <1>1, <1>2

LEMMA RemoveMemberStep ==
  ASSUME IndInv, NEW p \in Packs, NEW s \in Skills, RemoveMember(p, s),
         UNCHANGED <<seq, event, pub, latest, done>>
  PROVE  PackStep(p)
<1> USE DEF IndInv
<1>1. CASE s \notin DOMAIN intent[p]
  <2>1. UNCHANGED store
    BY <1>1 DEF RemoveMember
  <2> QED
    BY <2>1, RowStep DEF store, TypeOK
<1>2. CASE s \in DOMAIN intent[p]
  <2> DEFINE rest == DOMAIN intent[p] \ {s}
  <2>1. /\ intent' = [intent EXCEPT ![p] = [x \in rest |-> intent[p][x]]]
        /\ rev' = [rev EXCEPT ![p] = [x \in rest |-> rev[p][x]]]
        /\ pack' = [pack EXCEPT ![p].gen = @ + 1] /\ applied' = applied
    BY <1>2 DEF RemoveMember
  <2>2. /\ DOMAIN intent' = Packs /\ DOMAIN rev' = Packs
        /\ \A q \in Packs \ {p} : intent'[q] = intent[q] /\ rev'[q] = rev[q]
        /\ intent'[p] = [x \in rest |-> intent[p][x]]
        /\ rev'[p] = [x \in rest |-> rev[p][x]]
    BY <2>1 DEF TypeOK
  <2>3. /\ pack' \in [Packs -> [gen : Nat, public : BOOLEAN, live : BOOLEAN]]
        /\ pack'[p].public = pack[p].public /\ pack'[p].live = pack[p].live
        /\ \A q \in Packs \ {p} : pack'[q] = pack[q]
    BY <2>1, GenerationUp DEF TypeOK
  <2>4. /\ rest \subseteq DOMAIN intent[p] /\ DOMAIN intent[p] = DOMAIN rev[p]
        /\ DOMAIN intent'[p] = rest /\ DOMAIN rev'[p] = rest
        /\ \A x \in rest : intent'[p][x] = intent[p][x] /\ rev'[p][x] = rev[p][x]
    BY <2>2 DEF PackInOrder
  <2>5. /\ intent'[p] \in [rest -> [pin : BOOLEAN, after : 0..MaxEvents]]
        /\ rev'[p] \in [rest -> [pin : BOOLEAN, ver : 0..MaxEvents]]
    BY <2>2, <2>4 DEF TypeOK
  <2>6. StoreTyped'
    BY <2>1, <2>2, <2>3, <2>4, <2>5 DEF TypeOK, StoreTyped
  <2> HIDE DEF rest
  <2>7. \A e \in DOMAIN event :
          Follows(p, e)' <=> event[e].skill \in rest /\ Follows(p, e)
    BY <2>1, <2>4 DEF Follows
  <2>8. PackInOrder(p)
    OBVIOUS
  <2>9. \A x \in rest : MemberInOrder(p, x)'
    BY <2>3, <2>4, <2>8 DEF PackInOrder, MemberInOrder
  <2>10. \A e \in DOMAIN event : EventInOrder(p, e)'
    BY <2>3, <2>4, <2>7, <2>8 DEF PackInOrder, EventInOrder, Follows
  <2>11. NoRegress(p)
    <3>1. \A x \in DOMAIN intent[p] : rev[p][x].ver \in 0..MaxEvents
      BY <2>4, ShownTyped
    <3> QED
      BY <2>4, <3>1, PackFanoutAssumption DEF NoRegress
  <2>12. PackInOrder(p)'
    BY <2>1, <2>4, <2>8, <2>9, <2>10 DEF PackInOrder
  <2> QED
    BY <2>1, <2>2, <2>3, <2>6, <2>7, <2>11, <2>12 DEF PackStep
<1> QED
  BY <1>1, <1>2

\* publish_pack shows the latest release of every followed skill: no event may
\* be pending, or an older one would be applied on top of it.
LEMMA PublishPackStep ==
  ASSUME IndInv, NEW p \in Packs, PublishPack(p), Pending(p) = {},
         \A x \in DOMAIN intent[p] : latest[x] > 0,
         UNCHANGED <<seq, event, pub, latest, done>>
  PROVE  PackStep(p)
<1> USE DEF IndInv
<1> DEFINE res == [s \in DOMAIN intent[p] |->
                     [pin |-> intent[p][s].pin,
                      ver |-> IF intent[p][s].pin THEN rev[p][s].ver ELSE latest[s]]]
           steps == (IF res # rev[p] THEN 1 ELSE 0) + (IF pack[p].public THEN 0 ELSE 1)
<1>1. /\ rev' = [rev EXCEPT ![p] = res] /\ intent' = intent /\ applied' = applied
      /\ pack' = [pack EXCEPT ![p].gen = @ + steps, ![p].public = TRUE]
  BY DEF PublishPack
<1>2. /\ DOMAIN intent[p] = DOMAIN rev[p] /\ DOMAIN intent[p] \subseteq Skills
      /\ \A s \in DOMAIN intent[p] : MemberInOrder(p, s)
      /\ \A e \in DOMAIN event : EventInOrder(p, e) /\ ~Follows(p, e)
      /\ applied[p] \subseteq DOMAIN event
  BY DEF PackInOrder, TypeOK, Pending
<1>3. steps \in Nat
  OBVIOUS
<1>4. /\ pack' \in [Packs -> [gen : Nat, public : BOOLEAN, live : BOOLEAN]]
      /\ pack'[p].live = pack[p].live
      /\ \A q \in Packs \ {p} : pack'[q] = pack[q]
  <2>1. pack \in [Packs -> [gen : Nat, public : BOOLEAN, live : BOOLEAN]]
    BY DEF TypeOK
  <2> HIDE DEF steps
  <2> QED
    BY <1>1, <1>3, <2>1, VisibilitySet
<1>5. /\ DOMAIN rev' = Packs /\ rev'[p] = res
      /\ \A q \in Packs \ {p} : rev'[q] = rev[q]
  BY <1>1 DEF TypeOK
<1>6. DOMAIN rev'[p] = DOMAIN intent[p]
  BY <1>5
<1>7. ASSUME NEW s \in DOMAIN intent[p]
      PROVE  /\ rev'[p][s] \in [pin : BOOLEAN, ver : 0..MaxEvents]
             /\ rev'[p][s].pin = intent[p][s].pin
             /\ rev'[p][s].ver = IF intent[p][s].pin THEN rev[p][s].ver ELSE latest[s]
             /\ rev'[p][s].ver \in Nat /\ rev[p][s].ver \in Nat /\ latest[s] \in Nat
             /\ rev[p][s].ver <= latest[s]
  <2>1. /\ rev[p][s].ver \in 0..MaxEvents /\ latest[s] \in 0..MaxEvents
        /\ intent[p][s].pin \in BOOLEAN
    BY <1>2, MembersTyped, ShownTyped DEF TypeOK
  <2>2. rev'[p][s] = [pin |-> intent[p][s].pin,
                      ver |-> IF intent[p][s].pin THEN rev[p][s].ver ELSE latest[s]]
    BY <1>5
  <2>3. rev[p][s].ver <= latest[s]
    BY <1>2 DEF MemberInOrder
  <2> HIDE DEF res
  <2> QED
    BY <2>1, <2>2, <2>3, PackFanoutAssumption
<1> HIDE DEF res, steps
<1>8. rev'[p] \in [DOMAIN intent[p] -> [pin : BOOLEAN, ver : 0..MaxEvents]]
  <2>1. rev'[p] = [s \in DOMAIN intent[p] |-> rev'[p][s]]
    BY <1>5 DEF res
  <2> QED
    BY <1>7, <2>1
<1>9. StoreTyped'
  BY <1>1, <1>4, <1>5, <1>6, <1>8 DEF TypeOK, StoreTyped
<1>10. \A e \in DOMAIN event : ~Follows(p, e)'
  BY <1>1, <1>2 DEF Follows
<1>11. \A s \in DOMAIN intent[p] : MemberInOrder(p, s)'
  BY <1>1, <1>2, <1>7 DEF MemberInOrder
<1>12. ASSUME NEW e \in DOMAIN event
       PROVE  EventInOrder(p, e)'
  <2>1. event[e].ver \in Nat /\ event[e].ver <= latest[event[e].skill]
    BY PackFanoutAssumption DEF EventsNumbered, TypeOK, EventIds
  <2> QED
    BY <1>1, <1>7, <1>10, <2>1 DEF EventInOrder
<1>13. NoRegress(p)
  BY <1>1, <1>7 DEF NoRegress
<1>14. PackInOrder(p)'
  BY <1>1, <1>2, <1>6, <1>11, <1>12 DEF PackInOrder
<1> QED
  BY <1>1, <1>4, <1>5, <1>9, <1>10, <1>13, <1>14 DEF PackStep

\* Every authored change, once nothing is pending and the request is allowed.
LEMMA ChangePackStep ==
  ASSUME IndInv, NEW p \in Packs, NEW verb \in Verbs, NEW s \in Skills,
         ChangePack(p, verb, s), Allowed(p, verb, s), Pending(p) = {},
         verb \in MemberVerbs => pub[s] = None,
         UNCHANGED <<seq, event, pub, latest, done>>
  PROVE  PackStep(p)
<1>1. pack[p] \in [gen : Nat, public : BOOLEAN, live : BOOLEAN] /\ pack \in [Packs -> [gen : Nat, public : BOOLEAN, live : BOOLEAN]]
  BY DEF IndInv, TypeOK
<1>2. CASE verb = "add" /\ SetMember(p, s, FALSE)
  <2>1. pack[p].public => latest[s] > 0
    BY <1>2 DEF Allowed, Resolvable
  <2> QED
    BY <1>2, <2>1, SetMemberStep DEF MemberVerbs
<1>3. CASE verb = "pin" /\ SetMember(p, s, TRUE)
  <2>1. latest[s] > 0
    BY <1>3 DEF Allowed
  <2> QED
    BY <1>3, <2>1, SetMemberStep DEF MemberVerbs
<1>4. CASE verb = "remove" /\ RemoveMember(p, s)
  BY <1>4, RemoveMemberStep
<1>5. CASE verb = "publish" /\ PublishPack(p)
  <2>1. \A x \in DOMAIN intent[p] : latest[x] > 0
    BY <1>5 DEF Allowed, Resolvable
  <2> QED
    BY <1>5, <2>1, PublishPackStep
<1>6. CASE verb = "unpublish" /\ UnpublishPack(p)
  <2>1. /\ pack' = [pack EXCEPT ![p].gen = @ + 1, ![p].public = FALSE]
        /\ UNCHANGED <<intent, rev, applied>>
    BY <1>6 DEF UnpublishPack
  <2>2. /\ pack' \in [Packs -> [gen : Nat, public : BOOLEAN, live : BOOLEAN]]
        /\ ~pack'[p].public /\ pack'[p].live = pack[p].live
        /\ \A q \in Packs \ {p} : pack'[q] = pack[q]
    BY <1>1, <2>1, VisibilitySet
  <2> QED
    BY <2>1, <2>2, RowStep
<1>7. CASE verb = "rename" /\ RenamePack(p)
  <2>1. pack' = [pack EXCEPT ![p].gen = @ + 1] /\ UNCHANGED <<intent, rev, applied>>
    BY <1>7 DEF RenamePack
  <2>2. /\ pack' \in [Packs -> [gen : Nat, public : BOOLEAN, live : BOOLEAN]]
        /\ pack'[p].public = pack[p].public /\ pack'[p].live = pack[p].live
        /\ \A q \in Packs \ {p} : pack'[q] = pack[q]
    BY <1>1, <2>1, GenerationUp
  <2> QED
    BY <2>1, <2>2, RowStep
<1>8. CASE verb = "delete" /\ DeletePack(p)
  <2>1. /\ pack' = [pack EXCEPT ![p] = [gen |-> @.gen + 1, public |-> FALSE, live |-> FALSE]]
        /\ UNCHANGED <<intent, rev, applied>>
    BY <1>8 DEF DeletePack
  <2>2. /\ pack' \in [Packs -> [gen : Nat, public : BOOLEAN, live : BOOLEAN]]
        /\ ~pack'[p].public /\ ~pack'[p].live
        /\ \A q \in Packs \ {p} : pack'[q] = pack[q]
    BY <1>1, <2>1
  <2> QED
    BY <2>1, <2>2, RowStep
<1> QED
  BY <1>2, <1>3, <1>4, <1>5, <1>6, <1>7, <1>8 DEF ChangePack

-------------------------------------------------------------------------------
(* The steps of drains, authors and publishers *)

LEMMA DrainTyped ==
  ASSUME TypeOK, NEW d \in Drains, dr[d].pc # "idle"
  PROVE  /\ dr[d].ev \in EventIds
         /\ dr[d].pc \in {"pack", "skill", "apply"} =>
              dr[d] \in [pc : {"pack", "skill", "apply"}, ev : EventIds, pack : Packs]
<1>1. dr[d] \in DrainStates
  BY DEF TypeOK
<1> QED
  BY <1>1 DEF DrainStates, Idle

LEMMA AuthorTyped ==
  ASSUME TypeOK, NEW a \in Authors, au[a].pc # "idle"
  PROVE  au[a] \in [pc : {"row", "pack", "skills"}, pack : Packs, verb : Verbs,
                    skill : Skills, gen : Nat]
BY DEF TypeOK, AuthorStates, Idle

LEMMA ReleaseFrame ==
  ASSUME TypeOK, NEW x \in Drains \cup Authors, Release(x)
  PROVE  /\ rowLock' \in [Packs -> Drains \cup Authors \cup {None}]
         /\ packLock' \in [Packs -> Drains \cup Authors \cup {None}]
         /\ skillLock' \in [Skills -> Drains \cup Authors \cup Skills \cup {None}]
         /\ \A s \in Skills : skillLock[s] = s => skillLock'[s] = s
BY PackFanoutAssumption DEF TypeOK, Release

\* A free advisory lock of a skill is nobody's publish.
LEMMA LockTaken ==
  ASSUME TypeOK, NEW x, NEW holder \in Drains \cup Authors, skillLock[x] = None,
         skillLock' = [skillLock EXCEPT ![x] = holder]
  PROVE  /\ skillLock' \in [Skills -> Drains \cup Authors \cup Skills \cup {None}]
         /\ \A s \in Skills : skillLock[s] = s => skillLock'[s] = s
<1>1. \A s \in Skills : skillLock'[s] = IF s = x THEN holder ELSE skillLock[s]
  BY DEF TypeOK
<1>2. \A s \in Skills : s # None
  BY PackFanoutAssumption
<1> QED
  BY <1>1, <1>2 DEF TypeOK

\* A step that leaves the members alone.
LEMMA ShownKept ==
  ASSUME IndInv, UNCHANGED <<intent, rev>>
  PROVE  \A p \in Packs : NoRegress(p)
<1> SUFFICES ASSUME NEW p \in Packs, NEW s \in DOMAIN intent[p]
             PROVE  rev[p][s].ver \in Nat
  BY DEF NoRegress
<1>1. s \in DOMAIN rev[p]
  BY DEF IndInv, PackInOrder
<1> QED
  BY <1>1, ShownTyped, PackFanoutAssumption DEF IndInv

\* Locks, requests and subscriptions: everything but the tables, the ids and
\* the drains' choices.
LEMMA OutsideStep ==
  ASSUME IndInv, TypeOK', UNCHANGED <<seq, event, pub, latest, store, done>>,
         \A s \in Skills : skillLock[s] = s => skillLock'[s] = s,
         \A d \in Drains : dr'[d].pc # "idle" =>
             /\ dr[d].pc # "idle" /\ dr'[d].ev = dr[d].ev
             /\ dr'[d].pc = "complete" => dr[d].pc = "complete"
  PROVE  IndInv' /\ \A p \in Packs : NoRegress(p)
<1>1. EventsNumbered' /\ \A p \in Packs : PackInOrder(p)'
  BY TablesFrame DEF IndInv
<1>2. PublishesOrdered'
  BY PublishFrame DEF IndInv
<1>3. \A p \in Packs, e \in DOMAIN event :
        pack'[p].live /\ Follows(p, e)' => pack[p].live /\ Follows(p, e)
  BY DEF Follows, store
<1>4. DrainsInOrder'
  BY <1>3, DrainFrame DEF IndInv
<1> QED
  BY <1>1, <1>2, <1>4, ShownKept DEF IndInv, store

\* A change of one pack by the holder of its locks, which it then releases.
LEMMA TransactionEnds ==
  ASSUME IndInv, NEW p \in Packs, PackStep(p), NEW x \in Drains \cup Authors, Release(x),
         UNCHANGED <<seq, event, pub, latest, public, done, edits, aborts>>,
         subscribed' \subseteq Packs,
         dr' \in [Drains -> DrainStates], au' \in [Authors -> AuthorStates],
         \A d \in Drains : dr'[d] = dr[d] \/ dr'[d] = Idle
  PROVE  IndInv' /\ \A q \in Packs : NoRegress(q)
<1>1. TypeOK'
  BY ReleaseFrame DEF IndInv, TypeOK, PackStep, StoreTyped
<1>2. \A q \in Packs \ {p} :
        /\ pack'[q] = pack[q] /\ intent'[q] = intent[q]
        /\ rev'[q] = rev[q] /\ applied'[q] = applied[q]
  BY DEF PackStep
<1>3. EventsNumbered'
  BY DEF IndInv, EventsNumbered
<1>4. ASSUME NEW q \in Packs \ {p}
      PROVE  PackInOrder(q)' /\ NoRegress(q) /\ \A e \in DOMAIN event : Follows(q, e)' <=> Follows(q, e)
  <2>1. PackInOrder(q)
    BY DEF IndInv
  <2>2. PackInOrder(q)' /\ \A e \in DOMAIN event : Follows(q, e)' <=> Follows(q, e)
    BY <1>2, <2>1 DEF PackInOrder, MemberInOrder, EventInOrder, Follows
  <2>3. \A s \in DOMAIN intent[q] : rev[q][s].ver \in Nat
    BY <2>1, ShownTyped, PackFanoutAssumption DEF IndInv, PackInOrder
  <2> QED
    BY <1>2, <2>2, <2>3 DEF NoRegress
<1>5. \A q \in Packs : PackInOrder(q)' /\ NoRegress(q)
  BY <1>4 DEF PackStep
<1>6. PublishesOrdered'
  BY ReleaseFrame, PublishFrame DEF IndInv
<1>7. \A q \in Packs, e \in DOMAIN event :
        pack'[q].live /\ Follows(q, e)' => pack[q].live /\ Follows(q, e)
  BY <1>2, <1>4 DEF PackStep
<1>8. DrainsInOrder'
  BY <1>7, DrainFrame DEF IndInv, Idle
<1> QED
  BY <1>1, <1>3, <1>5, <1>6, <1>8 DEF IndInv

Kept == IndInv' /\ \A p \in Packs : NoRegress(p)

LEMMA InsertKeeps ==
  ASSUME IndInv, NEW s \in Skills, PublishInsert(s)
  PROVE  Kept
<1> USE DEF IndInv
<1>1. /\ seq' = seq + 1 /\ pub' = [pub EXCEPT ![s] = seq + 1]
      /\ skillLock' = [skillLock EXCEPT ![s] = s]
      /\ UNCHANGED <<event, latest, public, pack, intent, rev, applied, done, dr>>
      /\ seq < MaxEvents /\ skillLock[s] = None
  BY DEF PublishInsert, store
<1>2. seq \in Nat /\ seq + 1 \in EventIds
  BY <1>1, PackFanoutAssumption DEF TypeOK, EventIds
<1>3. TypeOK'
  BY <1>1, <1>2, PackFanoutAssumption DEF TypeOK, PublishInsert, EventIds, store
<1>4. EventsNumbered'
  BY <1>1, PackFanoutAssumption DEF EventsNumbered, TypeOK, EventIds
<1>5. /\ pub'[s] = seq + 1 /\ skillLock'[s] = s
      /\ \A t \in Skills \ {s} : pub'[t] = pub[t] /\ skillLock'[t] = skillLock[t]
  BY <1>1 DEF TypeOK
<1>6. PublishesOrdered'
  <2>1. \A e \in DOMAIN event : e \in Nat /\ e <= seq
    BY DEF EventsNumbered, TypeOK, EventIds
  <2>2. \A t \in Skills : pub[t] # None => pub[t] \in Nat /\ pub[t] <= seq
    BY DEF PublishesOrdered, TypeOK, EventIds
  <2>3. latest[s] <= seq /\ latest[s] \in Nat
    BY PackFanoutAssumption DEF EventsNumbered, TypeOK
  <2>4. ASSUME NEW t \in Skills \ {s}, pub'[t] # None
        PROVE  /\ skillLock'[t] = t
               /\ pub'[t] <= seq' /\ pub'[t] \notin DOMAIN event'
               /\ latest'[t] < pub'[t]
               /\ \A e \in DOMAIN event' : event'[e].skill = t => e < pub'[t]
               /\ \A u \in Skills \ {t} : pub'[u] # pub'[t]
    BY <1>1, <1>2, <1>5, <2>2, <2>4 DEF PublishesOrdered
  <2>5. /\ pub'[s] <= seq' /\ pub'[s] \notin DOMAIN event'
        /\ latest'[s] < pub'[s]
        /\ \A e \in DOMAIN event' : event'[e].skill = s => e < pub'[s]
    BY <1>1, <1>2, <1>5, <2>1, <2>3
  <2>6. \A u \in Skills \ {s} : pub'[u] # pub'[s]
    BY <1>2, <1>5, <2>2, PackFanoutAssumption
  <2> QED
    BY <1>5, <2>4, <2>5, <2>6 DEF PublishesOrdered
<1>7. \A p \in Packs, e \in DOMAIN event : Follows(p, e)' <=> Follows(p, e)
  BY <1>1 DEF Follows
<1>8. DrainsInOrder'
  BY <1>1, <1>7, DrainFrame
<1>9. ASSUME NEW p \in Packs
      PROVE  PackInOrder(p)'
  <2>1. PackInOrder(p)
    OBVIOUS
  <2>2. ASSUME NEW t \in DOMAIN intent[p]
        PROVE  MemberInOrder(p, t)'
    <3>1. intent[p][t].after \in Nat /\ t \in Skills
      BY MembersTyped, PackFanoutAssumption
    <3>2. MemberInOrder(p, t)
      BY <2>1 DEF PackInOrder
    <3> QED
      BY <1>1, <1>2, <1>5, <3>1, <3>2 DEF MemberInOrder
  <2>3. \A e \in DOMAIN event : EventInOrder(p, e)'
    BY <1>1, <1>7, <2>1 DEF PackInOrder, EventInOrder
  <2> QED
    BY <1>1, <2>1, <2>2, <2>3 DEF PackInOrder
<1> QED
  BY <1>1, <1>3, <1>4, <1>6, <1>8, <1>9, ShownKept DEF Kept

\* The commit of a publish makes its event pending for every pack that follows
\* the skill, because no watermark of such a pack is as late.
LEMMA CommitKeeps ==
  ASSUME IndInv, NEW s \in Skills, PublishCommit(s)
  PROVE  Kept
<1> USE DEF IndInv
<1> DEFINE new == [skill |-> s, ver |-> latest[s] + 1]
<1>0. PICK n : n = pub[s]
  OBVIOUS
<1>1. /\ event' = Upsert(event, n, new) /\ latest' = [latest EXCEPT ![s] = @ + 1]
      /\ pub' = [pub EXCEPT ![s] = None] /\ skillLock' = [skillLock EXCEPT ![s] = None]
      /\ n # None /\ public' = public \cup {s}
      /\ UNCHANGED <<seq, pack, intent, rev, applied, done, dr>>
  BY <1>0 DEF PublishCommit, store
<1>2. /\ n \in EventIds /\ n \in Nat /\ n <= seq /\ n \notin DOMAIN event /\ latest[s] < n
      /\ latest[s] \in Nat
      /\ \A e \in DOMAIN event : event[e].skill = s => e < n
      /\ \A t \in Skills \ {s} : pub[t] # n
  BY <1>0, <1>1, PackFanoutAssumption DEF PublishesOrdered, TypeOK, EventIds
<1>3. latest[s] + 1 \in EventIds /\ latest[s] + 1 \in 0..MaxEvents /\ latest[s] + 1 <= n
  BY <1>2, PackFanoutAssumption DEF EventIds, TypeOK
<1>4. /\ new \in [skill : Skills, ver : EventIds] /\ new.skill = s
      /\ new.ver = latest[s] + 1
  BY <1>3
<1> HIDE DEF new
<1>5. /\ DOMAIN event' = DOMAIN event \cup {n} /\ event'[n] = new
      /\ \A e \in DOMAIN event : event'[e] = event[e]
  BY <1>1, <1>2 DEF Upsert
<1>6. event' \in [DOMAIN event' -> [skill : Skills, ver : EventIds]]
  <2>1. event' = [e \in DOMAIN event' |-> event'[e]]
    BY <1>1 DEF Upsert
  <2>2. \A e \in DOMAIN event' : event'[e] \in [skill : Skills, ver : EventIds]
    BY <1>4, <1>5 DEF TypeOK
  <2> QED
    BY <2>1, <2>2
<1>7. /\ latest'[s] = latest[s] + 1 /\ pub'[s] = None
      /\ \A t \in Skills \ {s} : /\ latest'[t] = latest[t] /\ pub'[t] = pub[t]
                                 /\ skillLock'[t] = skillLock[t]
  BY <1>1 DEF TypeOK
<1>8. TypeOK'
  <2>1. latest' \in [Skills -> 0..MaxEvents]
    BY <1>1, <1>3 DEF TypeOK
  <2>2. /\ pub' \in [Skills -> EventIds \cup {None}]
        /\ skillLock' \in [Skills -> Drains \cup Authors \cup Skills \cup {None}]
    BY <1>1 DEF TypeOK
  <2>3. DOMAIN event' \subseteq EventIds
    BY <1>2, <1>5 DEF TypeOK
  <2> QED
    BY <1>1, <1>6, <2>1, <2>2, <2>3 DEF TypeOK, PublishCommit
<1>9. \A e \in DOMAIN event : /\ e \in Nat /\ e <= seq /\ event[e].ver \in Nat
                              /\ event[e].skill \in Skills
                              /\ event[e].ver <= latest[event[e].skill]
  BY PackFanoutAssumption DEF EventsNumbered, TypeOK, EventIds
<1>10. EventsNumbered'
  <2>1. \A t \in Skills : latest'[t] <= seq'
    BY <1>1, <1>2, <1>3, <1>7 DEF EventsNumbered, TypeOK
  <2>2. \A e \in DOMAIN event' : e <= seq' /\ event'[e].ver <= latest'[event'[e].skill]
    <3> SUFFICES ASSUME NEW e \in DOMAIN event'
                 PROVE  e <= seq' /\ event'[e].ver <= latest'[event'[e].skill]
      OBVIOUS
    <3>1. CASE e = n
      BY <1>1, <1>2, <1>4, <1>5, <1>7, <3>1
    <3>2. CASE e # n /\ event[e].skill = s
      BY <1>1, <1>2, <1>5, <1>7, <1>9, <3>2
    <3>3. CASE e # n /\ event[e].skill # s
      BY <1>1, <1>5, <1>7, <1>9, <3>3
    <3> QED
      BY <3>1, <3>2, <3>3
  <2>3. ASSUME NEW e \in DOMAIN event', NEW f \in DOMAIN event',
               event'[e].skill = event'[f].skill, e < f
        PROVE  event'[e].ver < event'[f].ver
    <3>1. CASE f = n
      <4>1. e # n /\ e \in DOMAIN event
        BY <1>2, <1>5, <2>3, <3>1
      <4> QED
        BY <1>2, <1>4, <1>5, <1>9, <2>3, <3>1, <4>1
    <3>2. CASE e = n /\ f # n
      <4>1. f \in DOMAIN event /\ event[f].skill = s
        BY <1>4, <1>5, <2>3, <3>2
      <4> QED
        BY <1>2, <1>9, <2>3, <3>2, <4>1
    <3>3. CASE e # n /\ f # n
      BY <1>5, <2>3, <3>3 DEF EventsNumbered
    <3> QED
      BY <3>1, <3>2, <3>3
  <2>4. done' \subseteq DOMAIN event'
    BY <1>1, <1>5 DEF EventsNumbered
  <2> QED
    BY <2>1, <2>2, <2>3, <2>4 DEF EventsNumbered
<1>11. PublishesOrdered'
  <2> SUFFICES ASSUME NEW t \in Skills, pub'[t] # None
               PROVE  /\ skillLock'[t] = t
                      /\ pub'[t] <= seq' /\ pub'[t] \notin DOMAIN event'
                      /\ latest'[t] < pub'[t]
                      /\ \A e \in DOMAIN event' : event'[e].skill = t => e < pub'[t]
                      /\ \A u \in Skills \ {t} : pub'[u] # pub'[t]
    BY DEF PublishesOrdered
  <2>1. t # s /\ pub'[t] = pub[t]
    BY <1>7
  <2>2. /\ skillLock[t] = t /\ pub[t] <= seq /\ pub[t] \notin DOMAIN event
        /\ latest[t] < pub[t]
        /\ \A e \in DOMAIN event : event[e].skill = t => e < pub[t]
        /\ \A u \in Skills \ {t} : pub[u] # pub[t]
    BY <2>1 DEF PublishesOrdered
  <2>3. pub[t] # n
    BY <1>2, <2>1
  <2> QED
    BY <1>1, <1>4, <1>5, <1>7, <2>1, <2>2, <2>3
<1>12. ASSUME NEW p \in Packs
       PROVE  /\ \A e \in DOMAIN event : Follows(p, e)' <=> Follows(p, e)
              /\ PackInOrder(p)'
  <2>1. /\ DOMAIN intent[p] = DOMAIN rev[p] /\ applied[p] \subseteq DOMAIN event
        /\ \A t \in DOMAIN intent[p] : MemberInOrder(p, t)
        /\ \A e \in DOMAIN event : EventInOrder(p, e)
    BY DEF PackInOrder
  <2>2. \A e \in DOMAIN event : Follows(p, e)' <=> Follows(p, e)
    BY <1>1, <1>5 DEF Follows
  <2>3. ASSUME NEW t \in DOMAIN intent[p]
        PROVE  MemberInOrder(p, t)'
    <3>1. t \in Skills /\ rev[p][t].ver \in Nat /\ latest[t] \in Nat
      BY <2>1, MembersTyped, ShownTyped, PackFanoutAssumption DEF TypeOK
    <3>2. rev[p][t].ver <= latest'[t]
      BY <1>7, <2>1, <3>1 DEF MemberInOrder
    <3>3. pub'[t] # None => pub'[t] = pub[t]
      BY <1>7, <3>1
    <3> QED
      BY <1>1, <2>1, <3>2, <3>3 DEF MemberInOrder
  <2>4. ASSUME NEW e \in DOMAIN event
        PROVE  EventInOrder(p, e)'
    BY <1>1, <1>5, <2>1, <2>2 DEF EventInOrder
  <2>5. EventInOrder(p, n)'
    <3>1. n \notin done /\ n \notin applied[p]
      BY <1>2, <2>1 DEF EventsNumbered
    <3>2. s \in DOMAIN intent[p] => intent[p][s].after < n /\ rev[p][s].ver < latest[s] + 1
      <4> SUFFICES ASSUME s \in DOMAIN intent[p]
                   PROVE  intent[p][s].after < n /\ rev[p][s].ver < latest[s] + 1
        OBVIOUS
      <4>1. rev[p][s].ver \in Nat
        BY <2>1, ShownTyped, PackFanoutAssumption
      <4> QED
        BY <1>0, <1>1, <1>2, <2>1, <4>1 DEF MemberInOrder
    <3>3. Follows(p, n)' <=> s \in DOMAIN intent[p] /\ ~intent[p][s].pin
      BY <1>1, <1>4, <1>5, <3>1, <3>2 DEF Follows
    <3> QED
      BY <1>1, <1>4, <1>5, <3>1, <3>2, <3>3 DEF EventInOrder
  <2> QED
    BY <1>1, <1>5, <2>1, <2>2, <2>3, <2>4, <2>5 DEF PackInOrder
<1>13. DrainsInOrder'
  <2> SUFFICES ASSUME NEW d \in Drains, dr[d].pc # "idle"
               PROVE  /\ dr[d].ev \in DOMAIN event'
                      /\ \A e \in DOMAIN event' :
                           event'[e].skill = event'[dr[d].ev].skill /\ e < dr[d].ev
                             => e \in done
                      /\ dr[d].pc = "complete" =>
                           \A p \in Packs : pack[p].live => ~Follows(p, dr[d].ev)'
    BY <1>1 DEF DrainsInOrder, Follows
  <2>1. /\ dr[d].ev \in DOMAIN event
        /\ \A e \in DOMAIN event :
             event[e].skill = event[dr[d].ev].skill /\ e < dr[d].ev => e \in done
        /\ dr[d].pc = "complete" => \A p \in Packs : pack[p].live => ~Follows(p, dr[d].ev)
    BY DEF DrainsInOrder
  <2>2. event'[dr[d].ev] = event[dr[d].ev]
    BY <1>5, <2>1
  <2>3. s = event[dr[d].ev].skill => ~(n < dr[d].ev)
    BY <1>2, <1>9, <2>1
  <2>4. dr[d].pc = "complete" =>
          \A p \in Packs : pack[p].live => ~Follows(p, dr[d].ev)'
    BY <1>1, <1>5, <2>1 DEF Follows
  <2> QED
    BY <1>4, <1>5, <2>1, <2>2, <2>3, <2>4
<1> QED
  BY <1>1, <1>8, <1>10, <1>11, <1>12, <1>13, ShownKept DEF Kept

LEMMA AbortKeeps ==
  ASSUME IndInv, NEW s \in Skills, PublishAbort(s)
  PROVE  Kept
<1> USE DEF IndInv
<1>1. /\ pub' = [pub EXCEPT ![s] = None] /\ skillLock' = [skillLock EXCEPT ![s] = None]
      /\ aborts' = aborts + 1
      /\ UNCHANGED <<seq, event, latest, public, pack, intent, rev, applied, done, subscribed,
                     rowLock, packLock, dr, au, edits>>
  BY DEF PublishAbort, store
<1>2. TypeOK'
  BY <1>1 DEF TypeOK
<1>3. /\ pub'[s] = None
      /\ \A t \in Skills \ {s} : pub'[t] = pub[t] /\ skillLock'[t] = skillLock[t]
  BY <1>1 DEF TypeOK
<1>4. PublishesOrdered'
  BY <1>1, <1>3 DEF PublishesOrdered
<1>5. EventsNumbered'
  BY <1>1 DEF EventsNumbered
<1>6. DrainsInOrder'
  BY <1>1 DEF DrainsInOrder, Follows
<1>7. ASSUME NEW p \in Packs
      PROVE  PackInOrder(p)'
  <2>1. PackInOrder(p) /\ DOMAIN intent[p] \subseteq Skills
    BY DEF TypeOK
  <2>2. \A t \in DOMAIN intent[p] : MemberInOrder(p, t)'
    BY <1>1, <1>3, <2>1 DEF PackInOrder, MemberInOrder
  <2>3. \A e \in DOMAIN event : EventInOrder(p, e)'
    BY <1>1, <2>1 DEF PackInOrder, EventInOrder, Follows
  <2> QED
    BY <1>1, <2>1, <2>2, <2>3 DEF PackInOrder
<1> QED
  BY <1>1, <1>2, <1>4, <1>5, <1>6, <1>7, ShownKept DEF Kept

LEMMA VisibilityKeeps ==
  ASSUME IndInv, NEW s \in Skills, UnpublishSkill(s) \/ RepublishSkill(s)
  PROVE  Kept
<1>1. /\ UNCHANGED <<seq, event, pub, latest, store, done, subscribed, locks, dr, au, aborts>>
      /\ public' \in {public \ {s}, public \cup {s}} /\ edits' = edits + 1
  BY DEF UnpublishSkill, RepublishSkill
<1>2. TypeOK'
  BY <1>1 DEF IndInv, TypeOK, store, locks
<1> QED
  BY <1>1, <1>2, OutsideStep DEF Kept, locks

LEMMA DrainLoadKeeps ==
  ASSUME IndInv, NEW d \in Drains, DrainLoad(d)
  PROVE  Kept
<1> USE DEF IndInv
<1>0. PICK e : e = Min(Undone)
  OBVIOUS
<1>1. /\ UNCHANGED <<seq, event, pub, latest, public, store, done, subscribed, locks, au,
                     edits, aborts>>
      /\ dr' = [dr EXCEPT ![d] = [pc |-> "next", ev |-> e]] /\ Undone # {}
  BY <1>0 DEF DrainLoad
<1>2. e \in Undone /\ \A f \in Undone : e <= f
  <2>1. Undone \subseteq Nat
    BY DEF Undone, TypeOK, EventIds
  <2> HIDE DEF Undone
  <2> QED
    BY <1>0, <1>1, <2>1, MinIsLeast
<1>3. /\ e \in DOMAIN event /\ e \in EventIds
      /\ \A f \in DOMAIN event : f < e => f \in done
  BY <1>2 DEF Undone, TypeOK, EventIds
<1>4. /\ dr'[d] = [pc |-> "next", ev |-> e]
      /\ \A c \in Drains \ {d} : dr'[c] = dr[c]
      /\ dr' \in [Drains -> DrainStates]
  <2>1. [pc |-> "next", ev |-> e] \in DrainStates
    BY <1>3 DEF DrainStates
  <2> QED
    BY <1>1, <2>1 DEF TypeOK
<1>5. TypeOK'
  BY <1>1, <1>4 DEF TypeOK, store, locks
<1>6. DrainsInOrder'
  <2> SUFFICES ASSUME NEW c \in Drains, dr'[c].pc # "idle"
               PROVE  /\ dr'[c].ev \in DOMAIN event
                      /\ \A f \in DOMAIN event :
                           event[f].skill = event[dr'[c].ev].skill /\ f < dr'[c].ev
                             => f \in done
                      /\ dr'[c].pc = "complete" =>
                           \A p \in Packs : pack[p].live => ~Follows(p, dr'[c].ev)
    BY <1>1 DEF DrainsInOrder, Follows, store
  <2>1. CASE c = d
    BY <1>3, <1>4, <2>1
  <2>2. CASE c # d
    BY <1>4, <2>2 DEF DrainsInOrder
  <2> QED
    BY <2>1, <2>2
<1>7. EventsNumbered' /\ \A p \in Packs : PackInOrder(p)'
  BY <1>1, TablesFrame
<1>8. PublishesOrdered'
  BY <1>1, PublishFrame DEF locks
<1> QED
  BY <1>1, <1>5, <1>6, <1>7, <1>8, ShownKept DEF Kept, store

LEMMA DrainNextKeeps ==
  ASSUME IndInv, NEW d \in Drains, DrainNext(d)
  PROVE  Kept
<1> USE DEF IndInv
<1> DEFINE e == dr[d].ev
           ps == {p \in Packs : pack[p].live /\ Follows(p, e)}
<1>1. /\ UNCHANGED <<seq, event, pub, latest, public, store, done, subscribed, locks, au,
                     edits, aborts>>
      /\ dr' = [dr EXCEPT ![d] = IF ps = {} THEN [pc |-> "complete", ev |-> e]
                                 ELSE [pc |-> "pack", ev |-> e, pack |-> Min(ps)]]
      /\ dr[d].pc = "next"
  BY DEF DrainNext
<1>2. e \in EventIds
  BY <1>1, DrainTyped
<1>3. ps # {} => Min(ps) \in Packs
  <2>1. ps \subseteq Nat /\ ps \subseteq Packs
    BY PackFanoutAssumption
  <2> HIDE DEF ps
  <2> QED
    BY <2>1, MinIsLeast
<1>4. \A c \in Drains \ {d} : dr'[c] = dr[c]
  BY <1>1 DEF TypeOK
<1>5. /\ dr'[d] \in DrainStates /\ dr'[d].ev = e
      /\ dr'[d].pc = "complete" => ps = {}
  <2>1. CASE ps = {}
    <3>1. dr'[d] = [pc |-> "complete", ev |-> e]
      BY <1>1, <2>1 DEF TypeOK
    <3> HIDE DEF e
    <3> QED
      BY <1>2, <2>1, <3>1 DEF DrainStates
  <2>2. CASE ps # {}
    <3>1. dr'[d] = [pc |-> "pack", ev |-> e, pack |-> Min(ps)]
      BY <1>1, <2>2 DEF TypeOK
    <3> HIDE DEF e, ps
    <3> QED
      BY <1>2, <1>3, <2>2, <3>1 DEF DrainStates
  <2> QED
    BY <2>1, <2>2
<1>6. TypeOK'
  <2>1. dr' \in [Drains -> DrainStates]
    BY <1>1, <1>4, <1>5 DEF TypeOK
  <2> QED
    BY <1>1, <2>1 DEF TypeOK, store, locks
<1>7. DrainsInOrder'
  <2> SUFFICES ASSUME NEW c \in Drains, dr'[c].pc # "idle"
               PROVE  /\ dr'[c].ev \in DOMAIN event
                      /\ \A f \in DOMAIN event :
                           event[f].skill = event[dr'[c].ev].skill /\ f < dr'[c].ev
                             => f \in done
                      /\ dr'[c].pc = "complete" =>
                           \A p \in Packs : pack[p].live => ~Follows(p, dr'[c].ev)
    BY <1>1 DEF DrainsInOrder, Follows, store
  <2>1. CASE c = d
    BY <1>1, <1>5, <2>1 DEF DrainsInOrder
  <2>2. CASE c # d
    BY <1>4, <2>2 DEF DrainsInOrder
  <2> QED
    BY <2>1, <2>2
<1>8. EventsNumbered' /\ \A p \in Packs : PackInOrder(p)'
  BY <1>1, TablesFrame
<1>9. PublishesOrdered'
  BY <1>1, PublishFrame DEF locks
<1> QED
  BY <1>1, <1>6, <1>7, <1>8, <1>9, ShownKept DEF Kept, store

LEMMA DrainCompleteKeeps ==
  ASSUME IndInv, NEW d \in Drains, DrainComplete(d)
  PROVE  Kept
<1> USE DEF IndInv
<1>0. PICK e : e = dr[d].ev
  OBVIOUS
<1>1. /\ UNCHANGED <<seq, event, pub, latest, public, pack, intent, rev, applied, subscribed,
                     rowLock, packLock, skillLock, au, edits, aborts>>
      /\ done' = done \cup {e} /\ dr' = [dr EXCEPT ![d] = Idle] /\ dr[d].pc = "complete"
  BY <1>0 DEF DrainComplete, store, locks
<1>2. /\ e \in EventIds /\ e \in DOMAIN event
      /\ \A p \in Packs : pack[p].live => ~Follows(p, e)
  BY <1>0, <1>1, DrainTyped DEF DrainsInOrder
<1>3. dr' \in [Drains -> DrainStates] /\ \A c \in Drains : dr'[c] = dr[c] \/ dr'[c] = Idle
  BY <1>1 DEF TypeOK, DrainStates
<1>4. TypeOK'
  BY <1>1, <1>2, <1>3 DEF TypeOK
<1>5. EventsNumbered'
  BY <1>1, <1>2 DEF EventsNumbered
<1>6. PublishesOrdered'
  BY <1>1, PublishFrame
<1>7. DrainsInOrder'
  <2>1. \A p \in Packs, f \in DOMAIN event : Follows(p, f)' <=> Follows(p, f)
    BY <1>1 DEF Follows
  <2> QED
    BY <1>1, <1>3, <2>1, DrainFrame DEF Idle
<1>8. ASSUME NEW p \in Packs
      PROVE  PackInOrder(p)'
  <2>1. PackInOrder(p)
    OBVIOUS
  <2>2. \A s \in DOMAIN intent[p] : MemberInOrder(p, s)'
    BY <1>1, <2>1 DEF PackInOrder, MemberInOrder
  <2>3. \A f \in DOMAIN event : EventInOrder(p, f)'
    BY <1>1, <1>2, <2>1 DEF PackInOrder, EventInOrder, Follows
  <2> QED
    BY <1>1, <2>1, <2>2, <2>3 DEF PackInOrder
<1> QED
  BY <1>1, <1>4, <1>5, <1>6, <1>7, <1>8, ShownKept DEF Kept

LEMMA DrainLockKeeps ==
  ASSUME IndInv, NEW d \in Drains, DrainLockPack(d) \/ DrainLockSkill(d)
  PROVE  Kept
<1>1. PICK q \in {"skill", "apply"} : dr' = [dr EXCEPT ![d].pc = q]
  BY DEF DrainLockPack, DrainLockSkill
<1>2. /\ UNCHANGED <<seq, event, pub, latest, public, store, done, subscribed, rowLock, au,
                     edits, aborts>>
      /\ dr[d].pc \in {"pack", "skill"}
  BY DEF DrainLockPack, DrainLockSkill
<1>3. /\ packLock' \in [Packs -> Drains \cup Authors \cup {None}]
      /\ skillLock' \in [Skills -> Drains \cup Authors \cup Skills \cup {None}]
      /\ \A s \in Skills : skillLock[s] = s => skillLock'[s] = s
  <2>1. CASE DrainLockPack(d)
    BY <2>1 DEF DrainLockPack, IndInv, TypeOK
  <2>2. CASE DrainLockSkill(d)
    <3>1. PICK x : skillLock[x] = None /\ skillLock' = [skillLock EXCEPT ![x] = d]
      BY <2>2 DEF DrainLockSkill
    <3> QED
      BY <2>2, <3>1, LockTaken DEF DrainLockSkill, IndInv, TypeOK
  <2> QED
    BY <2>1, <2>2
<1>4. dr[d] \in [pc : {"pack", "skill", "apply"}, ev : EventIds, pack : Packs]
  BY <1>2, DrainTyped DEF IndInv
<1>5. dr'[d] = [dr[d] EXCEPT !.pc = q] /\ \A c \in Drains \ {d} : dr'[c] = dr[c]
  BY <1>1 DEF IndInv, TypeOK
<1>6. /\ dr'[d] \in [pc : {"pack", "skill", "apply"}, ev : EventIds, pack : Packs]
      /\ dr'[d].ev = dr[d].ev /\ dr'[d].pc = q
  BY <1>4, <1>5
<1>7. dr' \in [Drains -> DrainStates]
  BY <1>1, <1>5, <1>6 DEF IndInv, TypeOK, DrainStates
<1>8. TypeOK'
  BY <1>2, <1>3, <1>7 DEF IndInv, TypeOK, store
<1>9. \A c \in Drains : dr'[c].pc # "idle" =>
        /\ dr[c].pc # "idle" /\ dr'[c].ev = dr[c].ev
        /\ dr'[c].pc = "complete" => dr[c].pc = "complete"
  BY <1>2, <1>5, <1>6
<1> QED
  BY <1>2, <1>3, <1>8, <1>9, OutsideStep DEF Kept

LEMMA DrainApplyKeeps ==
  ASSUME IndInv, NEW d \in Drains, DrainApply(d)
  PROVE  Kept
<1> DEFINE p == dr[d].pack
           e == dr[d].ev
<1>1. /\ Release(d) /\ dr' = [dr EXCEPT ![d] = Idle] /\ dr[d].pc = "apply"
      /\ UNCHANGED <<seq, event, pub, latest, public, done, subscribed, au, edits, aborts>>
      /\ \/ UNCHANGED store
         \/ Follows(p, e) /\ pack[p].live /\ AdvanceInTx(p, e)
  BY DEF DrainApply
<1>2. /\ p \in Packs /\ e \in DOMAIN event
      /\ \A f \in DOMAIN event : event[f].skill = event[e].skill /\ f < e => f \in done
  BY <1>1, DrainTyped DEF IndInv, DrainsInOrder
<1>3. PackStep(p)
  <2>1. CASE UNCHANGED store
    <3>1. /\ UNCHANGED <<intent, rev, applied, pack>>
          /\ pack \in [Packs -> [gen : Nat, public : BOOLEAN, live : BOOLEAN]]
      BY <2>1 DEF IndInv, TypeOK, store
    <3> HIDE DEF p, e
    <3> QED
      BY <1>1, <1>2, <3>1, RowStep
  <2>2. CASE Follows(p, e) /\ pack[p].live /\ AdvanceInTx(p, e)
    <3> HIDE DEF p, e
    <3> QED
      BY <1>1, <1>2, <2>2, AdvanceStep
  <2> QED
    BY <1>1, <2>1, <2>2
<1>4. dr' \in [Drains -> DrainStates] /\ \A c \in Drains : dr'[c] = dr[c] \/ dr'[c] = Idle
  BY <1>1 DEF IndInv, TypeOK, DrainStates
<1>5. /\ subscribed' \subseteq Packs /\ au' \in [Authors -> AuthorStates]
  BY <1>1 DEF IndInv, TypeOK
<1> HIDE DEF p, e
<1> QED
  BY <1>1, <1>2, <1>3, <1>4, <1>5, TransactionEnds DEF Kept

LEMMA RequestKeeps ==
  ASSUME IndInv, NEW a \in Authors, NEW p \in Packs, NEW verb \in Verbs, NEW s \in Skills,
         Request(a, p, verb, s)
  PROVE  Kept
<1>1. /\ UNCHANGED <<seq, event, pub, latest, public, store, done, subscribed, locks, dr,
                     aborts>>
      /\ edits' = edits + 1
      /\ au' = [au EXCEPT ![a] = [pc |-> "row", pack |-> p, verb |-> verb,
                                  skill |-> s, gen |-> pack[p].gen]]
  BY DEF Request
<1>2. [pc |-> "row", pack |-> p, verb |-> verb, skill |-> s, gen |-> pack[p].gen]
        \in AuthorStates
  BY DEF AuthorStates, IndInv, TypeOK
<1>3. TypeOK'
  BY <1>1, <1>2 DEF IndInv, TypeOK, store, locks
<1> QED
  BY <1>1, <1>3, OutsideStep DEF Kept, locks

LEMMA AuthorLockKeeps ==
  ASSUME IndInv, NEW a \in Authors,
         AuthorLockRow(a) \/ AuthorLockPack(a) \/ AuthorLockSkill(a)
  PROVE  Kept
<1>1. UNCHANGED <<seq, event, pub, latest, public, store, done, subscribed, dr, edits, aborts>>
  BY DEF AuthorLockRow, AuthorLockPack, AuthorLockSkill
<1>2. /\ rowLock' \in [Packs -> Drains \cup Authors \cup {None}]
      /\ packLock' \in [Packs -> Drains \cup Authors \cup {None}]
  <2>1. CASE AuthorLockRow(a)
    BY <2>1 DEF AuthorLockRow, IndInv, TypeOK
  <2>2. CASE AuthorLockPack(a)
    BY <2>2 DEF AuthorLockPack, IndInv, TypeOK
  <2>3. CASE AuthorLockSkill(a)
    BY <2>3 DEF AuthorLockSkill, IndInv, TypeOK
  <2> QED
    BY <2>1, <2>2, <2>3
<1>3. /\ skillLock' \in [Skills -> Drains \cup Authors \cup Skills \cup {None}]
      /\ \A s \in Skills : skillLock[s] = s => skillLock'[s] = s
  <2>1. CASE skillLock' = skillLock
    BY <2>1 DEF IndInv, TypeOK
  <2>2. CASE \E x : skillLock[x] = None /\ skillLock' = [skillLock EXCEPT ![x] = a]
    BY <2>2, LockTaken DEF IndInv
  <2> QED
    BY <2>1, <2>2 DEF AuthorLockRow, AuthorLockPack, AuthorLockSkill
<1>4. au' \in [Authors -> AuthorStates]
  <2>1. CASE au' = au \/ au' = [au EXCEPT ![a] = Idle]
    BY <2>1 DEF IndInv, TypeOK, AuthorStates
  <2>2. CASE au[a].pc # "idle" /\ \E q \in {"pack", "skills"} : au' = [au EXCEPT ![a].pc = q]
    <3>1. PICK q \in {"pack", "skills"} : au' = [au EXCEPT ![a].pc = q]
      BY <2>2
    <3>2. au[a] \in [pc : {"row", "pack", "skills"}, pack : Packs, verb : Verbs,
                     skill : Skills, gen : Nat]
      BY <2>2, AuthorTyped DEF IndInv
    <3>3. [au[a] EXCEPT !.pc = q] \in AuthorStates
      BY <3>2 DEF AuthorStates
    <3> QED
      BY <3>1, <3>3 DEF IndInv, TypeOK
  <2> QED
    BY <2>1, <2>2 DEF AuthorLockRow, AuthorLockPack, AuthorLockSkill
<1>5. TypeOK'
  BY <1>1, <1>2, <1>3, <1>4 DEF IndInv, TypeOK, store
<1> QED
  BY <1>1, <1>3, <1>5, OutsideStep DEF Kept

LEMMA AuthorCommitKeeps ==
  ASSUME IndInv, NEW a \in Authors, AuthorCommit(a)
  PROVE  Kept
<1> DEFINE p == au[a].pack
           verb == au[a].verb
           s == au[a].skill
<1>1. /\ Release(a) /\ au' = [au EXCEPT ![a] = Idle] /\ au[a].pc = "skills"
      /\ UNCHANGED <<seq, event, pub, latest, public, done, dr, edits, aborts>>
      /\ \A x \in SkillsToLock(a) : skillLock[x] = a
  BY DEF AuthorCommit
<1>2. \/ CatchUp(p)
      \/ UNCHANGED <<store, subscribed>>
      \/ Pending(p) = {} /\ Allowed(p, verb, s) /\ ChangePack(p, verb, s)
  BY DEF AuthorCommit
<1>3. p \in Packs /\ verb \in Verbs /\ s \in Skills
  BY <1>1, AuthorTyped DEF IndInv
<1>4. verb \in MemberVerbs => pub[s] = None
  <2> SUFFICES ASSUME verb \in MemberVerbs
               PROVE  pub[s] = None
    OBVIOUS
  <2>1. skillLock[s] = a
    BY <1>1 DEF SkillsToLock
  <2>2. s # a
    BY <1>3, PackFanoutAssumption
  <2> QED
    BY <1>3, <2>1, <2>2 DEF IndInv, PublishesOrdered
<1> HIDE DEF p, verb, s
<1>5. PackStep(p) /\ subscribed' \subseteq Packs
  <2>1. CASE CatchUp(p)
    BY <1>1, <1>3, <2>1, CatchUpStep DEF CatchUp, IndInv, TypeOK
  <2>2. CASE UNCHANGED <<store, subscribed>>
    <3>1. /\ UNCHANGED <<intent, rev, applied, pack, subscribed>>
          /\ pack \in [Packs -> [gen : Nat, public : BOOLEAN, live : BOOLEAN]]
          /\ subscribed \subseteq Packs
      BY <2>2 DEF IndInv, TypeOK, store
    <3> QED
      BY <1>1, <1>3, <3>1, RowStep
  <2>3. CASE Pending(p) = {} /\ Allowed(p, verb, s) /\ ChangePack(p, verb, s)
    <3>1. subscribed' \subseteq Packs
      BY <2>3 DEF ChangePack, IndInv, TypeOK
    <3> QED
      BY <1>1, <1>3, <1>4, <2>3, <3>1, ChangePackStep
  <2> QED
    BY <1>2, <2>1, <2>2, <2>3
<1>6. /\ au' \in [Authors -> AuthorStates] /\ dr' \in [Drains -> DrainStates]
      /\ \A d \in Drains : dr'[d] = dr[d]
  BY <1>1 DEF IndInv, TypeOK, AuthorStates
<1> QED
  BY <1>1, <1>3, <1>5, <1>6, TransactionEnds DEF Kept

LEMMA SubscriptionKeeps ==
  ASSUME IndInv, NEW p \in Packs, Subscribe(p) \/ Unsubscribe(p)
  PROVE  Kept
<1>1. /\ UNCHANGED <<seq, event, pub, latest, public, store, done, locks, dr, au, aborts>>
      /\ edits' \in {edits, edits + 1}
      /\ subscribed' \in {subscribed \ {p}, subscribed \cup {p}}
  BY DEF Subscribe, Unsubscribe
<1>2. TypeOK'
  BY <1>1 DEF IndInv, TypeOK, store, locks
<1> QED
  BY <1>1, <1>2, OutsideStep DEF Kept, locks

\* A lost transaction gives its locks back and leaves the tables alone.
LEMMA RollbackKeeps ==
  ASSUME IndInv, NEW x \in Drains \cup Authors, DeadlockVictim(x) \/ Crash(x)
  PROVE  Kept
<1>1. /\ UNCHANGED <<seq, event, pub, latest, public, store, done, subscribed, edits>>
      /\ Release(x) /\ aborts' \in {aborts, aborts + 1}
      /\ dr' = IF x \in Drains THEN [dr EXCEPT ![x] = Idle] ELSE dr
      /\ au' = IF x \in Authors THEN [au EXCEPT ![x] = Idle] ELSE au
  BY DEF DeadlockVictim, Crash, Rollback
<1>2. /\ dr' \in [Drains -> DrainStates] /\ \A d \in Drains : dr'[d] = dr[d] \/ dr'[d] = Idle
      /\ au' \in [Authors -> AuthorStates]
  BY <1>1 DEF IndInv, TypeOK, DrainStates, AuthorStates
<1>3. TypeOK'
  BY <1>1, <1>2, ReleaseFrame DEF IndInv, TypeOK, store
<1>4. \A s \in Skills : skillLock[s] = s => skillLock'[s] = s
  BY <1>1, ReleaseFrame DEF IndInv
<1> QED
  BY <1>1, <1>2, <1>3, <1>4, OutsideStep DEF Kept, Idle

-------------------------------------------------------------------------------
(* The invariant *)

LEMMA InitInv == Init => IndInv
<1> SUFFICES ASSUME Init
             PROVE  IndInv
  OBVIOUS
<1>1. TypeOK
  BY PackFanoutAssumption DEF Init, TypeOK, EventIds, DrainStates, AuthorStates
<1>2. EventsNumbered /\ PublishesOrdered /\ DrainsInOrder
  BY DEF Init, EventsNumbered, PublishesOrdered, DrainsInOrder, Idle
<1>3. \A p \in Packs : PackInOrder(p)
  BY DEF Init, PackInOrder
<1> QED
  BY <1>1, <1>2, <1>3 DEF IndInv

LEMMA StepInv == IndInv /\ [Next]_vars => Kept
<1> SUFFICES ASSUME IndInv, [Next]_vars
             PROVE  Kept
  OBVIOUS
<1>1. CASE UNCHANGED vars
  <2>1. UNCHANGED <<seq, event, pub, latest, public, store, done, subscribed, locks, dr, au,
                    edits, aborts>>
    BY <1>1 DEF vars
  <2>2. TypeOK'
    BY <2>1 DEF IndInv, TypeOK, store, locks
  <2> QED
    BY <2>1, <2>2, OutsideStep DEF Kept, locks
<1>2. CASE \E s \in Skills : PublishInsert(s) \/ PublishCommit(s) \/ PublishAbort(s)
                             \/ UnpublishSkill(s) \/ RepublishSkill(s)
  BY <1>2, InsertKeeps, CommitKeeps, AbortKeeps, VisibilityKeeps
<1>3. CASE \E d \in Drains : DrainStep(d)
  BY <1>3, DrainLoadKeeps, DrainNextKeeps, DrainCompleteKeeps, DrainLockKeeps,
     DrainApplyKeeps DEF DrainStep
<1>4. CASE \E a \in Authors, p \in Packs, verb \in Verbs, s \in Skills : Request(a, p, verb, s)
  BY <1>4, RequestKeeps
<1>5. CASE \E a \in Authors : AuthorStep(a)
  BY <1>5, AuthorLockKeeps, AuthorCommitKeeps DEF AuthorStep
<1>6. CASE \E p \in Packs : Subscribe(p) \/ Unsubscribe(p)
  BY <1>6, SubscriptionKeeps
<1>7. CASE \E x \in Drains \cup Authors : DeadlockVictim(x) \/ Crash(x)
  BY <1>7, RollbackKeeps
<1> QED
  BY <1>1, <1>2, <1>3, <1>4, <1>5, <1>6, <1>7 DEF Next

\* The inductive invariant holds in every behaviour of publishers, drains and
\* authors.
THEOREM Invariance == Spec => []IndInv
<1>1. IndInv /\ [Next]_vars => IndInv'
  BY StepInv DEF Kept
<1> QED
  BY InitInv, <1>1, PTL DEF Spec

\* The members of pack_members and those of the current revision are the same
\* with the same pins, whatever drains and authors interleave: a drain never
\* meets the internal error of advance_pack_event_in_tx.
THEOREM MembershipAgrees == Spec => []IntentMatchesRevision
<1>1. IndInv => IntentMatchesRevision
  BY DEF IndInv, IntentMatchesRevision, PackInOrder, MemberInOrder
<1> QED
  BY Invariance, <1>1, PTL

\* A release a live pack follows is shown or still pending: it does not fall
\* between the watermark of set_member, the pack's own versions and
\* pack_release_event_completions.
THEOREM ReleasesKept == Spec => []NoReleaseLost
<1>1. IndInv => NoReleaseLost
  BY DEF IndInv, NoReleaseLost, PackInOrder, EventInOrder
<1> QED
  BY Invariance, <1>1, PTL

\* A public pack shows releases only: the checks of resolve_member and of
\* publish_pack suffice.
THEOREM PublicShowsReleases == Spec => []PublicPackShowsReleases
<1>1. IndInv => PublicPackShowsReleases
  BY DEF IndInv, PublicPackShowsReleases, PackInOrder, MemberInOrder
<1> QED
  BY Invariance, <1>1, PTL

\* What a pack shows of a skill it goes on following never goes back, though a
\* drain and an author may apply the same events in turn.
THEOREM NeverRegress == Spec => FollowersNeverRegress
<1>1. IndInv /\ [Next]_vars =>
        [\A p \in Packs : \A s \in DOMAIN intent[p] \cap DOMAIN intent'[p] :
           ~intent[p][s].pin /\ ~intent'[p][s].pin => rev'[p][s].ver >= rev[p][s].ver]_vars
  BY StepInv DEF Kept, NoRegress
<1> QED
  BY Invariance, <1>1, PTL DEF Spec, FollowersNeverRegress
===============================================================================
