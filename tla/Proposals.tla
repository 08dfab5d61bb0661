----------------------------- MODULE Proposals ------------------------------
(***************************************************************************)
(* A fork, the personal skill it was made from, and the proposals that     *)
(* offer the fork's head to the skill's owner.  The owner inspects a       *)
(* proposal and accepts or rejects it from a client that keeps what it saw *)
(* (apps/denju/src/proposals.rs); meanwhile the owner's other clients save *)
(* and publish, and the proposer edits, renames, syncs and withdraws.      *)
(*                                                                         *)
(* Each mutation locks the proposal with both skills and the fork          *)
(* (denju_lock_proposal_rows) and is one step.  The detail that a client   *)
(* inspects is read by two statements.                                     *)
(***************************************************************************)
EXTENDS Naturals, Sequences

CONSTANTS
    Clients,      \* clients of the target's owner
    MaxHeads,     \* bound on the revisions ever made
    MaxProposals, \* bound on the proposals ever made
    None

VARIABLES
    target,    \* the upstream skill: its row and its owner's workspace
    fork,      \* the source skill, its workspace and its skill_forks row
    proposals, \* skill_proposals in order of creation
    made,      \* revisions made so far
    seen,      \* Clients -> the proposal detail inspected, or None
    accepted   \* history: what every acceptance saw and what it did

vars == <<target, fork, proposals, made, seen, accepted>>

Heads == 0..MaxHeads
Gens == 1..(MaxHeads + MaxProposals + 2)
Names == {"upstream", "other"}
Targets == [head : Heads, gen : Gens, release : Heads, live : BOOLEAN]
Forks == [head : Heads, gen : Gens, base : Heads, name : Names, live : BOOLEAN]
ProposalRows == [state : {"open", "accepted", "rejected", "withdrawn"},
                 gen : 1..2, closed : Heads \cup {None}]
Details == [id : 1..MaxProposals, gen : 1..2, synced : BOOLEAN,
            source : Heads, sourceGen : Gens, head : Heads \cup {None},
            targetGen : Gens \cup {None}]

TypeOK ==
    /\ target \in Targets /\ fork \in Forks /\ made \in Heads
    /\ proposals \in Seq(ProposalRows) /\ Len(proposals) <= MaxProposals
    /\ seen \in [Clients -> Details \cup {None}]
    /\ \A a \in accepted : a \in [saw : Details, source : Heads, replaced : Heads,
                                  synced : BOOLEAN]

-----------------------------------------------------------------------------
Open(p) == proposals[p].state = "open"

(* proposal_summary: open, or needing a sync, by the fork's recorded base  *)
(* and the head the proposer can see, here that of the latest release.     *)
Synced == fork.base = target.release

(* create_proposal                                                         *)
Create ==
    /\ fork.live /\ target.live /\ fork.name = "upstream"
    /\ ~\E p \in DOMAIN proposals : Open(p)
    /\ Len(proposals) < MaxProposals
    /\ proposals' = Append(proposals, [state |-> "open", gen |-> 1, closed |-> None])
    /\ UNCHANGED <<target, fork, made, seen, accepted>>

(* proposal_detail: the proposal with the fork's head ...                  *)
InspectRow(c, p) ==
    /\ seen[c] = None
    /\ seen' = [seen EXCEPT ![c] =
         [id |-> p, gen |-> proposals[p].gen, synced |-> Open(p) /\ Synced,
          source |-> fork.head, sourceGen |-> fork.gen,
          head |-> None, targetGen |-> None]]
    /\ UNCHANGED <<target, fork, proposals, made, accepted>>

(* ... and then the generation of the inspecting owner's own workspace.    *)
InspectGeneration(c) ==
    /\ seen[c] # None /\ seen[c].targetGen = None
    /\ seen' = [seen EXCEPT ![c].targetGen = target.gen, ![c].head = target.head]
    /\ UNCHANGED <<target, fork, proposals, made, accepted>>

(* `denju proposal accept' reads the detail again itself: this is what is  *)
(* accepted, not what an earlier `denju proposal show' printed.            *)
Inspected(c) == seen[c] # None /\ seen[c].targetGen # None

Closed(p, state) ==
    [proposals EXCEPT ![p] = [state |-> state, gen |-> @.gen + 1, closed |-> fork.head]]

(* Mutant: the fork is named by its resource only.                         *)
SourceAny(d) == TRUE

(* The fork is still what was inspected.                                   *)
SourceUnchanged(d) == fork.gen = d.sourceGen /\ fork.head = d.source

(* accept_proposal, sent by a client whose detail said "open": the exact   *)
(* head becomes the owner's workspace head.                                *)
Accept(c) ==
    LET d == seen[c] IN
    /\ Inspected(c) /\ d.synced
    /\ Open(d.id) /\ proposals[d.id].gen = d.gen
    /\ SourceUnchanged(d)
    /\ target.gen = d.targetGen
    /\ fork.live /\ target.live /\ fork.name = "upstream"
    /\ target' = [target EXCEPT !.head = fork.head, !.gen = @ + 1]
    /\ proposals' = Closed(d.id, "accepted")
    /\ accepted' = accepted \cup {[saw |-> d, source |-> fork.head,
                                   replaced |-> target.head, synced |-> Synced]}
    /\ seen' = [seen EXCEPT ![c] = None]
    /\ UNCHANGED <<fork, made>>

(* close_proposal by the owner, who inspected it.                          *)
Reject(c) ==
    LET d == seen[c] IN
    /\ Inspected(c) /\ Open(d.id) /\ proposals[d.id].gen = d.gen
    /\ proposals' = Closed(d.id, "rejected")
    /\ seen' = [seen EXCEPT ![c] = None]
    /\ UNCHANGED <<target, fork, made, accepted>>

(* Any of these requests is refused.                                       *)
Refused(c) ==
    /\ Inspected(c)
    /\ seen' = [seen EXCEPT ![c] = None]
    /\ UNCHANGED <<target, fork, proposals, made, accepted>>

(* close_proposal by the proposer.                                         *)
Withdraw(p) ==
    /\ Open(p)
    /\ proposals' = Closed(p, "withdrawn")
    /\ UNCHANGED <<target, fork, made, seen, accepted>>

-----------------------------------------------------------------------------
(* A save of the owner, from any client.                                   *)
TargetSave ==
    /\ target.live /\ made < MaxHeads
    /\ made' = made + 1
    /\ target' = [target EXCEPT !.head = made + 1, !.gen = @ + 1]
    /\ UNCHANGED <<fork, proposals, seen, accepted>>

(* publish_skill moves the resource's generation, not the workspace's.     *)
TargetPublish ==
    /\ target.live /\ target.head # target.release
    /\ target' = [target EXCEPT !.release = target.head]
    /\ UNCHANGED <<fork, proposals, made, seen, accepted>>

(* A save of the fork.                                                     *)
ForkSave ==
    /\ fork.live /\ made < MaxHeads
    /\ made' = made + 1
    /\ fork' = [fork EXCEPT !.head = made + 1, !.gen = @ + 1]
    /\ UNCHANGED <<target, proposals, seen, accepted>>

(* A fork sync: a merge with the latest release, which becomes the base.   *)
ForkSync ==
    /\ fork.live /\ target.live /\ ~Synced /\ made < MaxHeads
    /\ made' = made + 1
    /\ fork' = [fork EXCEPT !.head = made + 1, !.gen = @ + 1, !.base = target.release]
    /\ UNCHANGED <<target, proposals, seen, accepted>>

(* A rename of the fork makes a revision too.                              *)
ForkRename ==
    /\ fork.live /\ made < MaxHeads
    /\ made' = made + 1
    /\ \E n \in Names \ {fork.name} :
         fork' = [fork EXCEPT !.head = made + 1, !.gen = @ + 1, !.name = n]
    /\ UNCHANGED <<target, proposals, seen, accepted>>

(* The deletion of either skill leaves its open proposal.                  *)
DeleteSkill ==
    /\ \/ fork.live /\ fork' = [fork EXCEPT !.live = FALSE] /\ UNCHANGED target
       \/ target.live /\ target' = [target EXCEPT !.live = FALSE] /\ UNCHANGED fork
    /\ UNCHANGED <<proposals, made, seen, accepted>>

-----------------------------------------------------------------------------
(* A fork just made from the released skill.                               *)
Init ==
    /\ target = [head |-> 0, gen |-> 1, release |-> 0, live |-> TRUE]
    /\ fork = [head |-> 0, gen |-> 1, base |-> 0, name |-> "upstream", live |-> TRUE]
    /\ proposals = <<>> /\ made = 0 /\ accepted = {}
    /\ seen = [c \in Clients |-> None]

Next ==
    \/ Create \/ TargetSave \/ TargetPublish \/ ForkSave \/ ForkSync \/ ForkRename
    \/ DeleteSkill
    \/ \E p \in DOMAIN proposals : Withdraw(p) \/ \E c \in Clients : InspectRow(c, p)
    \/ \E c \in Clients :
          InspectGeneration(c) \/ Accept(c) \/ Reject(c) \/ Refused(c)

Spec == Init /\ [][Next]_vars

-----------------------------------------------------------------------------
(* An acceptance applies the revision the owner inspected, replaces a      *)
(* workspace head the owner's client had read the generation of, so that   *)
(* no save made meanwhile is replaced unseen, and happens once for a       *)
(* proposal whose terminal row names that revision.                        *)
AcceptedAsInspected ==
    /\ \A a \in accepted :
         /\ a.source = a.saw.source /\ a.replaced = a.saw.head
         /\ proposals[a.saw.id].state = "accepted"
         /\ proposals[a.saw.id].closed = a.source
    /\ \A a, b \in accepted : a.saw.id = b.saw.id => a = b

(* "If the proposal or target advances after inspection, the accept        *)
(* request fails": what is accepted is in sync with the latest release.    *)
AcceptedInSync == \A a \in accepted : a.synced
=============================================================================
