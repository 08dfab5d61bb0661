------------------------------ MODULE SharedHead ----------------------------
(***************************************************************************)
(* What the private workspace of a skill promises to the devices that save *)
(* to it, without requests, transactions, generations or pruning: one      *)
(* current value and at most one open divergence of two values.  A save is *)
(* decided once.  It takes effect on the value it was made from, or it is  *)
(* kept beside the value that came first, and from then on only the merge  *)
(* of the two is accepted.  Everything else that writes the value writes   *)
(* on top of it, or brings a value made elsewhere.                         *)
(***************************************************************************)
CONSTANTS
    Saves,   \* what a device may save
    Values,  \* every value: saves, the first one, values made elsewhere
    First,   \* the value to start from
    Outside, \* values made elsewhere
    None

VARIABLES
    value,   \* the current value
    sides,   \* the two values of the open divergence, or {}
    from,    \* Values -> the values each was made from, None before that
    outcome  \* Saves -> "undecided", "advanced" or "diverged"

vars == <<value, sides, from, outcome>>

Init ==
    /\ value = First /\ sides = {}
    /\ from = [v \in Values |-> IF v \in Outside \cup {First} THEN {} ELSE None]
    /\ outcome = [s \in Saves |-> "undecided"]

Made(v, on) == from[v] = None /\ from' = [from EXCEPT ![v] = on]
Decided(s, how) == outcome[s] = "undecided" /\ outcome' = [outcome EXCEPT ![s] = how]

(* A save made from the current value, or the merge of an open divergence. *)
Advance(s) ==
    \E on \in SUBSET Values :
        /\ Made(s, on) /\ Decided(s, "advanced")
        /\ value \in on /\ sides \in {{}, on}
        /\ value' = s /\ sides' = {}

(* A save made from an older value.                                        *)
Diverge(s) ==
    \E older \in Values \ {value} :
        /\ Made(s, {older}) /\ Decided(s, "diverged")
        /\ sides = {} /\ sides' = {value, s}
        /\ UNCHANGED value

(* Restore and rename.                                                     *)
Rewrite(v) ==
    /\ Made(v, {value}) /\ value' = v
    /\ UNCHANGED <<sides, outcome>>

(* The acceptance of a proposal.                                           *)
Adopt(v) ==
    /\ v \in Outside /\ value' = v
    /\ UNCHANGED <<sides, from, outcome>>

Next ==
    \/ \E s \in Saves : Advance(s) \/ Diverge(s)
    \/ \E v \in Values : Rewrite(v) \/ Adopt(v)

Spec == Init /\ [][Next]_vars
=============================================================================
