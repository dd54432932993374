-------------------------- MODULE PlacementRounds ---------------------------
(***************************************************************************)
(* What the placement workers of all ranks promise together, seen as one   *)
(* machine: there is one placement.  A round decides a list of             *)
(* instructions; each of them takes effect exactly once, at one instant,   *)
(* on positions that still hold the experts it was decided on; several     *)
(* may take effect in the same instant, in any order of the list; and the  *)
(* next round begins only when none is left.                               *)
(***************************************************************************)
EXTENDS Integers, Sequences, FiniteSets

CONSTANTS Positions, NoOne, Placements

VARIABLES
    placement,  \* the expert at each position, or NoOne
    list,       \* the instructions of the round
    pending     \* the indices of list that have not taken effect

vars == <<placement, list, pending>>

(* What instruction i leaves at position p, and where it writes.           *)
Writes(i, p) ==
    \/ p = i.target_position
    \/ p = i.source_position /\ i.type = "SWAP"

Result(i, p) ==
    CASE i.type = "REMOVE"         -> NoOne
      [] i.type # "REMOVE" /\ p = i.target_position -> i.source_expert
      [] OTHER                     -> i.target_expert

InPlace(i) ==
    /\ i.type # "REMOVE" => placement[i.source_position] = i.source_expert
    /\ i.type # "ADD"    => placement[i.target_position] = i.target_expert

Init ==
    /\ placement \in Placements
    /\ list = <<>>
    /\ pending = {}

NewRound ==
    /\ pending = {}
    /\ list' = <<>>
    /\ UNCHANGED <<placement, pending>>

(* One more instruction, while none of the round has taken effect.         *)
Decide ==
    /\ pending = DOMAIN list
    /\ Len(list') = Len(list) + 1
    /\ SubSeq(list', 1, Len(list)) = list
    /\ pending' = DOMAIN list'
    /\ UNCHANGED placement

(* The instructions of J take effect.                                      *)
Apply(J) ==
    /\ pending' = pending \ J
    /\ \A j \in J : InPlace(list[j])
    /\ \A j, k \in J : j # k => \A p \in Positions : ~(Writes(list[j], p) /\ Writes(list[k], p))
    /\ placement' = [p \in Positions |->
          IF \E j \in J : Writes(list[j], p)
          THEN Result(list[CHOOSE j \in J : Writes(list[j], p)], p)
          ELSE placement[p]]
    /\ UNCHANGED list

Next ==
    \/ NewRound
    \/ Decide
    \/ \E J \in SUBSET pending : J # {} /\ Apply(J)

Spec == Init /\ [][Next]_vars
=============================================================================
