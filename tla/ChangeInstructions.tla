------------------------- MODULE ChangeInstructions -------------------------
(***************************************************************************)
(* The ChangeInstructions that the optimizer of a round hands to the       *)
(* workers: what a list may contain, and what an instruction does to a     *)
(* placement (a function from positions to experts).                       *)
(***************************************************************************)
EXTENDS ExpertSelector, Sequences

CONSTANT ExpertRedundantLimit \* expert_redundant_limit_

ASSUME LimitAssumption == ExpertRedundantLimit \in Nat

Holder(p) == IF p = -1 THEN -1 ELSE Owner(p)

(* The ChangeInstruction for move m decided on placement v.                *)
Instruction(v, m) ==
    [type            |-> m.type,
     source_rank     |-> Holder(m.source),
     source_position |-> m.source,
     source_expert   |-> IF m.source = -1 THEN NoExpert ELSE v[m.source],
     target_rank     |-> Holder(m.target),
     target_position |-> m.target,
     target_expert   |-> v[m.target]]

(* Faulty: the last replica counts as redundant.                           *)
RedundantAlways(v, e) == Cardinality(Replicas(v, e)) >= 1

Redundant(v, e) == Cardinality(Replicas(v, e)) > 1

(* What the greedy optimizer lets itself decide on placement v.            *)
LegalMove(v, m) ==
    \/ /\ m.type = "REMOVE"
       /\ m.source = -1
       /\ v[m.target] # NoExpert
       /\ Redundant(v, v[m.target])
    \/ /\ m.type \in {"SWAP", "ADD"}
       /\ m.source # -1
       /\ LayerOf(m.source) = LayerOf(m.target)
       /\ Owner(m.source) # Owner(m.target)
       /\ v[m.source] # v[m.target]
       /\ m.type = "ADD" =>
            /\ v[m.source] # NoExpert
            /\ v[m.target] # NoExpert => Redundant(v, v[m.target])
            /\ Cardinality(Replicas(v, v[m.source])) <= ExpertRedundantLimit

(* Positions are overwritten at the target and, by a SWAP, at the source.  *)
AfterMove(v, m) ==
    [p \in Position |->
        IF p = m.target THEN IF m.type = "REMOVE" THEN NoExpert ELSE v[m.source]
        ELSE IF p = m.source /\ m.type = "SWAP" THEN v[m.target] ELSE v[p]]

(* Lists go layer by layer, the removals of a layer before its swaps and   *)
(* additions: may m follow the instructions of list?                       *)
InListOrder(list, m) ==
    list # <<>> =>
        LET last == list[Len(list)]
        IN  \/ LayerOf(last.target_position) < LayerOf(m.target)
            \/ /\ LayerOf(last.target_position) = LayerOf(m.target)
               /\ m.type = "REMOVE" => last.type = "REMOVE"
=============================================================================
