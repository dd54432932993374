------------------------- MODULE MCGreedyOptimizer -------------------------
(* Instances of GreedyOptimizer for TLC. *)
EXTENDS GreedyOptimizer, TLC

(* The placements that placement patterns describe: every rank deploys a   *)
(* few experts, in ascending order from its first position on.             *)
Pattern(S) ==
    [p \in Position |->
        LET here == S[Owner(p)]
            i    == p % DeployPerRank
        IN  IF i < Cardinality(here) THEN Nth(here, i) ELSE NoExpert]

PatternPlacements ==
    LET fit == {s \in SUBSET Expert : Cardinality(s) \in 1 .. DeployPerRank}
    IN  {m \in {Pattern(S) : S \in [Rank -> fit]} :
            \A e \in Expert : Cardinality(Replicas(m, e)) \in 1 .. ExpertRedundantLimit}

(* Two layers of positions 0 1 | 2 3 and 4 5 | 6 7, experts 0 1 and 2 3.   *)
LayeredPlacements ==
    {(0 :> 0) @@ (1 :> 1) @@ (2 :> 1) @@ (3 :> -1)
        @@ (4 :> 2) @@ (5 :> -1) @@ (6 :> 2) @@ (7 :> 3)}
=============================================================================
