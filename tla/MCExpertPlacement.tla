------------------------- MODULE MCExpertPlacement -------------------------
(* Instances of ExpertPlacement for TLC. *)
EXTENDS ExpertPlacement, TLC

Move(t, s, d) == [type |-> t, source |-> s, target |-> d]

(* Three ranks of two positions: 0 1 | 2 3 | 4 5, one layer, experts 0..2. *)
(* Expert 2 is deployed twice, positions 3 and 5 are empty.                *)
ThreeRanksMappings ==
    {(0 :> 0) @@ (1 :> 2) @@ (2 :> 1) @@ (3 :> -1) @@ (4 :> 2) @@ (5 :> -1)}

ThreeRanksMoves ==
    {Move("REMOVE", -1, 1), Move("SWAP", 0, 2), Move("SWAP", 2, 4), Move("ADD", 2, 4)}

(* Rank 0 hands expert 0 on to rank 1, which hands it on to rank 2: with a *)
(* queue of one, rank 1 cannot begin the second instruction before its     *)
(* main thread has drained the first.                                      *)
LivenessMoves == {Move("ADD", 0, 3), Move("ADD", 3, 5)}

(* Two ranks, two layers: positions 0 1 | 2 3 and 4 5 | 6 7, experts 0 1   *)
(* and 2 3.                                                                *)
TwoLayersMappings ==
    {(0 :> 0) @@ (1 :> 1) @@ (2 :> 1) @@ (3 :> -1)
        @@ (4 :> 2) @@ (5 :> -1) @@ (6 :> 2) @@ (7 :> 3)}

TwoLayersMoves ==
    {Move("REMOVE", -1, 1), Move("SWAP", 0, 2), Move("ADD", 0, 3),
     Move("REMOVE", -1, 4), Move("SWAP", 4, 7)}
=============================================================================
