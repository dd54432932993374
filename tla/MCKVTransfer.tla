---------------------------- MODULE MCKVTransfer ----------------------------
(* Instances of KVTransfer for TLC.                                        *)
EXTENDS KVTransfer, TLC

CONSTANTS r1, r2, p1, p2

(* The prompts of one node, which share a thread, or of two nodes.         *)
OneOrTwoNodes == {(r1 :> p1) @@ (r2 :> p1), (r1 :> p1) @@ (r2 :> p2)}

(* A prompt that can be halved, and one that cannot.                       *)
Blocks == (r1 :> 2) @@ (r2 :> 1)

(* The answer names as many blocks, or one too few for the first prompt.   *)
EnoughOrTooFew == {Blocks, [Blocks EXCEPT ![r1] = 1]}

Enough == {Blocks}
=============================================================================
