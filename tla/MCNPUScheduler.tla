-------------------------- MODULE MCNPUScheduler --------------------------
(* Instances of NPUScheduler for TLC. *)
EXTENDS NPUScheduler, TLC

CONSTANTS b1, b2, b3

(* Four requests: the third is longer than the token budget, the second    *)
(* needs another adapter than the first.                                   *)
Prompts  == <<3, 2, 5, 2>>
Adapters == <<1, 2, 0, 0>>
Tokens   == <<3, 3, 1, 2>>
=============================================================================
