---------------------------- MODULE WeightQueues ----------------------------
(***************************************************************************)
(* What the completed queues of Distribution (distribution.h 78-182) and   *)
(* the receive buffers behind them promise the inference threads: on every *)
(* rank, the expert weights that were received come out complete, each     *)
(* with the position it is for, in the order they came in, and there are   *)
(* never more than Capacity of them.                                       *)
(***************************************************************************)
EXTENDS Integers, Sequences

CONSTANTS Ranks, Capacity, Positions, Weights

VARIABLE fifo  \* per rank, the received [pos, weights] not yet copied

(* The second conjunct follows from the third and is quicker to refute.    *)
Put(r) ==
    /\ Len(fifo[r]) < Capacity
    /\ Len(fifo'[r]) = Len(fifo[r]) + 1
    /\ \E p \in Positions, w \in Weights :
          fifo' = [fifo EXCEPT ![r] = Append(@, [pos |-> p, weights |-> w])]

Take(r) ==
    /\ fifo[r] # <<>>
    /\ fifo' = [fifo EXCEPT ![r] = Tail(@)]

Init == fifo = [r \in Ranks |-> <<>>]

Next == \E r \in Ranks : Put(r) \/ Take(r)

Spec == Init /\ [][Next]_fifo
=============================================================================
