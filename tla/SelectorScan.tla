---------------------------- MODULE SelectorScan ----------------------------
(***************************************************************************)
(* PlacementMapping::update_selector_layer as it runs: one pass over the   *)
(* deployed positions of a layer that overwrites selector_host_ as better  *)
(* positions turn up.  ExpertSelector!SelectPosition says in closed form   *)
(* what the pass is meant to compute.  One layer is scanned on one rank.   *)
(***************************************************************************)
EXTENDS ExpertSelector, Sequences

ASSUME OneLayerAssumption == NumLayers = 1

VARIABLES
    mapping,   \* globalDeployedPositionToLogisticsIdMappingHost_
    rank,      \* rank_
    pos,       \* pos_id: the next position to look at
    finish,    \* finish_table
    near,      \* same_host_candidates
    far,       \* distant_candidates
    selector   \* selector_host_

vars == <<mapping, rank, pos, finish, near, far, selector>>

Count == [e \in Expert |-> Cardinality(Replicas(mapping, e))]

(* selector_host_ is resized with zeros.                                   *)
Init ==
    /\ mapping  \in [Position -> Expert \cup {NoExpert}]
    /\ rank     \in Rank
    /\ selector = [e \in Expert |-> 0]
    /\ pos      = 0
    /\ finish   = [e \in Expert |-> 0]
    /\ near     = [e \in Expert |-> <<>>]
    /\ far      = [e \in Expert |-> <<>>]

Here == mapping[pos]

Advance == pos < Deploy /\ pos' = pos + 1 /\ UNCHANGED <<mapping, rank>>

(* An empty position, or an expert the rank has found on itself already.   *)
Pass ==
    /\ Advance
    /\ \/ Here = NoExpert
       \/ Here # NoExpert /\ Count[Here] # 1 /\ finish[Here] = 2
    /\ UNCHANGED <<finish, near, far, selector>>

(* The only replica.                                                       *)
TakeOnly ==
    /\ Advance
    /\ Here # NoExpert /\ Count[Here] = 1
    /\ selector' = [selector EXCEPT ![Here] = pos]
    /\ finish'   = [finish EXCEPT ![Here] = 1]
    /\ UNCHANGED <<near, far>>

(* Another replica of an expert that is not found on the rank so far.      *)
Seek ==
    /\ Advance
    /\ Here # NoExpert /\ Count[Here] # 1 /\ finish[Here] # 2

(* Faulty: a replica on the rank itself does not end the search.           *)
TakeLocalUnfinished ==
    /\ Seek
    /\ Owner(pos) = rank
    /\ selector' = [selector EXCEPT ![Here] = pos]
    /\ finish'   = [finish EXCEPT ![Here] = 1]
    /\ UNCHANGED <<near, far>>

TakeLocal ==
    /\ Seek
    /\ Owner(pos) = rank
    /\ selector' = [selector EXCEPT ![Here] = pos]
    /\ finish'   = [finish EXCEPT ![Here] = 2]
    /\ UNCHANGED <<near, far>>

(* candidates[rank_ % candidates.size()]                                   *)
Pick(candidates) == candidates[(rank % Len(candidates)) + 1]

TakeNear ==
    /\ Seek
    /\ Owner(pos) # rank /\ HostOf(Owner(pos)) = HostOf(rank)
    /\ near'     = [near EXCEPT ![Here] = Append(@, pos)]
    /\ selector' = [selector EXCEPT ![Here] = Pick(near'[Here])]
    /\ finish'   = [finish EXCEPT ![Here] = 1]
    /\ UNCHANGED far

TakeFar ==
    /\ Seek
    /\ HostOf(Owner(pos)) # HostOf(rank)
    /\ IF finish[Here] < 1
       THEN /\ far'      = [far EXCEPT ![Here] = Append(@, pos)]
            /\ selector' = [selector EXCEPT ![Here] = Pick(far'[Here])]
       ELSE UNCHANGED <<far, selector>>
    /\ UNCHANGED <<finish, near>>

Next == Pass \/ TakeOnly \/ TakeLocal \/ TakeNear \/ TakeFar

Spec == Init /\ [][Next]_vars

-----------------------------------------------------------------------------
(* Whatever the order of the replicas, the pass leaves the position that   *)
(* SelectPosition names: better ones replace worse ones, never vice versa. *)
ScanSelects ==
    pos = Deploy =>
        \A e \in Expert : Replicas(mapping, e) # {} =>
            selector[e] = SelectPosition(rank, mapping, Count, e, selector[e])
=============================================================================
