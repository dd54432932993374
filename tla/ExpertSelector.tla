--------------------------- MODULE ExpertSelector ---------------------------
(***************************************************************************)
(* The geometry of a deployment and the rule by which a rank chooses, for  *)
(* every logical expert, the deployed position its tokens are sent to      *)
(* (PlacementMapping::update_selector_layer).                              *)
(*                                                                         *)
(* Positions and experts are the flat offsets the code uses:               *)
(*   position offset = layer * num_deploy_experts + position in the layer  *)
(*   expert offset   = layer * num_experts + logical expert id             *)
(* and -1 (NoExpert) marks an empty position.                              *)
(***************************************************************************)
EXTENDS Integers, FiniteSets

CONSTANTS
    WorldSize,      \* world_size_: ranks, one process each
    NumLayers,      \* num_layers_
    NumExperts,     \* num_experts_: logical experts of a layer
    DeployPerRank,  \* num_deploy_experts_per_device_
    DevicesPerHost  \* num_devices_per_host_

ASSUME GeometryAssumption ==
    /\ WorldSize \in Nat \ {0}
    /\ NumLayers \in Nat \ {0}
    /\ NumExperts \in Nat \ {0}
    /\ DeployPerRank \in Nat \ {0}
    /\ DevicesPerHost \in Nat \ {0}

NoExpert == -1

Deploy   == WorldSize * DeployPerRank
Rank     == 0 .. WorldSize - 1
Layer    == 0 .. NumLayers - 1
Position == 0 .. NumLayers * Deploy - 1
Expert   == 0 .. NumLayers * NumExperts - 1

LayerOf(p)       == p \div Deploy
ExpertLayer(e)   == e \div NumExperts
Owner(p)         == (p % Deploy) \div DeployPerRank
HostOf(r)        == r \div DevicesPerHost
OwnPositions(r)  == {p \in Position : Owner(p) = r}

(* Where mapping m deploys expert e.                                       *)
Replicas(m, e) == {p \in Position : m[p] = e}

(* The k-th smallest element of a set of positions, counted from 0.        *)
Nth(S, k) == CHOOSE p \in S : Cardinality({q \in S : q < p}) = k

(* candidates[rank_ % candidates.size()]                                   *)
Share(S, r) == Nth(S, r % Cardinality(S))

(***************************************************************************)
(* The position rank r sends the tokens of e to: the only replica, else    *)
(* the first one it owns, else its share of those on its host, else its    *)
(* share of the distant ones; old when e is not deployed.  nums is         *)
(* expert_id_deployed_nums_.                                               *)
(***************************************************************************)
SelectPosition(r, m, nums, e, old) ==
    LET all   == Replicas(m, e)
        local == {p \in all : Owner(p) = r}
        near  == {p \in all : HostOf(Owner(p)) = HostOf(r)}
    IN  CASE all = {}                 -> old
          [] all # {} /\ nums[e] = 1  -> CHOOSE p \in all : \A q \in all : q <= p
          [] all # {} /\ nums[e] # 1 /\ local # {} -> Nth(local, 0)
          [] all # {} /\ nums[e] # 1 /\ local = {} /\ near # {} -> Share(near, r)
          [] OTHER                    -> Share(all, r)

(* update_selector: only the layers marked in is_layer_update are redone.  *)
UpdateSelector(r, m, nums, dirty, old) ==
    [e \in Expert |-> IF ExpertLayer(e) \in dirty
                      THEN SelectPosition(r, m, nums, e, old[e])
                      ELSE old[e]]
=============================================================================
