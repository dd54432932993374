-------------------------- MODULE GreedyOptimizer --------------------------
(***************************************************************************)
(* GreedyExpertLoadBalancer: how a rank derives the instructions of a      *)
(* round from the placement and the activation counts.  Layer by layer it  *)
(* first removes redundant replicas from overloaded ranks, then swaps and  *)
(* adds replicas, from the highest and from the lowest rank in turn, as    *)
(* long as the predicted imbalance falls.                                  *)
(*                                                                         *)
(* What it believes is kept twice, and across rounds: per rank             *)
(* (RankActivateInformation: deployed, loads) and per expert               *)
(* (LogitExpertInformation: shares).  update() has to keep both in step    *)
(* with each other and with the placement the workers will reach.          *)
(***************************************************************************)
EXTENDS ChangeInstructions, FiniteSetsExt, Functions

CONSTANTS
    Placements,   \* placements the program starts with
    Loads,        \* bound: smoothed activation counts of a position
    MaxSwapAdds,  \* maxinstructionNums
    MaxRounds     \* bound: rounds

ASSUME GreedyAssumption ==
    /\ Placements \subseteq [Position -> Expert \cup {NoExpert}]
    /\ Loads \subseteq Nat
    /\ MaxSwapAdds \in Nat
    /\ MaxRounds \in Nat

VARIABLES
    view,      \* the placement of all ranks once list is carried out
    list,      \* instructions
    deployed,  \* deployed_to_logits_mapping_ of the ranks of all layers
    loads,     \* pos_activations_ of the ranks of all layers
    shares,    \* per expert: activated_values at its global_position_ids
    phase,     \* where optimize_and_generate_instructions is
    layer,     \* layer_id
    best,      \* bestEP_value
    excluded,  \* exclude_ranks
    highest,   \* thehighestrank while replicas are removed, or -1
    position,  \* position_id on it
    turn,      \* idx: swaps and additions tried in this layer
    misses,    \* break_flag
    ratio,     \* unbalancedRatio at the last accepted instruction
    round      \* rounds begun

belief == <<deployed, loads, shares>>
cursor == <<best, excluded, highest, position>>
tally  == <<turn, misses, ratio>>
vars   == <<view, list, belief, phase, layer, cursor, tally, round>>

-----------------------------------------------------------------------------
InLayer(l)       == {p \in Position : LayerOf(p) = l}
OfRank(r)        == {p \in InLayer(layer) : Owner(p) = r}
Global(r, i)     == layer * Deploy + r * DeployPerRank + i
At(e)            == DOMAIN shares[e]
Spare(e)         == Cardinality(At(e)) > 1

(* Faulty: one replica too many.                                           *)
RoomForOneMore(e) == Cardinality(At(e)) <= ExpertRedundantLimit + 1

Room(e)          == Cardinality(At(e)) <= ExpertRedundantLimit
NumOn(S, r)      == Cardinality({p \in S : Owner(p) = r})

(* getAllRanksValue                                                        *)
RankLoads(ld) == [r \in Rank |-> SumFunctionOnSet(ld, OfRank(r))]

(* Faulty: the mean load of a position, not of a rank.                     *)
BestEPOfPosition(ld) == SumFunctionOnSet(ld, InLayer(layer)) \div Deploy

(* getBestEPValue                                                          *)
BestEP(ld) == SumFunctionOnSet(ld, InLayer(layer)) \div WorldSize

(* getUnbalancedRatio, as a fraction.                                      *)
Ratio(v) == [max |-> Max({1} \cup {v[r] : r \in Rank}),
             min |-> Max({1, Min({v[r] : r \in Rank})})]

Less(a, b) == a.max * b.min < b.max * a.min

Balanced(a) == 10 * a.max < 11 * a.min

(* getTheHighestOffloadRank, getTheLowestOffloadRank: the first such rank. *)
HighestRank(S) ==
    LET v == RankLoads(loads)
    IN  Min({r \in S : \A s \in S : v[s] <= v[r]})

LowestRank ==
    LET v == RankLoads(loads)
    IN  Min({r \in Rank : \A s \in Rank : v[r] <= v[s]})
-----------------------------------------------------------------------------
(* The forecasts by which moves are compared: v, the loads of the ranks,   *)
(* after a move.                                                           *)
AfterRemove(v, p) ==
    LET at  == At(deployed[p])
        cut == shares[deployed[p]][p]
    IN  [r \in Rank |-> v[r] + NumOn(at, r) *
            (IF r = Owner(p) THEN -cut ELSE cut \div (Cardinality(at) - 1))]

AfterSwap(v, s, t) ==
    [v EXCEPT ![Owner(s)] = @ - loads[s] + loads[t],
              ![Owner(t)] = @ - loads[t] + loads[s]]

AfterAdd(v, s, t) ==
    LET at   == At(deployed[s])
        gain == SumFunction(shares[deployed[s]]) \div (Cardinality(at) + 1)
        loss == gain \div Cardinality(at)
        rest == IF deployed[t] = NoExpert THEN v ELSE AfterRemove(v, t)
    IN  [r \in Rank |-> rest[r] - loss * NumOn(at, r) + (IF r = Owner(t) THEN gain ELSE 0)]

Forecast(m) ==
    LET v == RankLoads(loads)
    IN  Ratio(IF m.type = "SWAP" THEN AfterSwap(v, m.source, m.target)
                                 ELSE AfterAdd(v, m.source, m.target))

-----------------------------------------------------------------------------
(* update(instruction): what is believed after move m.                     *)

(* Faulty: every remaining replica takes over the whole load.              *)
ShareOutWhole(f, v) == [q \in DOMAIN f |-> f[q] + v]

(* Faulty: the expert is still believed at the position it left.           *)
MovedAndKept(f, p, q, v) == [x \in DOMAIN f \cup {q} |-> IF x = q THEN v ELSE f[x]]

Without(f, p)     == [q \in DOMAIN f \ {p} |-> f[q]]
ShareOut(f, v)    == [q \in DOMAIN f |-> f[q] + v \div Cardinality(DOMAIN f)]
Moved(f, p, q, v) == [x \in (DOMAIN f \ {p}) \cup {q} |-> IF x = q THEN v ELSE f[x]]

(* LogitExpertInformation::update(): the new position p takes an equal     *)
(* part from each of the others; one that has less is left with nothing.   *)
Split(f, p) ==
    LET n    == Cardinality(DOMAIN f)
        part == (SumFunction(f) \div (n + 1)) \div n
        able == {q \in DOMAIN f : f[q] >= part}
    IN  [q \in DOMAIN f \cup {p} |->
            IF q = p THEN part * Cardinality(able)
            ELSE IF q \in able THEN f[q] - part ELSE 0]

NewShares(m) ==
    [e \in Expert |->
        IF m.type # "REMOVE" /\ e = deployed[m.source]
        THEN IF m.type = "SWAP" THEN Moved(shares[e], m.source, m.target, loads[m.source])
                                ELSE Split(shares[e], m.target)
        ELSE IF e = deployed[m.target]
        THEN IF m.type = "SWAP" THEN Moved(shares[e], m.target, m.source, loads[m.target])
                                ELSE ShareOut(Without(shares[e], m.target), shares[e][m.target])
        ELSE shares[e]]

(* Faulty: the ranks do not learn of the new replica.                      *)
TouchedTarget(m) == {deployed[m.target]} \ {NoExpert}

(* After a REMOVE or ADD the ranks are told the new shares of its experts. *)
Touched(m) ==
    {deployed[p] : p \in {m.target} \cup (IF m.type = "ADD" THEN {m.source} ELSE {})}
        \ {NoExpert}

Believe(m) ==
    LET holder(q) == {e \in Touched(m) : q \in DOMAIN shares'[e]}
        told(q)   == CHOOSE e \in holder(q) : TRUE
    IN
    /\ shares' = NewShares(m)
    /\ IF m.type = "SWAP"
       THEN /\ deployed' = [deployed EXCEPT ![m.source] = deployed[m.target],
                                            ![m.target] = deployed[m.source]]
            /\ loads' = [loads EXCEPT ![m.source] = loads[m.target],
                                      ![m.target] = loads[m.source]]
       ELSE /\ deployed' = [q \in Position |->
                  IF holder(q) # {} THEN told(q)
                  ELSE IF q = m.target THEN NoExpert ELSE deployed[q]]
            /\ loads' = [q \in Position |->
                  IF holder(q) # {} THEN shares'[told(q)][q]
                  ELSE IF q = m.target THEN 0 ELSE loads[q]]

(* The instruction for m goes on the list.                                 *)
Carry(m) ==
    /\ Believe(m)
    /\ list' = Append(list, Instruction(deployed, m))
    /\ view' = AfterMove(view, m)

-----------------------------------------------------------------------------
Init ==
    /\ view     \in Placements
    /\ list     = <<>>
    /\ deployed = [p \in Position |-> NoExpert]
    /\ loads    = [p \in Position |-> 0]
    /\ shares   = [e \in Expert |-> <<>>]
    /\ phase    = "observe"
    /\ layer    = 0
    /\ best     = 0
    /\ excluded = {}
    /\ highest  = -1
    /\ position = 0
    /\ turn     = 0
    /\ misses   = 0
    /\ ratio    = [max |-> 1, min |-> 1]
    /\ round    = 1

(* init_infomation: the activation counts of the layer are blended into    *)
(* the shares of the experts and the loads of the ranks ...                *)
Blend ==
    \E new \in [{p \in InLayer(layer) : view[p] # NoExpert} -> Loads] :
        /\ shares' = [e \in Expert |->
              [p \in At(e) \cup {q \in DOMAIN new : view[q] = e} |->
                  IF p \in DOMAIN new /\ view[p] = e THEN new[p] ELSE shares[e][p]]]
        /\ deployed' = [p \in Position |-> IF p \in DOMAIN new THEN view[p] ELSE deployed[p]]
        /\ loads'    = [p \in Position |-> IF p \in DOMAIN new THEN new[p] ELSE loads[p]]

(* ... unless they are abnormal or tell nothing: then the layer keeps what *)
(* was believed before.                                                    *)
Ignore == UNCHANGED belief

Observe ==
    /\ phase = "observe"
    /\ Blend \/ Ignore
    /\ best' = BestEP(loads')
    /\ excluded' = {}
    /\ phase' = "remove"
    /\ UNCHANGED <<view, list, layer, highest, position, tally, round>>

(* generate_remove_instructions_per_layer takes the highest of the ranks   *)
(* that are not excluded.  With all of them excluded it would be a null    *)
(* pointer.                                                                *)
PickRank ==
    /\ phase = "remove"
    /\ highest = -1
    /\ IF excluded = Rank
       THEN phase' = "failed" /\ UNCHANGED <<cursor, tally>>
       ELSE LET h == HighestRank(Rank \ excluded) IN
            IF RankLoads(loads)[h] <= best
            THEN /\ phase' = "swap_add"
                 /\ turn'   = 0
                 /\ misses' = 0
                 /\ ratio'  = Ratio(RankLoads(loads))
                 /\ UNCHANGED cursor
            ELSE /\ highest'  = h
                 /\ position' = 0
                 /\ UNCHANGED <<phase, best, excluded, tally>>
    /\ UNCHANGED <<view, list, belief, layer, round>>

Visiting ==
    /\ phase = "remove"
    /\ highest # -1
    /\ position < DeployPerRank
    /\ RankLoads(loads)[highest] >= best

Here == Global(highest, position)

(* The replica here is redundant and the ranks are more even without it.   *)
Removable ==
    /\ deployed[Here] # NoExpert
    /\ Spare(deployed[Here])
    /\ LET v == RankLoads(loads) IN Less(Ratio(AfterRemove(v, Here)), Ratio(v))

RemoveReplica ==
    /\ Visiting
    /\ Removable
    /\ Carry([type |-> "REMOVE", source |-> -1, target |-> Here])
    /\ position' = position + 1
    /\ UNCHANGED <<phase, layer, best, excluded, highest, tally, round>>

KeepReplica ==
    /\ Visiting
    /\ ~Removable
    /\ position' = position + 1
    /\ UNCHANGED <<view, list, belief, phase, layer, best, excluded, highest, tally, round>>

(* Faulty: ranks that stay too high are not excluded.                      *)
LeaveRankOpen ==
    /\ phase = "remove"
    /\ highest # -1
    /\ ~Visiting
    /\ highest' = -1
    /\ UNCHANGED <<view, list, belief, phase, layer, best, excluded, position, tally, round>>

(* A rank that is still too high is not looked at again.                   *)
LeaveRank ==
    /\ phase = "remove"
    /\ highest # -1
    /\ ~Visiting
    /\ excluded' = IF RankLoads(loads)[highest] > best
                   THEN excluded \cup {highest} ELSE excluded
    /\ highest' = -1
    /\ UNCHANGED <<view, list, belief, phase, layer, best, position, tally, round>>

-----------------------------------------------------------------------------
(* Faulty: positions of the rank itself are targets too.                   *)
PairsAnywhere(r) == OfRank(r) \X InLayer(layer)

(* The position of a rank to move from, and that of another to move to.    *)
Pairs(r) == OfRank(r) \X (InLayer(layer) \ OfRank(r))

OffersOfHighest ==
    LET pairs == {x \in Pairs(HighestRank(Rank)) :
                     /\ deployed[x[1]] # NoExpert
                     /\ deployed[x[1]] # deployed[x[2]]
                     /\ loads[x[2]] <= loads[x[1]]}
        free  == {x \in pairs :
                     /\ deployed[x[2]] # NoExpert => Spare(deployed[x[2]])
                     /\ Room(deployed[x[1]])}
    IN  {[type |-> "SWAP", source |-> x[1], target |-> x[2]] : x \in pairs}
            \cup {[type |-> "ADD", source |-> x[1], target |-> x[2]] : x \in free}

OffersOfLowest ==
    LET pairs == {x \in Pairs(LowestRank) :
                     /\ deployed[x[2]] # NoExpert
                     /\ deployed[x[1]] # deployed[x[2]]
                     /\ loads[x[2]] >= loads[x[1]]}
    IN  {[type |-> "SWAP", source |-> x[1], target |-> x[2]] : x \in pairs}

(* The order in which the loops come upon them.                            *)
Before(m, n) ==
    \/ m.source < n.source
    \/ m.source = n.source /\ m.target < n.target
    \/ m.source = n.source /\ m.target = n.target /\ m.type = "SWAP"

(* The first of the best offers, if it is better than doing nothing.       *)
Improving(offers) ==
    LET scored == {[move |-> m, ratio |-> Forecast(m)] : m \in offers}
        now    == Ratio(RankLoads(loads))
        top    == {x.move : x \in {y \in scored : /\ Less(y.ratio, now)
                                                  /\ \A z \in scored : ~Less(z.ratio, y.ratio)}}
    IN  {m \in top : \A n \in top : m = n \/ Before(m, n)}

(* high_flag: the highest and the lowest rank take turns.                  *)
Chosen == Improving(IF turn % 2 = 0 THEN OffersOfHighest ELSE OffersOfLowest)

Enough == turn = MaxSwapAdds \/ misses = 2 \/ Balanced(ratio)

SwapOrAdd ==
    /\ phase = "swap_add"
    /\ ~Enough
    /\ turn' = turn + 1
    /\ \/ /\ Chosen = {}
          /\ misses' = misses + 1
          /\ UNCHANGED <<view, list, belief, ratio>>
       \/ \E m \in Chosen :
          /\ Carry(m)
          /\ ratio'  = Ratio(RankLoads(loads'))
          /\ misses' = IF Less(ratio, ratio') THEN misses + 1 ELSE 0
    /\ UNCHANGED <<phase, layer, cursor, round>>

EndLayer ==
    /\ phase = "swap_add"
    /\ Enough
    /\ IF layer + 1 < NumLayers
       THEN layer' = layer + 1 /\ phase' = "observe"
       ELSE phase' = "done" /\ UNCHANGED layer
    /\ UNCHANGED <<view, list, belief, cursor, tally, round>>

(* The workers have carried out the list; the next round begins.           *)
NextRound ==
    /\ phase = "done"
    /\ round < MaxRounds
    /\ round' = round + 1
    /\ phase' = "observe"
    /\ layer' = 0
    /\ list'  = <<>>
    /\ UNCHANGED <<view, belief, cursor, tally>>

Next ==
    \/ Observe
    \/ PickRank \/ RemoveReplica \/ KeepReplica \/ LeaveRank
    \/ SwapOrAdd \/ EndLayer \/ NextRound

Spec == Init /\ [][Next]_vars

FairSpec == Spec /\ WF_vars(Next)

-----------------------------------------------------------------------------
(* Properties.                                                             *)

(* The two sides of what is believed tell the same: an expert has shares   *)
(* exactly at the positions where the ranks have it, as large as the loads *)
(* there.  Where it failed, getActivateValue would throw.                  *)
BeliefsAgree ==
    /\ \A e \in Expert : At(e) = {p \in Position : deployed[p] = e}
    /\ \A p \in Position :
          loads[p] = IF deployed[p] = NoExpert THEN 0 ELSE shares[deployed[p]][p]

(* What is believed of a layer, across rounds and skipped observations, is *)
(* the placement that all ranks reach - or nothing so far.                 *)
BelievesPlacement ==
    \A l \in Layer :
        \/ \A p \in InLayer(l) : deployed[p] = NoExpert
        \/ \A p \in InLayer(l) : deployed[p] = view[p]

(* The workers only ever get what ExpertPlacement assumes: moves that are  *)
(* legal on the placement the list has reached, with the experts that are  *)
(* really there, in the order of layers and kinds.                         *)
DecisionsAreLegal ==
    [][Len(list') > Len(list) =>
        LET i == list'[Len(list')]
            m == [type |-> i.type, source |-> i.source_position, target |-> i.target_position]
        IN  /\ LegalMove(view, m)
            /\ InListOrder(list, m)
            /\ list' = Append(list, Instruction(view, m))
            /\ view' = AfterMove(view, m)]_vars

(* No list leaves an expert without a replica or with more than            *)
(* max_redundant_per_expert of them.                                       *)
ReplicasInBounds ==
    \A e \in Expert : Cardinality(Replicas(view, e)) \in 1 .. ExpertRedundantLimit + 1

(* The search for the highest rank never runs out of ranks.                *)
NeverExhausted == phase # "failed"

(* Shares are rounded off, never up: no decision makes load appear.        *)
LoadNeverGrows ==
    [][phase # "observe" =>
        SumFunction(loads') <= SumFunction(loads)]_vars

(* while (true) in generate_remove_instructions_per_layer ends, although   *)
(* a rank may come up again after it was dealt with.                       *)
RemovalEnds == phase = "remove" ~> phase # "remove"

=============================================================================
