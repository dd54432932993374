-------------------------- MODULE ExpertPlacement --------------------------
(***************************************************************************)
(* Dynamic expert placement (omni/accelerators/placement/omni_planner/cpp).*)
(*                                                                         *)
(* Every rank runs two threads.                                            *)
(*   worker  Placement::placement_manager.  All workers gather activation  *)
(*           counts, compute the same list of instructions (SWAP, ADD,     *)
(*           REMOVE) and carry out those that concern them, in list order. *)
(*           Before each one they meet in an allgather where every rank    *)
(*           announces the peer it wants (performGlobalHandshake); matched *)
(*           pairs exchange expert weights into a receive buffer that is   *)
(*           queued, everybody records the new mapping.                    *)
(*   main    do_placement_optimizer, before each forward pass: under the   *)
(*           mutex, unless the worker says it is changing things, copy the *)
(*           queued weights to their place in HBM and refresh the selector.*)
(*                                                                         *)
(* A rank's weights are represented by the expert they belong to.          *)
(***************************************************************************)
EXTENDS ChangeInstructions, ThreadQueue

CONSTANTS
    InitialMappings,      \* the mappings that placement patterns deploy
    Moves,                \* bound: the moves the optimizer may decide
    MaxInstructions,      \* bound: length of the instruction list of a round
    MaxRounds             \* bound: optimizer rounds

ASSUME PlacementAssumption ==
    /\ MaxInstructions \in Nat
    /\ MaxRounds \in Nat
    /\ InitialMappings \subseteq [Position -> Expert \cup {NoExpert}]
    /\ Moves \subseteq [type   : {"SWAP", "ADD", "REMOVE"},
                        source : Position \cup {-1},
                        target : Position]

VARIABLES
    mapping,   \* globalDeployedPositionToLogisticsIdMappingHost_, per rank
    nums,      \* expert_id_deployed_nums_, per rank
    selector,  \* selector_, per rank
    dirty,     \* is_layer_update, per rank, as the set of marked layers
    hbm,       \* npu_weights_: whose weights lie at each deployed position
    queue,     \* completedSynchronizeQueue_, per rank
    buffer,    \* recv_buff_, per rank: whose weights each slot holds
    changing,  \* sub_thread_is_changing_, per rank
    view,      \* the placement the optimizer has reached with the list so far
    plan,      \* changeInstructions of the round
    idx,       \* per rank: instructions of plan before idx are dealt with
    announced, \* hostCurrentStatus, per rank
    status,    \* hostHandshakeStatus_, the same array on every rank
    pc,        \* where each worker is
    mpc,       \* where each main thread is
    round      \* optimizer rounds begun

workerVars == <<view, plan, idx, announced, status, pc, round>>
vars == <<mapping, nums, selector, dirty, hbm, queue, buffer, changing, workerVars, mpc>>

-----------------------------------------------------------------------------
(* The instructions rank r keeps, and the next one it has to carry out.    *)
Concerns(r, i) == r \in {i.source_rank, i.target_rank}

Remaining(r) == {j \in DOMAIN plan : j >= idx[r] /\ Concerns(r, plan[j])}
Busy(r)      == Remaining(r) # {}

(* Faulty: the list is worked off from its end.                            *)
HeadIdxLast(r) == CHOOSE j \in Remaining(r) : \A k \in Remaining(r) : k <= j

HeadIdx(r)   == CHOOSE j \in Remaining(r) : \A k \in Remaining(r) : j <= k
Current(r)   == plan[HeadIdx(r)]

AsSource(r)  == Current(r).source_rank = r
IsRemove(r)  == Current(r).type = "REMOVE"

(* Faulty: the source of an ADD records a change of its own position too.  *)
IsAddSourceNever(r) == FALSE

IsAddSource(r) == Current(r).type = "ADD" /\ AsSource(r)

(* t_rank, global_position_id_this_layer and expert_id of rank r.          *)
Peer(r) == IF IsRemove(r) THEN r
           ELSE IF AsSource(r) THEN Current(r).target_rank
           ELSE Current(r).source_rank

OwnPosition(r) == IF AsSource(r) THEN Current(r).source_position
                                 ELSE Current(r).target_position

OwnExpert(r) == IF AsSource(r) THEN Current(r).target_expert
                               ELSE Current(r).source_expert

-----------------------------------------------------------------------------
(* The handshake.                                                          *)

Silent == [t |-> -1, pos |-> -1, expert |-> NoExpert]

(* Faulty: the fullness of the queue is not announced.                     *)
AnnouncementUnchecked(r) ==
    IF ~Busy(r) THEN Silent
    ELSE [t      |-> Peer(r),
          pos    |-> IF IsAddSource(r) THEN -1 ELSE OwnPosition(r),
          expert |-> OwnExpert(r)]

(* What rank r hands to the allgather: nothing left to do, or its peer, or *)
(* world_size when its queue is full and it would have to receive.         *)
Announcement(r) ==
    IF ~Busy(r) THEN Silent
    ELSE [t      |-> IF IsFull(queue[r]) /\ Peer(r) # r THEN WorldSize ELSE Peer(r),
          pos    |-> IF IsAddSource(r) THEN -1 ELSE OwnPosition(r),
          expert |-> OwnExpert(r)]

(* Faulty: a rank with nothing left to do does not wait for the others.    *)
AgreedAlone(r) ==
    LET t == status[r].t
    IN  \/ t \in Rank /\ status[t].t = r
        \/ t = -1

(* performGlobalHandshake's result on rank r.                              *)
Agreed(r) ==
    LET t == status[r].t
    IN  \/ t \in Rank /\ status[t].t = r
        \/ t = -1 /\ \A s \in Rank : status[s].t = -1

(* Faulty: a wish enters the mapping whether the peer shares it or not.    *)
EffectiveOneSided(st, r) ==
    /\ st[r].t \in Rank
    /\ st[r].pos # -1

(* The ranks whose announcement changes the mapping, and where.            *)
Effective(st, r) ==
    /\ st[r].t \in Rank
    /\ st[r].pos # -1
    /\ st[st[r].t].t = r

Writers(st, p) == {r \in Rank : Effective(st, r) /\ st[r].pos = p}
Written(st)    == {p \in Position : Writers(st, p) # {}}

(* update_globalDeployedPositionToLogisticsIdMapping(status): in rank      *)
(* order, so the last writer of a position wins.                           *)
UpdatedMapping(m, st) ==
    [p \in Position |->
        IF p \in Written(st)
        THEN st[CHOOSE r \in Writers(st, p) : \A s \in Writers(st, p) : s <= r].expert
        ELSE m[p]]

(* Faulty: the expert that leaves a position is not counted down.          *)
UpdatedNumsOnlyUp(n, m, st) ==
    [e \in Expert |->
        n[e] + Cardinality({p \in Written(st) : UpdatedMapping(m, st)[p] = e})]

UpdatedNums(n, m, st) ==
    [e \in Expert |->
        n[e] - Cardinality({p \in Written(st) : m[p] = e})
             + Cardinality({p \in Written(st) : UpdatedMapping(m, st)[p] = e})]

(* checkPositionIsConsistency on the ends of the instruction about to run. *)
Consistent(r) ==
    LET i == Current(r) IN
    /\ i.type \in {"SWAP", "ADD"} => mapping[r][i.source_position] = i.source_expert
    /\ i.type = "SWAP"            => mapping[r][i.target_position] = i.target_expert

-----------------------------------------------------------------------------
(* Weights.                                                                *)

Queued(r, p) == RearIndices(queue[r], p) # {}

(* The newest weights rank r has for its position p: what enqueue sends.   *)
Latest(r, p) == IF Queued(r, p) THEN buffer[r][GetRear(queue[r], p).buf] ELSE hbm[p]

(* Faulty: the buffer of the last queued weights is received into.         *)
RecvSlotOfRear(r) == IF queue[r].rear = -1 THEN 0 ELSE queue[r].rear

(* get_recv_buff_address                                                   *)
RecvSlot(r) == EnqueueIdx(queue[r])

BlankDesc == [pos |-> -1, buf |-> 0]

-----------------------------------------------------------------------------
Init ==
    /\ \E m \in InitialMappings :
          /\ view    = m
          /\ mapping = [r \in Rank |-> m]
          /\ hbm     = m
          /\ nums    = [r \in Rank |-> [e \in Expert |-> Cardinality(Replicas(m, e))]]
          /\ selector = [r \in Rank |->
                UpdateSelector(r, m, [e \in Expert |-> Cardinality(Replicas(m, e))],
                               Layer, [e \in Expert |-> 0])]
    /\ dirty     = [r \in Rank |-> {}]
    /\ queue     = [r \in Rank |-> NewQueue(BlankDesc)]
    /\ buffer    = [r \in Rank |-> [s \in Slot |-> NoExpert]]
    /\ changing  = [r \in Rank |-> FALSE]
    /\ plan      = <<>>
    /\ idx       = [r \in Rank |-> 1]
    /\ announced = [r \in Rank |-> Silent]
    /\ status    = [r \in Rank |-> Silent]
    /\ pc        = [r \in Rank |-> "collect"]
    /\ mpc       = [r \in Rank |-> "idle"]
    /\ round     = 0

weightVars == <<mapping, nums, dirty, hbm, queue, buffer, changing>>

(* activations_->collect: an allgather, so all workers leave it together.  *)
(* It ends a round and begins the next one; nothing happens in between.    *)
Collect ==
    /\ \A r \in Rank : pc[r] = "collect"
    /\ round < MaxRounds
    /\ round' = round + 1
    /\ pc'    = [r \in Rank |-> "optimize"]
    /\ plan'  = <<>>
    /\ view'  = mapping[0]
    /\ UNCHANGED <<weightVars, selector, idx, announced, status, mpc>>

(* optimizer_->optimize adds one instruction to the list.  Every rank      *)
(* computes the list from the same mapping and the same gathered counts,   *)
(* so one list stands for all of them.                                     *)
Decide(m) ==
    /\ \A r \in Rank : pc[r] = "optimize"
    /\ Len(plan) < MaxInstructions
    /\ LegalMove(view, m)
    /\ InListOrder(plan, m)
    /\ plan' = Append(plan, Instruction(view, m))
    /\ view' = AfterMove(view, m)
    /\ UNCHANGED <<weightVars, selector, idx, announced, status, pc, mpc, round>>

(* optimize returns; each worker turns to its share of the list.           *)
Dispatch ==
    /\ \A r \in Rank : pc[r] = "optimize"
    /\ pc'  = [r \in Rank |-> "handshake"]
    /\ idx' = [r \in Rank |-> 1]
    /\ UNCHANGED <<weightVars, selector, view, plan, announced, status, mpc, round>>

(* performGlobalHandshake, up to the allgather: the fullness of the queue  *)
(* is read here, without a lock, and announced whatever happens meanwhile. *)
Announce(r) ==
    /\ pc[r] = "handshake"
    /\ announced' = [announced EXCEPT ![r] = Announcement(r)]
    /\ pc' = [pc EXCEPT ![r] = "gather"]
    /\ UNCHANGED <<weightVars, selector, view, plan, idx, status, mpc, round>>

(* The allgather returns once every rank has entered it.                   *)
Gather ==
    /\ \A r \in Rank : pc[r] = "gather"
    /\ status' = announced
    /\ pc' = [r \in Rank |-> "gathered"]
    /\ UNCHANGED <<weightVars, selector, view, plan, idx, announced, mpc, round>>

(* Faulty: the flag is raised without taking the lock.                     *)
LockFreeAlways(r) == TRUE

(* The lock is held by the main thread exactly while it copies.            *)
LockFree(r) == mpc[r] # "copy"

(* Faulty: a rank whose handshake failed goes back to it without entering  *)
(* what the others agreed on.                                              *)
BeginChangeIfAgreed(r) ==
    /\ pc[r] = "gathered"
    /\ LockFree(r)
    /\ IF Busy(r) /\ ~Agreed(r)
       THEN /\ pc' = [pc EXCEPT ![r] = "handshake"]
            /\ UNCHANGED changing
       ELSE /\ pc' = [pc EXCEPT ![r] = "changing"]
            /\ changing' = [changing EXCEPT ![r] = TRUE]
    /\ UNCHANGED <<mapping, nums, dirty, hbm, queue, buffer, selector,
                   view, plan, idx, announced, status, mpc, round>>

(* The positions of an agreed instruction are checked; if they are not     *)
(* what it was decided on, a runtime_error ends the rank.  Otherwise       *)
(* sub_thread_is_changing_ is raised under the lock.                       *)
BeginChange(r) ==
    /\ pc[r] = "gathered"
    /\ IF Busy(r) /\ Agreed(r) /\ ~Consistent(r)
       THEN /\ pc' = [pc EXCEPT ![r] = "failed"]
            /\ UNCHANGED changing
       ELSE /\ LockFree(r)
            /\ pc' = [pc EXCEPT ![r] = "changing"]
            /\ changing' = [changing EXCEPT ![r] = TRUE]
    /\ UNCHANGED <<mapping, nums, dirty, hbm, queue, buffer, selector,
                   view, plan, idx, announced, status, mpc, round>>

(* The gathered announcements are entered in the mapping; then the worker  *)
(* is done with a REMOVE or with the round, goes on to exchange weights,   *)
(* or will try the handshake again.                                        *)
UpdateMapping(r) ==
    LET exchange == Busy(r) /\ ~IsRemove(r) /\ Agreed(r)
    IN
    /\ pc[r] = "changing"
    /\ mapping' = [mapping EXCEPT ![r] = UpdatedMapping(mapping[r], status)]
    /\ nums'    = [nums EXCEPT ![r] = UpdatedNums(nums[r], mapping[r], status)]
    /\ dirty'   = [dirty EXCEPT ![r] = @ \cup {LayerOf(p) : p \in Written(status)}]
    /\ changing' = [changing EXCEPT ![r] = exchange]
    /\ idx' = IF Busy(r) /\ IsRemove(r) THEN [idx EXCEPT ![r] = HeadIdx(r) + 1] ELSE idx
    /\ pc'  = [pc EXCEPT ![r] = IF exchange THEN "swap1"
                                ELSE IF ~Busy(r) /\ Agreed(r) THEN "collect"
                                ELSE "handshake"]
    /\ UNCHANGED <<hbm, queue, buffer, selector, view, plan, announced, status, mpc, round>>

InSwap(r)  == pc[r] \in {"swap1", "swap2"}

(* Faulty: both ends of an exchange send first.                            *)
SendingFirst(r) == pc[r] = "swap1"

(* Distribution::swap: the lower rank sends first, the higher one receives *)
(* first; then the other way round.                                        *)
Sending(r) == (pc[r] = "swap1") = (r < Peer(r))

AfterTransfer(r) == IF pc[r] = "swap1" THEN "swap2" ELSE "enqueue"

(* HcclSend on a meets HcclRecv on b.                                      *)
Transfer(a, b) ==
    /\ InSwap(a) /\ InSwap(b)
    /\ Peer(a) = b /\ Peer(b) = a
    /\ Sending(a) /\ ~Sending(b)
    /\ buffer' = [buffer EXCEPT ![b][RecvSlot(b)] = Latest(a, OwnPosition(a))]
    /\ pc' = [pc EXCEPT ![a] = AfterTransfer(a), ![b] = AfterTransfer(b)]
    /\ UNCHANGED <<mapping, nums, dirty, hbm, queue, changing, selector,
                   view, plan, idx, announced, status, mpc, round>>

(* The received weights are queued, except by the source of an ADD, and    *)
(* the instruction is done.  Enqueue waits while the queue is full.        *)
Finish(r) ==
    /\ pc[r] = "enqueue"
    /\ \/ IsAddSource(r) /\ UNCHANGED queue
       \/ /\ ~IsAddSource(r)
          /\ ~IsFull(queue[r])
          /\ queue' = [queue EXCEPT ![r] =
                          Enqueue(@, [pos |-> OwnPosition(r), buf |-> RecvSlot(r)])]
    /\ changing' = [changing EXCEPT ![r] = FALSE]
    /\ idx' = [idx EXCEPT ![r] = HeadIdx(r) + 1]
    /\ pc'  = [pc EXCEPT ![r] = "handshake"]
    /\ UNCHANGED <<mapping, nums, dirty, hbm, buffer, selector,
                   view, plan, announced, status, mpc, round>>

-----------------------------------------------------------------------------
(* do_placement_optimizer: take the lock; if the worker is changing things *)
(* give it back at once, otherwise keep it while copying.                  *)
MainSkip(r) ==
    /\ mpc[r] = "idle"
    /\ changing[r]
    /\ mpc' = [mpc EXCEPT ![r] = "ready"]
    /\ UNCHANGED <<weightVars, selector, workerVars>>

MainEnter(r) ==
    /\ mpc[r] = "idle"
    /\ ~changing[r]
    /\ mpc' = [mpc EXCEPT ![r] = "copy"]
    /\ UNCHANGED <<weightVars, selector, workerVars>>

(* copyFromCompletedQueueToHBM                                             *)
MainCopy(r) ==
    LET desc == GetFront(queue[r]) IN
    /\ mpc[r] = "copy"
    /\ ~IsEmpty(queue[r])
    /\ queue' = [queue EXCEPT ![r] = Dequeue(@)]
    /\ hbm'   = [hbm EXCEPT ![desc.pos] = buffer[r][desc.buf]]
    /\ UNCHANGED <<mapping, nums, dirty, buffer, changing, selector, workerVars, mpc>>

(* Faulty: the selector is refreshed before the queue is drained.          *)
MainSelectEarly(r) ==
    /\ mpc[r] = "copy"
    /\ selector' = [selector EXCEPT ![r] =
                       UpdateSelector(r, mapping[r], nums[r], dirty[r], @)]
    /\ dirty' = [dirty EXCEPT ![r] = {}]
    /\ mpc'   = [mpc EXCEPT ![r] = "ready"]
    /\ UNCHANGED <<mapping, nums, hbm, queue, buffer, changing, workerVars>>

MainSelect(r) ==
    /\ mpc[r] = "copy"
    /\ IsEmpty(queue[r])
    /\ selector' = [selector EXCEPT ![r] =
                       UpdateSelector(r, mapping[r], nums[r], dirty[r], @)]
    /\ dirty' = [dirty EXCEPT ![r] = {}]
    /\ mpc'   = [mpc EXCEPT ![r] = "ready"]
    /\ UNCHANGED <<mapping, nums, hbm, queue, buffer, changing, workerVars>>

(* The forward pass exchanges tokens among all ranks, so it ends on all.   *)
Forward ==
    /\ \A r \in Rank : mpc[r] = "ready"
    /\ mpc' = [r \in Rank |-> "idle"]
    /\ UNCHANGED <<weightVars, selector, workerVars>>

-----------------------------------------------------------------------------
Worker(r) == Announce(r) \/ BeginChange(r) \/ UpdateMapping(r) \/ Finish(r)
Main(r)   == MainSkip(r) \/ MainEnter(r) \/ MainCopy(r) \/ MainSelect(r)

Next ==
    \/ Collect
    \/ \E m \in Moves : Decide(m)
    \/ Dispatch
    \/ Gather
    \/ \E r \in Rank : Worker(r)
    \/ \E a, b \in Rank : Transfer(a, b)
    \/ \E r \in Rank : Main(r)
    \/ Forward

Spec == Init /\ [][Next]_vars

-----------------------------------------------------------------------------
(* Fairness.  Workers and main threads keep running and collectives        *)
(* complete once everybody has entered them.  The lock is free from time   *)
(* to time: the main thread holds it while copying, once per forward pass. *)
(* A main thread that keeps calling do_placement_optimizer does not meet   *)
(* the flag up each time when the worker lowers it over and over: it is up *)
(* for a mapping update or one exchange, and the worker sleeps 10 ms after *)
(* each failed handshake.                                                  *)
Lowers(r) == changing[r] /\ ~changing'[r]

NotTurnedAwayForEver(r) ==
    []<><<Lowers(r)>>_vars => []<><<MainEnter(r)>>_vars

Fairness ==
    /\ WF_vars(Collect) /\ WF_vars(Dispatch) /\ WF_vars(Gather) /\ WF_vars(Forward)
    /\ \A r \in Rank :
          /\ WF_vars(Announce(r)) /\ WF_vars(UpdateMapping(r)) /\ WF_vars(Finish(r))
          /\ SF_vars(BeginChange(r))
          /\ WF_vars(MainSkip(r) \/ MainEnter(r)) /\ NotTurnedAwayForEver(r)
          /\ WF_vars(MainCopy(r)) /\ WF_vars(MainSelect(r))
          /\ \A s \in Rank : WF_vars(Transfer(r, s))

FairSpec == Spec /\ Fairness

-----------------------------------------------------------------------------
(* Properties.                                                             *)

Desc == [pos : Position \cup {-1}, buf : Slot]

InstructionType ==
    [type            : {"REMOVE"},
     source_rank     : {-1},
     source_position : {-1},
     source_expert   : {NoExpert},
     target_rank     : Rank,
     target_position : Position,
     target_expert   : Expert]
    \cup
    [type            : {"SWAP", "ADD"},
     source_rank     : Rank,
     source_position : Position,
     source_expert   : Expert \cup {NoExpert},
     target_rank     : Rank,
     target_position : Position,
     target_expert   : Expert \cup {NoExpert}]

AnnouncementType ==
    [t : -1 .. WorldSize, pos : Position \cup {-1}, expert : Expert \cup {NoExpert}]

MappingTypeOK ==
    /\ mapping \in [Rank -> [Position -> Expert \cup {NoExpert}]]
    /\ nums    \in [Rank -> [Expert -> Int]]
    /\ dirty   \in [Rank -> SUBSET Layer]

WeightTypeOK ==
    /\ hbm    \in [Position -> Expert \cup {NoExpert}]
    /\ queue  \in [Rank -> Ring(Desc)]
    /\ buffer \in [Rank -> [Slot -> Expert \cup {NoExpert}]]

RoundTypeOK ==
    /\ view      \in [Position -> Expert \cup {NoExpert}]
    /\ plan      \in Seq(InstructionType)
    /\ idx       \in [Rank -> Nat]
    /\ announced \in [Rank -> AnnouncementType]
    /\ status    \in [Rank -> AnnouncementType]
    /\ round     \in Nat

ControlTypeOK ==
    /\ pc       \in [Rank -> {"collect", "optimize", "handshake", "gather", "gathered",
                              "changing", "swap1", "swap2", "enqueue", "failed"}]
    /\ mpc      \in [Rank -> {"idle", "copy", "ready"}]
    /\ changing \in [Rank -> BOOLEAN]

(* Every variable stays in its range: the ring indices of distribution.h   *)
(* inside the ring, the offsets of every instruction and announcement      *)
(* inside the mapping.                                                     *)
TypeOK == MappingTypeOK /\ WeightTypeOK /\ RoundTypeOK /\ ControlTypeOK

(* The main thread copies queued weights and reads the mapping only while  *)
(* its worker is between two changes (placement_manager.cpp 407, 524).     *)
MutualExclusion == \A r \in Rank : ~(changing[r] /\ mpc[r] = "copy")

(* The mapping of r once the gathered announcements are entered.           *)
Settled(r) == IF pc[r] \in {"gathered", "changing", "failed"}
              THEN UpdatedMapping(mapping[r], status)
              ELSE mapping[r]

(* No two ranks ever disagree on the placement: each keeps its own copy,   *)
(* updated at its own pace from the gathered announcements.                *)
MappingAgreement == \A r \in Rank : Settled(r) = Settled(0)

(* Ranks run ahead of each other in the list, yet at no moment does any    *)
(* rank's mapping leave an expert without a position.                      *)
EveryExpertDeployed == \A r \in Rank, e \in Expert : Replicas(mapping[r], e) # {}

(* expert_id_deployed_nums_, kept up to date by +1 and -1, is the number   *)
(* of positions of the expert: the selector's shortcut for 1 relies on it. *)
CountsExact ==
    \A r \in Rank, e \in Expert : nums[r][e] = Cardinality(Replicas(mapping[r], e))

(* Whatever was executed out of list order before it, an instruction finds *)
(* the positions as it was decided on: positionIsConsistency never throws. *)
NeverThrows == \A r \in Rank : pc[r] # "failed"

(* Two ranks never wait in different collectives: nobody gathers a         *)
(* handshake while another has left the round and gathers activations.     *)
OneCollective ==
    (\E r \in Rank : pc[r] \in {"handshake", "gather"})
        => \A s \in Rank : pc[s] \notin {"collect", "optimize"}

(* A worker that leaves the round has exactly the placement the optimizer  *)
(* planned, although no rank executed the list in its order.               *)
RoundReachesPlan == \A r \in Rank : pc[r] = "collect" => mapping[r] = view

(* Between two changes the newest weights a rank has for a position it     *)
(* owns - the last ones queued, or those in HBM - are those of the expert  *)
(* the mapping puts there: weights are queued before the change ends.      *)
LatestIsMapped ==
    \A r \in Rank : ~changing[r] =>
        \A p \in OwnPositions(r) :
            mapping[r][p] # NoExpert => Latest(r, p) = mapping[r][p]

(* Tokens a rank keeps for itself meet the right weights.                  *)
LocalTokensServed ==
    \A r \in Rank, e \in Expert :
        (Owner(selector[r][e]) = r /\ mpc[r] # "copy") => hbm[selector[r][e]] = e

(* The ring of descriptors and the receive buffers of every rank are a     *)
(* bounded first-in first-out queue of weights: no transfer overwrites     *)
(* weights that wait, and nothing overtakes or gets lost, although the     *)
(* worker looks at the queue long before it enqueues.                      *)
WeightsIn(q, b) ==
    [i \in 1 .. q.size |->
        [pos |-> Entry(q, i - 1).pos, weights |-> b[Entry(q, i - 1).buf]]]

QueuedWeights(r) == WeightsIn(queue[r], buffer[r])

Queues == INSTANCE WeightQueues
    WITH Ranks     <- Rank,
         Capacity  <- QUEUE_SIZE,
         Positions <- Position,
         Weights   <- Expert \cup {NoExpert},
         fifo      <- [r \in Rank |-> QueuedWeights(r)]

QueuesAreFifo == Queues!Spec

(* All workers together carry out a round as PlacementRounds says: each    *)
(* instruction takes effect once, at the handshake its two ranks agree in. *)
TakenEffect(r) ==
    IF ~Busy(r) THEN {}
    ELSE IF \/ pc[r] \in {"swap1", "swap2", "enqueue"}
            \/ pc[r] \in {"gathered", "changing", "failed"} /\ Agreed(r)
         THEN {HeadIdx(r)} ELSE {}

PendingInstructions ==
    IF \A r \in Rank : pc[r] = "optimize" THEN DOMAIN plan
    ELSE {j \in DOMAIN plan :
             LET r == plan[j].target_rank IN j \in Remaining(r) \ TakenEffect(r)}

Rounds == INSTANCE PlacementRounds
    WITH Positions  <- Position,
         NoOne      <- NoExpert,
         Placements <- InitialMappings,
         placement  <- Settled(0),
         list       <- plan,
         pending    <- PendingInstructions

RoundsAreAtomic == Rounds!Spec

(* A round, once dispatched, ends on every rank: the pairwise handshakes   *)
(* never wait in a circle and a full queue is drained.                     *)
RoundEnds == (\E r \in Rank : pc[r] = "handshake") ~> (\A r \in Rank : pc[r] = "collect")

=============================================================================
