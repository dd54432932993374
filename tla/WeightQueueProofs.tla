------------------------- MODULE WeightQueueProofs --------------------------
(***************************************************************************)
(* The ring of descriptors and the receive buffers of every rank implement *)
(* the bounded queue of WeightQueues, for every queue size, number of      *)
(* ranks and list of instructions.                                         *)
(***************************************************************************)
EXTENDS ExpertPlacementProofs, SequenceTheorems

-----------------------------------------------------------------------------
(* The inductive invariant.                                                *)

(* No instruction exchanges weights of a rank with itself.                 *)
PlanInv == \A j \in DOMAIN plan : plan[j].source_rank # plan[j].target_rank

(* A rank that announces a peer is removing an expert or has room.         *)
Room(r, a) == a.t # -1 /\ (a.t \in Rank => IsRemove(r) \/ ~IsFull(queue[r]))

(* The room that a rank saw when it announced its peer is still there when *)
(* it receives weights and enqueues them: nobody else enqueues.            *)
RoomInv ==
    \A r \in Rank :
        /\ (pc[r] = "gather" /\ Busy(r)) => Room(r, announced[r])
        /\ (pc[r] \in {"gathered", "changing"} /\ Busy(r)) => Room(r, status[r])
        /\ pc[r] \in {"swap1", "swap2", "enqueue"} => ~IsFull(queue[r])

(* The i-th descriptor from the front owns the receive buffer that has the *)
(* number of its slot, and the next free slot follows the last one.        *)
SlotsInPlace(q) ==
    /\ FreeSlotInPlace(q)
    /\ \A i \in 0 .. q.size - 1 : Entry(q, i).buf = (q.front + i) % QUEUE_SIZE

SlotInv == \A r \in Rank : SlotsInPlace(queue[r])

FifoInv == PlanInv /\ RoomInv /\ SlotInv

LEMMA FifoInit == Init => FifoInv
<1> SUFFICES ASSUME Init PROVE FifoInv
  OBVIOUS
<1>1. PlanInv /\ RoomInv
  BY DEF Init, PlanInv, RoomInv
<1>2. SlotInv
  <2> SUFFICES ASSUME NEW r \in Rank PROVE SlotsInPlace(queue[r])
    BY DEF SlotInv
  <2>1. queue[r] = NewQueue(BlankDesc)
    BY DEF Init
  <2> QED BY <2>1, QueueSizeAssumption DEF NewQueue, SlotsInPlace, FreeSlotInPlace, EnqueueIdx
<1> QED BY <1>1, <1>2 DEF FifoInv

-----------------------------------------------------------------------------
LEMMA PlanStep == CoreInv /\ PlanInv /\ [Next]_vars => PlanInv'
<1> SUFFICES ASSUME CoreInv, PlanInv, [Next]_vars PROVE PlanInv'
  OBVIOUS
<1>1. ASSUME NEW m \in Moves, Decide(m) PROVE PlanInv'
  <2>1. Instruction(view, m).source_rank # Instruction(view, m).target_rank
    <3>1. Holder(m.target) \in Rank
      BY PlacementAssumption, OwnerType DEF Holder, Position
    <3>2. Holder(m.source) # Holder(m.target)
      BY <1>1, <3>1, RankIsNoMinusOne, PlacementAssumption
      DEF Decide, LegalMove, Holder, Position
    <3> QED BY <3>2 DEF Instruction
  <2>2. plan \in Seq(InstructionType)
    BY DEF CoreInv, TypeOK, RoundTypeOK
  <2> QED BY <1>1, <2>1, <2>2 DEF Decide, PlanInv
<1>2. CASE Collect
  BY <1>2 DEF Collect, PlanInv
<1>3. CASE ~Collect /\ ~(\E m \in Moves : Decide(m))
  <2>1. UNCHANGED plan
    BY <1>3 DEF Next, Worker, Main, Dispatch, Gather, Forward, Announce, BeginChange,
       UpdateMapping, Finish, Transfer, MainSkip, MainEnter, MainCopy, MainSelect,
       workerVars, vars
  <2> QED BY <2>1 DEF PlanInv
<1> QED BY <1>1, <1>2, <1>3

(* A rank that is its own peer is removing an expert.                      *)
LEMMA OwnPeerRemoves ==
  ASSUME CoreInv, PlanInv, NEW r \in Rank, Busy(r), Peer(r) = r
  PROVE  IsRemove(r)
<1>1. /\ Current(r).source_rank # Current(r).target_rank
      /\ Concerns(r, Current(r))
  BY CurrentType DEF CoreInv, TypeOK, PlanInv, Remaining, Current
<1> QED BY <1>1 DEF Peer, AsSource, Concerns

LEMMA AnnouncementHasRoom ==
  ASSUME CoreInv, PlanInv, NEW r \in Rank, Busy(r)
  PROVE  Room(r, Announcement(r))
<1>1. Peer(r) \in Rank
  BY RoleType DEF CoreInv, TypeOK
<1>2. WorldSize # -1
  BY GeometryAssumption
<1> QED BY <1>1, <1>2, RankIsNoMinusOne, OwnPeerRemoves DEF Announcement, Room

(* What a rank whose instruction and queue stay the same keeps.            *)
LEMMA RoomStable ==
  ASSUME NEW r \in Rank, plan' = plan, idx'[r] = idx[r],
         IsFull(queue'[r]) => IsFull(queue[r]), NEW a, Room(r, a)
  PROVE  /\ a.t # -1
         /\ a.t \in Rank => IsRemove(r)' \/ ~IsFull(queue'[r])
BY RoleStable DEF Room

LEMMA RoomStep == CoreInv /\ PlanInv /\ RoomInv /\ [Next]_vars => RoomInv'
<1> SUFFICES ASSUME CoreInv, PlanInv, RoomInv, [Next]_vars PROVE RoomInv'
  OBVIOUS
<1> USE DEF CoreInv, TypeOK, ControlTypeOK
<1> DEFINE RoomOf(r) ==
             /\ (pc[r] = "gather" /\ Busy(r)) => Room(r, announced[r])
             /\ (pc[r] \in {"gathered", "changing"} /\ Busy(r)) => Room(r, status[r])
             /\ pc[r] \in {"swap1", "swap2", "enqueue"} => ~IsFull(queue[r])
<1>0. /\ RoomInv <=> \A r \in Rank : RoomOf(r)
      /\ RoomInv' <=> \A r \in Rank : RoomOf(r)'
  BY DEF RoomInv
<1>a. ASSUME NEW s \in Rank, plan' = plan, idx'[s] = idx[s], pc'[s] = pc[s],
             announced'[s] = announced[s], status' = status,
             IsFull(queue'[s]) => IsFull(queue[s])
      PROVE  RoomOf(s)'
  BY <1>0, <1>a, RoleStable DEF Room
<1>1. CASE Collect \/ Dispatch \/ (\E m \in Moves : Decide(m))
  BY <1>0, <1>1 DEF Collect, Dispatch, Decide
<1>2. CASE Gather
  <2> SUFFICES ASSUME NEW r \in Rank PROVE RoomOf(r)'
    BY <1>0
  <2>1. /\ pc[r] = "gather" /\ pc'[r] = "gathered" /\ status'[r] = announced[r]
        /\ UNCHANGED <<plan, idx, queue>>
    BY <1>2 DEF Gather, weightVars
  <2> QED BY <1>0, <2>1, RoleStable DEF Room
<1>3. ASSUME NEW r \in Rank, Announce(r) PROVE RoomInv'
  <2> SUFFICES ASSUME NEW s \in Rank PROVE RoomOf(s)'
    BY <1>0
  <2>1. UNCHANGED <<plan, idx, queue, status>>
    BY <1>3 DEF Announce, weightVars
  <2>2. CASE s = r
    <3>1. pc'[r] = "gather" /\ announced'[r] = Announcement(r)
      BY <1>3 DEF Announce, RoundTypeOK
    <3>2. Busy(r) => Room(r, Announcement(r))
      BY AnnouncementHasRoom
    <3> QED BY <2>1, <2>2, <3>1, <3>2, RoleStable DEF Room
  <2>3. CASE s # r
    <3>1. pc'[s] = pc[s] /\ announced'[s] = announced[s]
      BY <1>3, <2>3 DEF Announce, RoundTypeOK
    <3> QED BY <2>1, <3>1, <1>a
  <2> QED BY <2>2, <2>3
<1>4. ASSUME NEW r \in Rank, BeginChange(r) PROVE RoomInv'
  <2> SUFFICES ASSUME NEW s \in Rank PROVE RoomOf(s)'
    BY <1>0
  <2>1. UNCHANGED <<plan, idx, queue, status, announced>>
    BY <1>4 DEF BeginChange
  <2>2. CASE s = r
    <3>1. pc[r] = "gathered" /\ pc'[r] \in {"changing", "failed"}
      BY <1>4 DEF BeginChange
    <3> QED BY <1>0, <2>1, <2>2, <3>1, RoleStable DEF Room
  <2>3. CASE s # r
    <3>1. pc'[s] = pc[s]
      BY <1>4, <2>3 DEF BeginChange
    <3> QED BY <2>1, <3>1, <1>a
  <2> QED BY <2>2, <2>3
<1>5. ASSUME NEW r \in Rank, UpdateMapping(r) PROVE RoomInv'
  <2> SUFFICES ASSUME NEW s \in Rank PROVE RoomOf(s)'
    BY <1>0
  <2>1. UNCHANGED <<plan, queue, status, announced>>
    BY <1>5 DEF UpdateMapping
  <2>2. CASE s = r
    <3>1. CASE Busy(r) /\ ~IsRemove(r) /\ Agreed(r)
      <4>1. pc[r] = "changing" /\ pc'[r] = "swap1"
        BY <1>5, <3>1 DEF UpdateMapping
      <4>2. ~IsFull(queue[r])
        BY <1>0, <3>1, <4>1 DEF Room, Agreed
      <4> QED BY <2>1, <2>2, <4>1, <4>2
    <3>2. CASE ~(Busy(r) /\ ~IsRemove(r) /\ Agreed(r))
      <4>1. pc'[r] \in {"collect", "handshake"}
        BY <1>5, <3>2 DEF UpdateMapping
      <4> QED BY <2>2, <4>1
    <3> QED BY <3>1, <3>2
  <2>3. CASE s # r
    <3>1. pc'[s] = pc[s] /\ idx'[s] = idx[s]
      BY <1>5, <2>3 DEF UpdateMapping, RoundTypeOK
    <3> QED BY <2>1, <3>1, <1>a
  <2> QED BY <2>2, <2>3
<1>6. ASSUME NEW a \in Rank, NEW b \in Rank, Transfer(a, b) PROVE RoomInv'
  <2> SUFFICES ASSUME NEW s \in Rank PROVE RoomOf(s)'
    BY <1>0
  <2>1. UNCHANGED <<plan, idx, queue, status, announced>>
    BY <1>6 DEF Transfer
  <2>2. CASE s \in {a, b}
    <3>1. pc[s] \in {"swap1", "swap2"} /\ pc'[s] \in {"swap2", "enqueue"}
      BY <1>6, <2>2 DEF Transfer, InSwap, AfterTransfer
    <3> QED BY <1>0, <2>1, <3>1
  <2>3. CASE s \notin {a, b}
    <3>1. pc'[s] = pc[s]
      BY <1>6, <2>3 DEF Transfer
    <3> QED BY <2>1, <3>1, <1>a
  <2> QED BY <2>2, <2>3
<1>7. ASSUME NEW r \in Rank, Finish(r) PROVE RoomInv'
  <2> SUFFICES ASSUME NEW s \in Rank PROVE RoomOf(s)'
    BY <1>0
  <2>1. UNCHANGED <<plan, status, announced>>
    BY <1>7 DEF Finish
  <2>2. CASE s = r
    BY <1>7, <2>2 DEF Finish
  <2>3. CASE s # r
    <3>1. pc'[s] = pc[s] /\ idx'[s] = idx[s] /\ queue'[s] = queue[s]
      BY <1>7, <2>3 DEF Finish, RoundTypeOK, WeightTypeOK
    <3> QED BY <2>1, <3>1, <1>a
  <2> QED BY <2>2, <2>3
<1>8. ASSUME NEW r \in Rank, Main(r) PROVE RoomInv'
  <2> SUFFICES ASSUME NEW s \in Rank PROVE RoomOf(s)'
    BY <1>0
  <2>1. UNCHANGED <<plan, idx, pc, status, announced>>
    BY <1>8 DEF Main, MainSkip, MainEnter, MainCopy, MainSelect, workerVars
  <2>2. IsFull(queue'[s]) => IsFull(queue[s])
    <3>1. CASE MainCopy(r) /\ s = r
      <4>1. /\ queue'[r] = Dequeue(queue[r])
            /\ queue[r] \in Ring(Desc) /\ ~IsEmpty(queue[r])
        BY <3>1 DEF MainCopy, WeightTypeOK
      <4>2. Dequeue(queue[r]).size = queue[r].size - 1 /\ queue[r].size \in 0 .. QUEUE_SIZE
        BY <4>1, DequeueEntries DEF Ring
      <4> QED BY <3>1, <4>1, <4>2, QueueSizeAssumption DEF IsFull
    <3>2. CASE ~(MainCopy(r) /\ s = r)
      <4>1. queue'[s] = queue[s]
        BY <1>8, <3>2 DEF Main, MainSkip, MainEnter, MainCopy, MainSelect, weightVars, WeightTypeOK
      <4> QED BY <4>1
    <3> QED BY <3>1, <3>2
  <2> QED BY <2>1, <2>2, <1>a
<1>9. CASE Forward \/ UNCHANGED vars
  <2> SUFFICES ASSUME NEW s \in Rank PROVE RoomOf(s)'
    BY <1>0
  <2>1. UNCHANGED <<plan, idx, pc, status, announced, queue>>
    BY <1>9 DEF Forward, vars, weightVars, workerVars
  <2> QED BY <2>1, <1>a
<1> QED BY <1>1, <1>2, <1>3, <1>4, <1>5, <1>6, <1>7, <1>8, <1>9 DEF Next, Worker

-----------------------------------------------------------------------------
(* The two operations that touch a ring.                                   *)

LEMMA EnqueueSlots ==
  ASSUME NEW q \in Ring(Desc), NEW d \in Desc, ~IsFull(q), SlotsInPlace(q),
         d.buf = EnqueueIdx(q)
  PROVE  SlotsInPlace(Enqueue(q, d))
<1> DEFINE n == Enqueue(q, d)
<1>1. /\ n.size = q.size + 1
      /\ \A i \in 0 .. q.size - 1 : Entry(n, i) = Entry(q, i)
      /\ Entry(n, q.size) = d
      /\ FreeSlotInPlace(n)
  BY EnqueueEntries DEF SlotsInPlace
<1>2. n.front = q.front /\ q.size \in Int
  BY QueueSizeAssumption DEF Enqueue, Ring
<1> HIDE DEF n
<1>3. ASSUME NEW i \in 0 .. n.size - 1
      PROVE  Entry(n, i).buf = (n.front + i) % QUEUE_SIZE
  <2>1. CASE i = q.size
    BY <1>1, <1>2, <2>1 DEF SlotsInPlace, FreeSlotInPlace
  <2>2. CASE i # q.size
    <3>1. i \in 0 .. q.size - 1
      BY <1>1, <1>2, <2>2
    <3> QED BY <1>1, <1>2, <3>1 DEF SlotsInPlace
  <2> QED BY <2>1, <2>2
<1> QED BY <1>1, <1>3 DEF n, SlotsInPlace

LEMMA DequeueSlots ==
  ASSUME NEW q \in Ring(Desc), ~IsEmpty(q), SlotsInPlace(q)
  PROVE  SlotsInPlace(Dequeue(q))
<1> DEFINE n == Dequeue(q)
<1>1. /\ n.size = q.size - 1
      /\ \A i \in Nat : Entry(n, i) = Entry(q, i + 1)
      /\ \A i \in Nat : (n.front + i) % QUEUE_SIZE = (q.front + (i + 1)) % QUEUE_SIZE
      /\ FreeSlotInPlace(n)
  BY DequeueEntries DEF SlotsInPlace
<1>2. q.size \in Int
  BY QueueSizeAssumption DEF Ring
<1> HIDE DEF n
<1>3. ASSUME NEW i \in 0 .. n.size - 1
      PROVE  Entry(n, i).buf = (n.front + i) % QUEUE_SIZE
  <2>1. i \in Nat /\ i + 1 \in 0 .. q.size - 1
    BY <1>1, <1>2
  <2> QED BY <1>1, <2>1 DEF SlotsInPlace
<1> QED BY <1>1, <1>3 DEF n, SlotsInPlace

LEMMA SlotStep == CoreInv /\ SlotInv /\ [Next]_vars => SlotInv'
<1> SUFFICES ASSUME CoreInv, SlotInv, [Next]_vars PROVE SlotInv'
  OBVIOUS
<1> USE DEF CoreInv, TypeOK, WeightTypeOK
<1>1. ASSUME NEW r \in Rank, Finish(r) PROVE SlotInv'
  <2> SUFFICES ASSUME NEW s \in Rank PROVE SlotsInPlace(queue'[s])
    BY DEF SlotInv, SlotsInPlace, FreeSlotInPlace, EnqueueIdx, Entry
  <2> DEFINE d == [pos |-> OwnPosition(r), buf |-> RecvSlot(r)]
  <2>1. CASE queue'[s] = queue[s]
    BY <2>1 DEF SlotInv
  <2>2. CASE queue'[s] # queue[s]
    <3>1. s = r /\ queue'[r] = Enqueue(queue[r], d) /\ ~IsFull(queue[r])
      BY <1>1, <2>2 DEF Finish
    <3>2. Busy(r)
      BY <1>1 DEF Finish, ExchangeInv
    <3>3. d \in Desc /\ d.buf = EnqueueIdx(queue[r])
      BY <3>2, RoleType, EnqueueIdxType DEF RecvSlot, Desc
    <3> HIDE DEF d
    <3> QED BY <3>1, <3>3, EnqueueSlots DEF SlotInv
  <2> QED BY <2>1, <2>2
<1>2. ASSUME NEW r \in Rank, MainCopy(r) PROVE SlotInv'
  <2> SUFFICES ASSUME NEW s \in Rank PROVE SlotsInPlace(queue'[s])
    BY DEF SlotInv, SlotsInPlace, FreeSlotInPlace, EnqueueIdx, Entry
  <2>1. CASE s # r
    <3>1. queue'[s] = queue[s]
      BY <1>2, <2>1 DEF MainCopy
    <3> QED BY <3>1 DEF SlotInv
  <2>2. CASE s = r
    <3>1. queue'[r] = Dequeue(queue[r]) /\ ~IsEmpty(queue[r])
      BY <1>2 DEF MainCopy
    <3> QED BY <2>2, <3>1, DequeueSlots DEF SlotInv
  <2> QED BY <2>1, <2>2
<1>3. CASE ~(\E r \in Rank : Finish(r) \/ MainCopy(r))
  <2>1. UNCHANGED queue
    BY <1>3 DEF Next, Worker, Main, Collect, Decide, Dispatch, Gather, Forward, Announce,
       BeginChange, UpdateMapping, Transfer, MainSkip, MainEnter, MainSelect,
       weightVars, vars
  <2> QED BY <2>1 DEF SlotInv, SlotsInPlace, FreeSlotInPlace, EnqueueIdx, Entry
<1> QED BY <1>1, <1>2, <1>3

LEMMA FifoInvariant == Spec => [](CoreInv /\ FifoInv)
<1>1. CoreInv /\ FifoInv /\ [Next]_vars => FifoInv'
  BY PlanStep, RoomStep, SlotStep DEF FifoInv
<1> QED
  BY <1>1, CoreInit, CoreStep, FifoInit, PTL DEF Spec

-----------------------------------------------------------------------------
(* The refinement.                                                         *)

Received == [pos : Position \cup {-1}, weights : Expert \cup {NoExpert}]

Fifos == [r \in Rank |-> QueuedWeights(r)]

LEMMA WeightsInType ==
  ASSUME NEW q \in Ring(Desc), NEW b \in [Slot -> Expert \cup {NoExpert}]
  PROVE  /\ WeightsIn(q, b) \in Seq(Received)
         /\ Len(WeightsIn(q, b)) = q.size
         /\ q.size \in Nat /\ q.size <= QUEUE_SIZE
         /\ \A i \in 1 .. q.size :
               WeightsIn(q, b)[i] =
                  [pos |-> Entry(q, i - 1).pos, weights |-> b[Entry(q, i - 1).buf]]
<1>1. q.size \in Nat /\ q.size <= QUEUE_SIZE
  BY QueueSizeAssumption DEF Ring
<1>2. ASSUME NEW i \in 1 .. q.size
      PROVE  [pos |-> Entry(q, i - 1).pos, weights |-> b[Entry(q, i - 1).buf]] \in Received
  <2>1. i - 1 \in Nat
    BY <1>1
  <2>2. Entry(q, i - 1) \in Desc
    BY <2>1, EntryType
  <2> QED BY <2>2 DEF Desc, Received
<1>3. WeightsIn(q, b) \in [1 .. q.size -> Received]
  BY <1>2 DEF WeightsIn
<1>4. WeightsIn(q, b) \in Seq(Received)
  BY <1>1, <1>3, SeqDef
<1>5. Len(WeightsIn(q, b)) = q.size
  BY <1>1, <1>3, <1>4, LenProperties
<1> QED BY <1>1, <1>4, <1>5 DEF WeightsIn

(* On the weights they stand for, Enqueue is Append and Dequeue is Tail.   *)
LEMMA EnqueueAppends ==
  ASSUME NEW q \in Ring(Desc), NEW b \in [Slot -> Expert \cup {NoExpert}], NEW d \in Desc,
         ~IsFull(q), SlotsInPlace(q)
  PROVE  WeightsIn(Enqueue(q, d), b)
            = Append(WeightsIn(q, b), [pos |-> d.pos, weights |-> b[d.buf]])
<1> DEFINE n == Enqueue(q, d)
           e == [pos |-> d.pos, weights |-> b[d.buf]]
<1>1. n \in Ring(Desc)
  BY EnqueueType
<1>2. /\ n.size = q.size + 1
      /\ \A i \in 0 .. q.size - 1 : Entry(n, i) = Entry(q, i)
      /\ Entry(n, q.size) = d
  BY EnqueueEntries DEF SlotsInPlace
<1> HIDE DEF n
<1>3. /\ WeightsIn(n, b) \in Seq(Received)
      /\ Len(WeightsIn(n, b)) = n.size
      /\ \A i \in 1 .. n.size :
            WeightsIn(n, b)[i] =
               [pos |-> Entry(n, i - 1).pos, weights |-> b[Entry(n, i - 1).buf]]
  BY <1>1, WeightsInType
<1>4. /\ WeightsIn(q, b) \in Seq(Received)
      /\ Len(WeightsIn(q, b)) = q.size
      /\ q.size \in Nat
      /\ \A i \in 1 .. q.size :
            WeightsIn(q, b)[i] =
               [pos |-> Entry(q, i - 1).pos, weights |-> b[Entry(q, i - 1).buf]]
  BY WeightsInType
<1>5. e \in Received
  BY DEF Desc, Received
<1>6. /\ Append(WeightsIn(q, b), e) \in Seq(Received)
      /\ Len(Append(WeightsIn(q, b), e)) = q.size + 1
      /\ \A i \in 1 .. q.size : Append(WeightsIn(q, b), e)[i] = WeightsIn(q, b)[i]
      /\ Append(WeightsIn(q, b), e)[q.size + 1] = e
  <2> HIDE DEF e
  <2> QED BY <1>4, <1>5, AppendProperties
<1>7. ASSUME NEW i \in 1 .. q.size + 1
      PROVE  WeightsIn(n, b)[i] = Append(WeightsIn(q, b), e)[i]
  <2>1. CASE i = q.size + 1
    <3>1. i - 1 = q.size /\ i \in 1 .. n.size
      BY <1>2, <1>4, <2>1
    <3>2. WeightsIn(n, b)[i] = e
      BY <1>2, <1>3, <3>1
    <3> QED BY <1>6, <2>1, <3>2
  <2>2. CASE i # q.size + 1
    <3>1. i \in 1 .. q.size /\ i \in 1 .. n.size /\ i - 1 \in 0 .. q.size - 1
      BY <1>2, <1>4, <2>2
    <3>2. WeightsIn(n, b)[i] = WeightsIn(q, b)[i]
      BY <1>2, <1>3, <1>4, <3>1
    <3> QED BY <1>6, <3>1, <3>2
  <2> QED BY <2>1, <2>2
<1> HIDE DEF e
<1>8. WeightsIn(n, b) = Append(WeightsIn(q, b), e)
  BY <1>2, <1>3, <1>6, <1>7, SeqEqual
<1> QED BY <1>8 DEF n, e

LEMMA DequeueTails ==
  ASSUME NEW q \in Ring(Desc), NEW b \in [Slot -> Expert \cup {NoExpert}], ~IsEmpty(q)
  PROVE  /\ WeightsIn(q, b) # <<>>
         /\ WeightsIn(Dequeue(q), b) = Tail(WeightsIn(q, b))
<1> DEFINE n == Dequeue(q)
           t == Tail(WeightsIn(q, b))
<1>1. n \in Ring(Desc)
  BY DequeueType
<1>2. /\ n.size = q.size - 1
      /\ \A i \in Nat : Entry(n, i) = Entry(q, i + 1)
  BY DequeueEntries
<1> HIDE DEF n
<1>3. /\ WeightsIn(n, b) \in Seq(Received)
      /\ Len(WeightsIn(n, b)) = n.size
      /\ \A i \in 1 .. n.size :
            WeightsIn(n, b)[i] =
               [pos |-> Entry(n, i - 1).pos, weights |-> b[Entry(n, i - 1).buf]]
  BY <1>1, WeightsInType
<1>4. /\ WeightsIn(q, b) \in Seq(Received)
      /\ Len(WeightsIn(q, b)) = q.size
      /\ q.size \in Nat
      /\ \A i \in 1 .. q.size :
            WeightsIn(q, b)[i] =
               [pos |-> Entry(q, i - 1).pos, weights |-> b[Entry(q, i - 1).buf]]
  BY WeightsInType
<1>5. WeightsIn(q, b) # <<>>
  BY <1>4, EmptySeq DEF IsEmpty
<1>6. /\ t \in Seq(Received)
      /\ Len(t) = q.size - 1
      /\ \A i \in 1 .. q.size - 1 : t[i] = WeightsIn(q, b)[i + 1]
  <2>1. /\ t \in Seq(Received)
        /\ Len(t) = Len(WeightsIn(q, b)) - 1
        /\ \A i \in 1 .. Len(t) : t[i] = WeightsIn(q, b)[i + 1]
    BY <1>4, <1>5, HeadTailProperties
  <2> HIDE DEF t
  <2>2. Len(t) = q.size - 1
    BY <1>4, <2>1
  <2> QED BY <2>1, <2>2
<1> HIDE DEF t
<1>7. ASSUME NEW i \in 1 .. n.size PROVE WeightsIn(n, b)[i] = t[i]
  <2>1. /\ i \in Int /\ i \in 1 .. q.size - 1
        /\ i + 1 \in 1 .. q.size
    <3>1. n.size = q.size - 1 /\ q.size \in Nat
      BY <1>2, <1>4
    <3> QED BY <3>1
  <2>2. i - 1 \in Nat /\ (i - 1) + 1 = i /\ (i + 1) - 1 = i
    BY <2>1
  <2>3. Entry(n, i - 1) = Entry(q, i)
    BY <1>2, <2>2
  <2>4. WeightsIn(q, b)[i + 1] = [pos |-> Entry(q, i).pos, weights |-> b[Entry(q, i).buf]]
    BY <1>4, <2>1, <2>2
  <2> QED BY <1>3, <1>6, <2>1, <2>3, <2>4
<1>8. WeightsIn(n, b) = t
  BY <1>2, <1>3, <1>6, <1>7, SeqEqual
<1> QED BY <1>5, <1>8 DEF n, t

LEMMA QueueTypes ==
  ASSUME CoreInv, NEW r \in Rank
  PROVE  queue[r] \in Ring(Desc) /\ buffer[r] \in [Slot -> Expert \cup {NoExpert}]
BY DEF CoreInv, TypeOK, WeightTypeOK

LEMMA RefineInit == Init => Queues!Init
<1> SUFFICES ASSUME Init, NEW r \in Rank PROVE QueuedWeights(r) = <<>>
  BY DEF Queues!Init
<1>1. queue[r].size = 0
  BY DEF Init, NewQueue
<1>2. CoreInv
  BY CoreInit
<1> QED BY <1>1, <1>2, QueueTypes, WeightsInType, EmptySeq DEF QueuedWeights

(* A transfer fills the one slot that no queued descriptor names.          *)
LEMMA TransferKeepsQueued ==
  ASSUME CoreInv, FifoInv, NEW a \in Rank, NEW b \in Rank, Transfer(a, b), NEW r \in Rank
  PROVE  QueuedWeights(r)' = QueuedWeights(r)
<1>1. queue' = queue
  BY DEF Transfer
<1>2. CASE r # b
  <2>1. buffer'[r] = buffer[r]
    BY <1>2 DEF Transfer, CoreInv, TypeOK, WeightTypeOK
  <2> QED BY <1>1, <2>1 DEF QueuedWeights, WeightsIn, Entry
<1>3. CASE r = b
  <2>1. /\ queue[b] \in Ring(Desc) /\ ~IsFull(queue[b]) /\ SlotsInPlace(queue[b])
        /\ queue[b].size \in Int
    BY QueueSizeAssumption
    DEF Transfer, InSwap, CoreInv, TypeOK, WeightTypeOK, FifoInv, RoomInv, SlotInv, Ring
  <2>2. ASSUME NEW i \in 1 .. queue[b].size
        PROVE  buffer'[b][Entry(queue[b], i - 1).buf] = buffer[b][Entry(queue[b], i - 1).buf]
    <3>1. i - 1 \in 0 .. queue[b].size - 1
      BY <2>1
    <3>2. Entry(queue[b], i - 1).buf # RecvSlot(b)
      BY <2>1, <3>1, EntrySlotNotFree DEF SlotsInPlace, RecvSlot
    <3>3. Entry(queue[b], i - 1) \in Desc
      BY <2>1, <3>1, EntryType
    <3> QED BY <3>2, <3>3 DEF Transfer, CoreInv, TypeOK, WeightTypeOK, Desc
  <2> QED BY <1>1, <1>3, <2>2 DEF QueuedWeights, WeightsIn, Entry
<1> QED BY <1>2, <1>3

(* What it has received ends up behind what waits.                         *)
LEMMA FinishAppends ==
  ASSUME CoreInv, FifoInv, NEW r \in Rank, Finish(r), ~IsAddSource(r)
  PROVE  /\ ~IsFull(queue[r]) /\ OwnPosition(r) \in Position
         /\ buffer[r][RecvSlot(r)] \in Expert \cup {NoExpert}
         /\ QueuedWeights(r)' = Append(QueuedWeights(r),
               [pos |-> OwnPosition(r), weights |-> buffer[r][RecvSlot(r)]])
         /\ \A s \in Rank : s # r => QueuedWeights(s)' = QueuedWeights(s)
<1> DEFINE d == [pos |-> OwnPosition(r), buf |-> RecvSlot(r)]
           e == [pos |-> OwnPosition(r), weights |-> buffer[r][RecvSlot(r)]]
<1>1. /\ ~IsFull(queue[r]) /\ SlotsInPlace(queue[r])
      /\ queue' = [queue EXCEPT ![r] = Enqueue(queue[r], d)]
      /\ buffer' = buffer
  BY DEF Finish, CoreInv, TypeOK, WeightTypeOK, FifoInv, SlotInv
<1>2. /\ OwnPosition(r) \in Position /\ RecvSlot(r) \in Slot
      /\ buffer[r][RecvSlot(r)] \in Expert \cup {NoExpert}
  <2>1. Busy(r)
    BY DEF Finish, CoreInv, ExchangeInv
  <2>2. RecvSlot(r) \in Slot
    BY QueueTypes, EnqueueIdxType DEF RecvSlot
  <2> QED BY <2>1, <2>2, RoleType, QueueTypes DEF CoreInv, TypeOK
<1>3. QueuedWeights(r)' = Append(QueuedWeights(r), e)
  <2>1. d \in Desc
    BY <1>2 DEF Desc
  <2>2. WeightsIn(Enqueue(queue[r], d), buffer[r]) = Append(WeightsIn(queue[r], buffer[r]), e)
    BY <1>1, <2>1, QueueTypes, EnqueueAppends
  <2>3. queue'[r] = Enqueue(queue[r], d)
    BY <1>1 DEF CoreInv, TypeOK, WeightTypeOK
  <2>4. QueuedWeights(r)' = WeightsIn(queue'[r], buffer'[r])
    BY DEF QueuedWeights, WeightsIn, Entry
  <2> QED BY <1>1, <2>2, <2>3, <2>4 DEF QueuedWeights
<1>4. ASSUME NEW s \in Rank, s # r PROVE QueuedWeights(s)' = QueuedWeights(s)
  <2>1. queue'[s] = queue[s]
    BY <1>1, <1>4 DEF CoreInv, TypeOK, WeightTypeOK
  <2> QED BY <1>1, <2>1 DEF QueuedWeights, WeightsIn, Entry
<1> QED BY <1>1, <1>2, <1>3, <1>4

LEMMA FinishPuts ==
  ASSUME CoreInv, FifoInv, NEW r \in Rank, Finish(r), queue'[r] # queue[r]
  PROVE  Queues!Put(r)
<1> DEFINE e == [pos |-> OwnPosition(r), weights |-> buffer[r][RecvSlot(r)]]
<1>1. ~IsAddSource(r)
  BY DEF Finish
<1>2. /\ ~IsFull(queue[r]) /\ OwnPosition(r) \in Position
      /\ buffer[r][RecvSlot(r)] \in Expert \cup {NoExpert}
      /\ QueuedWeights(r)' = Append(QueuedWeights(r), e)
      /\ \A s \in Rank : s # r => QueuedWeights(s)' = QueuedWeights(s)
  BY <1>1, FinishAppends
<1>3. Len(QueuedWeights(r)) < QUEUE_SIZE
  <2>1. /\ Len(QueuedWeights(r)) = queue[r].size
        /\ queue[r].size \in Nat /\ queue[r].size <= QUEUE_SIZE
    BY QueueTypes, WeightsInType DEF QueuedWeights
  <2> QED BY <1>2, <2>1, QueueSizeAssumption DEF IsFull
<1>4. Len(QueuedWeights(r)') = Len(QueuedWeights(r)) + 1
  <2>1. QueuedWeights(r) \in Seq(Received)
    BY QueueTypes, WeightsInType DEF QueuedWeights
  <2>2. e \in Received
    BY <1>2 DEF Received
  <2> QED BY <2>1, <2>2, <1>2, AppendProperties
<1> QED BY <1>2, <1>3, <1>4 DEF Queues!Put

LEMMA MainCopyTakes ==
  ASSUME CoreInv, NEW r \in Rank, MainCopy(r)
  PROVE  Queues!Take(r)
<1>1. /\ ~IsEmpty(queue[r])
      /\ queue' = [queue EXCEPT ![r] = Dequeue(queue[r])]
      /\ buffer' = buffer
  BY DEF MainCopy
<1>2. QueuedWeights(r) # <<>> /\ QueuedWeights(r)' = Tail(QueuedWeights(r))
  <2>1. /\ WeightsIn(queue[r], buffer[r]) # <<>>
        /\ WeightsIn(Dequeue(queue[r]), buffer[r]) = Tail(WeightsIn(queue[r], buffer[r]))
    BY <1>1, QueueTypes, DequeueTails
  <2>2. queue'[r] = Dequeue(queue[r])
    BY <1>1 DEF CoreInv, TypeOK, WeightTypeOK
  <2>3. QueuedWeights(r)' = WeightsIn(queue'[r], buffer'[r])
    BY DEF QueuedWeights, WeightsIn, Entry
  <2> QED BY <1>1, <2>1, <2>2, <2>3 DEF QueuedWeights
<1>3. ASSUME NEW s \in Rank, s # r PROVE QueuedWeights(s)' = QueuedWeights(s)
  <2>1. queue'[s] = queue[s]
    BY <1>1, <1>3 DEF CoreInv, TypeOK, WeightTypeOK
  <2> QED BY <1>1, <2>1 DEF QueuedWeights, WeightsIn, Entry
<1> QED BY <1>2, <1>3 DEF Queues!Take

LEMMA RefineStep ==
  CoreInv /\ FifoInv /\ [Next]_vars => [Queues!Next]_Fifos
<1> SUFFICES ASSUME CoreInv, FifoInv, [Next]_vars PROVE [Queues!Next]_Fifos
  OBVIOUS
<1>1. ASSUME UNCHANGED <<queue, buffer>> PROVE UNCHANGED Fifos
  BY <1>1 DEF Fifos, QueuedWeights, WeightsIn, Entry
<1>2. ASSUME NEW a \in Rank, NEW b \in Rank, Transfer(a, b) PROVE UNCHANGED Fifos
  BY <1>2, TransferKeepsQueued DEF Fifos
<1>3. ASSUME NEW r \in Rank, Finish(r) PROVE [Queues!Next]_Fifos
  <2>1. CASE queue'[r] = queue[r]
    <3>1. UNCHANGED <<queue, buffer>>
      BY <1>3, <2>1 DEF Finish, CoreInv, TypeOK, WeightTypeOK
    <3> QED BY <1>1, <3>1
  <2>2. CASE queue'[r] # queue[r]
    BY <1>3, <2>2, FinishPuts DEF Queues!Next
  <2> QED BY <2>1, <2>2
<1>4. ASSUME NEW r \in Rank, MainCopy(r) PROVE [Queues!Next]_Fifos
  BY <1>4, MainCopyTakes DEF Queues!Next
<1>5. CASE ~(\E r \in Rank : Finish(r) \/ MainCopy(r)) /\ ~(\E a, b \in Rank : Transfer(a, b))
  <2>1. UNCHANGED <<queue, buffer>>
    BY <1>5 DEF Next, Worker, Main, Collect, Decide, Dispatch, Gather, Forward, Announce,
       BeginChange, UpdateMapping, MainSkip, MainEnter, MainSelect, weightVars, vars
  <2> QED BY <1>1, <2>1
<1> QED BY <1>2, <1>3, <1>4, <1>5

(* QueuesAreFifo: no weights that wait to be copied are overwritten, lost  *)
(* or overtaken, whatever the ranks exchange while they wait               *)
(* (distribution.h 78-182, distribution.cpp 84-168).                       *)
THEOREM QueuesImplementFifo == Spec => QueuesAreFifo
<1>1. Spec => []CoreInv /\ []FifoInv
  BY FifoInvariant, PTL
<1>2. [][Next]_vars /\ []CoreInv /\ []FifoInv => [][Queues!Next]_Fifos
  BY RefineStep, PTL
<1>3. Spec => Queues!Init /\ [][Queues!Next]_Fifos
  BY <1>1, <1>2, RefineInit, PTL DEF Spec
<1> QED BY <1>3, PTL DEF QueuesAreFifo, Queues!Spec, Fifos

-----------------------------------------------------------------------------
(* The newest weights for a position, by what waits (w) and lies in HBM.   *)

NewestIs(w, p, h, x) ==
    \/ x = h /\ \A i \in 1 .. Len(w) : w[i].pos # p
    \/ \E i \in 1 .. Len(w) : /\ w[i].pos = p /\ w[i].weights = x
                              /\ \A j \in 1 .. Len(w) : j > i => w[j].pos # p

LEMMA NewestUnique ==
  ASSUME NEW w \in Seq(Received), NEW p, NEW h, NEW x, NEW y,
         NewestIs(w, p, h, x), NewestIs(w, p, h, y)
  PROVE  x = y
<1>1. Len(w) \in Nat
  OBVIOUS
<1>2. CASE \A i \in 1 .. Len(w) : w[i].pos # p
  BY <1>2 DEF NewestIs
<1>3. CASE ~(\A i \in 1 .. Len(w) : w[i].pos # p)
  <2>1. PICK i \in 1 .. Len(w) : /\ w[i].pos = p /\ w[i].weights = x
                                 /\ \A j \in 1 .. Len(w) : j > i => w[j].pos # p
    BY <1>3 DEF NewestIs
  <2>2. PICK k \in 1 .. Len(w) : /\ w[k].pos = p /\ w[k].weights = y
                                 /\ \A j \in 1 .. Len(w) : j > k => w[j].pos # p
    BY <1>3 DEF NewestIs
  <2>3. ~(i < k) /\ ~(k < i)
    BY <1>1, <2>1, <2>2
  <2>4. i = k
    BY <1>1, <2>3
  <2> QED BY <2>1, <2>2, <2>4
<1> QED BY <1>2, <1>3

LEMMA NewestAppended ==
  ASSUME NEW w \in Seq(Received), NEW d \in Received, NEW p, NEW h, NEW x, NewestIs(w, p, h, x)
  PROVE  NewestIs(Append(w, d), p, h, IF d.pos = p THEN d.weights ELSE x)
<1> DEFINE v == Append(w, d)
           n == Len(w) + 1
<1>1. /\ Len(w) \in Nat /\ Len(v) = n /\ v[n] = d
      /\ \A i \in 1 .. Len(w) : v[i] = w[i]
  BY AppendProperties
<1> HIDE DEF v
<1>2. CASE d.pos = p
  BY <1>1, <1>2 DEF NewestIs
<1>3. CASE d.pos # p
  <2>1. CASE x = h /\ \A i \in 1 .. Len(w) : w[i].pos # p
    <3>1. \A i \in 1 .. Len(v) : v[i].pos # p
      <4> TAKE i \in 1 .. Len(v)
      <4>1. i = n \/ i \in 1 .. Len(w)
        BY <1>1
      <4> QED BY <1>1, <1>3, <2>1, <4>1
    <3> QED BY <1>3, <2>1, <3>1 DEF NewestIs, v
  <2>2. ASSUME NEW i \in 1 .. Len(w), w[i].pos = p, w[i].weights = x,
               \A j \in 1 .. Len(w) : j > i => w[j].pos # p
        PROVE  NewestIs(v, p, h, x)
    <3>1. i \in 1 .. Len(v) /\ v[i] = w[i]
      BY <1>1
    <3>2. ASSUME NEW j \in 1 .. Len(v), j > i PROVE v[j].pos # p
      <4>1. j = n \/ j \in 1 .. Len(w)
        BY <1>1
      <4> QED BY <1>1, <1>3, <2>2, <3>2, <4>1
    <3> QED BY <2>2, <3>1, <3>2 DEF NewestIs
  <2> QED BY <1>3, <2>1, <2>2 DEF NewestIs, v
<1> QED BY <1>2, <1>3 DEF v

(* Taking the first of what waits to HBM leaves the newest as it is.       *)
LEMMA NewestTaken ==
  ASSUME NEW w \in Seq(Received), w # <<>>, NEW p, NEW h, NEW x, NewestIs(w, p, h, x)
  PROVE  NewestIs(Tail(w), p, IF w[1].pos = p THEN w[1].weights ELSE h, x)
<1> DEFINE v == Tail(w)
           g == IF w[1].pos = p THEN w[1].weights ELSE h
<1>1. /\ Len(w) \in Nat /\ Len(w) # 0 /\ Len(v) = Len(w) - 1
      /\ \A i \in 1 .. Len(v) : v[i] = w[i + 1]
  BY HeadTailProperties, EmptySeq
<1> HIDE DEF v
<1>2. \A i \in 1 .. Len(v) : i + 1 \in 1 .. Len(w)
  BY <1>1
<1>3. CASE \A i \in 1 .. Len(w) : i # 1 => w[i].pos # p
  <2>1. \A i \in 1 .. Len(v) : v[i].pos # p
    BY <1>1, <1>2, <1>3
  <2>2. x = g
    <3>1. 1 \in 1 .. Len(w)
      BY <1>1
    <3> QED BY <1>3, <3>1 DEF NewestIs
  <2> QED BY <2>1, <2>2 DEF NewestIs, v
<1>4. CASE ~(\A i \in 1 .. Len(w) : i # 1 => w[i].pos # p)
  <2>1. PICK i \in 1 .. Len(w) : /\ w[i].pos = p /\ w[i].weights = x
                                 /\ \A j \in 1 .. Len(w) : j > i => w[j].pos # p
    BY <1>4 DEF NewestIs
  <2>2. i > 1
    BY <1>1, <1>4, <2>1
  <2>3. i - 1 \in 1 .. Len(v) /\ v[i - 1] = w[i]
    BY <1>1, <2>2
  <2>4. ASSUME NEW j \in 1 .. Len(v), j > i - 1 PROVE v[j].pos # p
    <3>1. j + 1 \in 1 .. Len(w) /\ j + 1 > i
      BY <1>1, <2>4
    <3> QED BY <1>1, <2>1, <3>1
  <2> QED BY <2>1, <2>3, <2>4 DEF NewestIs, v
<1> QED BY <1>3, <1>4

LEMMA LatestIsNewest ==
  CoreInv => \A r \in Rank, p \in Position :
                /\ QueuedWeights(r) \in Seq(Received)
                /\ NewestIs(QueuedWeights(r), p, hbm[p], Latest(r, p))
<1> SUFFICES ASSUME CoreInv, NEW r \in Rank, NEW p \in Position
             PROVE  /\ QueuedWeights(r) \in Seq(Received)
                    /\ NewestIs(QueuedWeights(r), p, hbm[p], Latest(r, p))
  OBVIOUS
<1> DEFINE w == QueuedWeights(r)
           q == queue[r]
<1>1. /\ q \in Ring(Desc)
      /\ w \in Seq(Received) /\ Len(w) = q.size /\ q.size \in Nat
      /\ \A i \in 1 .. q.size :
            w[i] = [pos |-> Entry(q, i - 1).pos, weights |-> buffer[r][Entry(q, i - 1).buf]]
  BY QueueTypes, WeightsInType DEF QueuedWeights
<1> HIDE DEF w, q
<1>2. ASSUME NEW i \in 1 .. q.size
      PROVE  w[i].pos = Entry(q, i - 1).pos /\ w[i].weights = buffer[r][Entry(q, i - 1).buf]
  <2>1. w[i] = [pos |-> Entry(q, i - 1).pos, weights |-> buffer[r][Entry(q, i - 1).buf]]
    BY <1>1, Zenon
  <2> QED BY <2>1
<1>3. CASE Queued(r, p)
  <2>1. RearIndices(q, p) # {}
    BY <1>3 DEF Queued, q
  <2>2. PICK k \in RearIndices(q, p) :
           /\ GetRear(q, p) = Entry(q, k) /\ \A j \in RearIndices(q, p) : j <= k
    BY <1>1, <2>1, GetRearIsLast
  <2> DEFINE i == k + 1
  <2>3. /\ k \in 0 .. q.size - 1 /\ i \in 1 .. q.size /\ i - 1 = k
        /\ Entry(q, k).pos = p
    BY <1>1, <2>2 DEF RearIndices
  <2>4. w[i].pos = p /\ w[i].weights = Latest(r, p)
    BY <1>3, <1>2, <2>2, <2>3 DEF Latest, q
  <2>5. ASSUME NEW j \in 1 .. q.size, j > i PROVE w[j].pos # p
    <3>1. j - 1 \in 0 .. q.size - 1 /\ ~(j - 1 <= k)
      BY <1>1, <2>3, <2>5
    <3>2. Entry(q, j - 1).pos # p
      BY <2>2, <3>1 DEF RearIndices
    <3> QED BY <1>2, <3>2
  <2> QED BY <1>1, <2>3, <2>4, <2>5 DEF NewestIs, w
<1>4. CASE ~Queued(r, p)
  <2>1. Latest(r, p) = hbm[p]
    BY <1>4 DEF Latest
  <2>2. ASSUME NEW i \in 1 .. q.size PROVE w[i].pos # p
    <3>1. i - 1 \in 0 .. q.size - 1
      BY <1>1
    <3>2. Entry(q, i - 1).pos # p
      BY <1>4, <3>1 DEF Queued, RearIndices, q
    <3> QED BY <1>2, <3>2
  <2> QED BY <1>1, <2>1, <2>2 DEF NewestIs, w
<1> QED BY <1>1, <1>3, <1>4 DEF w


-----------------------------------------------------------------------------
(* What happens to the newest weights of a rank for a position it owns:    *)
(* only the end of an exchange replaces them, by what was received.        *)

(* Ranks queue weights for positions of their own only.                    *)
QueueInv ==
    \A r \in Rank : \A i \in 1 .. Len(QueuedWeights(r)) :
        QueuedWeights(r)[i].pos \in OwnPositions(r)

LEMMA DequeueShrinks == ASSUME NEW q \in Ring(Desc) PROVE Dequeue(q) # q
<1>1. Dequeue(q).size = q.size - 1 /\ q.size \in Int
  BY QueueSizeAssumption DEF Dequeue, Ring
<1> QED BY <1>1

LEMMA QueuedChange ==
  ASSUME CoreInv, FifoInv, [Next]_vars, NEW r \in Rank
  PROVE  \/ Finish(r) /\ ~IsAddSource(r)
         \/ MainCopy(r) /\ QueuedWeights(r) # <<>> /\ QueuedWeights(r)' = Tail(QueuedWeights(r))
         \/ ~MainCopy(r) /\ QueuedWeights(r)' = QueuedWeights(r)
<1>1. ASSUME UNCHANGED <<queue, buffer>>
      PROVE  ~MainCopy(r) /\ QueuedWeights(r)' = QueuedWeights(r)
  <2>1. ASSUME MainCopy(r) PROVE FALSE
    <3>1. queue[r] \in Ring(Desc) /\ queue'[r] = Dequeue(queue[r]) /\ ~IsEmpty(queue[r])
      BY <2>1, QueueTypes DEF MainCopy, CoreInv, TypeOK, WeightTypeOK
    <3> QED BY <1>1, <3>1, DequeueShrinks
  <2> QED BY <1>1, <2>1 DEF QueuedWeights, WeightsIn, Entry
<1>2. ASSUME NEW a \in Rank, NEW b \in Rank, Transfer(a, b)
      PROVE  ~MainCopy(r) /\ QueuedWeights(r)' = QueuedWeights(r)
  BY <1>2, TransferKeepsQueued DEF Transfer, MainCopy, workerVars, InSwap, AfterTransfer,
     CoreInv, TypeOK, ControlTypeOK
<1>3. ASSUME NEW s \in Rank, Finish(s), ~(s = r /\ ~IsAddSource(r))
      PROVE  ~MainCopy(r) /\ QueuedWeights(r)' = QueuedWeights(r)
  <2>1. ~MainCopy(r)
    BY <1>3 DEF Finish, MainCopy, workerVars, CoreInv, TypeOK, ControlTypeOK
  <2>2. CASE IsAddSource(s)
    <3>1. UNCHANGED <<queue, buffer>>
      BY <1>3, <2>2 DEF Finish
    <3> QED BY <1>1, <3>1
  <2>3. CASE ~IsAddSource(s)
    BY <1>3, <2>1, <2>3, FinishAppends
  <2> QED BY <2>2, <2>3
<1>4. ASSUME NEW s \in Rank, MainCopy(s)
      PROVE  IF s = r
             THEN QueuedWeights(r) # <<>> /\ QueuedWeights(r)' = Tail(QueuedWeights(r))
             ELSE ~MainCopy(r) /\ QueuedWeights(r)' = QueuedWeights(r)
  <2>1. Queues!Take(s)
    BY <1>4, MainCopyTakes
  <2>2. CASE s = r
    BY <2>1, <2>2 DEF Queues!Take
  <2>3. CASE s # r
    <3>1. queue'[r] = queue[r] /\ buffer' = buffer
      BY <1>4, <2>3 DEF MainCopy, CoreInv, TypeOK, WeightTypeOK
    <3>2. QueuedWeights(r)' = QueuedWeights(r)
      BY <3>1 DEF QueuedWeights, WeightsIn, Entry
    <3>3. ASSUME MainCopy(r) PROVE FALSE
      <4>1. queue[r] \in Ring(Desc) /\ queue'[r] = Dequeue(queue[r]) /\ ~IsEmpty(queue[r])
        BY <3>3, QueueTypes DEF MainCopy, CoreInv, TypeOK, WeightTypeOK
      <4> QED BY <3>1, <4>1, DequeueShrinks
    <3> QED BY <2>3, <3>2, <3>3
  <2> QED BY <2>2, <2>3
<1>5. CASE ~(\E s \in Rank : Finish(s) \/ MainCopy(s)) /\ ~(\E a, b \in Rank : Transfer(a, b))
  <2>1. UNCHANGED <<queue, buffer>>
    BY <1>5 DEF Next, Worker, Main, Collect, Decide, Dispatch, Gather, Forward, Announce,
       BeginChange, UpdateMapping, MainSkip, MainEnter, MainSelect, weightVars, vars
  <2> QED BY <1>1, <2>1
<1> QED BY <1>2, <1>3, <1>4, <1>5

LEMMA QueueInit == Init => QueueInv
<1> SUFFICES ASSUME Init, NEW r \in Rank PROVE Len(QueuedWeights(r)) = 0
  BY DEF QueueInv
<1>1. CoreInv /\ queue[r].size = 0
  BY CoreInit DEF Init, NewQueue
<1> QED BY <1>1, QueueTypes, WeightsInType DEF QueuedWeights

LEMMA QueueStep ==
  ASSUME CoreInv, FifoInv, ListInv, QueueInv, [Next]_vars PROVE QueueInv'
<1> SUFFICES ASSUME NEW r \in Rank, NEW i \in 1 .. Len(QueuedWeights(r)')
             PROVE  QueuedWeights(r)'[i].pos \in OwnPositions(r)
  BY DEF QueueInv, OwnPositions
<1> DEFINE w == QueuedWeights(r)
<1>1. w \in Seq(Received) /\ Len(w) \in Nat
  BY QueueTypes, WeightsInType DEF QueuedWeights
<1>2. \A j \in 1 .. Len(w) : w[j].pos \in OwnPositions(r)
  BY DEF QueueInv
<1>3. CASE Finish(r) /\ ~IsAddSource(r)
  <2> DEFINE d == [pos |-> OwnPosition(r), weights |-> buffer[r][RecvSlot(r)]]
  <2>1. QueuedWeights(r)' = Append(w, d) /\ d \in Received
    BY <1>3, FinishAppends DEF Received
  <2>2. d.pos \in OwnPositions(r)
    <3>1. Busy(r)
      BY <1>3 DEF Finish, CoreInv, ExchangeInv
    <3>2. Sound(Current(r)) /\ Concerns(r, Current(r))
      BY <3>1, CurrentType DEF CoreInv, TypeOK, ListInv, Current, Remaining
    <3> QED BY <3>2, OwnTouch DEF OwnPositions
  <2> HIDE DEF w, d
  <2> QED BY <1>1, <1>2, <2>1, <2>2, AppendProperties
<1>4. CASE w # <<>> /\ QueuedWeights(r)' = Tail(w)
  <2>1. /\ Len(Tail(w)) = Len(w) - 1 /\ Len(w) # 0
        /\ \A j \in 1 .. Len(Tail(w)) : Tail(w)[j] = w[j + 1]
    BY <1>1, <1>4, HeadTailProperties, EmptySeq
  <2> HIDE DEF w
  <2>2. i + 1 \in 1 .. Len(w)
    BY <1>1, <1>4, <2>1
  <2> QED BY <1>2, <1>4, <2>1, <2>2
<1>5. CASE QueuedWeights(r)' = w
  BY <1>2, <1>5
<1> QED BY <1>3, <1>4, <1>5, QueuedChange

LEMMA FrontIsFirst ==
  ASSUME CoreInv, NEW r \in Rank, ~IsEmpty(queue[r])
  PROVE  /\ 1 \in 1 .. Len(QueuedWeights(r))
         /\ QueuedWeights(r)[1].pos = GetFront(queue[r]).pos
         /\ QueuedWeights(r)[1].weights = buffer[r][GetFront(queue[r]).buf]
<1> DEFINE f == GetFront(queue[r])
<1>1. queue[r] \in Ring(Desc) /\ queue[r].front \in Slot
  BY QueueTypes DEF Ring
<1>2. Entry(queue[r], 0) = f
  BY <1>1, QueueSizeAssumption DEF Entry, GetFront, Slot
<1>3. 1 \in 1 .. queue[r].size
  BY QueueTypes, QueueSizeAssumption DEF IsEmpty, Ring
<1>4. /\ QueuedWeights(r)[1] =
            [pos |-> Entry(queue[r], 1 - 1).pos, weights |-> buffer[r][Entry(queue[r], 1 - 1).buf]]
      /\ Len(QueuedWeights(r)) = queue[r].size
  BY <1>3, QueueTypes, WeightsInType DEF QueuedWeights
<1>5. QueuedWeights(r)[1] = [pos |-> f.pos, weights |-> buffer[r][f.buf]]
  BY <1>2, <1>4
<1> QED BY <1>3, <1>4, <1>5

LEMMA LatestIsNewestThen ==
  (CoreInv => \A r \in Rank, p \in Position :
                /\ QueuedWeights(r) \in Seq(Received)
                /\ NewestIs(QueuedWeights(r), p, hbm[p], Latest(r, p)))'
BY LatestIsNewest, PTL

LEMMA LatestChange ==
  ASSUME CoreInv, CoreInv', FifoInv, QueueInv, [Next]_vars, NEW r \in Rank,
         NEW p \in OwnPositions(r)
  PROVE  Latest(r, p)' = IF Finish(r) /\ ~IsAddSource(r) /\ p = OwnPosition(r)
                         THEN buffer[r][RecvSlot(r)] ELSE Latest(r, p)
<1> DEFINE w == QueuedWeights(r)
           x == Latest(r, p)
<1>1. p \in Position /\ w \in Seq(Received) /\ NewestIs(w, p, hbm[p], x)
  BY LatestIsNewest DEF OwnPositions
<1>2. w' \in Seq(Received) /\ NewestIs(w', p, hbm'[p], x')
  <2>1. (QueuedWeights(r) \in Seq(Received) /\ NewestIs(QueuedWeights(r), p, hbm[p], Latest(r, p)))'
    BY <1>1, LatestIsNewestThen
  <2> QED BY <2>1 DEF NewestIs
<1>3. CASE Finish(r) /\ ~IsAddSource(r)
  <2> DEFINE d == [pos |-> OwnPosition(r), weights |-> buffer[r][RecvSlot(r)]]
  <2>1. w' = Append(w, d) /\ d \in Received /\ hbm' = hbm
    BY <1>3, FinishAppends DEF Received, Finish
  <2>2. NewestIs(w', p, hbm'[p], IF d.pos = p THEN d.weights ELSE x)
    BY <1>1, <2>1, NewestAppended
  <2>3. x' = IF d.pos = p THEN d.weights ELSE x
    BY <1>2, <2>2, NewestUnique
  <2> QED BY <1>3, <2>3
<1>4. CASE MainCopy(r) /\ w # <<>> /\ w' = Tail(w)
  <2> DEFINE f == GetFront(queue[r])
  <2>1. hbm' = [hbm EXCEPT ![f.pos] = buffer[r][f.buf]]
    BY <1>4 DEF MainCopy
  <2>2. w[1].pos = f.pos /\ w[1].weights = buffer[r][f.buf]
    BY <1>4, FrontIsFirst DEF MainCopy
  <2>3. hbm'[p] = IF w[1].pos = p THEN w[1].weights ELSE hbm[p]
    BY <1>1, <2>1, <2>2 DEF CoreInv, TypeOK, WeightTypeOK
  <2>4. NewestIs(w', p, hbm'[p], x)
    BY <1>1, <1>4, <2>3, NewestTaken
  <2>5. x' = x
    BY <1>2, <2>4, NewestUnique
  <2>6. ~Finish(r)
    BY <1>4 DEF MainCopy, Finish, workerVars, CoreInv, TypeOK, ControlTypeOK
  <2> QED BY <2>5, <2>6
<1>5. CASE ~MainCopy(r) /\ w' = w /\ ~(Finish(r) /\ ~IsAddSource(r))
  <2>1. hbm'[p] = hbm[p]
    <3>1. ASSUME NEW s \in Rank, MainCopy(s) PROVE hbm'[p] = hbm[p]
      <4>1. GetFront(queue[s]).pos \in OwnPositions(s)
        BY <3>1, FrontIsFirst DEF MainCopy, QueueInv
      <4>2. GetFront(queue[s]).pos # p
        BY <1>5, <3>1, <4>1 DEF OwnPositions
      <4> QED BY <3>1, <4>2 DEF MainCopy
    <3>2. CASE ~(\E s \in Rank : MainCopy(s))
      BY <3>2 DEF Next, Worker, Main, Collect, Decide, Dispatch, Gather, Forward, Announce,
         BeginChange, UpdateMapping, Finish, Transfer, MainSkip, MainEnter, MainSelect,
         weightVars, vars
    <3> QED BY <3>1, <3>2
  <2>2. x' = x
    BY <1>1, <1>2, <1>5, <2>1, NewestUnique
  <2> QED BY <1>5, <2>2
<1> QED BY <1>3, <1>4, <1>5, QueuedChange


-----------------------------------------------------------------------------
(* Every rank has the weights it is said to have.                          *)

(* A rank announces positions of its own only.                             *)
PosInv ==
    \A r \in Rank : /\ announced[r].pos # -1 => Owner(announced[r].pos) = r
                    /\ status[r].pos # -1 => Owner(status[r].pos) = r

Exchanging == {"swap1", "swap2", "enqueue"}

Rightful(r, p) == mapping[r][p] # NoExpert => Latest(r, p) = mapping[r][p]

(* What rank r sends is what its peer is waiting for; what its peer sends  *)
(* has arrived.                                                            *)
Sends(r)       == Current(r).type = "SWAP" \/ AsSource(r)
HasReceived(r) == pc[r] = "enqueue" \/ (pc[r] = "swap2" /\ ~(r < Peer(r)))

(* In an exchange the mapping is ahead of the weights at one position.     *)
Swapped(r) ==
    /\ \A p \in OwnPositions(r) : p # OwnPosition(r) \/ IsAddSource(r) => Rightful(r, p)
    /\ ~IsAddSource(r) => mapping[r][OwnPosition(r)] = OwnExpert(r)
    /\ Sends(r) /\ Before(Current(r), OwnPosition(r)) # NoExpert =>
          Latest(r, OwnPosition(r)) = Before(Current(r), OwnPosition(r))
    /\ HasReceived(r) /\ ~IsAddSource(r) /\ OwnExpert(r) # NoExpert =>
          buffer[r][RecvSlot(r)] = OwnExpert(r)

RankInv(r) ==
    /\ pc[r] \notin Exchanging => \A p \in OwnPositions(r) : Rightful(r, p)
    /\ pc[r] = "changing" /\ Busy(r) /\ Agreed(r) => Consistent(r)
    /\ pc[r] \in Exchanging => Swapped(r)

WeightInv == PosInv /\ QueueInv /\ \A r \in Rank : RankInv(r)

LEMMA WeightInit == Init => WeightInv
<1> SUFFICES ASSUME Init PROVE WeightInv
  OBVIOUS
<1>1. PosInv
  BY DEF Init, PosInv, Silent
<1>2. ASSUME NEW r \in Rank, NEW p \in Position PROVE Rightful(r, p)
  <2>1. queue[r].size = 0
    BY DEF Init, NewQueue
  <2>2. ~Queued(r, p)
    BY <2>1 DEF Queued, RearIndices
  <2> QED BY <2>2 DEF Init, Rightful, Latest
<1>3. \A r \in Rank : RankInv(r)
  BY <1>2 DEF Init, RankInv, OwnPositions, Exchanging
<1> QED BY <1>1, <1>3, QueueInit DEF WeightInv

LEMMA PosStep == ASSUME RoundInv, PosInv, [Next]_vars PROVE PosInv'
<1> USE DEF RoundInv, CoreInv, TypeOK
<1>1. ASSUME NEW r \in Rank, Announce(r) PROVE PosInv'
  <2>1. Announcement(r).pos # -1 => Owner(Announcement(r).pos) = r
    <3>1. CASE Busy(r)
      <4>1. Sound(Current(r)) /\ Concerns(r, Current(r))
        BY <3>1, CurrentType DEF ListInv, Current, Remaining
      <4> QED BY <4>1, OwnTouch DEF Announcement, Silent
    <3>2. CASE ~Busy(r)
      BY <3>2 DEF Announcement, Silent
    <3> QED BY <3>1, <3>2
  <2>2. /\ status' = status /\ announced'[r] = Announcement(r)
        /\ \A s \in Rank \ {r} : announced'[s] = announced[s]
    BY <1>1 DEF Announce, RoundTypeOK
  <2> QED BY <2>1, <2>2 DEF PosInv
<1>2. CASE Gather
  BY <1>2 DEF Gather, PosInv
<1>3. CASE ~Gather /\ ~(\E r \in Rank : Announce(r))
  <2>1. UNCHANGED <<announced, status>>
    BY <1>3 DEF Next, Worker, Main, Collect, Decide, Dispatch, Forward, BeginChange,
       UpdateMapping, Finish, Transfer, MainSkip, MainEnter, MainCopy, MainSelect,
       workerVars, vars
  <2> QED BY <2>1 DEF PosInv
<1> QED BY <1>1, <1>2, <1>3

(* What a mapping update does to the positions of the rank itself.         *)
LEMMA OwnWritten ==
  ASSUME RoundInv, PosInv, NEW r \in Rank, UpdateMapping(r), NEW p \in OwnPositions(r)
  PROVE  mapping'[r][p] = IF Busy(r) /\ Agreed(r) /\ ~IsAddSource(r) /\ OwnPosition(r) = p
                          THEN OwnExpert(r) ELSE mapping[r][p]
<1> USE DEF RoundInv, CoreInv, TypeOK
<1> DEFINE Writing == Busy(r) /\ Agreed(r) /\ ~IsAddSource(r) /\ OwnPosition(r) = p
           W == Writers(status, p)
<1>1. /\ p \in Position /\ p # -1 /\ Owner(p) = r /\ -1 \notin Rank /\ WorldSize # -1
      /\ Offers(r, status[r]) /\ pc[r] = "changing"
  BY RankIsNoMinusOne, GeometryAssumption
  DEF OwnPositions, Position, UpdateMapping, HandshakeInv, OfferInv
<1>2. W \subseteq {r}
  BY <1>1 DEF Writers, Effective, PosInv
<1>3. r \in W <=> Writing
  <2>1. CASE Busy(r)
    <3>1. Peer(r) \in Rank
      BY <2>1, RoleType
    <3>2. /\ status[r].t \in {Peer(r), WorldSize}
          /\ status[r].pos = IF IsAddSource(r) THEN -1 ELSE OwnPosition(r)
      BY <1>1, <2>1 DEF Offers
    <3> QED BY <1>1, <2>1, <3>1, <3>2 DEF Writers, Effective, Agreed
  <2>2. CASE ~Busy(r)
    BY <1>1, <2>2 DEF Offers, Silent, Writers, Effective
  <2> QED BY <2>1, <2>2
<1>4. mapping'[r][p] =
        IF W # {} THEN status[CHOOSE s \in W : \A t \in W : t <= s].expert ELSE mapping[r][p]
  <2>1. mapping'[r] = UpdatedMapping(mapping[r], status)
    BY DEF UpdateMapping, MappingTypeOK
  <2> QED BY <1>1, <2>1 DEF UpdatedMapping, Written
<1>5. CASE Writing
  <2>1. (CHOOSE s \in W : \A t \in W : t <= s) \in W
    BY <1>3, <1>5, LastWriter
  <2>2. (CHOOSE s \in W : \A t \in W : t <= s) = r
    BY <1>2, <2>1
  <2>3. status[r].expert = OwnExpert(r)
    BY <1>1, <1>5 DEF Offers
  <2>4. W # {}
    BY <1>3, <1>5
  <2> QED BY <1>4, <1>5, <2>2, <2>3, <2>4
<1>6. CASE ~Writing
  <2>1. W = {}
    BY <1>2, <1>3, <1>6
  <2> QED BY <1>4, <1>6, <2>1
<1> QED BY <1>5, <1>6

LEMMA OwnPositionIsOwn ==
  ASSUME RoundInv, NEW r \in Rank, Busy(r)
  PROVE  /\ Sound(Current(r)) /\ Concerns(r, Current(r))
         /\ OwnPosition(r) \in OwnPositions(r)
<1>1. Sound(Current(r)) /\ Concerns(r, Current(r))
  BY CurrentType DEF RoundInv, CoreInv, TypeOK, ListInv, Current, Remaining
<1> QED BY <1>1, OwnTouch DEF OwnPositions

(* What leaves the weights of a rank alone.                                *)
LEMMA RankKept ==
  ASSUME RoundInv, NEW r \in Rank, RankInv(r), mapping'[r] = mapping[r],
         \A p \in OwnPositions(r) : Latest(r, p)' = Latest(r, p),
         \/ /\ pc'[r] = pc[r] /\ idx'[r] = idx[r] /\ UNCHANGED <<plan, status>>
            /\ buffer'[r][RecvSlot(r)'] = buffer[r][RecvSlot(r)]
         \/ pc[r] \notin Exchanging /\ pc'[r] \notin Exchanging \cup {"changing"}
  PROVE  RankInv(r)'
<1>1. \A p \in OwnPositions(r) : Rightful(r, p)' = Rightful(r, p)
  BY DEF Rightful
<1>2. CASE pc[r] \notin Exchanging /\ pc'[r] \notin Exchanging \cup {"changing"}
  BY <1>1, <1>2 DEF RankInv, OwnPositions
<1>3. CASE /\ pc'[r] = pc[r] /\ idx'[r] = idx[r] /\ UNCHANGED <<plan, status>>
           /\ buffer'[r][RecvSlot(r)'] = buffer[r][RecvSlot(r)]
  <2>1. Agreed(r)' = Agreed(r) /\ Consistent(r)' = Consistent(r)
    BY <1>3, RolesStable DEF Agreed, Consistent
  <2>2. Sends(r)' = Sends(r) /\ HasReceived(r)' = HasReceived(r)
    BY <1>3, RolesStable DEF Sends, HasReceived, AsSource
  <2>3. CASE pc[r] \in Exchanging
    <3>1. Busy(r)
      BY <2>3 DEF RoundInv, CoreInv, ExchangeInv, Exchanging
    <3>2. PICK o \in OwnPositions(r) : o = OwnPosition(r) /\ o = OwnPosition(r)'
      BY <1>3, <3>1, OwnPositionIsOwn, RolesStable
    <3>3. Latest(r, OwnPosition(r))' = Latest(r, OwnPosition(r))
      BY <3>2
    <3>4. Swapped(r)
      BY <2>3 DEF RankInv
    <3>5. /\ IsAddSource(r)' = IsAddSource(r) /\ OwnExpert(r)' = OwnExpert(r)
          /\ OwnPosition(r)' = OwnPosition(r)
          /\ Before(Current(r), OwnPosition(r))' = Before(Current(r), OwnPosition(r))
      BY <1>3, RolesStable DEF Before
    <3>6. (\A p \in OwnPositions(r) : p # OwnPosition(r) \/ IsAddSource(r) => Rightful(r, p))'
      BY <1>1, <3>4, <3>5 DEF Swapped, OwnPositions
    <3>7. (~IsAddSource(r) => mapping[r][OwnPosition(r)] = OwnExpert(r))'
      BY <3>4, <3>5 DEF Swapped
    <3>8. (Sends(r) /\ Before(Current(r), OwnPosition(r)) # NoExpert =>
              Latest(r, OwnPosition(r)) = Before(Current(r), OwnPosition(r)))'
      BY <2>2, <3>3, <3>4, <3>5 DEF Swapped
    <3>9. (HasReceived(r) /\ ~IsAddSource(r) /\ OwnExpert(r) # NoExpert =>
              buffer[r][RecvSlot(r)] = OwnExpert(r))'
      BY <1>3, <2>2, <3>4, <3>5 DEF Swapped
    <3>10. Swapped(r)'
      BY <3>6, <3>7, <3>8, <3>9 DEF Swapped
    <3> QED BY <1>3, <2>3, <3>10 DEF RankInv, Exchanging
  <2>4. CASE pc[r] \notin Exchanging
    BY <1>1, <1>3, <2>1, <2>4, RolesStable DEF RankInv, OwnPositions
  <2> QED BY <2>3, <2>4
<1> QED BY <1>2, <1>3


LEMMA BeginChangeRank ==
  ASSUME RoundInv, NEW r \in Rank, BeginChange(r), RankInv(r),
         \A p \in OwnPositions(r) : Latest(r, p)' = Latest(r, p)
  PROVE  RankInv(r)'
<1>1. /\ pc[r] = "gathered" /\ UNCHANGED <<mapping, plan, idx, status>>
      /\ Busy(r) /\ Agreed(r) => Consistent(r)
  BY DEF BeginChange, RoundInv, CheckInv
<1>2. pc'[r] = "changing"
  BY <1>1 DEF BeginChange, RoundInv, CoreInv, TypeOK, ControlTypeOK
<1>3. Agreed(r)' = Agreed(r) /\ Consistent(r)' = Consistent(r) /\ Busy(r)' = Busy(r)
  BY <1>1, RolesStable DEF Agreed, Consistent
<1>4. \A p \in OwnPositions(r) : Rightful(r, p)' = Rightful(r, p)
  BY <1>1 DEF Rightful
<1> QED BY <1>1, <1>2, <1>3, <1>4 DEF RankInv, Exchanging, OwnPositions

(* The mapping goes ahead, and what the rank sends stays where it is.      *)
LEMMA UpdateMappingRank ==
  ASSUME RoundInv, PosInv, NEW r \in Rank, UpdateMapping(r), RankInv(r),
         \A p \in OwnPositions(r) : Latest(r, p)' = Latest(r, p)
  PROVE  RankInv(r)'
<1> USE DEF RoundInv, CoreInv, TypeOK, ControlTypeOK
<1>1. pc[r] = "changing" /\ plan' = plan
  BY DEF UpdateMapping
<1>2. \A p \in OwnPositions(r) : Rightful(r, p)
  BY <1>1 DEF RankInv, Exchanging
<1>3. CASE Busy(r) /\ ~IsRemove(r) /\ Agreed(r)
  <2>1. pc'[r] = "swap1" /\ idx'[r] = idx[r]
    BY <1>3 DEF UpdateMapping
  <2>2. PICK o \in OwnPositions(r) : o = OwnPosition(r) /\ o = OwnPosition(r)'
    BY <1>1, <1>3, <2>1, OwnPositionIsOwn, RolesStable
  <2>3. /\ IsAddSource(r)' = IsAddSource(r) /\ OwnExpert(r)' = OwnExpert(r)
        /\ Before(Current(r), OwnPosition(r))' = Before(Current(r), OwnPosition(r))
        /\ Sends(r)' = Sends(r)
    BY <1>1, <2>1, RolesStable DEF Before, Sends, AsSource
  <2>4. ASSUME NEW p \in OwnPositions(r), p # o \/ IsAddSource(r) PROVE Rightful(r, p)'
    <3>1. mapping'[r][p] = mapping[r][p]
      BY <2>2, <2>4, OwnWritten
    <3> QED BY <1>2, <3>1 DEF Rightful
  <2>5. ~IsAddSource(r) => mapping'[r][o] = OwnExpert(r)
    BY <1>3, <2>2, OwnWritten
  <2>6. ASSUME Sends(r), Before(Current(r), o) # NoExpert
        PROVE  Latest(r, o) = Before(Current(r), o)
    <3>1. Consistent(r)
      BY <1>1, <1>3 DEF RankInv
    <3>2. Sound(Current(r)) /\ Concerns(r, Current(r))
      BY <1>3, OwnPositionIsOwn
    <3>3. mapping[r][o] = Before(Current(r), o)
      BY <1>3, <2>2, <2>6, <3>1, <3>2
      DEF Consistent, Sends, AsSource, OwnPosition, Before, Sound, Concerns, IsRemove, InstructionType
    <3> QED BY <1>2, <2>6, <3>3 DEF Rightful
  <2>7. ~HasReceived(r)'
    BY <2>1 DEF HasReceived
  <2>8. Swapped(r)'
    BY <2>2, <2>3, <2>4, <2>5, <2>6, <2>7 DEF Swapped, OwnPositions
  <2> QED BY <2>1, <2>8 DEF RankInv, Exchanging
<1>4. CASE ~(Busy(r) /\ ~IsRemove(r) /\ Agreed(r))
  <2>1. pc'[r] \in {"collect", "handshake"}
    BY <1>4 DEF UpdateMapping
  <2>2. ASSUME NEW p \in OwnPositions(r) PROVE Rightful(r, p)'
    <3>1. mapping'[r][p] = mapping[r][p] \/ mapping'[r][p] = NoExpert
      <4>1. CASE Busy(r) /\ Agreed(r) /\ IsRemove(r)
        <5>1. OwnExpert(r) = NoExpert
          BY <4>1, OwnPositionIsOwn, RankIsNoMinusOne
          DEF OwnExpert, AsSource, IsRemove, Sound, InstructionType
        <5> QED BY <5>1, OwnWritten
      <4>2. CASE ~(Busy(r) /\ Agreed(r) /\ IsRemove(r))
        BY <1>4, <4>2, OwnWritten
      <4> QED BY <4>1, <4>2
    <3> QED BY <1>2, <3>1 DEF Rightful
  <2> QED BY <2>1, <2>2 DEF RankInv, Exchanging, OwnPositions
<1> QED BY <1>3, <1>4

(* Two ranks that exchange weights do it for the same instruction.         *)
LEMMA SameExchange ==
  ASSUME RoundInv, NEW a \in Rank, NEW b \in Rank, pc[a] \in Exchanging, pc[b] \in Exchanging,
         Peer(a) = b, Peer(b) = a
  PROVE  a # b /\ HeadIdx(a) = HeadIdx(b)
<1> USE DEF RoundInv, CoreInv, TypeOK
<1> DEFINE j == HeadIdx(a)
           k == HeadIdx(b)
<1>1. /\ Busy(a) /\ Busy(b) /\ ~IsRemove(a)
      /\ Left(a) = Remaining(a) \ {j} /\ Left(b) = Remaining(b) \ {k}
  BY DEF ExchangeInv, Exchanging, Left, TakenEffect
<1>2. /\ j \in Remaining(a) /\ k \in Remaining(b) /\ j \in Nat /\ k \in Nat
      /\ (\A l \in Remaining(a) : j <= l) /\ (\A l \in Remaining(b) : k <= l)
      /\ Sound(Current(a)) /\ Concerns(a, Current(a)) /\ Sound(Current(b)) /\ Concerns(b, Current(b))
  BY <1>1, HeadIsLeast, CurrentType, OwnPositionIsOwn
<1>3. a # b /\ Concerns(b, plan[j]) /\ Concerns(a, plan[k])
  BY <1>1, <1>2, PeerOf DEF Current
<1>4. /\ j \in DOMAIN plan /\ k \in DOMAIN plan
      /\ Concerns(a, plan[j]) /\ Concerns(b, plan[k])
      /\ Remaining(a) = {l \in DOMAIN plan : l >= idx[a] /\ Concerns(a, plan[l])}
      /\ Remaining(b) = {l \in DOMAIN plan : l >= idx[b] /\ Concerns(b, plan[l])}
      /\ idx[a] \in Nat /\ idx[b] \in Nat
  BY <1>2 DEF Remaining, RoundTypeOK
<1>5. /\ j \in Left(a) <=> j \in Left(b)
      /\ k \in Left(a) <=> k \in Left(b)
  BY <1>3, <1>4 DEF Paired
<1>6. j = k
  BY <1>1, <1>2, <1>3, <1>4, <1>5
<1> QED BY <1>3, <1>6


(* One end sends what the instruction says it has, the other waits for it. *)
LEMMA ExpectedWeights ==
  ASSUME RoundInv, NEW a \in Rank, NEW b \in Rank, pc[a] \in Exchanging, pc[b] \in Exchanging,
         Peer(a) = b, Peer(b) = a, ~IsAddSource(b)
  PROVE  Sends(a) /\ OwnExpert(b) = Before(Current(a), OwnPosition(a))
<1> DEFINE i == Current(a)
<1>1. a # b /\ Current(b) = i
  BY SameExchange DEF Current
<1>2. /\ Busy(a) /\ i.type # "REMOVE"
      /\ Sound(i) /\ Concerns(a, i) /\ Concerns(b, i)
  BY <1>1, OwnPositionIsOwn DEF RoundInv, CoreInv, ExchangeInv, Exchanging, IsRemove
<1>3. /\ i.type \in {"SWAP", "ADD"} /\ i.source_rank # i.target_rank
      /\ i.source_position # i.target_position
  BY <1>2 DEF Sound, InstructionType
<1>4. CASE i.source_rank = a
  BY <1>1, <1>2, <1>3, <1>4
  DEF Concerns, Sends, AsSource, OwnExpert, OwnPosition, Before
<1>5. CASE i.source_rank = b
  BY <1>1, <1>2, <1>3, <1>5
  DEF Concerns, Sends, AsSource, IsAddSource, OwnExpert, OwnPosition, Before
<1> QED BY <1>1, <1>2, <1>4, <1>5 DEF Concerns

LEMMA TransferRank ==
  ASSUME RoundInv, NEW a \in Rank, NEW b \in Rank, Transfer(a, b), NEW r \in {a, b},
         RankInv(a), RankInv(r),
         \A p \in OwnPositions(r) : Latest(r, p)' = Latest(r, p)
  PROVE  RankInv(r)'
<1> USE DEF RoundInv, CoreInv, TypeOK, ControlTypeOK
<1>1. /\ UNCHANGED <<mapping, plan, idx, queue>>
      /\ pc[a] \in {"swap1", "swap2"} /\ pc[b] \in {"swap1", "swap2"}
      /\ Peer(a) = b /\ Peer(b) = a /\ Sending(a) /\ ~Sending(b)
  BY DEF Transfer, InSwap
<1>2. a # b /\ Busy(r)
  BY <1>1, SameExchange DEF ExchangeInv, Exchanging
<1>3. pc'[a] = AfterTransfer(a) /\ pc'[b] = AfterTransfer(b)
  BY <1>2 DEF Transfer
<1>4. pc'[r] \in {"swap2", "enqueue"} /\ pc[r] \in {"swap1", "swap2"}
  BY <1>1, <1>3 DEF AfterTransfer
<1>5. Swapped(r)
  BY <1>4 DEF RankInv, Exchanging
<1>6. PICK o \in OwnPositions(r) : o = OwnPosition(r) /\ o = OwnPosition(r)'
  BY <1>1, <1>2, OwnPositionIsOwn, RolesStable
<1>7. /\ IsAddSource(r)' = IsAddSource(r) /\ OwnExpert(r)' = OwnExpert(r)
      /\ Before(Current(r), OwnPosition(r))' = Before(Current(r), OwnPosition(r))
      /\ Sends(r)' = Sends(r) /\ Peer(r)' = Peer(r) /\ RecvSlot(r)' = RecvSlot(r)
  BY <1>1, RolesStable DEF Before, Sends, AsSource, RecvSlot, EnqueueIdx
<1>8. \A p \in OwnPositions(r) : Rightful(r, p)' = Rightful(r, p)
  BY <1>1 DEF Rightful
<1>9. ASSUME HasReceived(r)', ~IsAddSource(r), OwnExpert(r) # NoExpert
      PROVE  buffer'[r][RecvSlot(r)] = OwnExpert(r)
  <2>1. CASE r = a
    <3>1. buffer'[a] = buffer[a]
      BY <1>2 DEF Transfer, WeightTypeOK
    <3>2. HasReceived(a)
      BY <1>1, <1>3, <1>7, <1>9, <2>1 DEF HasReceived, AfterTransfer, Sending
    <3> QED BY <1>5, <1>9, <2>1, <3>1, <3>2 DEF Swapped
  <2>2. CASE r = b
    <3>1. buffer'[b][RecvSlot(b)] = Latest(a, OwnPosition(a))
      <4>1. RecvSlot(b) \in Slot
        BY QueueTypes, EnqueueIdxType DEF RecvSlot
      <4> QED BY <4>1 DEF Transfer, WeightTypeOK
    <3>2. Sends(a) /\ OwnExpert(b) = Before(Current(a), OwnPosition(a))
      BY <1>1, <1>9, <2>2, ExpectedWeights DEF Exchanging
    <3>3. Swapped(a)
      BY <1>1 DEF RankInv, Exchanging
    <3> QED BY <1>9, <2>2, <3>1, <3>2, <3>3 DEF Swapped
  <2> QED BY <2>1, <2>2
<1>10. Swapped(r)'
  <2>1. (\A p \in OwnPositions(r) : p # OwnPosition(r) \/ IsAddSource(r) => Rightful(r, p))'
    BY <1>5, <1>6, <1>7, <1>8 DEF Swapped, OwnPositions
  <2>2. (~IsAddSource(r) => mapping[r][OwnPosition(r)] = OwnExpert(r))'
    BY <1>1, <1>5, <1>6, <1>7 DEF Swapped
  <2>3. (Sends(r) /\ Before(Current(r), OwnPosition(r)) # NoExpert =>
            Latest(r, OwnPosition(r)) = Before(Current(r), OwnPosition(r)))'
    BY <1>5, <1>6, <1>7 DEF Swapped
  <2>4. (HasReceived(r) /\ ~IsAddSource(r) /\ OwnExpert(r) # NoExpert =>
            buffer[r][RecvSlot(r)] = OwnExpert(r))'
    BY <1>7, <1>9
  <2> QED BY <2>1, <2>2, <2>3, <2>4 DEF Swapped
<1> QED BY <1>4, <1>10 DEF RankInv, Exchanging

(* The weights catch up with the mapping.                                  *)
LEMMA FinishRank ==
  ASSUME RoundInv, RoundInv', FifoInv, QueueInv, [Next]_vars, NEW r \in Rank, Finish(r), RankInv(r)
  PROVE  RankInv(r)'
<1> USE DEF RoundInv, CoreInv, TypeOK, ControlTypeOK
<1>1. pc[r] = "enqueue" /\ pc'[r] = "handshake" /\ mapping' = mapping
  BY DEF Finish
<1>2. Swapped(r) /\ HasReceived(r)
  BY <1>1 DEF RankInv, Exchanging, HasReceived
<1>3. ASSUME NEW p \in OwnPositions(r) PROVE Rightful(r, p)'
  <2>1. Latest(r, p)' = IF ~IsAddSource(r) /\ p = OwnPosition(r)
                        THEN buffer[r][RecvSlot(r)] ELSE Latest(r, p)
    BY LatestChange
  <2>2. CASE ~IsAddSource(r) /\ p = OwnPosition(r)
    BY <1>1, <1>2, <2>1, <2>2 DEF Rightful, Swapped
  <2>3. CASE ~(~IsAddSource(r) /\ p = OwnPosition(r))
    BY <1>1, <1>2, <2>1, <2>3 DEF Rightful, Swapped
  <2> QED BY <2>2, <2>3
<1> QED BY <1>1, <1>3 DEF RankInv, Exchanging, OwnPositions

LEMMA WeightStep ==
  RoundInv /\ RoundInv' /\ FifoInv /\ WeightInv /\ [Next]_vars => WeightInv'
<1> SUFFICES ASSUME RoundInv, RoundInv', FifoInv, WeightInv, [Next]_vars PROVE WeightInv'
  OBVIOUS
<1> USE DEF RoundInv, CoreInv, TypeOK
<1>1. PosInv' /\ QueueInv'
  BY PosStep, QueueStep DEF WeightInv
<1>2. ASSUME NEW r \in Rank PROVE RankInv(r)'
  <2>1. RankInv(r) /\ QueueInv /\ PosInv
    BY DEF WeightInv
  <2>2. CASE Finish(r)
    BY <2>1, <2>2, FinishRank
  <2>3. CASE ~Finish(r)
    <3>1. \A p \in OwnPositions(r) : Latest(r, p)' = Latest(r, p)
      BY <2>1, <2>3, LatestChange
    <3>2. ASSUME BeginChange(r) \/ UpdateMapping(r) PROVE RankInv(r)'
      BY <2>1, <3>1, <3>2, BeginChangeRank, UpdateMappingRank
    <3>3. ASSUME NEW a \in Rank, NEW b \in Rank, Transfer(a, b), r \in {a, b} PROVE RankInv(r)'
      BY <2>1, <3>1, <3>3, TransferRank DEF WeightInv
    <3>4. CASE Collect \/ Dispatch \/ Gather \/ (\E m \in Moves : Decide(m)) \/ Announce(r)
      <4>1. /\ mapping' = mapping
            /\ pc[r] \notin Exchanging /\ pc'[r] \notin Exchanging \cup {"changing"}
        BY <3>4 DEF Collect, Dispatch, Gather, Decide, Announce, weightVars, Exchanging, ControlTypeOK
      <4> QED BY <2>1, <3>1, <4>1, RankKept
    <3>5. ASSUME mapping'[r] = mapping[r], pc'[r] = pc[r], idx'[r] = idx[r],
                 UNCHANGED <<plan, status>>, queue'[r] = queue[r], buffer'[r] = buffer[r]
          PROVE  RankInv(r)'
      <4>1. buffer'[r][RecvSlot(r)'] = buffer[r][RecvSlot(r)]
        BY <3>5 DEF RecvSlot, EnqueueIdx
      <4> QED BY <2>1, <3>1, <3>5, <4>1, RankKept
    <3>6. ASSUME NEW s \in Rank, s # r,
                 Announce(s) \/ BeginChange(s) \/ UpdateMapping(s) \/ Finish(s)
          PROVE  RankInv(r)'
      <4>1. /\ mapping'[r] = mapping[r] /\ pc'[r] = pc[r] /\ idx'[r] = idx[r]
            /\ UNCHANGED <<plan, status>> /\ queue'[r] = queue[r] /\ buffer'[r] = buffer[r]
        BY <3>6 DEF Announce, BeginChange, UpdateMapping, Finish, weightVars,
           MappingTypeOK, WeightTypeOK, RoundTypeOK, ControlTypeOK
      <4> QED BY <3>5, <4>1
    <3>7. ASSUME NEW a \in Rank, NEW b \in Rank, Transfer(a, b), r \notin {a, b} PROVE RankInv(r)'
      <4>1. /\ mapping'[r] = mapping[r] /\ pc'[r] = pc[r] /\ idx'[r] = idx[r]
            /\ UNCHANGED <<plan, status>> /\ queue'[r] = queue[r] /\ buffer'[r] = buffer[r]
        <5>1. r # a /\ r # b
          BY <3>7
        <5>2. /\ buffer' = [buffer EXCEPT ![b][RecvSlot(b)] = Latest(a, OwnPosition(a))]
              /\ pc' = [pc EXCEPT ![a] = AfterTransfer(a), ![b] = AfterTransfer(b)]
              /\ UNCHANGED <<mapping, queue, plan, idx, status>>
          BY <3>7 DEF Transfer
        <5>3. buffer'[r] = buffer[r] /\ pc'[r] = pc[r]
          BY <5>1, <5>2 DEF WeightTypeOK, ControlTypeOK, RoundTypeOK
        <5> QED BY <5>2, <5>3
      <4> QED BY <3>5, <4>1
    <3>8. ASSUME NEW s \in Rank, MainCopy(s) PROVE RankInv(r)'
      <4>1. UNCHANGED <<mapping, pc, idx, plan, status, buffer>>
        BY <3>8 DEF MainCopy, workerVars
      <4>2. queue'[r].rear = queue[r].rear
        BY <3>8 DEF MainCopy, Dequeue, WeightTypeOK, Ring
      <4>3. buffer'[r][RecvSlot(r)'] = buffer[r][RecvSlot(r)]
        BY <4>1, <4>2 DEF RecvSlot, EnqueueIdx
      <4> QED BY <2>1, <3>1, <4>1, <4>3, RankKept
    <3>9. CASE Forward \/ (\E s \in Rank : Main(s) /\ ~MainCopy(s)) \/ UNCHANGED vars
      <4>1. UNCHANGED <<mapping, pc, idx, plan, status, queue, buffer>>
        BY <3>9 DEF Forward, Main, MainSkip, MainEnter, MainSelect, weightVars, workerVars, vars
      <4> QED BY <3>5, <4>1
    <3> QED BY <2>3, <3>2, <3>3, <3>4, <3>6, <3>7, <3>8, <3>9 DEF Next, Worker, Main
  <2> QED BY <2>2, <2>3
<1> QED BY <1>1, <1>2 DEF WeightInv

(* LatestIsMapped: between two changes of its worker, the newest weights a *)
(* rank has for each of its positions are those of the expert its mapping  *)
(* puts there, whatever was exchanged with whom and however long received  *)
(* weights wait to be copied (placement_manager.cpp 407-453,               *)
(* distribution.cpp 84-168).                                               *)
THEOREM WeightsAreRightful == Spec => []LatestIsMapped
<1>1. RoundInv /\ WeightInv => LatestIsMapped
  BY DEF RoundInv, CoreInv, FlagInv, WeightInv, RankInv, Rightful, LatestIsMapped,
     ChangingPc, Exchanging, OwnPositions
<1>2. Spec => []WeightInv
  BY RoundInvariant, FifoInvariant, WeightInit, WeightStep, PTL DEF Spec
<1> QED BY <1>1, <1>2, RoundInvariant, PTL

-----------------------------------------------------------------------------
(* The selector.                                                           *)

LEMMA NthIsIn ==
  ASSUME NEW S \in SUBSET Position, NEW k \in 0 .. Cardinality(S) - 1
  PROVE  Nth(S, k) \in S
<1>1. S \in SUBSET Nat /\ IsFiniteSet(S)
  <2>1. \A p \in Position : p \in Nat
    BY DeployPositive, GeometryAssumption DEF Position
  <2> QED BY <2>1, PositionsFinite, FS_Subset
<1>2. k \in Nat /\ k < Cardinality(S)
  BY <1>1, FS_CardinalityType
<1>3. \E p \in S : Cardinality(Below(S, p)) = k
  BY <1>1, <1>2, EveryPlaceTaken
<1> QED BY <1>3 DEF Nth, Below

LEMMA ShareIsIn ==
  ASSUME NEW S \in SUBSET Position, S # {}, NEW r \in Rank
  PROVE  Share(S, r) \in S
<1>1. IsFiniteSet(S)
  BY PositionsFinite, FS_Subset
<1>2. Cardinality(S) \in Nat \ {0}
  BY <1>1, FS_CardinalityType, FS_EmptySet
<1>3. r \in Int
  BY DEF Rank
<1>4. r % Cardinality(S) \in 0 .. Cardinality(S) - 1
  BY <1>2, <1>3
<1> QED BY <1>4, NthIsIn DEF Share

(* Whatever the counts say, a position of the expert is selected.          *)
LEMMA SelectedIsReplica ==
  ASSUME NEW r \in Rank, NEW m, NEW n, NEW e, NEW o, Replicas(m, e) # {}
  PROVE  SelectPosition(r, m, n, e, o) \in Replicas(m, e)
<1> DEFINE all   == Replicas(m, e)
           local == {p \in all : Owner(p) = r}
           near  == {p \in all : HostOf(Owner(p)) = HostOf(r)}
<1>1. all \in SUBSET Position /\ local \in SUBSET Position /\ near \in SUBSET Position
  BY DEF Replicas
<1> HIDE DEF all
<1>2. all # {}
  BY DEF all
<1>3. (CHOOSE p \in all : \A q \in all : q <= p) \in all
  <2>1. NumLayers * Deploy - 1 \in Int
    BY DeployPositive, GeometryAssumption
  <2>2. all \in SUBSET (0 .. NumLayers * Deploy - 1)
    BY <1>1 DEF Position
  <2> QED BY <1>2, <2>1, <2>2, GreatestOfInterval
<1>4. local # {} => Nth(local, 0) \in local
  <2> SUFFICES ASSUME local # {} PROVE 0 \in 0 .. Cardinality(local) - 1
    BY <1>1, NthIsIn
  <2>1. Cardinality(local) \in Nat \ {0}
    BY <1>1, PositionsFinite, FS_Subset, FS_CardinalityType, FS_EmptySet
  <2> QED BY <2>1
<1>5. near # {} => Share(near, r) \in near
  BY <1>1, ShareIsIn
<1>6. Share(all, r) \in all
  BY <1>1, <1>2, ShareIsIn
<1>7. SelectPosition(r, m, n, e, o) \in
          {CHOOSE p \in all : \A q \in all : q <= p, Share(all, r)}
            \cup (IF local # {} THEN {Nth(local, 0)} ELSE {})
            \cup (IF near # {} THEN {Share(near, r)} ELSE {})
  BY <1>2 DEF SelectPosition, all
<1> QED BY <1>3, <1>4, <1>5, <1>6, <1>7 DEF all

LEMMA ExpertLayerType == \A e \in Expert : ExpertLayer(e) \in Layer
BY QuotientBelow, GeometryAssumption DEF Expert, ExpertLayer, Layer

-----------------------------------------------------------------------------
(* Experts stay in their layer: the settled mapping holds what view or an  *)
(* instruction holds, and these never mix layers.                          *)

InItsLayer(e, p) == e # NoExpert => ExpertLayer(e) = LayerOf(p)
Layered(m)       == \A p \in Position : InItsLayer(m[p], p)

LayerInv ==
    /\ Layered(view)
    /\ \A j \in DOMAIN plan : \A p \in Position :
          Touches(plan[j], p) => InItsLayer(Before(plan[j], p), p)
    /\ \A r \in Rank : Layered(mapping[r])

LEMMA SettledLayered ==
  ASSUME RoundInv, LayerInv
  PROVE  Layered(Settled(0))
<1> SUFFICES ASSUME NEW p \in Position PROVE InItsLayer(Settled(0)[p], p)
  BY DEF Layered
<1>1. Due(p) \in SUBSET Nat /\ Due(p) \subseteq DOMAIN plan
  BY DEF RoundInv, CoreInv, TypeOK, RoundTypeOK, Due, Left, Remaining
<1>2. CASE Due(p) = {}
  BY <1>2 DEF RoundInv, PlaceInv, LayerInv, Layered
<1>3. CASE Due(p) # {}
  <2>1. PICK j \in Due(p) : \A k \in Due(p) : j <= k
    BY <1>1, <1>3, LeastOfNaturals
  <2>2. Settled(0)[p] = Before(plan[j], p)
    BY <2>1 DEF RoundInv, PlaceInv
  <2> QED BY <1>1, <2>2 DEF LayerInv, Due
<1> QED BY <1>2, <1>3

LEMMA MoveLayered ==
  ASSUME NEW v \in [Position -> Expert \cup {NoExpert}], Layered(v),
         NEW m \in Moves, LegalMove(v, m)
  PROVE  Layered(AfterMove(v, m))
<1> SUFFICES ASSUME NEW p \in Position PROVE InItsLayer(AfterMove(v, m)[p], p)
  BY DEF Layered
<1>1. m.target \in Position /\ m.type \in {"SWAP", "ADD", "REMOVE"}
  BY PlacementAssumption
<1>2. m.type # "REMOVE" => m.source \in Position /\ LayerOf(m.source) = LayerOf(m.target)
  BY <1>1, PlacementAssumption DEF LegalMove
<1> QED BY <1>1, <1>2 DEF AfterMove, Layered, InItsLayer

LEMMA LayerStep ==
  ASSUME RoundInv, LayerInv, [Next]_vars
  PROVE  LayerInv'
<1>1. Layered(Settled(0)) /\ \A r \in Rank : Settled(r) = Settled(0)
  BY SettledLayered DEF RoundInv, MappingAgreement
<1>2. ASSUME NEW r \in Rank PROVE Layered(mapping'[r])
  <2>1. CASE mapping'[r] = mapping[r]
    BY <2>1 DEF LayerInv
  <2>2. CASE UpdateMapping(r)
    <3>1. pc[r] = "changing" /\ mapping'[r] = UpdatedMapping(mapping[r], status)
      BY <2>2 DEF UpdateMapping, RoundInv, CoreInv, TypeOK, MappingTypeOK
    <3>2. mapping'[r] = Settled(r)
      BY <3>1 DEF Settled
    <3> QED BY <1>1, <3>2
  <2>3. ASSUME NEW s \in Rank, s # r, UpdateMapping(s) PROVE mapping'[r] = mapping[r]
    BY <2>3 DEF UpdateMapping, RoundInv, CoreInv, TypeOK, MappingTypeOK
  <2> QED BY <2>1, <2>2, <2>3 DEF Next, Worker, Main, vars, weightVars, workerVars,
        Collect, Decide, Dispatch, Gather, Announce, BeginChange, Finish, Transfer,
        MainSkip, MainEnter, MainCopy, MainSelect, Forward
<1>3. /\ Layered(view')
      /\ \A j \in DOMAIN plan' : \A p \in Position :
            Touches(plan'[j], p) => InItsLayer(Before(plan'[j], p), p)
  <2>1. CASE Collect
    <3>1. Layered(mapping[0])
      BY RankIsNoMinusOne DEF LayerInv
    <3> QED BY <2>1, <3>1 DEF Collect
  <2>2. ASSUME NEW m \in Moves, Decide(m)
        PROVE  /\ Layered(view')
               /\ \A j \in DOMAIN plan' : \A p \in Position :
                     Touches(plan'[j], p) => InItsLayer(Before(plan'[j], p), p)
    <3> DEFINE i == Instruction(view, m)
    <3>1. LegalMove(view, m) /\ view' = AfterMove(view, m) /\ plan' = Append(plan, i)
      BY <2>2 DEF Decide
    <3>2. /\ view \in [Position -> Expert \cup {NoExpert}]
          /\ plan \in Seq(InstructionType)
      BY DEF RoundInv, CoreInv, TypeOK, RoundTypeOK
    <3>3. Layered(view')
      BY <3>1, <3>2, MoveLayered DEF LayerInv
    <3>4. /\ i \in InstructionType
          /\ \A p \in Position : Touches(i, p) => Before(i, p) = view[p]
      BY <2>2, NewInstruction DEF RoundInv, CoreInv, Sound
    <3>5. ASSUME NEW j \in DOMAIN plan', NEW p \in Position, Touches(plan'[j], p)
          PROVE  InItsLayer(Before(plan'[j], p), p)
      <4> HIDE DEF i
      <4>1. CASE j \in DOMAIN plan
        <5>1. plan'[j] = plan[j]
          BY <3>1, <3>2, <3>4, <4>1
        <5> QED BY <3>5, <4>1, <5>1 DEF LayerInv
      <4>2. CASE j \notin DOMAIN plan
        <5>1. plan'[j] = i
          BY <3>1, <3>2, <3>4, <4>2
        <5> QED BY <3>4, <3>5, <5>1 DEF LayerInv, Layered
      <4> QED BY <4>1, <4>2
    <3> QED BY <3>3, <3>5
  <2>3. CASE UNCHANGED <<view, plan>>
    BY <2>3 DEF LayerInv
  <2> QED BY <2>1, <2>2, <2>3 DEF Next, Worker, Main, vars, workerVars,
        Dispatch, Gather, Announce, BeginChange, UpdateMapping, Finish, Transfer,
        MainSkip, MainEnter, MainCopy, MainSelect, Forward
<1> QED BY <1>2, <1>3 DEF LayerInv, Layered, InItsLayer, Touches, Before

-----------------------------------------------------------------------------
(* Outside the marked layers, a rank sends tokens to a position its own    *)
(* mapping gives to their expert; and as to its own positions, the weights *)
(* lie there unless the main thread is copying.                            *)

SelectInv ==
    /\ selector \in [Rank -> [Expert -> Position]]
    /\ \A r \in Rank, e \in Expert :
          ExpertLayer(e) \notin dirty[r] => mapping[r][selector[r][e]] = e

ServeInv == DeployedInv /\ LayerInv /\ SelectInv /\ LocalTokensServed

LEMMA SelectsAgain ==
  ASSUME NEW r \in Rank, NEW m, NEW n, NEW d, NEW s \in [Expert -> Position], EveryExpertIn(m)
  PROVE  /\ UpdateSelector(r, m, n, d, s) \in [Expert -> Position]
         /\ \A e \in Expert : ExpertLayer(e) \in d => m[UpdateSelector(r, m, n, d, s)[e]] = e
         /\ \A e \in Expert : ExpertLayer(e) \notin d => UpdateSelector(r, m, n, d, s)[e] = s[e]
<1>1. ASSUME NEW e \in Expert
      PROVE  SelectPosition(r, m, n, e, s[e]) \in Replicas(m, e)
  BY SelectedIsReplica DEF EveryExpertIn
<1>2. ASSUME NEW e \in Expert
      PROVE  /\ SelectPosition(r, m, n, e, s[e]) \in Position
             /\ m[SelectPosition(r, m, n, e, s[e])] = e
  BY <1>1 DEF Replicas
<1> QED BY <1>2 DEF UpdateSelector

LEMMA ServeInit ==
  ASSUME \A m \in InitialMappings : EveryExpertIn(m) /\ Layered(m), Init
  PROVE  ServeInv
<1>1. PICK m \in InitialMappings :
          /\ view    = m
          /\ mapping = [r \in Rank |-> m]
          /\ hbm     = m
          /\ selector = [r \in Rank |->
                UpdateSelector(r, m, [e \in Expert |-> Cardinality(Replicas(m, e))],
                               Layer, [e \in Expert |-> 0])]
  BY DEF Init
<1> DEFINE n == [e \in Expert |-> Cardinality(Replicas(m, e))]
           s == [e \in Expert |-> 0]
<1>2. EveryExpertIn(m) /\ Layered(m) /\ plan = <<>>
  BY DEF Init
<1>3. s \in [Expert -> Position]
  <2>1. 0 \in Position
    <3>1. NumLayers * Deploy \in Nat \ {0}
      BY DeployPositive, GeometryAssumption
    <3> QED BY <3>1 DEF Position
  <2> QED BY <2>1
<1> HIDE DEF n, s
<1>4. ASSUME NEW r \in Rank
      PROVE  /\ UpdateSelector(r, m, n, Layer, s) \in [Expert -> Position]
             /\ \A e \in Expert : m[UpdateSelector(r, m, n, Layer, s)[e]] = e
  BY <1>2, <1>3, SelectsAgain, ExpertLayerType
<1>5. selector = [r \in Rank |-> UpdateSelector(r, m, n, Layer, s)]
  BY <1>1 DEF n, s
<1>6. SelectInv /\ LocalTokensServed
  BY <1>1, <1>4, <1>5 DEF SelectInv, LocalTokensServed
<1>7. DeployedInv /\ LayerInv
  BY <1>1, <1>2 DEF DeployedInv, EveryExpertDeployed, EveryExpertIn, LayerInv, Layered
<1> QED BY <1>6, <1>7 DEF ServeInv

LEMMA UpdateMappingSelects ==
  ASSUME CoreInv, LayerInv, SelectInv, NEW r \in Rank, UpdateMapping(r)
  PROVE  SelectInv'
<1>1. /\ mapping' = [mapping EXCEPT ![r] = UpdatedMapping(mapping[r], status)]
      /\ dirty' = [dirty EXCEPT ![r] = dirty[r] \cup {LayerOf(p) : p \in Written(status)}]
      /\ selector' = selector
  BY DEF UpdateMapping
<1>2. /\ mapping \in [Rank -> [Position -> Expert \cup {NoExpert}]]
      /\ dirty \in [Rank -> SUBSET Layer]
  BY DEF CoreInv, TypeOK, MappingTypeOK
<1>3. ASSUME NEW s \in Rank, NEW e \in Expert, ExpertLayer(e) \notin dirty'[s]
      PROVE  mapping'[s][selector'[s][e]] = e
  <2> DEFINE p == selector[s][e]
  <2>1. p \in Position
    BY DEF SelectInv
  <2>2. CASE s # r
    BY <1>1, <1>2, <1>3, <2>2 DEF SelectInv
  <2>3. CASE s = r
    <3>1. /\ ExpertLayer(e) \notin dirty[r]
          /\ \A q \in Written(status) : ExpertLayer(e) # LayerOf(q)
      BY <1>1, <1>2, <1>3, <2>3
    <3>2. mapping[r][p] = e
      BY <2>3, <3>1 DEF SelectInv
    <3>3. ExpertLayer(e) = LayerOf(p)
      <4>1. e # NoExpert
        BY GeometryAssumption DEF Expert, NoExpert
      <4> QED BY <2>1, <3>2, <4>1 DEF LayerInv, Layered, InItsLayer
    <3>4. UpdatedMapping(mapping[r], status)[p] = e
      <4> HIDE DEF p
      <4> QED BY <2>1, <3>1, <3>2, <3>3 DEF UpdatedMapping
    <3> QED BY <1>1, <1>2, <2>3, <3>4
  <2> QED BY <2>2, <2>3
<1> QED BY <1>1, <1>3 DEF SelectInv

LEMMA MainSelectSelects ==
  ASSUME CoreInv, DeployedInv, SelectInv, NEW r \in Rank, MainSelect(r)
  PROVE  SelectInv' /\ \A e \in Expert : mapping[r][selector'[r][e]] = e
<1> DEFINE u == UpdateSelector(r, mapping[r], nums[r], dirty[r], selector[r])
<1>1. /\ selector' = [selector EXCEPT ![r] = u]
      /\ dirty' = [dirty EXCEPT ![r] = {}]
      /\ mapping' = mapping
  BY DEF MainSelect
<1>2. EveryExpertIn(mapping[r]) /\ selector[r] \in [Expert -> Position]
  BY DEF DeployedInv, EveryExpertDeployed, EveryExpertIn, SelectInv
<1>3. /\ u \in [Expert -> Position]
      /\ \A e \in Expert : ExpertLayer(e) \in dirty[r] => mapping[r][u[e]] = e
      /\ \A e \in Expert : ExpertLayer(e) \notin dirty[r] => u[e] = selector[r][e]
  BY <1>2, SelectsAgain
<1> HIDE DEF u
<1>4. \A e \in Expert : mapping[r][u[e]] = e
  BY <1>3 DEF SelectInv
<1>5. selector'[r] = u /\ \A s \in Rank : s # r => selector'[s] = selector[s] /\ dirty'[s] = dirty[s]
  BY <1>1 DEF SelectInv, CoreInv, TypeOK, MappingTypeOK
<1>6. selector' \in [Rank -> [Expert -> Position]]
  BY <1>1, <1>3 DEF SelectInv
<1> QED BY <1>1, <1>4, <1>5, <1>6 DEF SelectInv

(* When the main thread selects, the queue is drained and its worker is    *)
(* between two changes: what the mapping puts on the rank lies there.      *)
LEMMA MainSelectServes ==
  ASSUME CoreInv, LatestIsMapped, DeployedInv, SelectInv, LocalTokensServed,
         NEW r \in Rank, MainSelect(r)
  PROVE  LocalTokensServed'
<1>1. /\ mpc[r] = "copy" /\ IsEmpty(queue[r]) /\ hbm' = hbm
      /\ mpc' = [mpc EXCEPT ![r] = "ready"]
      /\ \E u : selector' = [selector EXCEPT ![r] = u]
  BY DEF MainSelect
<1>2. \A e \in Expert : selector'[r][e] \in Position /\ mapping[r][selector'[r][e]] = e
  BY MainSelectSelects DEF SelectInv
<1>3. ~changing[r]
  BY <1>1 DEF CoreInv, MutualExclusion
<1>4. \A p \in Position : Latest(r, p) = hbm[p]
  <2>1. queue[r].size = 0
    BY <1>1 DEF IsEmpty
  <2>2. \A p \in Position : RearIndices(queue[r], p) = {}
    BY <2>1 DEF RearIndices
  <2> QED BY <2>2 DEF Latest, Queued
<1>5. ASSUME NEW e \in Expert, Owner(selector'[r][e]) = r PROVE hbm'[selector'[r][e]] = e
  <2>1. e # NoExpert
    BY GeometryAssumption DEF Expert, NoExpert
  <2> QED BY <1>1, <1>2, <1>3, <1>4, <1>5, <2>1 DEF LatestIsMapped, OwnPositions
<1>6. ASSUME NEW s \in Rank, s # r, NEW e \in Expert, Owner(selector'[s][e]) = s, mpc'[s] # "copy"
      PROVE  hbm'[selector'[s][e]] = e
  <2>1. selector'[s] = selector[s] /\ mpc'[s] = mpc[s]
    BY <1>1, <1>6 DEF SelectInv, CoreInv, TypeOK, ControlTypeOK
  <2> QED BY <1>1, <1>6, <2>1 DEF LocalTokensServed
<1> QED BY <1>5, <1>6 DEF LocalTokensServed

(* The main thread of another rank copies to its own positions only.       *)
LEMMA MainCopyServes ==
  ASSUME CoreInv, QueueInv, SelectInv, LocalTokensServed, NEW r \in Rank, MainCopy(r)
  PROVE  LocalTokensServed'
<1> DEFINE d == GetFront(queue[r])
<1>1. /\ mpc[r] = "copy" /\ ~IsEmpty(queue[r])
      /\ hbm' = [hbm EXCEPT ![d.pos] = buffer[r][d.buf]]
      /\ selector' = selector /\ mpc' = mpc
  BY DEF MainCopy
<1>2. Owner(d.pos) = r
  BY <1>1, FrontIsFirst DEF QueueInv, OwnPositions
<1> HIDE DEF d
<1>3. ASSUME NEW s \in Rank, NEW e \in Expert, Owner(selector[s][e]) = s, mpc[s] # "copy"
      PROVE  hbm'[selector[s][e]] = e
  <2>1. s # r /\ selector[s][e] # d.pos /\ selector[s][e] \in Position
    BY <1>1, <1>2, <1>3 DEF SelectInv
  <2>2. hbm[selector[s][e]] = e
    BY <1>3 DEF LocalTokensServed
  <2> QED BY <1>1, <2>1, <2>2 DEF CoreInv, TypeOK, WeightTypeOK
<1> QED BY <1>1, <1>3 DEF LocalTokensServed

LEMMA ServeStep ==
  ASSUME RoundInv, FifoInv, WeightInv, LatestIsMapped, ServeInv, [Next]_vars
  PROVE  ServeInv'
<1>1. DeployedInv' /\ LayerInv'
  BY DeployedStep, LayerStep DEF ServeInv
<1>2. SelectInv'
  <2>1. ASSUME NEW r \in Rank, UpdateMapping(r) PROVE SelectInv'
    BY <2>1, UpdateMappingSelects DEF ServeInv, RoundInv
  <2>2. ASSUME NEW r \in Rank, MainSelect(r) PROVE SelectInv'
    BY <2>2, MainSelectSelects DEF ServeInv, RoundInv
  <2>3. CASE UNCHANGED <<mapping, dirty, selector>>
    BY <2>3 DEF ServeInv, SelectInv
  <2> QED BY <2>1, <2>2, <2>3 DEF Next, Worker, Main, vars, weightVars, workerVars,
        Collect, Decide, Dispatch, Gather, Announce, BeginChange, Finish, Transfer,
        MainSkip, MainEnter, MainCopy, Forward
<1>3. LocalTokensServed'
  <2>1. ASSUME NEW r \in Rank, MainSelect(r) PROVE LocalTokensServed'
    BY <2>1, MainSelectServes DEF ServeInv, RoundInv
  <2>2. ASSUME NEW r \in Rank, MainCopy(r) PROVE LocalTokensServed'
    BY <2>2, MainCopyServes DEF ServeInv, RoundInv, WeightInv
  <2>3. CASE /\ UNCHANGED <<selector, hbm>>
             /\ \A r \in Rank : mpc'[r] # "copy" => mpc[r] # "copy"
    BY <2>3 DEF ServeInv, LocalTokensServed
  <2>4. ASSUME NEW r \in Rank, MainSkip(r) \/ MainEnter(r) PROVE LocalTokensServed'
    <3>1. mpc[r] = "idle" /\ UNCHANGED <<selector, hbm>> /\ \E x : mpc' = [mpc EXCEPT ![r] = x]
      BY <2>4 DEF MainSkip, MainEnter, weightVars
    <3>2. \A s \in Rank : mpc'[s] # "copy" => mpc[s] # "copy"
      BY <3>1 DEF RoundInv, CoreInv, TypeOK, ControlTypeOK
    <3> QED BY <2>3, <3>1, <3>2
  <2>5. CASE Forward
    <3>1. \A s \in Rank : mpc[s] = "ready"
      BY <2>5 DEF Forward
    <3> QED BY <2>3, <2>5, <3>1 DEF Forward, weightVars
  <2> QED BY <2>1, <2>2, <2>3, <2>4, <2>5 DEF Next, Worker, Main, vars, weightVars, workerVars,
        Collect, Decide, Dispatch, Gather, Announce, BeginChange, UpdateMapping, Finish, Transfer
<1> QED BY <1>1, <1>2, <1>3 DEF ServeInv

(* LocalTokensServed: tokens that a rank keeps for itself meet the weights *)
(* of their expert, from the moment its main thread lets go of the lock    *)
(* until it takes it again: the selector is refreshed after the queue is   *)
(* drained and before the flag can be raised (placement_manager.cpp        *)
(* 521-530).  The patterns are what init_DeployedPositionToLogisticsId-    *)
(* Mapping makes of them: experts in their layer, and each deployed.       *)
THEOREM OwnTokensMeetTheirExpert ==
  ASSUME \A m \in InitialMappings : EveryExpertIn(m) /\ Layered(m)
  PROVE  Spec => []LocalTokensServed
<1>1. Init => ServeInv
  BY ServeInit
<1>2. RoundInv /\ FifoInv /\ WeightInv /\ LatestIsMapped /\ ServeInv /\ [Next]_vars => ServeInv'
  BY ServeStep
<1>3. ServeInv => LocalTokensServed
  BY DEF ServeInv
<1>4. Spec => []WeightInv
  BY RoundInvariant, FifoInvariant, WeightInit, WeightStep, PTL DEF Spec
<1> QED BY <1>1, <1>2, <1>3, <1>4, RoundInvariant, FifoInvariant, WeightsAreRightful, PTL DEF Spec
=============================================================================
