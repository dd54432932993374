----------------------- MODULE ExpertPlacementProofs ------------------------
(***************************************************************************)
(* Theorems about ExpertPlacement, for every number of ranks, layers,      *)
(* experts and positions, every queue size and every list of instructions. *)
(* First what its operators return; then the types, the counts and the     *)
(* agreement of the ranks; then a round: although each rank works off its  *)
(* own share at its own pace, an instruction always finds the positions as *)
(* it was decided on, the round ends with the placement that was planned,  *)
(* and no two ranks wait in different collectives.                         *)
(*                                                                         *)
(* The argument about a round: the instructions that touch a position all  *)
(* concern its owner, who carries them out in list order, and the two      *)
(* ranks of an instruction let it take effect at the same handshake.  So   *)
(* the settled mapping holds at each position what the next instruction    *)
(* left for it was decided on, or what was planned when none is left.      *)
(***************************************************************************)
EXTENDS ExpertPlacement, FiniteLemmas

-----------------------------------------------------------------------------
(* Offsets.                                                                *)

LEMMA DeployPositive == Deploy \in Nat \ {0}
BY GeometryAssumption DEF Deploy

LEMMA OwnerType == \A p \in Position : Owner(p) \in Rank
<1> TAKE p \in Position
<1>1. p \in Nat
  BY DeployPositive, GeometryAssumption DEF Position
<1>2. p % Deploy \in 0 .. WorldSize * DeployPerRank - 1
  BY <1>1, DeployPositive DEF Deploy
<1> QED BY <1>2, QuotientBelow, GeometryAssumption DEF Owner, Rank

LEMMA LayerOfType == \A p \in Position : LayerOf(p) \in Layer
BY QuotientBelow, DeployPositive, GeometryAssumption DEF Position, LayerOf, Layer

LEMMA PositionsFinite == IsFiniteSet(Position)
BY FS_Interval, DeployPositive, GeometryAssumption DEF Position

-----------------------------------------------------------------------------
(* The ring.                                                               *)

LEMMA RemainderInSlot == \A n \in Int : n % QUEUE_SIZE \in Slot
BY QueueSizeAssumption DEF Slot

LEMMA NewQueueType ==
  ASSUME NEW D, NEW d \in D
  PROVE  NewQueue(d) \in Ring(D)
BY QueueSizeAssumption DEF NewQueue, Ring, Slot

LEMMA EnqueueIdxType ==
  ASSUME NEW D, NEW q \in Ring(D)
  PROVE  EnqueueIdx(q) \in Slot
BY QueueSizeAssumption DEF Ring, EnqueueIdx, Slot

LEMMA EnqueueType ==
  ASSUME NEW D, NEW d \in D, NEW q \in Ring(D), ~IsFull(q)
  PROVE  Enqueue(q, d) \in Ring(D)
<1>1. EnqueueIdx(q) \in Slot
  BY EnqueueIdxType
<1>2. q.size + 1 \in 0 .. QUEUE_SIZE
  BY QueueSizeAssumption DEF Ring, IsFull
<1> QED BY <1>1, <1>2 DEF Ring, Enqueue

LEMMA DequeueType ==
  ASSUME NEW D, NEW q \in Ring(D), ~IsEmpty(q)
  PROVE  Dequeue(q) \in Ring(D)
<1>1. (q.front + 1) % QUEUE_SIZE \in Slot
  BY QueueSizeAssumption DEF Ring, Slot
<1>2. q.size - 1 \in 0 .. QUEUE_SIZE
  BY QueueSizeAssumption DEF Ring, IsEmpty
<1> QED BY <1>1, <1>2 DEF Ring, Dequeue

LEMMA EntryType ==
  ASSUME NEW D, NEW q \in Ring(D), NEW i \in Nat
  PROVE  Entry(q, i) \in D
<1>1. (q.front + i) % QUEUE_SIZE \in Slot
  BY QueueSizeAssumption DEF Ring, Slot
<1> QED BY <1>1 DEF Ring, Entry

(* GetRear names the last descriptor for p.                                *)
LEMMA GetRearIsLast ==
  ASSUME NEW D, NEW q \in Ring(D), NEW p, RearIndices(q, p) # {}
  PROVE  \E i \in RearIndices(q, p) :
            /\ GetRear(q, p) = Entry(q, i)
            /\ \A j \in RearIndices(q, p) : j <= i
<1>1. q.size - 1 \in Int /\ RearIndices(q, p) \in SUBSET (0 .. q.size - 1)
  BY QueueSizeAssumption DEF RearIndices, Ring
<1>2. \E i \in RearIndices(q, p) : \A j \in RearIndices(q, p) : j <= i
  BY <1>1, GreatestOfInterval
<1> QED BY <1>2 DEF GetRear

(* In a ring where the next free slot lies size slots after the front, an  *)
(* Enqueue adds one entry at the rear and leaves the others alone.         *)
FreeSlotInPlace(q) == EnqueueIdx(q) = (q.front + q.size) % QUEUE_SIZE

LEMMA EntrySlotNotFree ==
  ASSUME NEW D, NEW q \in Ring(D), FreeSlotInPlace(q), ~IsFull(q), NEW i \in 0 .. q.size - 1
  PROVE  (q.front + i) % QUEUE_SIZE # EnqueueIdx(q)
<1>1. /\ q.front + i \in Int /\ q.front + q.size \in Int
      /\ q.front + i < q.front + q.size
      /\ (q.front + q.size) - (q.front + i) < QUEUE_SIZE
  BY QueueSizeAssumption DEF Ring, IsFull, Slot
<1> QED BY <1>1, RemaindersDiffer, QueueSizeAssumption DEF FreeSlotInPlace

LEMMA EnqueueEntries ==
  ASSUME NEW D, NEW d \in D, NEW q \in Ring(D), FreeSlotInPlace(q), ~IsFull(q)
  PROVE  /\ Enqueue(q, d).size = q.size + 1
         /\ \A i \in 0 .. q.size - 1 : Entry(Enqueue(q, d), i) = Entry(q, i)
         /\ Entry(Enqueue(q, d), q.size) = d
         /\ FreeSlotInPlace(Enqueue(q, d))
<1> DEFINE n == Enqueue(q, d)
<1>1. EnqueueIdx(q) \in Slot
  BY EnqueueIdxType
<1>2. /\ n.size = q.size + 1 /\ n.front = q.front /\ n.rear = EnqueueIdx(q)
      /\ n.desc = [q.desc EXCEPT ![EnqueueIdx(q)] = d]
  BY DEF Enqueue, Ring
<1>3. \A s \in Slot : n.desc[s] = IF s = EnqueueIdx(q) THEN d ELSE q.desc[s]
  BY <1>1, <1>2 DEF Ring
<1> HIDE DEF n
<1>4. ASSUME NEW i \in 0 .. q.size - 1 PROVE Entry(n, i) = Entry(q, i)
  <2>1. (q.front + i) % QUEUE_SIZE \in Slot
    <3>1. q.front + i \in Int
      BY QueueSizeAssumption DEF Ring, Slot
    <3> QED BY <3>1, RemainderInSlot
  <2> QED BY <1>2, <1>3, <2>1, EntrySlotNotFree DEF Entry
<1>5. Entry(n, q.size) = d
  BY <1>1, <1>2, <1>3 DEF Entry, FreeSlotInPlace
<1>6. FreeSlotInPlace(n)
  <2>1. q.front + q.size \in Int /\ n.front + n.size = q.front + q.size + 1
    BY <1>2 DEF Ring, Slot
  <2>2. EnqueueIdx(n) = (((q.front + q.size) % QUEUE_SIZE) + 1) % QUEUE_SIZE
    BY <1>2 DEF EnqueueIdx, FreeSlotInPlace
  <2>3. (((q.front + q.size) % QUEUE_SIZE) + 1) % QUEUE_SIZE = (q.front + q.size + 1) % QUEUE_SIZE
    BY <2>1, RemainderOfShift, QueueSizeAssumption
  <2> QED BY <2>1, <2>2, <2>3 DEF FreeSlotInPlace
<1> QED BY <1>2, <1>4, <1>5, <1>6 DEF n

(* A Dequeue takes the first entry away; the others move up by one.        *)
LEMMA DequeueEntries ==
  ASSUME NEW D, NEW q \in Ring(D), ~IsEmpty(q)
  PROVE  /\ Dequeue(q).size = q.size - 1
         /\ \A i \in Nat : Entry(Dequeue(q), i) = Entry(q, i + 1)
         /\ \A i \in Nat : (Dequeue(q).front + i) % QUEUE_SIZE
                              = (q.front + (i + 1)) % QUEUE_SIZE
         /\ FreeSlotInPlace(q) => FreeSlotInPlace(Dequeue(q))
<1> DEFINE n == Dequeue(q)
<1>1. /\ n.size = q.size - 1 /\ n.front = (q.front + 1) % QUEUE_SIZE
      /\ n.rear = q.rear /\ n.desc = q.desc
  BY DEF Dequeue, Ring
<1>2. q.front \in Int /\ q.size \in Int
  BY DEF Ring, Slot
<1> HIDE DEF n
<1>3. ASSUME NEW i \in Nat
      PROVE  (n.front + i) % QUEUE_SIZE = (q.front + (i + 1)) % QUEUE_SIZE
  <2>1. (((q.front + 1) % QUEUE_SIZE) + i) % QUEUE_SIZE = (q.front + 1 + i) % QUEUE_SIZE
    <3>1. q.front + 1 \in Int /\ i \in Int
      BY <1>2
    <3> QED BY <3>1, RemainderOfShift, QueueSizeAssumption
  <2>2. q.front + 1 + i = q.front + (i + 1)
    BY <1>2
  <2> QED BY <1>1, <2>1, <2>2
<1>4. ASSUME NEW i \in Nat PROVE Entry(n, i) = Entry(q, i + 1)
  BY <1>1, <1>3 DEF Entry
<1>5. ASSUME FreeSlotInPlace(q) PROVE FreeSlotInPlace(n)
  <2>1. q.size - 1 \in Nat /\ (q.size - 1) + 1 = q.size
    BY <1>2 DEF IsEmpty, Ring
  <2>2. (n.front + n.size) % QUEUE_SIZE = (q.front + q.size) % QUEUE_SIZE
    BY <1>1, <1>3, <2>1
  <2> QED BY <1>1, <1>5, <2>2 DEF FreeSlotInPlace, EnqueueIdx
<1> QED BY <1>1, <1>3, <1>4, <1>5 DEF n

-----------------------------------------------------------------------------
(* Updates of the mapping.                                                 *)

LEMMA LastWriter ==
  ASSUME NEW st, NEW p, Writers(st, p) # {}
  PROVE  (CHOOSE r \in Writers(st, p) : \A s \in Writers(st, p) : s <= r)
            \in Writers(st, p)
<1>1. WorldSize - 1 \in Int /\ Writers(st, p) \in SUBSET (0 .. WorldSize - 1)
  BY GeometryAssumption DEF Writers, Rank
<1>2. \E r \in Writers(st, p) : \A s \in Writers(st, p) : s <= r
  BY <1>1, GreatestOfInterval
<1> QED BY <1>2

(* Whatever the ranks announced, a mapping is updated to a mapping.        *)
LEMMA UpdatedMappingType ==
  ASSUME NEW m \in [Position -> Expert \cup {NoExpert}],
         NEW st \in [Rank -> AnnouncementType]
  PROVE  UpdatedMapping(m, st) \in [Position -> Expert \cup {NoExpert}]
<1>1. ASSUME NEW p \in Position, p \in Written(st)
      PROVE  st[CHOOSE r \in Writers(st, p) : \A s \in Writers(st, p) : s <= r].expert
                \in Expert \cup {NoExpert}
  <2>1. Writers(st, p) # {}
    BY <1>1 DEF Written
  <2>2. \A r \in Writers(st, p) : st[r].expert \in Expert \cup {NoExpert}
    BY DEF Writers, AnnouncementType
  <2> QED BY <2>1, <2>2, LastWriter
<1> QED BY <1>1 DEF UpdatedMapping

(* Counting by +1 and -1 at the written positions is counting anew.        *)
LEMMA UpdatedNumsExact ==
  ASSUME NEW m \in [Position -> Expert \cup {NoExpert}], NEW st,
         NEW n \in [Expert -> Int],
         \A e \in Expert : n[e] = Cardinality(Replicas(m, e))
  PROVE  \A e \in Expert :
            UpdatedNums(n, m, st)[e] = Cardinality(Replicas(UpdatedMapping(m, st), e))
<1> TAKE e \in Expert
<1> DEFINE u    == UpdatedMapping(m, st)
           W    == Written(st)
           gone == {p \in W : m[p] = e}
           came == {p \in W : u[p] = e}
           kept == Replicas(m, e) \ gone
<1>1. \A p \in Position \ W : u[p] = m[p]
  BY DEF UpdatedMapping
<1>2. /\ W \subseteq Position
      /\ gone \subseteq Replicas(m, e)
      /\ Replicas(u, e) = kept \cup came
      /\ kept \cap came = {}
  BY <1>1 DEF Written, Replicas
<1> HIDE DEF u, W
<1>3. /\ IsFiniteSet(gone) /\ IsFiniteSet(came) /\ IsFiniteSet(kept)
      /\ IsFiniteSet(Replicas(m, e))
  <2>1. /\ gone \subseteq Position /\ came \subseteq Position
        /\ kept \subseteq Position /\ Replicas(m, e) \subseteq Position
    BY <1>2 DEF Replicas
  <2> HIDE DEF gone, came, kept
  <2> QED BY <2>1, PositionsFinite, FS_Subset
<1> HIDE DEF gone, came
<1>4. Cardinality(kept) = Cardinality(Replicas(m, e)) - Cardinality(gone)
  BY <1>2, <1>3, CardinalityWithout
<1> HIDE DEF kept
<1>5. Cardinality(Replicas(u, e)) = Cardinality(kept) + Cardinality(came)
  BY <1>2, <1>3, CardinalityOfDisjoint
<1>6. UpdatedNums(n, m, st)[e] = n[e] - Cardinality(gone) + Cardinality(came)
  BY DEF UpdatedNums, u, W, gone, came
<1> QED BY <1>3, <1>4, <1>5, <1>6, FS_CardinalityType DEF u

-----------------------------------------------------------------------------
(* The instruction a rank carries out.                                     *)

LEMMA CurrentType ==
  ASSUME RoundTypeOK, NEW r \in Rank, Busy(r)
  PROVE  /\ HeadIdx(r) \in Remaining(r)
         /\ HeadIdx(r) \in Nat
         /\ Current(r) \in InstructionType
         /\ Concerns(r, Current(r))
<1>1. Remaining(r) \in SUBSET Nat
  BY DEF RoundTypeOK, Remaining
<1>2. HeadIdx(r) \in Remaining(r)
  BY <1>1, LeastOfNaturals DEF HeadIdx, Busy
<1> QED BY <1>1, <1>2 DEF RoundTypeOK, Remaining, Current

LEMMA RankIsNoMinusOne == -1 \notin Rank /\ WorldSize \notin Rank /\ 0 \in Rank
BY GeometryAssumption DEF Rank

(* What a rank reads off its current instruction.                          *)
LEMMA RoleType ==
  ASSUME RoundTypeOK, NEW r \in Rank, Busy(r)
  PROVE  /\ Peer(r) \in Rank
         /\ OwnPosition(r) \in Position
         /\ OwnExpert(r) \in Expert \cup {NoExpert}
BY CurrentType, RankIsNoMinusOne
DEF InstructionType, Concerns, Peer, IsRemove, AsSource, OwnPosition, OwnExpert

LEMMA AnnouncementTyped ==
  ASSUME RoundTypeOK, NEW r \in Rank
  PROVE  Announcement(r) \in AnnouncementType
<1>1. /\ Rank \subseteq -1 .. WorldSize
      /\ WorldSize \in -1 .. WorldSize
      /\ -1 \in -1 .. WorldSize
  BY GeometryAssumption DEF Rank
<1> QED BY <1>1, RoleType DEF Announcement, AnnouncementType, Silent, NoExpert

LEMMA LatestType ==
  ASSUME WeightTypeOK, NEW r \in Rank, NEW p \in Position
  PROVE  Latest(r, p) \in Expert \cup {NoExpert}
<1>1. CASE Queued(r, p)
  <2>1. queue[r] \in Ring(Desc) /\ RearIndices(queue[r], p) # {}
    BY <1>1 DEF WeightTypeOK, Queued
  <2>2. PICK i \in RearIndices(queue[r], p) : GetRear(queue[r], p) = Entry(queue[r], i)
    BY <2>1, GetRearIsLast
  <2>3. Entry(queue[r], i) \in Desc
    BY <2>1, EntryType DEF RearIndices
  <2> QED BY <1>1, <2>2, <2>3 DEF Latest, WeightTypeOK, Desc
<1>2. CASE ~Queued(r, p)
  BY <1>2 DEF Latest, WeightTypeOK
<1> QED BY <1>1, <1>2

-----------------------------------------------------------------------------
(* The inductive invariant of the control flow and the types.  A worker    *)
(* that exchanges weights is carrying out an instruction, and the flag is  *)
(* up exactly while the worker is between raising and dropping it.         *)

ChangingPc == {"changing", "swap1", "swap2", "enqueue"}

FlagInv == \A r \in Rank : changing[r] <=> pc[r] \in ChangingPc

ExchangeInv ==
    \A r \in Rank : pc[r] \in {"swap1", "swap2", "enqueue"} => Busy(r) /\ ~IsRemove(r)

CoreInv == TypeOK /\ FlagInv /\ MutualExclusion /\ ExchangeInv

(* The role of a rank only depends on the list and on its place in it.     *)
LEMMA RoleStable ==
  ASSUME NEW r \in Rank, plan' = plan, idx'[r] = idx[r]
  PROVE  /\ Busy(r)' = Busy(r)
         /\ Remaining(r)' = Remaining(r)
         /\ HeadIdx(r)' = HeadIdx(r)
         /\ Current(r)' = Current(r)
         /\ IsRemove(r)' = IsRemove(r)
BY DEF Busy, Remaining, HeadIdx, Current, IsRemove

LEMMA CoreInit == Init => CoreInv
<1> SUFFICES ASSUME Init PROVE CoreInv
  OBVIOUS
<1>1. PICK m \in InitialMappings :
          /\ view    = m
          /\ mapping = [r \in Rank |-> m]
          /\ hbm     = m
          /\ nums    = [r \in Rank |-> [e \in Expert |-> Cardinality(Replicas(m, e))]]
  BY DEF Init
<1>2. m \in [Position -> Expert \cup {NoExpert}]
  BY PlacementAssumption
<1>3. \A e \in Expert : Cardinality(Replicas(m, e)) \in Int
  <2> TAKE e \in Expert
  <2>1. IsFiniteSet(Replicas(m, e))
    BY PositionsFinite, FS_Subset DEF Replicas
  <2> QED BY <2>1, FS_CardinalityType
<1>4. MappingTypeOK
  BY <1>1, <1>2, <1>3 DEF Init, MappingTypeOK
<1>5. WeightTypeOK
  <2>1. BlankDesc \in Desc
    BY QueueSizeAssumption DEF BlankDesc, Desc, Slot
  <2>2. NewQueue(BlankDesc) \in Ring(Desc)
    BY <2>1, NewQueueType
  <2> QED BY <1>1, <1>2, <2>2 DEF Init, WeightTypeOK
<1>6. RoundTypeOK
  <2>1. Silent \in AnnouncementType
    BY GeometryAssumption DEF Silent, AnnouncementType, NoExpert
  <2> QED BY <1>1, <1>2, <2>1 DEF Init, RoundTypeOK
<1>7. ControlTypeOK /\ FlagInv /\ MutualExclusion /\ ExchangeInv
  BY DEF Init, ControlTypeOK, FlagInv, MutualExclusion, ExchangeInv, ChangingPc
<1> QED BY <1>4, <1>5, <1>6, <1>7 DEF CoreInv, TypeOK

-----------------------------------------------------------------------------
(* One lemma per action of the workers.                                    *)

LEMMA DecideCore ==
  ASSUME CoreInv, NEW m \in Moves, Decide(m)
  PROVE  CoreInv'
<1> USE DEF CoreInv, TypeOK
<1>1. /\ m.type \in {"SWAP", "ADD", "REMOVE"}
      /\ m.source \in Position \cup {-1}
      /\ m.target \in Position
  BY PlacementAssumption
<1>2. \A p \in Position : p # -1
  BY DEF Position
<1>3. Instruction(view, m) \in InstructionType
  <2>1. view \in [Position -> Expert \cup {NoExpert}] /\ LegalMove(view, m)
    BY DEF RoundTypeOK, Decide
  <2>2. CASE m.type = "REMOVE"
    <3>1. m.source = -1 /\ view[m.target] \in Expert
      BY <1>1, <2>1, <2>2 DEF LegalMove
    <3> QED
      BY <1>1, <1>2, <2>2, <3>1, OwnerType DEF Instruction, Holder, InstructionType
  <2>3. CASE m.type \in {"SWAP", "ADD"}
    <3>1. m.source \in Position
      BY <1>1, <2>1, <2>3 DEF LegalMove
    <3> QED
      BY <1>1, <1>2, <2>1, <2>3, <3>1, OwnerType DEF Instruction, Holder, InstructionType
  <2> QED BY <1>1, <2>2, <2>3
<1>4. AfterMove(view, m) \in [Position -> Expert \cup {NoExpert}]
  <2>1. /\ view \in [Position -> Expert \cup {NoExpert}]
        /\ m.type # "REMOVE" => m.source \in Position
    BY <1>1 DEF RoundTypeOK, Decide, LegalMove
  <2> QED BY <1>1, <2>1 DEF AfterMove
<1>5. RoundTypeOK'
  BY <1>3, <1>4 DEF RoundTypeOK, Decide
<1>6. MappingTypeOK' /\ WeightTypeOK' /\ ControlTypeOK' /\ FlagInv' /\ MutualExclusion'
  BY DEF Decide, weightVars, MappingTypeOK, WeightTypeOK, ControlTypeOK, FlagInv, MutualExclusion
<1>7. ExchangeInv'
  BY DEF Decide, ExchangeInv
<1> QED BY <1>5, <1>6, <1>7

LEMMA UpdateMappingCore ==
  ASSUME CoreInv, NEW r \in Rank, UpdateMapping(r)
  PROVE  CoreInv'
<1> USE DEF CoreInv, TypeOK
<1>1. MappingTypeOK'
  <2>1. UpdatedMapping(mapping[r], status) \in [Position -> Expert \cup {NoExpert}]
    BY UpdatedMappingType DEF MappingTypeOK, RoundTypeOK
  <2>2. UpdatedNums(nums[r], mapping[r], status) \in [Expert -> Int]
    <3>1. ASSUME NEW S \in SUBSET Written(status) PROVE Cardinality(S) \in Int
      <4>1. IsFiniteSet(S)
        BY PositionsFinite, FS_Subset DEF Written
      <4> QED BY <4>1, FS_CardinalityType
    <3> QED BY <3>1 DEF UpdatedNums, MappingTypeOK
  <2>3. {LayerOf(p) : p \in Written(status)} \subseteq Layer
    BY LayerOfType DEF Written
  <2> QED BY <2>1, <2>2, <2>3 DEF UpdateMapping, MappingTypeOK
<1>2. WeightTypeOK'
  BY DEF UpdateMapping, WeightTypeOK
<1>3. RoundTypeOK'
  <2>1. Busy(r) => HeadIdx(r) + 1 \in Nat
    BY CurrentType
  <2> QED BY <2>1 DEF UpdateMapping, RoundTypeOK
<1>4. ControlTypeOK' /\ FlagInv' /\ MutualExclusion'
  BY DEF UpdateMapping, ControlTypeOK, FlagInv, MutualExclusion, ChangingPc
<1>5. ExchangeInv'
  <2> SUFFICES ASSUME NEW s \in Rank, pc'[s] \in {"swap1", "swap2", "enqueue"}
               PROVE  (Busy(s) /\ ~IsRemove(s))'
    BY DEF ExchangeInv
  <2>1. plan' = plan /\ idx'[s] = idx[s]
    BY DEF UpdateMapping, RoundTypeOK, ControlTypeOK
  <2>2. Busy(s) /\ ~IsRemove(s)
    BY DEF UpdateMapping, ControlTypeOK, ExchangeInv
  <2> QED BY <2>1, <2>2, RoleStable
<1> QED BY <1>1, <1>2, <1>3, <1>4, <1>5

LEMMA TransferCore ==
  ASSUME CoreInv, NEW a \in Rank, NEW b \in Rank, Transfer(a, b)
  PROVE  CoreInv'
<1> USE DEF CoreInv, TypeOK
<1>1. WeightTypeOK'
  <2>1. OwnPosition(a) \in Position
    BY RoleType DEF Transfer, InSwap, ExchangeInv
  <2>2. Latest(a, OwnPosition(a)) \in Expert \cup {NoExpert}
    BY <2>1, LatestType
  <2>3. RecvSlot(b) \in Slot
    BY EnqueueIdxType DEF RecvSlot, WeightTypeOK
  <2> QED BY <2>2, <2>3 DEF Transfer, WeightTypeOK
<1>2. MappingTypeOK' /\ RoundTypeOK' /\ ControlTypeOK' /\ FlagInv' /\ MutualExclusion'
  BY DEF Transfer, InSwap, AfterTransfer, MappingTypeOK, RoundTypeOK, ControlTypeOK,
         FlagInv, MutualExclusion, ChangingPc
<1>3. ExchangeInv'
  <2> SUFFICES ASSUME NEW s \in Rank, pc'[s] \in {"swap1", "swap2", "enqueue"}
               PROVE  (Busy(s) /\ ~IsRemove(s))'
    BY DEF ExchangeInv
  <2>1. Busy(s) /\ ~IsRemove(s)
    BY DEF Transfer, InSwap, ControlTypeOK, ExchangeInv
  <2> QED BY <2>1, RoleStable DEF Transfer
<1> QED BY <1>1, <1>2, <1>3

LEMMA FinishCore ==
  ASSUME CoreInv, NEW r \in Rank, Finish(r)
  PROVE  CoreInv'
<1> USE DEF CoreInv, TypeOK
<1>1. Busy(r)
  BY DEF Finish, ExchangeInv
<1>2. WeightTypeOK'
  <2>1. [pos |-> OwnPosition(r), buf |-> RecvSlot(r)] \in Desc
    BY <1>1, RoleType, EnqueueIdxType DEF RecvSlot, WeightTypeOK, Desc
  <2>2. ~IsFull(queue[r]) =>
          Enqueue(queue[r], [pos |-> OwnPosition(r), buf |-> RecvSlot(r)]) \in Ring(Desc)
    BY <2>1, EnqueueType DEF WeightTypeOK
  <2> QED BY <2>2 DEF Finish, WeightTypeOK
<1>3. RoundTypeOK'
  <2>1. HeadIdx(r) + 1 \in Nat
    BY <1>1, CurrentType
  <2> QED BY <2>1 DEF Finish, RoundTypeOK
<1>4. MappingTypeOK' /\ ControlTypeOK' /\ FlagInv' /\ MutualExclusion'
  BY DEF Finish, MappingTypeOK, ControlTypeOK, FlagInv, MutualExclusion, ChangingPc
<1>5. ExchangeInv'
  <2> SUFFICES ASSUME NEW s \in Rank, pc'[s] \in {"swap1", "swap2", "enqueue"}
               PROVE  (Busy(s) /\ ~IsRemove(s))'
    BY DEF ExchangeInv
  <2>1. s # r /\ plan' = plan /\ idx'[s] = idx[s]
    BY DEF Finish, RoundTypeOK, ControlTypeOK
  <2>2. Busy(s) /\ ~IsRemove(s)
    BY <2>1 DEF Finish, ControlTypeOK, ExchangeInv
  <2> QED BY <2>1, <2>2, RoleStable
<1> QED BY <1>2, <1>3, <1>4, <1>5

(* The actions that leave the placement, the weights and the list alone.   *)
LEMMA CollectiveCore ==
  ASSUME CoreInv, Collect \/ Dispatch \/ Gather \/ Forward
  PROVE  CoreInv'
<1> USE DEF CoreInv, TypeOK
<1>1. MappingTypeOK' /\ WeightTypeOK'
  BY DEF Collect, Dispatch, Gather, Forward, weightVars, MappingTypeOK, WeightTypeOK
<1>2. RoundTypeOK'
  <2>1. <<>> \in Seq(InstructionType) /\ mapping[0] \in [Position -> Expert \cup {NoExpert}]
    BY RankIsNoMinusOne DEF MappingTypeOK
  <2>2. CASE Collect
    BY <2>1, <2>2 DEF Collect, RoundTypeOK
  <2>3. CASE Dispatch
    BY <2>3 DEF Dispatch, RoundTypeOK
  <2>4. CASE Gather \/ Forward
    BY <2>4 DEF Gather, Forward, workerVars, RoundTypeOK
  <2> QED BY <2>2, <2>3, <2>4
<1>3. ControlTypeOK' /\ FlagInv' /\ MutualExclusion'
  BY DEF Collect, Dispatch, Gather, Forward, weightVars, workerVars, ControlTypeOK,
         FlagInv, MutualExclusion, ChangingPc
<1>4. ExchangeInv'
  <2>1. CASE Forward
    BY <2>1, RoleStable DEF Forward, workerVars, ExchangeInv
  <2>2. CASE Collect \/ Dispatch \/ Gather
    BY <2>2 DEF Collect, Dispatch, Gather, ExchangeInv
  <2> QED BY <2>1, <2>2
<1> QED BY <1>1, <1>2, <1>3, <1>4

LEMMA AnnounceCore ==
  ASSUME CoreInv, NEW r \in Rank, Announce(r) \/ BeginChange(r)
  PROVE  CoreInv'
<1> USE DEF CoreInv, TypeOK
<1>1. MappingTypeOK' /\ WeightTypeOK'
  BY DEF Announce, BeginChange, weightVars, MappingTypeOK, WeightTypeOK
<1>2. RoundTypeOK'
  <2>1. Announcement(r) \in AnnouncementType
    BY AnnouncementTyped
  <2>2. CASE Announce(r)
    BY <2>1, <2>2 DEF Announce, RoundTypeOK
  <2>3. CASE BeginChange(r)
    BY <2>3 DEF BeginChange, RoundTypeOK
  <2> QED BY <2>2, <2>3
<1>3. ControlTypeOK' /\ FlagInv' /\ MutualExclusion'
  BY DEF Announce, BeginChange, weightVars, LockFree, ControlTypeOK, FlagInv,
         MutualExclusion, ChangingPc
<1>4. ExchangeInv'
  BY RoleStable DEF Announce, BeginChange, ControlTypeOK, ExchangeInv
<1> QED BY <1>1, <1>2, <1>3, <1>4

LEMMA MainCore ==
  ASSUME CoreInv, NEW r \in Rank, Main(r)
  PROVE  CoreInv'
<1> USE DEF CoreInv, TypeOK
<1>1. MappingTypeOK' /\ RoundTypeOK'
  BY DEF Main, MainSkip, MainEnter, MainCopy, MainSelect, weightVars, workerVars,
         MappingTypeOK, RoundTypeOK
<1>2. WeightTypeOK'
  <2>1. CASE MainCopy(r)
    <3>1. Dequeue(queue[r]) \in Ring(Desc)
      BY <2>1, DequeueType DEF MainCopy, WeightTypeOK
    <3>2. GetFront(queue[r]).buf \in Slot
      BY DEF WeightTypeOK, Ring, Desc, GetFront
    <3>3. buffer[r][GetFront(queue[r]).buf] \in Expert \cup {NoExpert}
      BY <3>2 DEF WeightTypeOK
    <3> QED BY <2>1, <3>1, <3>3 DEF MainCopy, WeightTypeOK
  <2>2. CASE ~MainCopy(r)
    BY <2>2 DEF Main, MainSkip, MainEnter, MainSelect, weightVars, WeightTypeOK
  <2> QED BY <2>1, <2>2
<1>3. ControlTypeOK' /\ FlagInv' /\ MutualExclusion'
  BY DEF Main, MainSkip, MainEnter, MainCopy, MainSelect, weightVars, workerVars,
         ControlTypeOK, FlagInv, MutualExclusion, ChangingPc
<1>4. ExchangeInv'
  <2>1. UNCHANGED <<plan, idx, pc>>
    BY DEF Main, MainSkip, MainEnter, MainCopy, MainSelect, workerVars
  <2> QED BY <2>1, RoleStable DEF ExchangeInv
<1> QED BY <1>1, <1>2, <1>3, <1>4

LEMMA CoreStep == CoreInv /\ [Next]_vars => CoreInv'
<1> SUFFICES ASSUME CoreInv, [Next]_vars PROVE CoreInv'
  OBVIOUS
<1>1. CASE UNCHANGED vars
  BY <1>1 DEF vars, workerVars, CoreInv, TypeOK, MappingTypeOK, WeightTypeOK, RoundTypeOK,
     ControlTypeOK, FlagInv, MutualExclusion, ExchangeInv, Busy, Remaining, HeadIdx,
     Current, IsRemove
<1>2. CASE Next
  BY <1>2, CollectiveCore, DecideCore, AnnounceCore, UpdateMappingCore, TransferCore,
     FinishCore, MainCore DEF Next, Worker
<1> QED BY <1>1, <1>2

LEMMA CoreInvariant == Spec => []CoreInv
BY CoreInit, CoreStep, PTL DEF Spec

(* TypeOK: whatever is planned, announced and exchanged, the ring indices  *)
(* of every queue stay inside the ring (distribution.h 78-182) and every   *)
(* offset stays inside the mapping and the lists it indexes.               *)
THEOREM TypesHold == Spec => []TypeOK
<1>1. CoreInv => TypeOK
  BY DEF CoreInv
<1> QED BY <1>1, CoreInvariant, PTL

(* MutualExclusion: the main thread never copies weights or reads the      *)
(* mapping while its worker is between raising and dropping                *)
(* sub_thread_is_changing_ (placement_manager.cpp 407-453, 524-528).       *)
THEOREM MainNeverMeetsChange == Spec => []MutualExclusion
<1>1. CoreInv => MutualExclusion
  BY DEF CoreInv
<1> QED BY <1>1, CoreInvariant, PTL

-----------------------------------------------------------------------------
(* Agreement.  Once the announcements that were gathered are entered, all  *)
(* ranks have the same mapping: they enter the same announcements, at      *)
(* their own pace, into mappings that were equal at the last gathering.    *)

LEMMA AgreementInit == Init => MappingAgreement
BY RankIsNoMinusOne DEF Init, MappingAgreement, Settled

LEMMA AgreementStep ==
  CoreInv /\ MappingAgreement /\ [Next]_vars => MappingAgreement'
<1> SUFFICES ASSUME CoreInv, MappingAgreement, [Next]_vars PROVE MappingAgreement'
  OBVIOUS
<1> USE RankIsNoMinusOne DEF CoreInv, TypeOK, MappingTypeOK, ControlTypeOK
<1>1. ASSUME UNCHANGED <<mapping, status>>,
             \A r \in Rank : pc'[r] \in {"gathered", "changing", "failed"}
                              <=> pc[r] \in {"gathered", "changing", "failed"}
      PROVE  MappingAgreement'
  <2>1. ASSUME NEW r \in Rank PROVE Settled(r)' = Settled(r)
    <3>1. UpdatedMapping(mapping[r], status)' = UpdatedMapping(mapping[r], status)
      BY <1>1 DEF UpdatedMapping, Written, Writers, Effective
    <3> QED BY <1>1, <3>1 DEF Settled
  <2> QED BY <2>1 DEF MappingAgreement
<1>2. CASE Gather
  <2>1. \A r \in Rank : Settled(r) = mapping[r]
    BY <1>2 DEF Gather, Settled
  <2>2. \A r \in Rank : mapping[r] = mapping[0]
    BY <2>1 DEF MappingAgreement
  <2>3. \A r \in Rank : Settled(r)' = UpdatedMapping(mapping[r], status')
    BY <1>2 DEF Gather, Settled, weightVars, UpdatedMapping, Written, Writers, Effective
  <2> QED BY <2>2, <2>3 DEF MappingAgreement
<1>3. ASSUME NEW r \in Rank, UpdateMapping(r) PROVE MappingAgreement'
  <2>1. Settled(r) = UpdatedMapping(mapping[r], status)
    BY <1>3 DEF UpdateMapping, Settled
  <2>2. Settled(r)' = UpdatedMapping(mapping[r], status)
    BY <1>3 DEF UpdateMapping, Settled
  <2>3. ASSUME NEW s \in Rank, s # r PROVE Settled(s)' = Settled(s)
    BY <1>3, <2>3 DEF UpdateMapping, Settled, UpdatedMapping, Written, Writers, Effective
  <2> QED BY <2>1, <2>2, <2>3 DEF MappingAgreement
<1>4. CASE Collect \/ Dispatch \/ Forward \/ (\E m \in Moves : Decide(m))
  <2>1. UNCHANGED <<mapping, status>>
    BY <1>4 DEF Collect, Dispatch, Forward, Decide, weightVars, workerVars
  <2>2. \A r \in Rank : pc'[r] \in {"gathered", "changing", "failed"}
                        <=> pc[r] \in {"gathered", "changing", "failed"}
    BY <1>4 DEF Collect, Dispatch, Forward, Decide, workerVars
  <2> QED BY <1>1, <2>1, <2>2
<1>5. ASSUME NEW r \in Rank, Announce(r) \/ BeginChange(r) \/ Finish(r)
      PROVE  MappingAgreement'
  <2>1. UNCHANGED <<mapping, status>>
    BY <1>5 DEF Announce, BeginChange, Finish, weightVars
  <2>2. \A s \in Rank : pc'[s] \in {"gathered", "changing", "failed"}
                        <=> pc[s] \in {"gathered", "changing", "failed"}
    BY <1>5 DEF Announce, BeginChange, Finish
  <2> QED BY <1>1, <2>1, <2>2
<1>6. ASSUME NEW a \in Rank, NEW b \in Rank, Transfer(a, b) PROVE MappingAgreement'
  <2>1. UNCHANGED <<mapping, status>>
    BY <1>6 DEF Transfer
  <2>2. \A s \in Rank : pc'[s] \in {"gathered", "changing", "failed"}
                        <=> pc[s] \in {"gathered", "changing", "failed"}
    BY <1>6 DEF Transfer, InSwap, AfterTransfer
  <2> QED BY <1>1, <2>1, <2>2
<1>7. ASSUME NEW r \in Rank, Main(r) PROVE MappingAgreement'
  <2>1. UNCHANGED <<mapping, status, pc>>
    BY <1>7 DEF Main, MainSkip, MainEnter, MainCopy, MainSelect, weightVars, workerVars
  <2> QED BY <1>1, <2>1
<1>8. CASE UNCHANGED vars
  <2>1. UNCHANGED <<mapping, status, pc>>
    BY <1>8 DEF vars, workerVars
  <2> QED BY <1>1, <2>1
<1> QED
  BY <1>2, <1>3, <1>4, <1>5, <1>6, <1>7, <1>8 DEF Next, Worker

(* MappingAgreement: the copies of the mapping that the ranks keep never   *)
(* disagree (placement_manager.cpp 367-415, placement_mapping.cpp          *)
(* 337-359), so every rank routes tokens by the same placement.            *)
THEOREM RanksAgree == Spec => []MappingAgreement
BY CoreInvariant, AgreementInit, AgreementStep, PTL DEF Spec

-----------------------------------------------------------------------------
(* Counting.                                                               *)

LEMMA CountsInit == Init => CountsExact
BY DEF Init, CountsExact

LEMMA CountsStep == CoreInv /\ CountsExact /\ [Next]_vars => CountsExact'
<1> SUFFICES ASSUME CoreInv, CountsExact, [Next]_vars PROVE CountsExact'
  OBVIOUS
<1> USE DEF CoreInv, TypeOK, MappingTypeOK
<1>1. ASSUME NEW r \in Rank, UpdateMapping(r) PROVE CountsExact'
  <2>1. ASSUME NEW s \in Rank, NEW e \in Expert
        PROVE  nums'[s][e] = Cardinality(Replicas(mapping'[s], e))
    <3>1. CASE s = r
      <4>1. /\ mapping'[r] = UpdatedMapping(mapping[r], status)
            /\ nums'[r] = UpdatedNums(nums[r], mapping[r], status)
        BY <1>1 DEF UpdateMapping
      <4>2. \A f \in Expert : nums[r][f] = Cardinality(Replicas(mapping[r], f))
        BY DEF CountsExact
      <4>3. UpdatedNums(nums[r], mapping[r], status)[e]
              = Cardinality(Replicas(UpdatedMapping(mapping[r], status), e))
        BY <4>2, UpdatedNumsExact
      <4> QED BY <3>1, <4>1, <4>3
    <3>2. CASE s # r
      <4>1. mapping'[s] = mapping[s] /\ nums'[s] = nums[s]
        BY <1>1, <3>2 DEF UpdateMapping
      <4> QED BY <4>1 DEF CountsExact
    <3> QED BY <3>1, <3>2
  <2> QED BY <2>1 DEF CountsExact, Replicas
<1>2. CASE ~(\E r \in Rank : UpdateMapping(r))
  <2>1. UNCHANGED <<mapping, nums>>
    BY <1>2 DEF Next, Worker, Main, Collect, Decide, Dispatch, Gather, Forward, Announce,
       BeginChange, Finish, Transfer, MainSkip, MainEnter, MainCopy, MainSelect,
       weightVars, vars
  <2> QED BY <2>1 DEF CountsExact, Replicas
<1> QED BY <1>1, <1>2

(* CountsExact: expert_id_deployed_nums_ is the number of positions of the *)
(* expert in the same rank's mapping, whatever was announced, so the       *)
(* selector's shortcut for a single replica is taken exactly when there is *)
(* one (placement_mapping.cpp 287-335, 395-400).                           *)
THEOREM CountsStayExact == Spec => []CountsExact
BY CoreInvariant, CountsInit, CountsStep, PTL DEF Spec

-----------------------------------------------------------------------------
(* Instructions and positions.                                             *)

(* What the ranks of an instruction have to do with its positions.         *)
Sound(i) ==
    /\ i \in InstructionType
    /\ i.target_rank = Owner(i.target_position)
    /\ i.type # "REMOVE" => /\ i.source_rank = Owner(i.source_position)
                            /\ i.source_rank # i.target_rank

Touches(i, p) == p \in {i.source_position, i.target_position}

(* What it was decided on at a position it touches, and what it leaves.    *)
Before(i, p) == IF p = i.target_position THEN i.target_expert ELSE i.source_expert

After(i, p) ==
    IF p = i.target_position THEN i.source_expert
    ELSE IF i.type = "SWAP" THEN i.target_expert ELSE i.source_expert

LEMMA TouchesConcerns ==
    ASSUME NEW i, Sound(i), NEW p \in Position, Touches(i, p)
    PROVE  Concerns(Owner(p), i)
<1>1. p # -1
  BY DEF Position
<1> QED BY <1>1 DEF Sound, InstructionType, Touches, Concerns

(* Every position an instruction touches belongs to one of its ranks, a    *)
(* different one for each.                                                 *)
LEMMA OwnTouch ==
    ASSUME NEW r \in Rank, Sound(Current(r)), Concerns(r, Current(r))
    PROVE  /\ OwnPosition(r) \in Position /\ Owner(OwnPosition(r)) = r
           /\ Touches(Current(r), OwnPosition(r))
           /\ \A p \in Position : Owner(p) = r /\ Touches(Current(r), p) => p = OwnPosition(r)
           /\ ~IsAddSource(r) => OwnExpert(r) = After(Current(r), OwnPosition(r))
           /\ IsAddSource(r) => After(Current(r), OwnPosition(r)) = Before(Current(r), OwnPosition(r))
<1> DEFINE i == Current(r)
<1>1. -1 \notin Rank /\ -1 \notin Position
  BY RankIsNoMinusOne DEF Position
<1>2. CASE i.type = "REMOVE"
  <2>1. i.source_rank = -1 /\ i.source_position = -1 /\ i.target_rank = r /\ i.target_position \in Position
    BY <1>1, <1>2 DEF Sound, InstructionType, Concerns
  <2> QED BY <1>1, <1>2, <2>1 DEF Sound, OwnPosition, OwnExpert, AsSource, IsAddSource, Touches, After
<1>3. CASE i.type # "REMOVE"
  <2>1. /\ i.type \in {"SWAP", "ADD"}
        /\ i.source_position \in Position /\ i.target_position \in Position
        /\ i.source_rank = Owner(i.source_position) /\ i.target_rank = Owner(i.target_position)
        /\ i.source_rank # i.target_rank /\ i.source_position # i.target_position
    BY <1>3 DEF Sound, InstructionType
  <2>2. CASE i.source_rank = r
    BY <2>1, <2>2 DEF OwnPosition, OwnExpert, AsSource, IsAddSource, Touches, After, Before
  <2>3. CASE i.source_rank # r
    BY <2>1, <2>3 DEF Concerns, OwnPosition, OwnExpert, AsSource, IsAddSource, Touches, After, Before
  <2> QED BY <2>2, <2>3
<1> QED BY <1>2, <1>3

(* The peer is the other rank of the instruction, or the same.             *)
LEMMA PeerOf ==
    ASSUME NEW r \in Rank, Sound(Current(r)), Concerns(r, Current(r))
    PROVE  /\ Peer(r) \in Rank /\ Concerns(Peer(r), Current(r))
           /\ IsRemove(r) <=> Peer(r) = r
           /\ \A s \in Rank : Concerns(s, Current(r)) => s \in {r, Peer(r)}
<1> DEFINE i == Current(r)
<1>1. -1 \notin Rank
  BY RankIsNoMinusOne
<1>2. CASE i.type = "REMOVE"
  BY <1>1, <1>2 DEF Sound, InstructionType, Concerns, Peer, IsRemove
<1>3. CASE i.type # "REMOVE"
  BY <1>3 DEF Sound, InstructionType, Concerns, Peer, IsRemove, AsSource
<1> QED BY <1>2, <1>3

-----------------------------------------------------------------------------
(* The list: at each position, an instruction was decided on what the one  *)
(* before it leaves, and view is what the last one leaves.                 *)

Touchers(p) == {j \in DOMAIN plan : Touches(plan[j], p)}

Linked(p) ==
    /\ \A j, k \in Touchers(p) :
          j < k /\ (\A l \in Touchers(p) : l <= j \/ k <= l)
              => Before(plan[k], p) = After(plan[j], p)
    /\ \A j \in Touchers(p) :
          (\A l \in Touchers(p) : l <= j) => After(plan[j], p) = view[p]

ListInv ==
    /\ \A j \in DOMAIN plan : Sound(plan[j])
    /\ \A p \in Position : Linked(p)

(* An instruction is decided on view, and view follows it.                 *)
LEMMA NewInstruction ==
    ASSUME TypeOK, NEW m \in Moves, Decide(m)
    PROVE  LET i == Instruction(view, m)
           IN  /\ Sound(i)
               /\ \A p \in Position : Touches(i, p) =>
                    Before(i, p) = view[p] /\ After(i, p) = view'[p]
               /\ \A p \in Position : ~Touches(i, p) => view'[p] = view[p]
<1> DEFINE i == Instruction(view, m)
<1>1. /\ m.type \in {"SWAP", "ADD", "REMOVE"}
      /\ m.source \in Position \cup {-1}
      /\ m.target \in Position
      /\ -1 \notin Position
  BY PlacementAssumption DEF Position
<1>2. /\ view \in [Position -> Expert \cup {NoExpert}]
      /\ LegalMove(view, m) /\ view' = AfterMove(view, m)
  BY DEF Decide, TypeOK, RoundTypeOK
<1>3. \A p \in Position :
        view'[p] = IF p = m.target THEN IF m.type = "REMOVE" THEN NoExpert ELSE view[m.source]
                   ELSE IF p = m.source /\ m.type = "SWAP" THEN view[m.target] ELSE view[p]
  BY <1>2 DEF AfterMove
<1>4. /\ i.type = m.type /\ i.source_position = m.source /\ i.target_position = m.target
      /\ i.source_expert = IF m.source = -1 THEN NoExpert ELSE view[m.source]
      /\ i.target_expert = view[m.target]
      /\ i.source_rank = Holder(m.source) /\ i.target_rank = Owner(m.target)
  BY <1>1 DEF Instruction, Holder
<1>5. CASE m.type = "REMOVE"
  <2>1. m.source = -1 /\ view[m.target] \in Expert
    BY <1>1, <1>2, <1>5 DEF LegalMove
  <2>2. Sound(i)
    BY <1>1, <1>2, <1>5, <2>1, OwnerType DEF Instruction, Holder, InstructionType, Sound
  <2> HIDE DEF i
  <2> QED BY <1>1, <1>3, <1>4, <1>5, <2>1, <2>2 DEF Touches, Before, After, i
<1>6. CASE m.type # "REMOVE"
  <2>1. m.source \in Position /\ Owner(m.source) # Owner(m.target)
    BY <1>1, <1>2, <1>6 DEF LegalMove
  <2>2. Sound(i)
    BY <1>1, <1>2, <1>6, <2>1, OwnerType DEF Instruction, Holder, InstructionType, Sound
  <2>3. m.source # m.target
    BY <2>1
  <2> HIDE DEF i
  <2>4. \A p \in Position : Touches(i, p) => Before(i, p) = view[p] /\ After(i, p) = view'[p]
    BY <1>1, <1>3, <1>4, <1>6, <2>1, <2>3 DEF Touches, Before, After
  <2>5. \A p \in Position : ~Touches(i, p) => view'[p] = view[p]
    BY <1>3, <1>4 DEF Touches
  <2> QED BY <2>2, <2>4, <2>5 DEF i
<1> QED BY <1>5, <1>6

LEMMA ListInit == Init => ListInv
BY DEF Init, ListInv, Linked, Touchers

LEMMA ListStep ==
    ASSUME TypeOK, ListInv, [Next]_vars PROVE ListInv'
<1>1. ASSUME NEW m \in Moves, Decide(m) PROVE ListInv'
  <2> DEFINE n == Len(plan) + 1
             i == Instruction(view, m)
  <2>1. /\ plan \in Seq(InstructionType) /\ plan' = Append(plan, i)
        /\ Sound(i)
    BY <1>1, NewInstruction DEF TypeOK, RoundTypeOK, Decide
  <2>2. /\ n \in Nat /\ n \notin DOMAIN plan /\ DOMAIN plan' = DOMAIN plan \cup {n}
        /\ plan'[n] = i
        /\ \A j \in DOMAIN plan : plan'[j] = plan[j] /\ j \in Nat /\ j < n
    <3>1. i \in InstructionType
      BY <2>1 DEF Sound
    <3> HIDE DEF i
    <3> QED BY <2>1, <3>1
  <2> HIDE DEF i, n
  <2>3. \A j \in DOMAIN plan' : Sound(plan'[j])
    BY <2>1, <2>2 DEF ListInv
  <2>4. ASSUME NEW p \in Position PROVE Linked(p)'
    <3>1. Touchers(p) \subseteq DOMAIN plan
      BY DEF Touchers
    <3>2. CASE Touches(i, p)
      <4>1. Touchers(p)' = Touchers(p) \cup {n}
        BY <2>2, <3>2 DEF Touchers
      <4>2. Before(i, p) = view[p] /\ After(i, p) = view'[p]
        BY <1>1, <3>2, NewInstruction DEF i
      <4>3. ASSUME NEW j \in Touchers(p)', NEW k \in Touchers(p)', j < k,
                   \A l \in Touchers(p)' : l <= j \/ k <= l
            PROVE  Before(plan'[k], p) = After(plan'[j], p)
        <5>1. j \in Touchers(p)
          BY <2>2, <3>1, <4>1, <4>3
        <5>2. CASE k = n
          <6>1. \A l \in Touchers(p) : l <= j
            BY <2>2, <3>1, <4>1, <4>3, <5>2
          <6>2. After(plan[j], p) = view[p]
            BY <5>1, <6>1 DEF ListInv, Linked
          <6> QED BY <2>2, <3>1, <4>2, <5>1, <5>2, <6>2
        <5>3. CASE k \in Touchers(p)
          <6>1. Before(plan[k], p) = After(plan[j], p)
            BY <4>1, <4>3, <5>1, <5>3 DEF ListInv, Linked
          <6> QED BY <2>2, <3>1, <5>1, <5>3, <6>1
        <5> QED BY <4>1, <5>2, <5>3
      <4>4. ASSUME NEW j \in Touchers(p)', \A l \in Touchers(p)' : l <= j
            PROVE  After(plan'[j], p) = view'[p]
        BY <2>2, <3>1, <4>1, <4>2, <4>4
      <4> QED BY <4>3, <4>4 DEF Linked
    <3>3. CASE ~Touches(i, p)
      <4>1. Touchers(p)' = Touchers(p)
        BY <2>2, <3>3 DEF Touchers
      <4>2. view'[p] = view[p]
        BY <1>1, <3>3, NewInstruction DEF i
      <4>3. \A j \in Touchers(p) : plan'[j] = plan[j]
        BY <2>2, <3>1
      <4>4. Linked(p)
        BY DEF ListInv
      <4> QED BY <4>1, <4>2, <4>3, <4>4 DEF Linked
    <3> QED BY <3>2, <3>3
  <2> QED BY <2>3, <2>4 DEF ListInv
<1>2. CASE Collect
  <2>1. plan' = <<>>
    BY <1>2 DEF Collect
  <2> QED BY <2>1 DEF ListInv, Linked, Touchers
<1>3. CASE ~(Collect \/ \E m \in Moves : Decide(m))
  <2>1. UNCHANGED <<plan, view>>
    BY <1>3 DEF Next, Worker, Main, Dispatch, Gather, Forward, Announce, BeginChange,
       UpdateMapping, Finish, Transfer, MainSkip, MainEnter, MainCopy, MainSelect,
       workerVars, vars
  <2> QED BY <2>1 DEF ListInv, Linked, Touchers
<1> QED BY <1>1, <1>2, <1>3

-----------------------------------------------------------------------------
(* The handshake: what a rank announces, until it is entered.              *)

Offers(r, a) ==
    IF ~Busy(r) THEN a = Silent
    ELSE /\ a.t \in {Peer(r), WorldSize} /\ (IsRemove(r) => a.t = r)
         /\ a.pos = IF IsAddSource(r) THEN -1 ELSE OwnPosition(r)
         /\ a.expert = OwnExpert(r)

OfferInv ==
    \A r \in Rank : /\ pc[r] = "gather" => Offers(r, announced[r])
                    /\ pc[r] \in {"gathered", "changing"} => Offers(r, status[r])

(* A round ends everywhere or nowhere.                                     *)
Ending == {"gathered", "changing", "collect"}
AllSilent == \A r \in Rank : status[r].t = -1

PhaseInv ==
    /\ \A r, s \in Rank : pc[r] = "optimize" => pc[s] = "optimize"
    /\ \A r \in Rank : pc[r] = "collect" => AllSilent /\ ~Busy(r)
    /\ AllSilent => \A r, s \in Rank : pc[r] \in Ending => pc[s] \in Ending

HandshakeInv == OfferInv /\ PhaseInv

LEMMA RolesStable ==
    ASSUME NEW r \in Rank, plan' = plan, idx'[r] = idx[r]
    PROVE  /\ Busy(r)' = Busy(r) /\ Remaining(r)' = Remaining(r) /\ HeadIdx(r)' = HeadIdx(r)
           /\ Peer(r)' = Peer(r) /\ IsRemove(r)' = IsRemove(r) /\ Current(r)' = Current(r)
           /\ IsAddSource(r)' = IsAddSource(r)
           /\ OwnPosition(r)' = OwnPosition(r) /\ OwnExpert(r)' = OwnExpert(r)
BY DEF Busy, Remaining, HeadIdx, Current, IsRemove, AsSource, IsAddSource, Peer,
       OwnPosition, OwnExpert

(* A rank announces -1 exactly when it has nothing left to do.             *)
LEMMA SilentIsIdle ==
    ASSUME RoundTypeOK, NEW r \in Rank, NEW a, Offers(r, a)
    PROVE  a.t = -1 <=> ~Busy(r)
<1>1. -1 \notin Rank /\ WorldSize # -1
  BY RankIsNoMinusOne, GeometryAssumption
<1>2. Busy(r) => Peer(r) \in Rank
  BY RoleType
<1> QED BY <1>1, <1>2 DEF Offers, Silent

LEMMA HandshakeInit == Init => HandshakeInv
BY DEF Init, HandshakeInv, OfferInv, PhaseInv, Ending, AllSilent, Silent, Busy, Remaining

(* What leaves the handshake alone.                                        *)
LEMMA HandshakeKept ==
    ASSUME HandshakeInv, UNCHANGED <<plan, status, announced>>,
           \A r \in Rank :
              \/ pc'[r] = pc[r] /\ idx'[r] = idx[r]
              \/ /\ pc[r] \notin Ending \cup {"optimize"}
                 /\ pc'[r] \notin Ending \cup {"optimize", "gather"}
    PROVE  HandshakeInv'
<1> USE DEF HandshakeInv
<1>1. \A r \in Rank : pc'[r] \in Ending \cup {"optimize", "gather"} =>
                      pc'[r] = pc[r] /\ idx'[r] = idx[r]
  OBVIOUS
<1>2. \A r \in Rank : pc[r] \in Ending \cup {"optimize"} => pc'[r] = pc[r]
  OBVIOUS
<1>3. OfferInv'
  <2> SUFFICES ASSUME NEW r \in Rank, pc'[r] \in {"gather", "gathered", "changing"}
               PROVE  /\ pc'[r] = "gather" => Offers(r, announced[r])'
                      /\ pc'[r] \in {"gathered", "changing"} => Offers(r, status[r])'
    BY DEF OfferInv
  <2>1. pc'[r] = pc[r] /\ idx'[r] = idx[r]
    BY <1>1 DEF Ending
  <2> QED BY <2>1, RolesStable DEF OfferInv, Offers
<1>4. PhaseInv'
  <2>1. AllSilent' = AllSilent
    BY DEF AllSilent
  <2>2. \A r, s \in Rank : pc'[r] = "optimize" => pc'[s] = "optimize"
    BY <1>1, <1>2 DEF PhaseInv
  <2>3. \A r \in Rank : pc'[r] = "collect" => AllSilent /\ ~Busy(r)'
    BY <1>1, RolesStable DEF PhaseInv, Ending
  <2>4. AllSilent => \A r, s \in Rank : pc'[r] \in Ending => pc'[s] \in Ending
    BY <1>1, <1>2 DEF PhaseInv
  <2> QED BY <2>1, <2>2, <2>3, <2>4 DEF PhaseInv
<1> QED BY <1>3, <1>4

LEMMA HandshakeStep ==
    ASSUME CoreInv, HandshakeInv, [Next]_vars PROVE HandshakeInv'
<1> USE DEF CoreInv, TypeOK, ControlTypeOK, HandshakeInv
<1>1. CASE Collect \/ Dispatch \/ \E m \in Moves : Decide(m)
  <2>1. \A r \in Rank : pc'[r] \in {"optimize", "handshake"}
    BY <1>1 DEF Collect, Dispatch, Decide
  <2>2. \A r, s \in Rank : pc'[r] = pc'[s]
    BY <1>1 DEF Collect, Dispatch, Decide
  <2> QED BY <2>1, <2>2 DEF OfferInv, PhaseInv, Ending
<1>2. ASSUME NEW r \in Rank, Announce(r) PROVE HandshakeInv'
  <2>1. /\ UNCHANGED <<plan, status, idx>> /\ pc[r] = "handshake"
        /\ announced'[r] = Announcement(r) /\ pc'[r] = "gather"
        /\ \A s \in Rank \ {r} : pc'[s] = pc[s] /\ announced'[s] = announced[s]
    BY <1>2 DEF Announce, RoundTypeOK
  <2>2. Offers(r, Announcement(r))
    BY DEF Offers, Announcement, IsRemove, Peer
  <2>3. OfferInv'
    BY <2>1, <2>2, RolesStable DEF OfferInv, Offers
  <2>4. PhaseInv'
    <3>1. \A s \in Rank : pc[s] # "optimize" /\ (AllSilent => pc[s] \notin Ending)
      BY <2>1 DEF PhaseInv, Ending
    <3>2. AllSilent' = AllSilent
      BY <2>1 DEF AllSilent
    <3>3. \A s \in Rank : pc'[s] = "collect" => AllSilent /\ ~Busy(s)'
      BY <2>1, RolesStable DEF PhaseInv
    <3> QED BY <2>1, <3>1, <3>2, <3>3 DEF PhaseInv, Ending
  <2> QED BY <2>3, <2>4
<1>3. CASE Gather
  <2>1. /\ UNCHANGED <<plan, idx>> /\ status' = announced
        /\ \A r \in Rank : pc[r] = "gather" /\ pc'[r] = "gathered"
    BY <1>3 DEF Gather
  <2>2. OfferInv'
    BY <2>1, RolesStable DEF OfferInv, Offers
  <2> QED BY <2>1, <2>2 DEF PhaseInv, Ending
<1>4. ASSUME NEW r \in Rank, BeginChange(r) PROVE HandshakeInv'
  <2>1. /\ UNCHANGED <<plan, idx, status, announced>> /\ pc[r] = "gathered"
        /\ pc'[r] = "changing" \/ (pc'[r] = "failed" /\ Busy(r))
        /\ \A s \in Rank \ {r} : pc'[s] = pc[s]
    BY <1>4 DEF BeginChange
  <2>2. Offers(r, status[r])
    BY <2>1 DEF OfferInv
  <2>3. OfferInv'
    BY <2>1, <2>2, RolesStable DEF OfferInv, Offers
  <2>4. PhaseInv'
    <3>1. AllSilent' = AllSilent /\ (AllSilent => pc'[r] = "changing")
      BY <2>1, <2>2, SilentIsIdle DEF AllSilent
    <3>2. \A s \in Rank : pc'[s] = "collect" => AllSilent /\ ~Busy(s)'
      BY <2>1, RolesStable DEF PhaseInv
    <3>3. \A s, t \in Rank : pc'[s] = "optimize" => pc'[t] = "optimize"
      BY <2>1 DEF PhaseInv
    <3>4. AllSilent => \A s \in Rank : pc'[s] \in Ending
      BY <2>1, <3>1 DEF PhaseInv, Ending
    <3> QED BY <3>1, <3>2, <3>3, <3>4 DEF PhaseInv
  <2> QED BY <2>3, <2>4
<1>5. ASSUME NEW r \in Rank, UpdateMapping(r) PROVE HandshakeInv'
  <2>1. /\ UNCHANGED <<plan, status, announced>> /\ pc[r] = "changing"
        /\ \A s \in Rank \ {r} : pc'[s] = pc[s] /\ idx'[s] = idx[s]
        /\ ~Busy(r) => idx'[r] = idx[r]
        /\ pc'[r] \in {"swap1", "collect", "handshake"}
        /\ ~Busy(r) /\ Agreed(r) <=> pc'[r] = "collect"
    BY <1>5 DEF UpdateMapping, RoundTypeOK
  <2>2. Offers(r, status[r])
    BY <2>1 DEF OfferInv
  <2>3. AllSilent <=> pc'[r] = "collect"
    <3>1. CASE AllSilent
      BY <2>1, <2>2, <3>1, SilentIsIdle DEF AllSilent, Agreed
    <3>2. CASE pc'[r] = "collect"
      BY <2>1, <2>2, <3>2, SilentIsIdle, RankIsNoMinusOne DEF AllSilent, Agreed
    <3> QED BY <3>1, <3>2
  <2>4. OfferInv'
    BY <2>1, RolesStable DEF OfferInv, Offers
  <2>5. PhaseInv'
    <3>1. AllSilent' = AllSilent
      BY <2>1 DEF AllSilent
    <3>2. ASSUME NEW s \in Rank, pc'[s] = "collect" PROVE AllSilent /\ ~Busy(s)'
      <4>1. CASE s = r
        BY <2>1, <2>3, <3>2, <4>1, RolesStable
      <4>2. CASE s # r
        BY <2>1, <3>2, <4>2, RolesStable DEF PhaseInv
      <4> QED BY <4>1, <4>2
    <3>3. \A s, t \in Rank : pc'[s] = "optimize" => pc'[t] = "optimize"
      BY <2>1 DEF PhaseInv
    <3>4. AllSilent => \A s \in Rank : pc'[s] \in Ending
      BY <2>1, <2>3 DEF PhaseInv, Ending
    <3> QED BY <3>1, <3>2, <3>3, <3>4 DEF PhaseInv
  <2> QED BY <2>4, <2>5
<1>6. ASSUME NEW r \in Rank, Finish(r) PROVE HandshakeInv'
  <2>1. /\ UNCHANGED <<plan, status, announced>> /\ pc[r] = "enqueue" /\ pc'[r] = "handshake"
        /\ \A s \in Rank \ {r} : pc'[s] = pc[s] /\ idx'[s] = idx[s]
    BY <1>6 DEF Finish, RoundTypeOK
  <2> QED BY <2>1, HandshakeKept DEF Ending
<1>7. ASSUME NEW a \in Rank, NEW b \in Rank, Transfer(a, b) PROVE HandshakeInv'
  <2>1. /\ UNCHANGED <<plan, idx, status, announced>>
        /\ \A r \in {a, b} : pc[r] \in {"swap1", "swap2"} /\ pc'[r] \in {"swap2", "enqueue"}
        /\ \A r \in Rank \ {a, b} : pc'[r] = pc[r]
    BY <1>7 DEF Transfer, InSwap, AfterTransfer
  <2> QED BY <2>1, HandshakeKept DEF Ending
<1>8. CASE Forward \/ (\E r \in Rank : Main(r)) \/ UNCHANGED vars
  <2>1. UNCHANGED <<plan, status, announced, pc, idx>>
    BY <1>8 DEF Forward, Main, MainSkip, MainEnter, MainCopy, MainSelect, workerVars, vars
  <2> QED BY <2>1, HandshakeKept
<1> QED BY <1>1, <1>2, <1>3, <1>4, <1>5, <1>6, <1>7, <1>8 DEF Next, Worker

(* OneCollective: a rank leaves the round only when every rank announced   *)
(* in the same handshake that it has nothing left to do, so nobody gathers *)
(* a handshake while another gathers activation counts                     *)
(* (performGlobalHandshake, placement_manager.cpp 335-365, 455-500).       *)
THEOREM NobodyLeavesAlone == Spec => []OneCollective
<1>1. HandshakeInv => OneCollective
  BY DEF HandshakeInv, PhaseInv, Ending, OneCollective
<1> QED BY <1>1, CoreInvariant, HandshakeInit, HandshakeStep, PTL DEF Spec


-----------------------------------------------------------------------------
(* What is left of the list for a rank, and for a position.                *)

Left(r) == IF pc[r] = "optimize" THEN {j \in DOMAIN plan : Concerns(r, plan[j])}
           ELSE Remaining(r) \ TakenEffect(r)

Due(p) == {j \in Left(Owner(p)) : Touches(plan[j], p)}

(* An instruction is left for both of its ranks or for none.               *)
Paired ==
    \A r, s \in Rank : \A j \in DOMAIN plan :
        Concerns(r, plan[j]) /\ Concerns(s, plan[j]) => (j \in Left(r) <=> j \in Left(s))

(* The settled mapping is what the next instruction was decided on.        *)
PlaceInv ==
    \A p \in Position :
        /\ Due(p) = {} => Settled(0)[p] = view[p]
        /\ \A j \in Due(p) : (\A k \in Due(p) : j <= k) => Settled(0)[p] = Before(plan[j], p)

CheckInv ==
    \A r \in Rank : /\ pc[r] # "failed"
                    /\ pc[r] = "gathered" /\ Busy(r) /\ Agreed(r) => Consistent(r)

RoundInv ==
    CoreInv /\ MappingAgreement /\ ListInv /\ HandshakeInv /\ Paired /\ PlaceInv /\ CheckInv

LEMMA HeadIsLeast ==
    ASSUME RoundTypeOK, NEW r \in Rank, Busy(r)
    PROVE  /\ HeadIdx(r) \in Remaining(r)
           /\ \A j \in Remaining(r) : HeadIdx(r) <= j
           /\ {j \in DOMAIN plan : j >= HeadIdx(r) + 1 /\ Concerns(r, plan[j])}
                  = Remaining(r) \ {HeadIdx(r)}
<1>1. Remaining(r) \in SUBSET Nat /\ DOMAIN plan \subseteq Nat /\ idx[r] \in Nat
  BY DEF RoundTypeOK, Remaining
<1>2. HeadIdx(r) \in Remaining(r) /\ \A j \in Remaining(r) : HeadIdx(r) <= j
  BY <1>1, LeastOfNaturals DEF HeadIdx, Busy
<1> QED BY <1>1, <1>2 DEF Remaining

LEMMA RoundInit == Init => RoundInv
<1> SUFFICES ASSUME Init PROVE RoundInv
  OBVIOUS
<1>1. CoreInv /\ MappingAgreement /\ ListInv /\ HandshakeInv
  BY CoreInit, AgreementInit, ListInit, HandshakeInit
<1>2. plan = <<>> /\ (\A r \in Rank : pc[r] = "collect") /\ view = mapping[0]
  BY RankIsNoMinusOne DEF Init
<1>3. \A r \in Rank : Left(r) = {}
  BY <1>2 DEF Left, Remaining
<1>4. Paired
  BY <1>2 DEF Paired
<1>5. PlaceInv
  BY <1>2, <1>3, OwnerType, RankIsNoMinusOne DEF PlaceInv, Due, Settled
<1>6. CheckInv
  BY <1>2 DEF CheckInv
<1> QED BY <1>1, <1>4, <1>5, <1>6 DEF RoundInv

(* Only the allgather changes the settled mapping.                         *)
LEMMA SettledStable ==
    ASSUME CoreInv, [Next]_vars, ~Gather, NEW r \in Rank PROVE Settled(r)' = Settled(r)
<1> USE DEF CoreInv, TypeOK, MappingTypeOK, ControlTypeOK
<1> DEFINE Late == {"gathered", "changing", "failed"}
<1>1. CASE UpdateMapping(r)
  BY <1>1 DEF UpdateMapping, Settled, UpdatedMapping, Written, Writers, Effective
<1>2. CASE ~UpdateMapping(r)
  <2>1. mapping'[r] = mapping[r] /\ status' = status
    <3>1. CASE \E s \in Rank : UpdateMapping(s)
      <4>1. PICK s \in Rank : UpdateMapping(s)
        BY <3>1
      <4>2. s # r
        BY <1>2, <4>1
      <4> QED BY <4>1, <4>2 DEF UpdateMapping
    <3>2. CASE ~(\E s \in Rank : UpdateMapping(s))
      BY <3>2 DEF Next, Worker, Main, Collect, Decide, Dispatch, Gather, Forward, Announce,
         BeginChange, Finish, Transfer, MainSkip, MainEnter, MainCopy, MainSelect,
         weightVars, workerVars, vars
    <3> QED BY <3>1, <3>2
  <2>2. pc'[r] \in Late <=> pc[r] \in Late
    <3>1. CASE Collect \/ Dispatch \/ Forward \/ (\E m \in Moves : Decide(m)) \/ UNCHANGED vars
      BY <3>1 DEF Collect, Dispatch, Forward, Decide, workerVars, vars
    <3>2. ASSUME NEW s \in Rank, Announce(s) \/ BeginChange(s) \/ UpdateMapping(s) \/ Finish(s)
          PROVE  pc'[r] \in Late <=> pc[r] \in Late
      BY <1>2, <3>2 DEF Announce, BeginChange, UpdateMapping, Finish
    <3>3. ASSUME NEW a \in Rank, NEW b \in Rank, Transfer(a, b)
          PROVE  pc'[r] \in Late <=> pc[r] \in Late
      BY <3>3 DEF Transfer, InSwap, AfterTransfer
    <3>4. ASSUME NEW s \in Rank, Main(s) PROVE pc'[r] \in Late <=> pc[r] \in Late
      BY <3>4 DEF Main, MainSkip, MainEnter, MainCopy, MainSelect, workerVars
    <3> QED BY <3>1, <3>2, <3>3, <3>4 DEF Next, Worker
  <2>3. UpdatedMapping(mapping[r], status)' = UpdatedMapping(mapping[r], status)
    BY <2>1 DEF UpdatedMapping, Written, Writers, Effective
  <2> QED BY <2>1, <2>2, <2>3 DEF Settled
<1> QED BY <1>1, <1>2

(* Within a round only the allgather lets instructions take effect.        *)
LEMMA LeftStable ==
    ASSUME CoreInv, HandshakeInv, [Next]_vars, ~Gather, ~Collect, \A m \in Moves : ~Decide(m),
           NEW r \in Rank
    PROVE  Left(r)' = Left(r)
<1> USE DEF CoreInv, TypeOK, ControlTypeOK
<1> DEFINE Settling == {"gathered", "changing", "failed"}
           Exchanging == {"swap1", "swap2", "enqueue"}
<1>1. ASSUME plan' = plan, idx'[r] = idx[r], status' = status,
             pc'[r] = "optimize" <=> pc[r] = "optimize",
             pc'[r] \in Exchanging <=> pc[r] \in Exchanging,
             pc'[r] \in Settling <=> pc[r] \in Settling
      PROVE  Left(r)' = Left(r)
  <2>1. TakenEffect(r)' = TakenEffect(r)
    BY <1>1, RolesStable DEF TakenEffect, Agreed
  <2> QED BY <1>1, <2>1, RolesStable DEF Left, Concerns
<1>2. CASE Dispatch
  <2>1. plan' = plan /\ pc[r] = "optimize" /\ pc'[r] = "handshake" /\ idx'[r] = 1
    BY <1>2 DEF Dispatch
  <2>2. \A j \in DOMAIN plan : j >= 1
    BY DEF RoundTypeOK
  <2>3. TakenEffect(r)' = {}
    BY <2>1 DEF TakenEffect
  <2> QED BY <2>1, <2>2, <2>3 DEF Left, Remaining, Concerns
<1>3. CASE Forward \/ (\E s \in Rank : Main(s)) \/ UNCHANGED vars
  <2>1. UNCHANGED <<plan, idx, status, pc>>
    BY <1>3 DEF Forward, Main, MainSkip, MainEnter, MainCopy, MainSelect, workerVars, vars
  <2> QED BY <1>1, <2>1
<1>4. ASSUME NEW s \in Rank, Announce(s) \/ BeginChange(s) PROVE Left(r)' = Left(r)
  <2>1. UNCHANGED <<plan, idx, status>>
    BY <1>4 DEF Announce, BeginChange
  <2>2. /\ pc'[r] = "optimize" <=> pc[r] = "optimize"
        /\ pc'[r] \in Exchanging <=> pc[r] \in Exchanging
        /\ pc'[r] \in Settling <=> pc[r] \in Settling
    BY <1>4 DEF Announce, BeginChange
  <2> QED BY <1>1, <2>1, <2>2
<1>5. ASSUME NEW a \in Rank, NEW b \in Rank, Transfer(a, b) PROVE Left(r)' = Left(r)
  <2>1. UNCHANGED <<plan, idx, status>>
    BY <1>5 DEF Transfer
  <2>2. /\ pc'[r] = "optimize" <=> pc[r] = "optimize"
        /\ pc'[r] \in Exchanging <=> pc[r] \in Exchanging
        /\ pc'[r] \in Settling <=> pc[r] \in Settling
    BY <1>5 DEF Transfer, InSwap, AfterTransfer
  <2> QED BY <1>1, <2>1, <2>2
<1>6. ASSUME NEW s \in Rank, Finish(s) PROVE Left(r)' = Left(r)
  <2>1. /\ plan' = plan /\ status' = status /\ pc[s] = "enqueue" /\ pc'[s] = "handshake"
        /\ idx'[s] = HeadIdx(s) + 1
        /\ \A t \in Rank \ {s} : pc'[t] = pc[t] /\ idx'[t] = idx[t]
    BY <1>6 DEF Finish, RoundTypeOK
  <2>2. CASE r = s
    <3>1. Busy(r) /\ TakenEffect(r) = {HeadIdx(r)}
      BY <2>1, <2>2 DEF ExchangeInv, TakenEffect
    <3>2. TakenEffect(r)' = {}
      BY <2>1, <2>2 DEF TakenEffect
    <3>3. Remaining(r)' = Remaining(r) \ {HeadIdx(r)}
      BY <2>1, <2>2, <3>1, HeadIsLeast DEF Remaining, Concerns
    <3> QED BY <2>1, <2>2, <3>1, <3>2, <3>3 DEF Left
  <2>3. CASE r # s
    BY <1>1, <2>1, <2>3
  <2> QED BY <2>2, <2>3
<1>7. ASSUME NEW s \in Rank, UpdateMapping(s) PROVE Left(r)' = Left(r)
  <2>1. /\ plan' = plan /\ status' = status /\ pc[s] = "changing"
        /\ \A t \in Rank \ {s} : pc'[t] = pc[t] /\ idx'[t] = idx[t]
    BY <1>7 DEF UpdateMapping, RoundTypeOK
  <2>2. CASE r # s
    BY <1>1, <2>1, <2>2
  <2>3. CASE r = s /\ Busy(r) /\ IsRemove(r)
    <3>1. idx'[r] = HeadIdx(r) + 1 /\ pc'[r] = "handshake"
      BY <1>7, <2>3 DEF UpdateMapping, RoundTypeOK
    <3>2. Agreed(r)
      <4>1. Offers(r, status[r])
        BY <2>1, <2>3 DEF HandshakeInv, OfferInv
      <4> QED BY <2>3, <4>1 DEF Offers, Agreed
    <3>3. TakenEffect(r) = {HeadIdx(r)} /\ TakenEffect(r)' = {}
      BY <2>1, <2>3, <3>1, <3>2 DEF TakenEffect
    <3>4. Remaining(r)' = Remaining(r) \ {HeadIdx(r)}
      BY <2>1, <2>3, <3>1, HeadIsLeast DEF Remaining, Concerns
    <3> QED BY <2>1, <2>3, <3>1, <3>3, <3>4 DEF Left
  <2>4. CASE r = s /\ ~(Busy(r) /\ IsRemove(r))
    <3>1. /\ idx'[r] = idx[r]
          /\ pc'[r] = IF Busy(r) /\ Agreed(r) THEN "swap1"
                      ELSE IF ~Busy(r) /\ Agreed(r) THEN "collect" ELSE "handshake"
      BY <1>7, <2>4 DEF UpdateMapping
    <3>2. TakenEffect(r)' = TakenEffect(r)
      BY <2>1, <2>4, <3>1, RolesStable DEF TakenEffect
    <3> QED BY <2>1, <2>4, <3>1, <3>2, RolesStable DEF Left
  <2> QED BY <2>2, <2>3, <2>4
<1> QED BY <1>2, <1>3, <1>4, <1>5, <1>6, <1>7 DEF Next, Worker


(* What decides and what begins a round.                                   *)
LEMMA DecideRound ==
    ASSUME RoundInv, NEW m \in Moves, Decide(m) PROVE Paired' /\ PlaceInv'
<1> USE DEF RoundInv, CoreInv, TypeOK
<1> DEFINE n == Len(plan) + 1
           i == Instruction(view, m)
<1>1. /\ plan \in Seq(InstructionType) /\ plan' = Append(plan, i) /\ Sound(i)
      /\ pc' = pc /\ \A r \in Rank : pc[r] = "optimize"
  BY NewInstruction DEF RoundTypeOK, Decide
<1>2. /\ n \in Nat /\ n \notin DOMAIN plan /\ DOMAIN plan' = DOMAIN plan \cup {n}
      /\ plan'[n] = i
      /\ \A j \in DOMAIN plan : plan'[j] = plan[j] /\ j \in Nat /\ j < n
  <2>1. i \in InstructionType
    BY <1>1 DEF Sound
  <2> HIDE DEF i
  <2> QED BY <1>1, <2>1
<1>3. /\ \A p \in Position : Touches(i, p) => Before(i, p) = view[p] /\ After(i, p) = view'[p]
      /\ \A p \in Position : ~Touches(i, p) => view'[p] = view[p]
  BY NewInstruction
<1> HIDE DEF i, n
<1>4. \A r \in Rank : /\ Left(r) = {j \in DOMAIN plan : Concerns(r, plan[j])}
                      /\ Left(r)' = {j \in DOMAIN plan' : Concerns(r, plan'[j])}
  BY <1>1 DEF Left, Concerns
<1>5. Paired'
  BY <1>4 DEF Paired, Concerns
<1>6. Settled(0)' = Settled(0)
  BY SettledStable, RankIsNoMinusOne DEF Decide, Next, Gather
<1>7. PlaceInv'
  <2> SUFFICES ASSUME NEW p \in Position
               PROVE  /\ Due(p)' = {} => Settled(0)[p] = view'[p]
                      /\ \A j \in Due(p)' : (\A k \in Due(p)' : j <= k)
                            => Settled(0)[p] = Before(plan'[j], p)
    BY <1>6 DEF PlaceInv
  <2>1. Owner(p) \in Rank
    BY OwnerType
  <2>2. /\ Due(p) \subseteq DOMAIN plan
        /\ Due(p)' = IF Touches(i, p) THEN Due(p) \cup {n} ELSE Due(p)
    <3>1. Touches(i, p) => Concerns(Owner(p), i)
      BY <1>1, TouchesConcerns
    <3>2. Due(p) = {j \in DOMAIN plan : Concerns(Owner(p), plan[j]) /\ Touches(plan[j], p)}
      BY <1>4, <2>1 DEF Due
    <3>3. Due(p)' = {j \in DOMAIN plan' : Concerns(Owner(p), plan'[j]) /\ Touches(plan'[j], p)}
      BY <1>4, <2>1 DEF Due
    <3> QED BY <1>2, <3>1, <3>2, <3>3
  <2>3. /\ Due(p) = {} => Settled(0)[p] = view[p]
        /\ \A j \in Due(p) : (\A k \in Due(p) : j <= k) => Settled(0)[p] = Before(plan[j], p)
    BY DEF PlaceInv
  <2> QED BY <1>2, <1>3, <2>2, <2>3
<1> QED BY <1>5, <1>7

LEMMA CollectRound == ASSUME RoundInv, Collect PROVE Paired' /\ PlaceInv'
<1> USE DEF RoundInv, CoreInv, TypeOK
<1>1. plan' = <<>> /\ view' = mapping[0] /\ mapping' = mapping
      /\ \A r \in Rank : pc'[r] = "optimize"
  BY DEF Collect, weightVars
<1>2. \A r \in Rank : Left(r)' = {}
  BY <1>1 DEF Left, Concerns
<1>3. Settled(0)' = mapping[0]
  BY <1>1, RankIsNoMinusOne DEF Settled
<1> QED BY <1>1, <1>2, <1>3, OwnerType DEF Paired, PlaceInv, Due

-----------------------------------------------------------------------------
(* The allgather.                                                          *)

(* The wish of a rank is shared by its peer.                               *)
Meets(r) ==
    Busy(r) /\ announced[r].t \in Rank /\ announced[announced[r].t].t = r

(* Two ranks that meet are at the same instruction.                        *)
LEMMA SameInstruction ==
    ASSUME RoundInv, Gather, NEW r \in Rank, Meets(r)
    PROVE  /\ Peer(r) \in Rank /\ announced[r].t = Peer(r)
           /\ Meets(Peer(r)) /\ HeadIdx(Peer(r)) = HeadIdx(r)
<1> USE DEF RoundInv, CoreInv, TypeOK
<1> DEFINE s == Peer(r)
<1>1. \A x \in Rank : pc[x] = "gather" /\ Offers(x, announced[x]) /\ Left(x) = Remaining(x)
  BY DEF Gather, HandshakeInv, OfferInv, Left, TakenEffect
<1>2. /\ Sound(Current(r)) /\ Concerns(r, Current(r)) /\ HeadIdx(r) \in Remaining(r)
  BY CurrentType DEF Meets, ListInv, Current, Remaining
<1>3. s \in Rank /\ announced[r].t = s /\ announced[s].t = r
  BY <1>1, <1>2, PeerOf, RankIsNoMinusOne DEF Offers, Meets
<1>4. Busy(s) /\ Peer(s) = r
  BY <1>1, <1>3, RankIsNoMinusOne DEF Offers, Silent
<1>5. Meets(s)
  BY <1>3, <1>4 DEF Meets
<1>6. Sound(Current(s)) /\ Concerns(s, Current(s)) /\ HeadIdx(s) \in Remaining(s)
  BY <1>3, <1>4, CurrentType DEF ListInv, Current, Remaining
<1>7. HeadIdx(r) \in Remaining(s)
  <2>1. Concerns(s, plan[HeadIdx(r)]) /\ Concerns(r, plan[HeadIdx(r)])
    BY <1>2, PeerOf DEF Current
  <2>2. HeadIdx(r) \in DOMAIN plan
    BY <1>2 DEF Remaining
  <2> QED BY <1>1, <1>2, <1>3, <2>1, <2>2 DEF Paired
<1>8. HeadIdx(s) \in Remaining(r)
  <2>1. Concerns(r, plan[HeadIdx(s)]) /\ Concerns(s, plan[HeadIdx(s)])
    BY <1>3, <1>4, <1>6, PeerOf DEF Current
  <2>2. HeadIdx(s) \in DOMAIN plan
    BY <1>6 DEF Remaining
  <2> QED BY <1>1, <1>3, <1>6, <2>1, <2>2 DEF Paired
<1>9. HeadIdx(r) <= HeadIdx(s) /\ HeadIdx(s) <= HeadIdx(r)
  BY <1>3, <1>4, <1>7, <1>8, HeadIsLeast DEF Meets
<1>10. HeadIdx(r) \in Nat /\ HeadIdx(s) \in Nat
  BY <1>3, <1>4, CurrentType DEF Meets
<1> QED BY <1>3, <1>5, <1>9, <1>10

LEMMA GatherLeft ==
    ASSUME RoundInv, Gather, NEW r \in Rank
    PROVE  /\ Left(r) = Remaining(r)
           /\ Left(r)' = IF Meets(r) THEN Remaining(r) \ {HeadIdx(r)} ELSE Remaining(r)
           /\ (Busy(r) /\ Agreed(r))' <=> Meets(r)
<1> USE DEF RoundInv, CoreInv, TypeOK
<1>1. /\ plan' = plan /\ idx' = idx /\ status' = announced
      /\ pc[r] = "gather" /\ pc'[r] = "gathered"
  BY DEF Gather
<1>2. Offers(r, announced[r])
  BY <1>1 DEF HandshakeInv, OfferInv
<1>3. (Busy(r) /\ Agreed(r))' <=> Meets(r)
  BY <1>1, <1>2, SilentIsIdle, RolesStable DEF Agreed, Meets
<1> QED BY <1>1, <1>3, RolesStable DEF Left, TakenEffect

LEMMA GatherPaired == ASSUME RoundInv, Gather PROVE Paired'
<1> USE DEF RoundInv, CoreInv, TypeOK
<1>1. ASSUME NEW r \in Rank, NEW s \in Rank, r # s, NEW j \in DOMAIN plan,
             Concerns(s, plan[j]), Meets(r), j = HeadIdx(r)
      PROVE  j \notin Left(s)'
  <2>1. Sound(Current(r)) /\ Concerns(r, Current(r))
    BY CurrentType, <1>1 DEF Meets, ListInv, Current, Remaining
  <2>2. s = Peer(r)
    BY <1>1, <2>1, PeerOf DEF Current
  <2>3. Meets(s) /\ HeadIdx(s) = j
    BY <1>1, <2>2, SameInstruction
  <2> QED BY <2>3, GatherLeft
<1>2. plan' = plan
  BY DEF Gather
<1>3. ASSUME NEW r \in Rank, NEW s \in Rank, NEW j \in DOMAIN plan,
             Concerns(r, plan[j]), Concerns(s, plan[j]), j \in Left(r)'
      PROVE  j \in Left(s)'
  <2>1. j \in Left(s)
    BY <1>3, GatherLeft DEF Paired
  <2>2. CASE Meets(s) /\ j = HeadIdx(s) /\ r # s
    BY <1>1, <1>3, <2>2
  <2>3. CASE ~(Meets(s) /\ j = HeadIdx(s))
    BY <2>1, <2>3, GatherLeft
  <2> QED BY <1>3, <2>2, <2>3
<1> QED BY <1>2, <1>3 DEF Paired, Concerns


(* Only the owner of a position writes it.                                 *)
LEMMA OwnerWrites ==
    ASSUME RoundInv, Gather, NEW p \in Position
    PROVE  UpdatedMapping(mapping[0], announced)[p] =
              LET o == Owner(p)
              IN  IF Meets(o) /\ ~IsAddSource(o) /\ OwnPosition(o) = p
                  THEN OwnExpert(o) ELSE mapping[0][p]
<1> USE DEF RoundInv, CoreInv, TypeOK
<1> DEFINE o == Owner(p)
           Writing(r) == Meets(r) /\ ~IsAddSource(r) /\ OwnPosition(r) = p
           W == Writers(announced, p)
<1>1. -1 \notin Rank /\ -1 \notin Position /\ o \in Rank
  BY RankIsNoMinusOne, OwnerType DEF Position
<1>2. \A r \in Rank : Offers(r, announced[r])
  BY DEF Gather, HandshakeInv, OfferInv
<1>3. ASSUME NEW r \in Rank PROVE r \in W <=> Writing(r)
  <2>1. CASE Busy(r)
    <3>1. OwnPosition(r) \in Position
      BY <2>1, RoleType
    <3>2. announced[r].pos = IF IsAddSource(r) THEN -1 ELSE OwnPosition(r)
      BY <1>2, <2>1 DEF Offers
    <3> QED BY <1>1, <2>1, <3>1, <3>2 DEF Writers, Effective, Meets
  <2>2. CASE ~Busy(r)
    BY <1>1, <1>2, <2>2 DEF Offers, Silent, Writers, Effective, Meets
  <2> QED BY <2>1, <2>2
<1>4. ASSUME NEW r \in Rank, Writing(r) PROVE r = o
  <2>1. Sound(Current(r)) /\ Concerns(r, Current(r))
    BY CurrentType, <1>4 DEF Meets, ListInv, Current, Remaining
  <2> QED BY <1>4, <2>1, OwnTouch
<1>5. W \subseteq Rank
  BY DEF Writers
<1>6. UpdatedMapping(mapping[0], announced)[p] =
        IF W # {} THEN announced[CHOOSE r \in W : \A s \in W : s <= r].expert ELSE mapping[0][p]
  BY DEF UpdatedMapping, Written
<1>7. CASE Writing(o)
  <2>1. W # {}
    BY <1>1, <1>3, <1>7
  <2>2. (CHOOSE r \in W : \A s \in W : s <= r) \in W
    BY <2>1, LastWriter
  <2>3. (CHOOSE r \in W : \A s \in W : s <= r) = o
    BY <1>3, <1>4, <1>5, <2>2
  <2>4. announced[o].expert = OwnExpert(o)
    BY <1>1, <1>2, <1>7 DEF Offers, Meets
  <2> QED BY <1>6, <1>7, <2>1, <2>3, <2>4
<1>8. CASE ~Writing(o)
  <2>1. W = {}
    BY <1>3, <1>4, <1>5, <1>8
  <2> QED BY <1>6, <1>8, <2>1
<1> QED BY <1>7, <1>8

(* So the allgather moves each position from what an instruction was       *)
(* decided on to what it leaves, or not at all.                            *)
LEMMA GatherSettled ==
    ASSUME RoundInv, Gather, NEW p \in Position
    PROVE  LET o == Owner(p)
               j == HeadIdx(o)
           IN  IF Meets(o) /\ Touches(Current(o), p)
               THEN /\ j \in Due(p) /\ \A k \in Due(p) : j <= k
                    /\ Due(p)' = Due(p) \ {j}
                    /\ Settled(0)[p] = Before(plan[j], p)
                    /\ Settled(0)'[p] = After(plan[j], p)
               ELSE Due(p)' = Due(p) /\ Settled(0)'[p] = Settled(0)[p]
<1> USE DEF RoundInv, CoreInv, TypeOK
<1> DEFINE o == Owner(p)
           j == HeadIdx(o)
<1>1. o \in Rank /\ 0 \in Rank
  BY OwnerType, RankIsNoMinusOne
<1>2. /\ plan' = plan /\ status' = announced /\ mapping' = mapping
      /\ \A r \in Rank : pc[r] = "gather" /\ pc'[r] = "gathered"
  BY DEF Gather, weightVars
<1>3. Settled(0) = mapping[0] /\ Settled(0)' = UpdatedMapping(mapping[0], announced)
  <2>1. Settled(0)' = UpdatedMapping(mapping[0], status')
    <3>1. pc'[0] = "gathered"
      BY <1>1, <1>2
    <3>2. Settled(0)' = UpdatedMapping(mapping[0], status)'
      BY <3>1 DEF Settled
    <3> QED BY <1>2, <3>2 DEF UpdatedMapping, Written, Writers, Effective
  <2>2. Settled(0) = mapping[0]
    BY <1>1, <1>2 DEF Settled
  <2> QED BY <1>2, <2>1, <2>2
<1>4. /\ Due(p) = {k \in Remaining(o) : Touches(plan[k], p)}
      /\ Due(p)' = {k \in Remaining(o) : Touches(plan[k], p) /\ ~(Meets(o) /\ k = j)}
  <2>1. /\ Due(p) = {k \in Left(o) : Touches(plan[k], p)}
        /\ Due(p)' = {k \in Left(o)' : Touches(plan[k], p)}
    BY <1>2 DEF Due, Touches
  <2> QED BY <1>1, <2>1, GatherLeft
<1>5. Meets(o) => Sound(Current(o)) /\ Concerns(o, Current(o)) /\ j \in Remaining(o)
  BY <1>1, CurrentType DEF Meets, ListInv, Current, Remaining
<1>6. CASE Meets(o) /\ Touches(Current(o), p)
  <2>1. j \in Due(p) /\ \A k \in Due(p) : j <= k
    BY <1>1, <1>4, <1>5, <1>6, HeadIsLeast DEF Meets, Current
  <2>2. Due(p)' = Due(p) \ {j}
    BY <1>4, <1>6
  <2>3. mapping[0][p] = Before(plan[j], p)
    BY <1>3, <2>1 DEF PlaceInv
  <2>4. /\ p = OwnPosition(o)
        /\ ~IsAddSource(o) => OwnExpert(o) = After(plan[j], p)
        /\ IsAddSource(o) => After(plan[j], p) = Before(plan[j], p)
    BY <1>1, <1>5, <1>6, OwnTouch DEF Current
  <2>5. UpdatedMapping(mapping[0], announced)[p] = After(plan[j], p)
    BY <1>6, <2>3, <2>4, OwnerWrites
  <2> QED BY <1>3, <1>6, <2>1, <2>2, <2>3, <2>5
<1>7. CASE ~(Meets(o) /\ Touches(Current(o), p))
  <2>1. Due(p)' = Due(p)
    BY <1>4, <1>7 DEF Current
  <2>2. ~(Meets(o) /\ OwnPosition(o) = p)
    BY <1>1, <1>5, <1>7, OwnTouch
  <2>3. UpdatedMapping(mapping[0], announced)[p] = mapping[0][p]
    BY <2>2, OwnerWrites
  <2> QED BY <1>3, <1>7, <2>1, <2>3
<1> QED BY <1>6, <1>7

LEMMA GatherPlaces == ASSUME RoundInv, Gather PROVE PlaceInv'
<1> USE DEF RoundInv, CoreInv, TypeOK
<1>1. plan' = plan /\ view' = view
  BY DEF Gather
<1> SUFFICES ASSUME NEW p \in Position
             PROVE  /\ Due(p)' = {} => Settled(0)'[p] = view[p]
                    /\ \A j \in Due(p)' : (\A k \in Due(p)' : j <= k)
                          => Settled(0)'[p] = Before(plan[j], p)
  BY <1>1 DEF PlaceInv, Before
<1> DEFINE o == Owner(p)
           h == HeadIdx(o)
<1>2. o \in Rank
  BY OwnerType
<1>3. /\ Due(p) = {} => Settled(0)[p] = view[p]
      /\ \A j \in Due(p) : (\A k \in Due(p) : j <= k) => Settled(0)[p] = Before(plan[j], p)
  BY DEF PlaceInv
<1>4. CASE ~(Meets(o) /\ Touches(Current(o), p))
  BY <1>3, <1>4, GatherSettled
<1>5. CASE Meets(o) /\ Touches(Current(o), p)
  <2>1. /\ h \in Due(p) /\ \A k \in Due(p) : h <= k
        /\ Due(p)' = Due(p) \ {h} /\ Settled(0)'[p] = After(plan[h], p)
    BY <1>5, GatherSettled
  <2>2. Due(p) = {k \in Remaining(o) : Touches(plan[k], p)}
    BY <1>2, GatherLeft DEF Due
  <2>3. DOMAIN plan \subseteq Nat /\ Due(p) \subseteq Touchers(p) /\ Touchers(p) \subseteq DOMAIN plan
    BY <2>2 DEF RoundTypeOK, Remaining, Touchers
  <2>4. \A k \in Touchers(p) : k > h => k \in Due(p)
    <3> TAKE k \in Touchers(p)
    <3>1. Concerns(o, plan[k])
      BY TouchesConcerns DEF ListInv, Touchers
    <3>2. h >= idx[o] /\ h \in Nat /\ idx[o] \in Nat
      BY <1>2, <2>1, <2>2, <2>3 DEF Remaining, RoundTypeOK
    <3> QED BY <2>2, <2>3, <3>1, <3>2 DEF Remaining, Touchers
  <2>5. ASSUME Due(p)' = {} PROVE Settled(0)'[p] = view[p]
    <3>1. \A k \in Touchers(p) : k <= h
      BY <2>1, <2>3, <2>4, <2>5
    <3> QED BY <2>1, <2>3, <3>1 DEF ListInv, Linked
  <2>6. ASSUME NEW j \in Due(p)', \A k \in Due(p)' : j <= k
        PROVE  Settled(0)'[p] = Before(plan[j], p)
    <3>1. j \in Touchers(p) /\ h \in Touchers(p) /\ h < j
      BY <2>1, <2>3, <2>6
    <3>2. \A k \in Touchers(p) : k <= h \/ j <= k
      BY <2>1, <2>3, <2>4, <2>6
    <3>3. Before(plan[j], p) = After(plan[h], p)
      BY <3>1, <3>2 DEF ListInv, Linked
    <3> QED BY <2>1, <3>3
  <2> QED BY <2>5, <2>6
<1> QED BY <1>4, <1>5

(* The two ranks of an instruction find its positions in place together.   *)
LEMMA MeetInPlace ==
    ASSUME RoundInv, Gather, NEW r \in Rank, Meets(r), NEW q \in Position, Touches(Current(r), q)
    PROVE  /\ Meets(Owner(q)) /\ HeadIdx(Owner(q)) = HeadIdx(r)
           /\ Settled(0)[q] = Before(Current(r), q)
<1> USE DEF RoundInv, CoreInv, TypeOK
<1>1. Sound(Current(r)) /\ Concerns(r, Current(r))
  BY CurrentType DEF Meets, ListInv, Current, Remaining
<1>2. Owner(q) \in {r, Peer(r)}
  BY <1>1, OwnerType, TouchesConcerns, PeerOf
<1>3. Meets(Owner(q)) /\ HeadIdx(Owner(q)) = HeadIdx(r)
  BY <1>2, SameInstruction
<1> QED BY <1>3, GatherSettled DEF Current

LEMMA GatherChecks == ASSUME RoundInv, Gather PROVE CheckInv'
<1> USE DEF RoundInv, CoreInv, TypeOK
<1>1. /\ UNCHANGED <<plan, idx, mapping>>
      /\ \A r \in Rank : pc[r] = "gather" /\ pc'[r] = "gathered"
  BY DEF Gather, weightVars
<1>2. ASSUME NEW r \in Rank, Meets(r) PROVE Consistent(r)
  <2> DEFINE i == Current(r)
  <2>1. Sound(i)
    BY CurrentType, <1>2 DEF Meets, ListInv, Current, Remaining
  <2>2. mapping[r] = Settled(0)
    BY <1>1 DEF Settled, MappingAgreement
  <2>3. CASE i.type = "REMOVE"
    BY <2>3 DEF Consistent
  <2>4. CASE i.type # "REMOVE"
    <3>1. /\ i.source_position \in Position /\ i.target_position \in Position
          /\ i.source_position # i.target_position
      BY <2>1, <2>4 DEF Sound, InstructionType
    <3>2. mapping[r][i.source_position] = i.source_expert
      BY <1>2, <2>2, <3>1, MeetInPlace DEF Touches, Before
    <3>3. mapping[r][i.target_position] = i.target_expert
      BY <1>2, <2>2, <3>1, MeetInPlace DEF Touches, Before
    <3> QED BY <3>2, <3>3 DEF Consistent
  <2> QED BY <2>3, <2>4
<1>3. ASSUME NEW r \in Rank, (Busy(r) /\ Agreed(r))' PROVE Consistent(r)'
  <2>1. Consistent(r)
    BY <1>2, <1>3, GatherLeft
  <2> QED BY <1>1, <2>1, RolesStable DEF Consistent
<1> QED BY <1>1, <1>3 DEF CheckInv

(* Nothing disturbs what a rank checks between the allgather and the check.*)
LEMMA CheckKept == ASSUME RoundInv, [Next]_vars, ~Gather PROVE CheckInv'
<1> USE DEF RoundInv, CoreInv, TypeOK, ControlTypeOK
<1>1. ASSUME NEW r \in Rank, pc'[r] = pc[r], plan' = plan, status' = status,
             idx'[r] = idx[r], mapping'[r] = mapping[r]
      PROVE  /\ pc'[r] # "failed"
             /\ pc'[r] = "gathered" /\ Busy(r)' /\ Agreed(r)' => Consistent(r)'
  <2>1. Agreed(r)' = Agreed(r) /\ Consistent(r)' = Consistent(r)
    BY <1>1, RolesStable DEF Agreed, Consistent
  <2> QED BY <1>1, <2>1, RolesStable DEF CheckInv
<1>2. ASSUME NEW r \in Rank, pc'[r] \notin {"gathered", "failed"}
      PROVE  /\ pc'[r] # "failed"
             /\ pc'[r] = "gathered" /\ Busy(r)' /\ Agreed(r)' => Consistent(r)'
  BY <1>2
<1>3. ASSUME NEW r \in Rank
      PROVE  \/ pc'[r] \notin {"gathered", "failed"}
             \/ /\ pc'[r] = pc[r] /\ plan' = plan /\ status' = status
                /\ idx'[r] = idx[r] /\ mapping'[r] = mapping[r]
  <2>1. CASE Collect \/ Dispatch \/ (\E m \in Moves : Decide(m))
    BY <2>1 DEF Collect, Dispatch, Decide
  <2>2. CASE Forward \/ (\E s \in Rank : Main(s)) \/ UNCHANGED vars
    BY <2>2 DEF Forward, Main, MainSkip, MainEnter, MainCopy, MainSelect,
       weightVars, workerVars, vars
  <2>3. ASSUME NEW s \in Rank, Announce(s)
        PROVE  \/ pc'[r] \notin {"gathered", "failed"}
               \/ /\ pc'[r] = pc[r] /\ plan' = plan /\ status' = status
                  /\ idx'[r] = idx[r] /\ mapping'[r] = mapping[r]
    BY <2>3 DEF Announce, weightVars
  <2>4. ASSUME NEW s \in Rank, BeginChange(s)
        PROVE  \/ pc'[r] \notin {"gathered", "failed"}
               \/ /\ pc'[r] = pc[r] /\ plan' = plan /\ status' = status
                  /\ idx'[r] = idx[r] /\ mapping'[r] = mapping[r]
    <3>1. ~(Busy(s) /\ Agreed(s) /\ ~Consistent(s))
      BY <2>4 DEF BeginChange, CheckInv
    <3> QED BY <2>4, <3>1 DEF BeginChange
  <2>5. ASSUME NEW s \in Rank, UpdateMapping(s) \/ Finish(s)
        PROVE  \/ pc'[r] \notin {"gathered", "failed"}
               \/ /\ pc'[r] = pc[r] /\ plan' = plan /\ status' = status
                  /\ idx'[r] = idx[r] /\ mapping'[r] = mapping[r]
    <3>1. CASE r = s
      BY <2>5, <3>1 DEF UpdateMapping, Finish
    <3>2. CASE r # s
      BY <2>5, <3>2 DEF UpdateMapping, Finish, MappingTypeOK, RoundTypeOK
    <3> QED BY <3>1, <3>2
  <2>6. ASSUME NEW a \in Rank, NEW b \in Rank, Transfer(a, b)
        PROVE  \/ pc'[r] \notin {"gathered", "failed"}
               \/ /\ pc'[r] = pc[r] /\ plan' = plan /\ status' = status
                  /\ idx'[r] = idx[r] /\ mapping'[r] = mapping[r]
    BY <2>6 DEF Transfer, AfterTransfer
  <2> QED BY <2>1, <2>2, <2>3, <2>4, <2>5, <2>6 DEF Next, Worker
<1> QED BY <1>1, <1>2, <1>3 DEF CheckInv

LEMMA RoundStep == ASSUME RoundInv, [Next]_vars PROVE RoundInv'
<1>1. CoreInv' /\ MappingAgreement' /\ ListInv' /\ HandshakeInv'
  BY CoreStep, AgreementStep, ListStep, HandshakeStep DEF RoundInv, CoreInv
<1>2. Paired' /\ PlaceInv'
  <2>1. CASE Gather
    BY <2>1, GatherPaired, GatherPlaces
  <2>2. CASE Collect
    BY <2>2, CollectRound
  <2>3. CASE \E m \in Moves : Decide(m)
    BY <2>3, DecideRound
  <2>4. CASE ~Gather /\ ~Collect /\ \A m \in Moves : ~Decide(m)
    <3>1. UNCHANGED <<plan, view>>
      BY <2>4 DEF Next, Worker, Main, Dispatch, Forward, Announce, BeginChange,
         UpdateMapping, Finish, Transfer, MainSkip, MainEnter, MainCopy, MainSelect,
         workerVars, vars
    <3>2. \A r \in Rank : Left(r)' = Left(r) /\ Settled(r)' = Settled(r)
      BY <2>4, LeftStable, SettledStable DEF RoundInv
    <3>3. Paired'
      BY <3>1, <3>2 DEF RoundInv, Paired, Concerns
    <3>4. \A p \in Position : Due(p)' = Due(p)
      BY <3>1, <3>2, OwnerType DEF Due, Touches
    <3>5. PlaceInv'
      BY <3>1, <3>2, <3>4, RankIsNoMinusOne DEF RoundInv, PlaceInv, Before
    <3> QED BY <3>3, <3>5
  <2> QED BY <2>1, <2>2, <2>3, <2>4
<1>3. CheckInv'
  BY GatherChecks, CheckKept
<1> QED BY <1>1, <1>2, <1>3 DEF RoundInv

LEMMA RoundInvariant == Spec => []RoundInv
BY RoundInit, RoundStep, PTL DEF Spec

(* NeverThrows: positionIsConsistency finds the positions of an agreed     *)
(* instruction as it was decided on (placement_manager.cpp 268-333, 380),  *)
(* whatever other instructions were carried out before it, so no worker    *)
(* ends with the runtime_error.                                            *)
THEOREM InstructionsFit == Spec => []NeverThrows
<1>1. RoundInv => NeverThrows
  BY DEF RoundInv, CheckInv, NeverThrows
<1> QED BY <1>1, RoundInvariant, PTL

(* When a rank has left the round, nothing is left for any of them.        *)
LEMMA NothingLeft ==
    ASSUME RoundInv, NEW r \in Rank, pc[r] = "collect", NEW s \in Rank
    PROVE  Left(s) = {}
<1> USE DEF RoundInv, CoreInv, TypeOK
<1>1. status[s].t = -1 /\ pc[s] \in Ending
  BY DEF HandshakeInv, PhaseInv, Ending, AllSilent
<1>2. ~Busy(s)
  <2>1. CASE pc[s] = "collect"
    BY <2>1 DEF HandshakeInv, PhaseInv
  <2>2. CASE pc[s] # "collect"
    <3>1. pc[s] \in {"gathered", "changing"}
      BY <1>1, <2>2 DEF Ending
    <3>2. Offers(s, status[s])
      BY <3>1 DEF HandshakeInv, OfferInv
    <3> QED BY <1>1, <3>2, SilentIsIdle
  <2> QED BY <2>1, <2>2
<1> QED BY <1>1, <1>2 DEF Left, Busy, Ending

LEMMA RoundLeft ==
    ASSUME RoundInv, NEW r \in Rank, pc[r] = "collect"
    PROVE  mapping[r] = view
<1>1. \A p \in Position : Settled(0)[p] = view[p]
  BY NothingLeft, OwnerType DEF RoundInv, PlaceInv, Due
<1>2. Settled(r) = mapping[r] /\ Settled(r) = Settled(0)
  BY DEF Settled, RoundInv, MappingAgreement
<1>3. \A p \in Position : mapping[r][p] = view[p]
  BY <1>1, <1>2
<1>4. /\ mapping[r] = [p \in Position |-> mapping[r][p]]
      /\ view = [p \in Position |-> view[p]]
  BY DEF RoundInv, CoreInv, TypeOK, MappingTypeOK, RoundTypeOK
<1> QED BY <1>3, <1>4

(* RoundReachesPlan: the mapping with which a worker leaves the round is   *)
(* the placement the optimizer planned, although no rank sees more of the  *)
(* list than its own share (placement_manager.cpp 455-505).                *)
THEOREM PlanIsReached == Spec => []RoundReachesPlan
<1>1. RoundInv => RoundReachesPlan
  BY RoundLeft DEF RoundReachesPlan
<1> QED BY <1>1, RoundInvariant, PTL

-----------------------------------------------------------------------------
(* The refinement: all workers together are the one machine of             *)
(* PlacementRounds, and the allgather is its only step within a round.     *)

OneMachine == <<Settled(0), plan, PendingInstructions>>

LEMMA PendingIsLeft ==
    RoundInv => PendingInstructions = {j \in DOMAIN plan : j \in Left(plan[j].target_rank)}
<1> SUFFICES ASSUME RoundInv
             PROVE  PendingInstructions = {j \in DOMAIN plan : j \in Left(plan[j].target_rank)}
  OBVIOUS
<1>1. \A j \in DOMAIN plan : plan[j].target_rank \in Rank /\ Concerns(plan[j].target_rank, plan[j])
  BY DEF RoundInv, ListInv, Sound, InstructionType, Concerns
<1>2. (\A r \in Rank : pc[r] = "optimize") \/ (\A r \in Rank : pc[r] # "optimize")
  BY DEF RoundInv, HandshakeInv, PhaseInv
<1>3. CASE \A r \in Rank : pc[r] = "optimize"
  BY <1>1, <1>3 DEF PendingInstructions, Left
<1>4. CASE \A r \in Rank : pc[r] # "optimize"
  BY <1>1, <1>4, RankIsNoMinusOne DEF PendingInstructions, Left
<1> QED BY <1>2, <1>3, <1>4

LEMMA RoundsInit == Init => Rounds!Init
BY RankIsNoMinusOne DEF Init, Rounds!Init, Settled, PendingInstructions

LEMMA RoundsCollect == ASSUME RoundInv, RoundInv', Collect PROVE Rounds!NewRound
<1>1. /\ plan' = <<>> /\ mapping' = mapping /\ \A r \in Rank : pc[r] = "collect" /\ pc'[r] = "optimize"
  BY DEF Collect, weightVars
<1>2. PendingInstructions = {}
  <2>1. \A j \in DOMAIN plan : plan[j].target_rank \in Rank
    BY DEF RoundInv, ListInv, Sound, InstructionType
  <2> QED BY <1>1, <2>1, NothingLeft, PendingIsLeft
<1>3. PendingInstructions' = {}
  <2>1. (RoundInv => PendingInstructions = {j \in DOMAIN plan : j \in Left(plan[j].target_rank)})'
    BY PendingIsLeft, PTL
  <2> QED BY <1>1, <2>1
<1>4. Settled(0)' = Settled(0)
  BY <1>1, RankIsNoMinusOne DEF Settled
<1> QED BY <1>1, <1>2, <1>3, <1>4 DEF Rounds!NewRound

LEMMA RoundsDecide ==
    ASSUME RoundInv, RoundInv', NEW m \in Moves, Decide(m) PROVE Rounds!Decide
<1> DEFINE i == Instruction(view, m)
<1>1. /\ plan \in Seq(InstructionType) /\ plan' = Append(plan, i) /\ i \in InstructionType
  BY NewInstruction DEF RoundInv, CoreInv, TypeOK, RoundTypeOK, Decide, Sound
<1>2. /\ mapping' = mapping
      /\ \A r \in Rank : pc[r] = "optimize" /\ pc'[r] = "optimize"
  BY DEF Decide, weightVars
<1>3. PendingInstructions = DOMAIN plan /\ PendingInstructions' = DOMAIN plan'
  BY <1>2 DEF PendingInstructions
<1>4. Settled(0)' = Settled(0)
  BY <1>2, RankIsNoMinusOne DEF Settled
<1> HIDE DEF i
<1>5. Len(plan') = Len(plan) + 1 /\ SubSeq(plan', 1, Len(plan)) = plan
  BY <1>1
<1> QED BY <1>3, <1>4, <1>5 DEF Rounds!Decide

LEMMA SettledType == CoreInv => Settled(0) \in [Position -> Expert \cup {NoExpert}]
BY UpdatedMappingType, RankIsNoMinusOne
DEF CoreInv, TypeOK, MappingTypeOK, RoundTypeOK, Settled

(* The instructions whose ranks meet in the allgather take effect.         *)
LEMMA RoundsGather ==
    ASSUME RoundInv, RoundInv', Gather
    PROVE  (\E J \in SUBSET PendingInstructions : J # {} /\ Rounds!Apply(J)) \/ UNCHANGED OneMachine
<1> USE DEF RoundInv, CoreInv, TypeOK
<1> DEFINE J == {HeadIdx(r) : r \in {s \in Rank : Meets(s)}}
<1>1. /\ UNCHANGED <<plan, idx, mapping>> /\ 0 \in Rank
      /\ \A r \in Rank : pc[r] = "gather" /\ pc'[r] = "gathered"
  BY RankIsNoMinusOne DEF Gather, weightVars
<1>2. ASSUME NEW j \in DOMAIN plan
      PROVE  /\ Sound(plan[j]) /\ plan[j].target_rank \in Rank
             /\ plan[j].target_position \in Position
             /\ Touches(plan[j], plan[j].target_position)
             /\ plan[j].type # "REMOVE" =>
                  /\ plan[j].source_position \in Position
                  /\ plan[j].source_position # plan[j].target_position
                  /\ Touches(plan[j], plan[j].source_position)
  BY DEF ListInv, Sound, InstructionType, Touches
<1>3. ASSUME NEW r \in Rank, Meets(r)
      PROVE  HeadIdx(r) \in DOMAIN plan /\ Current(r) = plan[HeadIdx(r)]
  BY CurrentType, <1>3 DEF Meets, Current, Remaining
<1>4. ASSUME NEW j \in J, NEW q \in Position, Touches(plan[j], q)
      PROVE  /\ Meets(Owner(q)) /\ HeadIdx(Owner(q)) = j
             /\ Settled(0)[q] = Before(plan[j], q) /\ Settled(0)'[q] = After(plan[j], q)
  <2>1. PICK r \in Rank : Meets(r) /\ j = HeadIdx(r)
    OBVIOUS
  <2>2. /\ Meets(Owner(q)) /\ HeadIdx(Owner(q)) = j
        /\ Settled(0)[q] = Before(plan[j], q)
    BY <1>3, <1>4, <2>1, MeetInPlace
  <2>3. Touches(Current(Owner(q)), q)
    BY <1>4, <2>2 DEF Current
  <2> QED BY <2>2, <2>3, GatherSettled
<1>5. ASSUME NEW q \in Position, \A j \in J : ~Touches(plan[j], q)
      PROVE  Settled(0)'[q] = Settled(0)[q]
  <2>1. Owner(q) \in Rank
    BY OwnerType
  <2>2. ~(Meets(Owner(q)) /\ Touches(Current(Owner(q)), q))
    BY <1>3, <1>5, <2>1
  <2> QED BY <2>2, GatherSettled
<1>6. J \subseteq PendingInstructions /\ PendingInstructions' = PendingInstructions \ J
  <2>1. \A j \in DOMAIN plan : Owner(plan[j].target_position) = plan[j].target_rank
    BY <1>2 DEF Sound
  <2>2. PendingInstructions = {j \in DOMAIN plan : j \in Remaining(plan[j].target_rank)}
    BY <1>2, PendingIsLeft, GatherLeft
  <2>3. PendingInstructions' =
          {j \in DOMAIN plan : j \in Remaining(plan[j].target_rank)
                                 /\ ~(/\ Meets(plan[j].target_rank)
                                      /\ j = HeadIdx(plan[j].target_rank))}
    <3>1. (RoundInv => PendingInstructions = {j \in DOMAIN plan : j \in Left(plan[j].target_rank)})'
      BY PendingIsLeft, PTL
    <3>2. ASSUME NEW j \in DOMAIN plan
          PROVE  (j \in Left(plan[j].target_rank))' <=>
                    /\ j \in Remaining(plan[j].target_rank)
                    /\ ~(Meets(plan[j].target_rank) /\ j = HeadIdx(plan[j].target_rank))
      <4>1. PICK t \in Rank : t = plan[j].target_rank
        BY <1>2
      <4>2. (j \in Left(plan[j].target_rank))' <=> j \in Left(t)'
        BY <1>1, <4>1
      <4> QED BY <4>1, <4>2, GatherLeft
    <3> QED BY <1>1, <3>1, <3>2
  <2>4. ASSUME NEW j \in J
        PROVE  /\ j \in DOMAIN plan /\ j \in Remaining(plan[j].target_rank)
               /\ Meets(plan[j].target_rank) /\ HeadIdx(plan[j].target_rank) = j
    <3>1. j \in DOMAIN plan
      BY <1>3
    <3>2. Meets(plan[j].target_rank) /\ HeadIdx(plan[j].target_rank) = j
      BY <1>2, <1>4, <2>1, <3>1
    <3> QED BY <1>2, <3>1, <3>2, CurrentType DEF Meets
  <2>5. ASSUME NEW j \in DOMAIN plan, Meets(plan[j].target_rank), j = HeadIdx(plan[j].target_rank)
        PROVE  j \in J
    BY <1>2, <2>5
  <2> HIDE DEF J
  <2> QED BY <2>2, <2>3, <2>4, <2>5
<1>7. \A j \in J : Rounds!InPlace(plan[j])
  <2> TAKE j \in J
  <2>1. j \in DOMAIN plan
    BY <1>3
  <2> QED BY <1>2, <1>4, <2>1 DEF Rounds!InPlace, Before
<1>8. \A j, k \in J : j # k =>
         \A p \in Position : ~(Rounds!Writes(plan[j], p) /\ Rounds!Writes(plan[k], p))
  BY <1>4 DEF Rounds!Writes, Touches
<1>9. ASSUME NEW p \in Position
      PROVE  Settled(0)'[p] =
                IF \E j \in J : Rounds!Writes(plan[j], p)
                THEN Rounds!Result(plan[CHOOSE j \in J : Rounds!Writes(plan[j], p)], p)
                ELSE Settled(0)[p]
  <2>1. CASE \E j \in J : Rounds!Writes(plan[j], p)
    <3> DEFINE h == CHOOSE j \in J : Rounds!Writes(plan[j], p)
    <3>1. h \in J /\ Rounds!Writes(plan[h], p)
      BY <2>1
    <3> HIDE DEF h, J
    <3>2. h \in DOMAIN plan /\ Touches(plan[h], p)
      BY <1>3, <3>1 DEF J, Rounds!Writes, Touches
    <3>3. Settled(0)'[p] = After(plan[h], p)
      BY <1>4, <3>1, <3>2
    <3>4. plan[h] \in InstructionType
      BY <1>2, <3>2 DEF Sound
    <3>5. After(plan[h], p) = Rounds!Result(plan[h], p)
      BY <3>1, <3>4 DEF After, Rounds!Result, Rounds!Writes, InstructionType
    <3> QED BY <2>1, <3>3, <3>5 DEF h
  <2>2. CASE ~(\E j \in J : Rounds!Writes(plan[j], p))
    <3>1. CASE \E j \in J : Touches(plan[j], p)
      <4>1. PICK j \in J : Touches(plan[j], p)
        BY <3>1
      <4>2. After(plan[j], p) = Before(plan[j], p)
        BY <2>2, <4>1 DEF After, Before, Touches, Rounds!Writes
      <4> QED BY <1>4, <2>2, <4>1, <4>2
    <3>2. CASE ~(\E j \in J : Touches(plan[j], p))
      BY <1>5, <2>2, <3>2
    <3> QED BY <3>1, <3>2
  <2> QED BY <2>1, <2>2
<1>10. (CoreInv => Settled(0) \in [Position -> Expert \cup {NoExpert}])'
  BY SettledType, PTL
<1>11. Settled(0)' = [p \in Position |->
          IF \E j \in J : Rounds!Writes(plan[j], p)
          THEN Rounds!Result(plan[CHOOSE j \in J : Rounds!Writes(plan[j], p)], p)
          ELSE Settled(0)[p]]
  <2>1. Settled(0)' = [p \in Position |-> Settled(0)'[p]]
    BY <1>10
  <2> HIDE DEF J
  <2> QED BY <1>9, <2>1
<1>12. CASE J # {}
  <2>1. Rounds!Apply(J)
    BY <1>1, <1>6, <1>7, <1>8, <1>11 DEF Rounds!Apply
  <2> QED BY <1>6, <1>12, <2>1
<1>13. CASE J = {}
  <2>1. Settled(0)' = Settled(0)
    <3>1. \A p \in Position : Settled(0)'[p] = Settled(0)[p]
      BY <1>5, <1>13
    <3> QED BY <1>10, <3>1, SettledType
  <2> QED BY <1>1, <1>6, <1>13, <2>1 DEF OneMachine
<1> QED BY <1>12, <1>13

LEMMA RoundsStep == RoundInv /\ RoundInv' /\ [Next]_vars => [Rounds!Next]_OneMachine
<1> SUFFICES ASSUME RoundInv, RoundInv', [Next]_vars PROVE [Rounds!Next]_OneMachine
  OBVIOUS
<1>1. CASE Gather
  BY <1>1, RoundsGather DEF Rounds!Next
<1>2. CASE Collect
  BY <1>2, RoundsCollect DEF Rounds!Next
<1>3. ASSUME NEW m \in Moves, Decide(m) PROVE Rounds!Next
  BY <1>3, RoundsDecide DEF Rounds!Next
<1>4. CASE ~Gather /\ ~Collect /\ \A m \in Moves : ~Decide(m)
  <2>1. plan' = plan
    BY <1>4 DEF Next, Worker, Main, Dispatch, Forward, Announce, BeginChange,
       UpdateMapping, Finish, Transfer, MainSkip, MainEnter, MainCopy, MainSelect,
       workerVars, vars
  <2>2. \A r \in Rank : Left(r)' = Left(r) /\ Settled(r)' = Settled(r)
    BY <1>4, LeftStable, SettledStable DEF RoundInv
  <2>3. \A j \in DOMAIN plan : plan[j].target_rank \in Rank
    BY DEF RoundInv, ListInv, Sound, InstructionType
  <2>4. (RoundInv => PendingInstructions = {j \in DOMAIN plan : j \in Left(plan[j].target_rank)})'
    BY PendingIsLeft, PTL
  <2>5. PendingInstructions' = PendingInstructions
    BY <2>1, <2>2, <2>3, <2>4, PendingIsLeft
  <2> QED BY <2>1, <2>2, <2>5, RankIsNoMinusOne DEF OneMachine
<1> QED BY <1>1, <1>2, <1>3, <1>4

(* RoundsAreAtomic: for every number of ranks and every list, the workers  *)
(* that shake hands pair by pair carry out a round as one machine with one *)
(* placement would: each instruction takes effect once, at one instant, on *)
(* the experts it was decided on (placement_manager.cpp 367-505).          *)
THEOREM WorkersAreOneMachine == Spec => RoundsAreAtomic
<1>1. [][Next]_vars /\ []RoundInv => [][Rounds!Next]_OneMachine
  BY RoundsStep, PTL
<1>2. Spec => Rounds!Init /\ [][Rounds!Next]_OneMachine
  BY <1>1, RoundInvariant, RoundsInit, PTL DEF Spec
<1> QED BY <1>2, PTL DEF RoundsAreAtomic, Rounds!Spec, Rounds!vars, OneMachine

-----------------------------------------------------------------------------
(* No expert is lost.  If an expert of view were nowhere in the settled    *)
(* mapping, the first instruction left that was decided on it would have   *)
(* found it left there by an instruction before, itself decided on it.     *)

EveryExpertIn(m) == \A e \in Expert : Replicas(m, e) # {}

DeployedInv == EveryExpertIn(view) /\ EveryExpertDeployed

LEMMA DueFromThere ==
  ASSUME RoundTypeOK, NEW p \in Position, NEW j \in Due(p), NEW k \in Touchers(p), j <= k,
         \A l \in DOMAIN plan : Sound(plan[l])
  PROVE  k \in Due(p)
<1> DEFINE r == Owner(p)
<1>1. r \in Rank /\ Concerns(r, plan[k])
  BY OwnerType, TouchesConcerns DEF Touchers
<1>2. CASE pc[r] = "optimize"
  BY <1>1, <1>2 DEF Due, Left, Touchers
<1>3. CASE pc[r] # "optimize"
  <2>1. j \in Remaining(r) \ TakenEffect(r)
    BY <1>3 DEF Due, Left
  <2>2. idx[r] \in Nat /\ j \in Nat /\ k \in Nat /\ idx[r] <= j
    BY <1>1, <2>1 DEF RoundTypeOK, Remaining, Touchers
  <2>3. k \in Remaining(r)
    BY <1>1, <2>2 DEF Remaining, Touchers
  <2>4. k \notin TakenEffect(r)
    <3> SUFFICES ASSUME k \in TakenEffect(r) PROVE FALSE
      OBVIOUS
    <3>1. Busy(r) /\ k = HeadIdx(r) /\ TakenEffect(r) = {HeadIdx(r)}
      BY DEF TakenEffect
    <3>2. k <= j /\ k # j
      BY <1>1, <2>1, <3>1, HeadIsLeast
    <3> QED BY <2>2, <3>2
  <2> QED BY <1>3, <2>3, <2>4 DEF Due, Left, Touchers
<1> QED BY <1>2, <1>3

(* What an instruction leaves somewhere, it was decided on somewhere.      *)
LEMMA LeftIsFound ==
  ASSUME RoundInv, NEW p \in Position, NEW k \in Due(p), NEW e \in Expert,
         After(plan[k], p) = e
  PROVE  \E q \in Position : k \in Due(q) /\ Before(plan[k], q) = e
<1> DEFINE i == plan[k]
<1>1. k \in DOMAIN plan /\ Sound(i) /\ Touches(i, p) /\ k \in Left(Owner(p))
  BY OwnerType DEF RoundInv, ListInv, Due, Left, Remaining
<1>2. e # NoExpert
  BY GeometryAssumption DEF Expert, NoExpert
<1>3. i.type # "REMOVE"
  <2> SUFFICES ASSUME i.type = "REMOVE" PROVE FALSE
    OBVIOUS
  <2>1. i.source_expert = NoExpert /\ i.source_position = -1
    BY <1>1 DEF Sound, InstructionType
  <2> QED BY <1>1, <1>2, <2>1 DEF Touches, After, Position
<1>4. /\ i.source_position \in Position /\ i.target_position \in Position
      /\ i.source_position # i.target_position
      /\ i.source_rank = Owner(i.source_position) /\ i.target_rank = Owner(i.target_position)
  BY <1>1, <1>3 DEF Sound, InstructionType
<1>5. PICK q \in Position : Touches(i, q) /\ Before(i, q) = e
  BY <1>4 DEF After, Before, Touches
<1>6. /\ Owner(p) \in Rank /\ Owner(q) \in Rank
      /\ Concerns(Owner(p), i) /\ Concerns(Owner(q), i)
  BY <1>1, <1>5, OwnerType, TouchesConcerns
<1>7. k \in Left(Owner(q))
  BY <1>1, <1>6 DEF RoundInv, Paired
<1> QED BY <1>5, <1>7 DEF Due

LEMMA SettledDeploys ==
  ASSUME RoundInv, EveryExpertIn(view)
  PROVE  EveryExpertIn(Settled(0))
<1> SUFFICES ASSUME NEW e \in Expert, \A p \in Position : Settled(0)[p] # e PROVE FALSE
  BY DEF EveryExpertIn, Replicas
<1> DEFINE Wants == {k \in DOMAIN plan :
                        \E p \in Position : k \in Due(p) /\ Before(plan[k], p) = e}
<1>1. RoundTypeOK /\ Len(plan) \in Nat /\ DOMAIN plan = 1 .. Len(plan)
  BY DEF RoundInv, CoreInv, TypeOK, RoundTypeOK
<1>2. \A l \in DOMAIN plan : Sound(plan[l])
  BY DEF RoundInv, ListInv
<1>3. \A p \in Position : Due(p) \subseteq Touchers(p) /\ Touchers(p) \subseteq DOMAIN plan
  BY DEF Due, Left, Remaining, Touchers
<1>4. Wants # {}
  <2>1. PICK v \in Position : view[v] = e
    BY DEF EveryExpertIn, Replicas
  <2>2. Due(v) # {}
    BY <2>1 DEF RoundInv, PlaceInv
  <2>3. Touchers(v) # {} /\ Touchers(v) \in SUBSET (0 .. Len(plan))
    BY <1>1, <1>3, <2>2
  <2>4. PICK k \in Touchers(v) : \A l \in Touchers(v) : l <= k
    <3>1. Len(plan) \in Int
      BY <1>1
    <3> QED BY <2>3, <3>1, GreatestOfInterval
  <2>5. k \in Due(v)
    BY <1>1, <1>2, <1>3, <2>2, <2>4, DueFromThere
  <2>6. After(plan[k], v) = e
    BY <2>1, <2>4 DEF RoundInv, ListInv, Linked
  <2>7. k \in DOMAIN plan
    BY <1>3
  <2> QED BY <2>5, <2>6, <2>7, LeftIsFound
<1>5. Wants \in SUBSET Nat
  BY <1>1
<1>6. PICK k \in Wants : \A l \in Wants : k <= l
  <2> HIDE DEF Wants
  <2> QED BY <1>4, <1>5, LeastOfNaturals
<1>7. PICK p \in Position : k \in Due(p) /\ Before(plan[k], p) = e
  BY <1>6
<1> DEFINE Earlier == {l \in Due(p) : l < k}
<1>8. Earlier # {}
  <2> SUFFICES ASSUME Earlier = {} PROVE FALSE
    OBVIOUS
  <2>1. \A l \in Due(p) : l \in Int
    BY <1>1, <1>3
  <2>2. k \in Int /\ \A l \in Due(p) : k <= l
    BY <1>5, <1>6, <2>1
  <2>3. Settled(0)[p] = Before(plan[k], p)
    BY <1>7, <2>2 DEF RoundInv, PlaceInv
  <2> QED BY <1>7, <2>3
<1>9. PICK j \in Earlier : \A l \in Earlier : l <= j
  <2>1. Earlier \in SUBSET (0 .. Len(plan)) /\ Len(plan) \in Int
    BY <1>1, <1>3
  <2> HIDE DEF Earlier
  <2> QED BY <1>8, <2>1, GreatestOfInterval
<1>10. j \in Due(p) /\ j \in Touchers(p) /\ k \in Touchers(p) /\ j < k
  BY <1>3, <1>7, <1>9
<1>11. ASSUME NEW l \in Touchers(p) PROVE l <= j \/ k <= l
  <2>1. l \in Int /\ j \in Int /\ k \in Int
    BY <1>1, <1>3, <1>10
  <2>2. j <= l => l \in Due(p)
    BY <1>1, <1>2, <1>10, DueFromThere
  <2>3. l \in Due(p) /\ l < k => l <= j
    BY <1>9
  <2> QED BY <2>1, <2>2, <2>3
<1>12. Linked(p)
  BY DEF RoundInv, ListInv
<1>13. After(plan[j], p) = e
  BY <1>7, <1>10, <1>11, <1>12 DEF Linked
<1>14. j \in Wants
  <2>1. j \in DOMAIN plan
    BY <1>3, <1>10
  <2> QED BY <1>10, <1>13, <2>1, LeftIsFound
<1>15. k <= j /\ j \in Int /\ k \in Int
  BY <1>5, <1>6, <1>14
<1> QED BY <1>10, <1>15

(* An expert with two positions keeps one if the other is taken from it.   *)
LEMMA RedundantElsewhere ==
  ASSUME NEW v \in [Position -> Expert \cup {NoExpert}], NEW e, Redundant(v, e), NEW p \in Position
  PROVE  \E q \in Replicas(v, e) : q # p
<1> SUFFICES ASSUME Replicas(v, e) \subseteq {p} PROVE FALSE
  OBVIOUS
<1>1. IsFiniteSet({p}) /\ Cardinality({p}) = 1
  BY FS_Singleton
<1>2. IsFiniteSet(Replicas(v, e)) /\ Cardinality(Replicas(v, e)) <= 1
  BY <1>1, FS_Subset
<1>3. Cardinality(Replicas(v, e)) \in Nat
  BY <1>2, FS_CardinalityType
<1> QED BY <1>2, <1>3 DEF Redundant

LEMMA MoveDeploys ==
  ASSUME NEW v \in [Position -> Expert \cup {NoExpert}], EveryExpertIn(v),
         NEW m \in Moves, LegalMove(v, m)
  PROVE  EveryExpertIn(AfterMove(v, m))
<1> SUFFICES ASSUME NEW e \in Expert PROVE \E q \in Position : AfterMove(v, m)[q] = e
  BY DEF EveryExpertIn, Replicas
<1>1. m.target \in Position /\ m.source \in Position \cup {-1} /\ -1 \notin Position
  BY PlacementAssumption DEF Position
<1>2. e # NoExpert
  BY GeometryAssumption DEF Expert, NoExpert
<1>3. PICK p \in Position : v[p] = e
  BY DEF EveryExpertIn, Replicas
<1>4. ASSUME Redundant(v, v[m.target]) PROVE \E q \in Position : v[q] = e /\ q # m.target
  <2>1. CASE v[m.target] = e
    <3>1. \E q \in Replicas(v, e) : q # m.target
      BY <1>1, <1>4, <2>1, RedundantElsewhere
    <3> QED BY <3>1 DEF Replicas
  <2>2. CASE v[m.target] # e
    BY <1>3, <2>2
  <2> QED BY <2>1, <2>2
<1>5. CASE m.type = "REMOVE"
  <2>1. Redundant(v, v[m.target])
    BY <1>5 DEF LegalMove
  <2> QED BY <1>4, <1>5, <2>1 DEF AfterMove
<1>6. CASE m.type = "SWAP"
  <2>1. m.source \in Position /\ m.source # m.target
    BY <1>1, <1>6 DEF LegalMove
  <2> QED BY <1>1, <1>3, <1>6, <2>1 DEF AfterMove
<1>7. CASE m.type = "ADD"
  <2>1. m.source \in Position /\ m.source # m.target
        /\ (v[m.target] # NoExpert => Redundant(v, v[m.target]))
    BY <1>1, <1>7 DEF LegalMove
  <2>2. \E q \in Position : v[q] = e /\ q # m.target
    BY <1>2, <1>3, <1>4, <2>1
  <2> QED BY <1>7, <2>2 DEF AfterMove
<1> QED BY <1>5, <1>6, <1>7, PlacementAssumption

LEMMA DeployedStep ==
  ASSUME RoundInv, DeployedInv, [Next]_vars
  PROVE  DeployedInv'
<1>1. EveryExpertIn(Settled(0)) /\ \A r \in Rank : Settled(r) = Settled(0)
  BY SettledDeploys DEF DeployedInv, RoundInv, MappingAgreement
<1>2. EveryExpertIn(view')
  <2>1. CASE Collect
    <3>1. view' = mapping[0] /\ pc[0] = "collect"
      BY <2>1, RankIsNoMinusOne DEF Collect
    <3>2. mapping[0] = view
      BY <3>1, RoundLeft, RankIsNoMinusOne
    <3> QED BY <3>1, <3>2 DEF DeployedInv
  <2>2. ASSUME NEW m \in Moves, Decide(m) PROVE EveryExpertIn(view')
    <3>1. LegalMove(view, m) /\ view' = AfterMove(view, m)
      BY <2>2 DEF Decide
    <3>2. view \in [Position -> Expert \cup {NoExpert}]
      BY DEF RoundInv, CoreInv, TypeOK, RoundTypeOK
    <3> QED BY <3>1, <3>2, MoveDeploys DEF DeployedInv
  <2>3. CASE UNCHANGED view
    BY <2>3 DEF DeployedInv
  <2> QED BY <2>1, <2>2, <2>3 DEF Next, Worker, Main, vars, workerVars,
        Dispatch, Gather, Announce, BeginChange, UpdateMapping, Finish, Transfer,
        MainSkip, MainEnter, MainCopy, MainSelect, Forward
<1>3. ASSUME NEW r \in Rank PROVE EveryExpertIn(mapping'[r])
  <2>1. CASE mapping'[r] = mapping[r]
    BY <2>1 DEF DeployedInv, EveryExpertDeployed, EveryExpertIn
  <2>2. CASE UpdateMapping(r)
    <3>1. pc[r] = "changing" /\ mapping'[r] = UpdatedMapping(mapping[r], status)
      BY <2>2 DEF UpdateMapping, RoundInv, CoreInv, TypeOK, MappingTypeOK
    <3>2. mapping'[r] = Settled(r)
      BY <3>1 DEF Settled
    <3> QED BY <1>1, <3>2
  <2>3. ASSUME NEW s \in Rank, s # r, UpdateMapping(s) PROVE mapping'[r] = mapping[r]
    BY <2>3 DEF UpdateMapping, RoundInv, CoreInv, TypeOK, MappingTypeOK
  <2> QED BY <2>1, <2>2, <2>3 DEF Next, Worker, Main, vars, weightVars, workerVars,
        Collect, Decide, Dispatch, Gather, Announce, BeginChange, Finish, Transfer,
        MainSkip, MainEnter, MainCopy, MainSelect, Forward
<1> QED BY <1>2, <1>3 DEF DeployedInv, EveryExpertIn, EveryExpertDeployed

(* EveryExpertDeployed: if the placement pattern deploys every expert, at  *)
(* no moment does the mapping of any rank leave one without a position,    *)
(* although a swap is entered at both its ends on every rank's own time    *)
(* and an addition may overwrite (placement_manager.cpp 411-482,           *)
(* placement_mapping.cpp update_globalDeployedPositionToLogisticsIdMapping)*)
THEOREM NoExpertIsLost ==
  ASSUME \A m \in InitialMappings : EveryExpertIn(m)
  PROVE  Spec => []EveryExpertDeployed
<1>1. Init => DeployedInv
  BY DEF Init, DeployedInv, EveryExpertDeployed, EveryExpertIn
<1>2. RoundInv /\ DeployedInv /\ [Next]_vars => DeployedInv'
  BY DeployedStep
<1>3. DeployedInv => EveryExpertDeployed
  BY DEF DeployedInv
<1> QED BY <1>1, <1>2, <1>3, RoundInvariant, PTL DEF Spec
=============================================================================
