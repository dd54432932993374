------------------------ MODULE ProxyBalancerProofs ------------------------
(***************************************************************************)
(* Proofs about the balancers of the global proxy: types (ProxyTypes), the *)
(* queue of pd_score (QueueHasNoStaleEntries), its limit                   *)
(* (DecodeLimitHolds) and the counters (CountersAreCharges).  Every step   *)
(* of Next is classified (Steps, StepKinds): it leaves the charges alone   *)
(* (Quiet, Idle), counts tokens (Counts), charges a peer (Chooses) or      *)
(* releases one (Frees).  Each invariant is then shown for the classes.    *)
(***************************************************************************)
EXTENDS ProxyBalancer, FiniteLemmas, SequenceTheorems, TLAPS

(* Remainders: their range, and that of a number that is small enough.     *)
LEMMA WordRange == \A n \in Int : Word(n) \in 0 .. CounterSize - 1
  BY ProxyAssumption DEF Word

LEMMA WordSmall == \A n \in Nat : n < CounterSize => Word(n) = n
  BY ProxyAssumption DEF Word

(* A function on the first numbers is a sequence.                          *)
LEMMA FunctionIsSeq ==
    ASSUME NEW S, NEW n \in Nat, NEW f \in [1 .. n -> S]
    PROVE  f \in Seq(S) /\ Len(f) = n
<1>1. f \in Seq(S)
  BY SeqDef
<1>2. Len(f) \in Nat /\ DOMAIN f = 1 .. Len(f)
  BY <1>1, LenProperties
<1> QED BY <1>1, <1>2

QueueType ==
    queue \in Seq([length : Nat, ptr : Range(Address)]) /\ Len(queue) <= MaxActive

RestType ==
    /\ balancer \in Configurations
    /\ stage \in [Request -> Stage]
    /\ state \in [Request -> {"begin", "connect", "sent", "done"}]
    /\ seen \in [Request -> Seq(Counters)]
    /\ pdata \in [Request -> PeerData]
    /\ \A r \in Request : state[r] \in {"connect", "sent"} =>
           pdata[r].chosen \in Peers(stage[r]) \cup {NoPeer}
    /\ tries \in [Request -> Nat]
    /\ peer \in [Request -> Nat \cup {NoPeer}]
    /\ DOMAIN shm = Stage /\ \A s \in Stage : shm[s] \in [Peers(s) -> Counters]
    /\ charged \subseteq Request
    /\ early \subseteq Stage \X (Nat \cup {NoPeer})
    /\ failures \in 0 .. MaxFailures

LEMMA Parts == TypeOK <=> RestType /\ QueueType
  BY DEF TypeOK, RestType, QueueType

LEMMA PeersFinite ==
    ASSUME NEW s \in Stage
    PROVE  /\ Peers(s) \subseteq Nat /\ IsFiniteSet(Peers(s))
           /\ NumPeers[s] \in Nat \ {0} /\ NoPeer \notin Nat
           /\ Cardinality(Up(s)) \in Nat
<1>1. NumPeers[s] \in Nat \ {0}
  BY ProxyAssumption
<1>2. Peers(s) \subseteq Nat /\ NoPeer \notin Nat
  BY <1>1 DEF Peers, NoPeer
<1>3. IsFiniteSet(Peers(s))
  BY <1>1, FS_Interval DEF Peers
<1>4. Cardinality(Up(s)) \in Nat
  BY <1>3, FS_Subset, FS_CardinalityType DEF Up
<1> QED BY <1>1, <1>2, <1>3, <1>4

(* A chosen peer is one of the peers of the stage.                         *)
LEMMA LeastAreMembers ==
    ASSUME NEW load, NEW P
    PROVE  Least(load, P) \subseteq P /\ FirstLeast(load, P) \subseteq P
  BY DEF Least, FirstLeast

LEMMA InitTypes == Init => TypeOK
<1> SUFFICES ASSUME Init PROVE TypeOK
  OBVIOUS
<1>1. NoLoad \in Counters
  BY ProxyAssumption DEF NoLoad, Counters
<1>2. <<>> \in Seq(Counters) /\ <<>> \in Seq([length : Nat, ptr : Range(Address)]) /\ Len(<<>>) = 0
  BY EmptySeq
<1>3. NoData \in PeerData
  BY ProxyAssumption DEF NoData, PeerData
<1> QED BY <1>1, <1>2, <1>3, ProxyAssumption DEF Init, TypeOK, Stage

(* What Get and Charge leave behind.                                       *)
LEMMA GetTypes ==
    ASSUME RestType, NEW r \in Request, NEW chosen \in Peers(stage[r]) \cup {NoPeer}, Get(r, chosen)
    PROVE  /\ peer' \in [Request -> Nat \cup {NoPeer}]
           /\ \/ state' = [state EXCEPT ![r] = "connect"]
              \/ state' = [state EXCEPT ![r] = "done"]
<1>1. stage[r] \in Stage
  BY DEF RestType
<1>2. Up(stage[r]) \subseteq Nat
  BY <1>1, PeersFinite DEF Up
<1>3. CASE \E p \in IF chosen = NoPeer THEN Up(stage[r]) ELSE {chosen} \cap Up(stage[r]) :
                /\ peer' = [peer EXCEPT ![r] = p]
                /\ state' = [state EXCEPT ![r] = "connect"]
  BY <1>2, <1>3 DEF RestType
<1>4. CASE /\ peer' = [peer EXCEPT ![r] = NoPeer]
           /\ state' = [state EXCEPT ![r] = "done"]
  BY <1>4 DEF RestType
<1> QED BY <1>3, <1>4 DEF Get

LEMMA ChargeTypes ==
    ASSUME RestType, NEW r \in Request, NEW p \in Peers(stage[r]) \cup {NoPeer}, Charge(r, p)
    PROVE  RestType'
<1>1. stage[r] \in Stage /\ stage' = stage
  BY DEF RestType, Charge
<1>2. p \in Nat \cup {NoPeer}
  BY <1>1, PeersFinite
<1>3. Length[r] \in Nat /\ Cost(r) \in Nat /\ LengthAdded(r) \in Nat
  BY ProxyAssumption DEF Cost, LengthAdded
<1>4. /\ peer' \in [Request -> Nat \cup {NoPeer}]
      /\ state' = [state EXCEPT ![r] = "connect"] \/ state' = [state EXCEPT ![r] = "done"]
  BY GetTypes DEF Charge
<1>5. pdata' \in [Request -> PeerData]
  <2>1. [NoData EXCEPT !.chosen = p] \in PeerData
    BY <1>2, ProxyAssumption DEF NoData, PeerData
  <2> QED BY <2>1 DEF RestType, Charge
<1>6. \A q \in Request : state'[q] \in {"connect", "sent"} =>
          pdata'[q].chosen \in Peers(stage'[q]) \cup {NoPeer}
  BY <1>1, <1>4 DEF RestType, Charge, NoData
<1>7. DOMAIN shm' = Stage /\ \A s \in Stage : shm'[s] \in [Peers(s) -> Counters]
  <2>1. CASE p = NoPeer
    BY <2>1 DEF RestType, Charge
  <2>2. CASE p # NoPeer
    <3>1. p \in Peers(stage[r]) /\ shm[stage[r]][p] \in Counters
      BY <2>2, <1>1 DEF RestType
    <3> DEFINE old == shm[stage[r]][p]
               new == [requests |-> Word(old.requests + 1), cost |-> Word(old.cost + Cost(r)),
                       length |-> Word(old.length + LengthAdded(r)), tokens |-> old.tokens]
    <3>2. old.requests \in Int /\ old.cost \in Int /\ old.length \in Int
      BY <3>1, ProxyAssumption DEF Counters
    <3>3. Word(old.requests + 1) \in 0 .. CounterSize - 1
      BY <3>2, WordRange
    <3>4. /\ Word(old.cost + Cost(r)) \in 0 .. CounterSize - 1
          /\ Word(old.length + LengthAdded(r)) \in 0 .. CounterSize - 1
      BY <3>2, <1>3, WordRange
    <3>5. new \in Counters
      BY <3>1, <3>3, <3>4 DEF Counters
    <3>6. shm' = [shm EXCEPT ![stage[r]][p] = new]
      BY <2>2 DEF Charge
    <3> HIDE DEF new
    <3>7. DOMAIN shm' = Stage
      BY <3>6 DEF RestType
    <3>8. ASSUME NEW s \in Stage PROVE shm'[s] \in [Peers(s) -> Counters]
      BY <3>5, <3>6, <3>8, <1>1 DEF RestType
    <3> QED BY <3>7, <3>8
  <2> QED BY <2>1, <2>2
<1>8. tries' \in [Request -> Nat]
  BY <1>1, PeersFinite DEF RestType, Charge
<1>9. seen' \in [Request -> Seq(Counters)] /\ charged' \subseteq Request
  BY EmptySeq DEF RestType, Charge
<1>10. state' \in [Request -> {"begin", "connect", "sent", "done"}]
  BY <1>4 DEF RestType
<1>11. /\ balancer' \in Configurations /\ failures' \in 0 .. MaxFailures
       /\ early' \subseteq Stage \X (Nat \cup {NoPeer}) /\ stage' \in [Request -> Stage]
  BY DEF RestType, Charge
<1> QED BY <1>4, <1>5, <1>6, <1>7, <1>8, <1>9, <1>10, <1>11 DEF RestType

LEMMA FreeTypes ==
    ASSUME RestType, NEW r \in Request, state[r] \in {"connect", "sent"}, Free(r)
    PROVE  /\ DOMAIN shm' = Stage /\ \A s \in Stage : shm'[s] \in [Peers(s) -> Counters]
           /\ tries' \in [Request -> Nat]
           /\ charged' \subseteq Request
           /\ balancer' = balancer /\ seen' = seen
<1>1. stage[r] \in Stage
  BY DEF RestType
<1>2. Cost(r) \in Int /\ LengthTaken(r) \in Int /\ Counted(r) \in Int
  BY ProxyAssumption DEF Cost, LengthTaken, Counted, RestType, PeerData
<1>3. charged' = charged \ {r}
  BY Zenon DEF Free, Release
<1>4. charged' \subseteq Request
  BY <1>3 DEF RestType
<1>5. tries' \in [Request -> Nat]
  BY DEF Free, RestType
<1>6. DOMAIN shm' = Stage /\ \A s \in Stage : shm'[s] \in [Peers(s) -> Counters]
  <2> DEFINE p == pdata[r].chosen
  <2>1. CASE p = NoPeer
    BY <2>1 DEF RestType, Free, Release
  <2>2. CASE p # NoPeer
    <3> DEFINE old == shm[stage[r]][p]
               new == [requests |-> Word(old.requests - 1), cost |-> Word(old.cost - Cost(r)),
                       length |-> Word(old.length - LengthTaken(r)),
                       tokens |-> Word(old.tokens - Counted(r))]
    <3>1. p \in Peers(stage[r]) /\ old \in Counters
      BY <2>2, <1>1 DEF RestType
    <3>2. /\ old.requests \in Int /\ old.cost \in Int
          /\ old.length \in Int /\ old.tokens \in Int
      BY <3>1, ProxyAssumption DEF Counters
    <3>3. Word(old.requests - 1) \in 0 .. CounterSize - 1
      BY <3>2, WordRange
    <3>4. /\ Word(old.cost - Cost(r)) \in 0 .. CounterSize - 1
          /\ Word(old.length - LengthTaken(r)) \in 0 .. CounterSize - 1
      BY <3>2, <1>2, WordRange
    <3>5. Word(old.tokens - Counted(r)) \in 0 .. CounterSize - 1
      BY <3>2, <1>2, WordRange
    <3>6. new \in Counters
      BY <3>3, <3>4, <3>5 DEF Counters
    <3>7. shm' = [shm EXCEPT ![stage[r]][p] = new]
      BY <2>2 DEF Free, Release, Uncharge
    <3> HIDE DEF new
    <3>8. DOMAIN shm' = Stage
      BY <3>7 DEF RestType
    <3>9. ASSUME NEW s \in Stage PROVE shm'[s] \in [Peers(s) -> Counters]
      BY <3>1, <3>6, <3>7, <3>9, <1>1 DEF RestType
    <3> QED BY <3>8, <3>9
  <2> QED BY <2>1, <2>2
<1> QED BY <1>4, <1>5, <1>6 DEF Free

(* Every balancer ends its peer.init with the charge of a peer of the      *)
(* stage; only pd_score's prefill enters the queue, and its decode takes a *)
(* peer within the limit.                                                  *)
LEMMA ChooseCharges ==
    ASSUME RestType, NEW r \in Request,
           PrefillStrategy(r) \/ DecodeStrategy(r) \/ PrefillScore(r)
               \/ WeightedLeastActive(r) \/ ChargeSeen(r)
    PROVE  /\ state[r] = "begin"
           /\ \/ queue' = queue
              \/ balancer["prefill"] = "pd_score" /\ queue' = Enqueued(r)
           /\ \E p \in Peers(stage[r]) \cup {NoPeer} :
                  /\ Charge(r, p)
                  /\ stage[r] = "decode" /\ balancer["decode"] = "pd_score"
                         => p = NoPeer \/ p \in Open
                  /\ queue' = queue \/ (stage[r] = "prefill" /\ p # NoPeer)
<1>1. CASE PrefillStrategy(r)
  <2>1. stage[r] = "prefill" /\ state[r] = "begin" /\ balancer["prefill"] = "pd_score"
        /\ queue' = Enqueued(r)
    BY <1>1 DEF PrefillStrategy, Begins
  <2>2. PICK p \in Peers("prefill") : Charge(r, p)
    BY <1>1, LeastAreMembers DEF PrefillStrategy
  <2>3. p # NoPeer
    BY PeersFinite DEF Stage
  <2> QED BY <2>1, <2>2, <2>3
<1>2. CASE DecodeStrategy(r)
  <2>1. stage[r] = "decode" /\ state[r] = "begin" /\ queue' = queue
    BY <1>2 DEF DecodeStrategy, Begins
  <2>2. PICK dealt : \E p \in IF Open = {} THEN {NoPeer} ELSE FirstLeast(dealt, Open) : Charge(r, p)
    BY <1>2 DEF DecodeStrategy
  <2>3. PICK p \in IF Open = {} THEN {NoPeer} ELSE FirstLeast(dealt, Open) : Charge(r, p)
    BY <2>2
  <2>4. p = NoPeer \/ p \in Open
    BY <2>3, LeastAreMembers
  <2>5. Open \subseteq Peers("decode")
    BY DEF Open
  <2> QED BY <2>1, <2>3, <2>4, <2>5
<1>3. CASE PrefillScore(r)
  <2>1. stage[r] = "prefill" /\ state[r] = "begin" /\ queue' = queue
    BY <1>3 DEF PrefillScore, Begins
  <2>2. \E grows : \E p \in FirstLeast(grows, Peers("prefill")) : Charge(r, p)
    BY <1>3 DEF PrefillScore
  <2>3. PICK p \in Peers("prefill") : Charge(r, p)
    BY <2>2, LeastAreMembers
  <2> QED BY <2>1, <2>3
<1>4. CASE WeightedLeastActive(r)
  <2>1. /\ stage[r] = "decode" /\ state[r] = "begin" /\ queue' = queue
        /\ balancer["decode"] = "weighted_least_active"
    BY <1>4 DEF WeightedLeastActive, Begins
  <2>2. \E p \in FirstLeast(Load("decode", "tokens"),
                           Least(Load("decode", "requests"), Peers("decode"))) : Charge(r, p)
    BY <1>4 DEF WeightedLeastActive
  <2>3. PICK p \in Peers("decode") : Charge(r, p)
    BY <2>2, LeastAreMembers
  <2> QED BY <2>1, <2>3
<1>5. CASE ChargeSeen(r)
  <2>1. /\ state[r] = "begin" /\ queue' = queue
        /\ stage[r] = "decode" => balancer["decode"] = "auto_balance"
    BY <1>5 DEF ChargeSeen, Begins
  <2>2. LeastTotalLoad(r) \subseteq Peers(stage[r])
    BY LeastAreMembers DEF LeastTotalLoad
  <2>3. NotFull(r) \subseteq Peers(stage[r])
    BY LeastAreMembers DEF NotFull
  <2>4. PICK p \in Peers(stage[r]) : Charge(r, p)
    BY <1>5, <2>2, <2>3 DEF ChargeSeen
  <2> QED BY <2>1, <2>4
<1> QED BY <1>1, <1>2, <1>3, <1>4, <1>5

---------------------------------------------------------------------------
(* The queue of pd_score.                                                  *)
Entry == [length : Nat, ptr : Range(Address)]

LEMMA EnqueuedType ==
    ASSUME QueueType, NEW r \in Request
    PROVE  /\ Enqueued(r) \in Seq(Entry) /\ Len(Enqueued(r)) <= MaxActive
           /\ \/ Enqueued(r) = queue
              \/ Enqueued(r) = Append(queue, [length |-> Length[r], ptr |-> Address[r]])
<1>1. [length |-> Length[r], ptr |-> Address[r]] \in Entry
  BY ProxyAssumption DEF Entry, Range
<1>2. queue \in Seq(Entry) /\ Len(queue) <= MaxActive /\ Len(queue) \in Nat
  BY LenProperties DEF QueueType, Entry
<1> QED BY <1>1, <1>2, AppendProperties, ProxyAssumption DEF Enqueued

LEMMA WithoutType ==
    ASSUME QueueType, NEW i \in DOMAIN queue
    PROVE  /\ Without(queue, i) \in Seq(Entry)
           /\ Len(queue) \in Nat /\ Len(queue) > 0 /\ DOMAIN queue = 1 .. Len(queue)
           /\ DOMAIN Without(queue, i) = 1 .. Len(queue) - 1
           /\ Len(Without(queue, i)) = Len(queue) - 1
           /\ \A j \in 1 .. Len(queue) - 1 :
                  Without(queue, i)[j] = IF j = i THEN queue[Len(queue)] ELSE queue[j]
<1> DEFINE n == Len(queue)
<1>1. /\ queue \in Seq(Entry) /\ n \in Nat /\ DOMAIN queue = 1 .. n
      /\ \A j \in 1 .. n : queue[j] \in Entry
  BY LenProperties, ElementOfSeq DEF QueueType, Entry
<1>2. n > 0
  BY <1>1
<1>3. Without(queue, i) \in [1 .. n - 1 -> Entry]
  BY <1>1, <1>2 DEF Without
<1>4. n - 1 \in Nat
  BY <1>1, <1>2
<1>5. Without(queue, i) \in Seq(Entry) /\ Len(Without(queue, i)) = n - 1
  BY <1>3, <1>4, FunctionIsSeq
<1>6. \A j \in 1 .. n - 1 : Without(queue, i)[j] = IF j = i THEN queue[n] ELSE queue[j]
  BY DEF Without
<1> QED BY <1>1, <1>2, <1>3, <1>5, <1>6

LEMMA DequeueSteps ==
    ASSUME NEW r, Dequeue(r)
    PROVE  \/ /\ queue' = queue
              /\ balancer[stage[r]] = "pd_score" /\ stage[r] = "prefill"
                     => \A i \in DOMAIN queue : queue[i].ptr # Address[r]
           \/ \E i \in DOMAIN queue : queue[i].ptr = Address[r] /\ queue' = Without(queue, i)
  BY DEF Dequeue, First

LEMMA QueueTypes ==
    ASSUME QueueType, NEW r \in Request,
           queue' = queue \/ queue' = Enqueued(r) \/ Dequeue(r)
    PROVE  QueueType'
<1>1. CASE queue' = queue
  BY <1>1 DEF QueueType
<1>2. CASE queue' = Enqueued(r)
  BY <1>2, EnqueuedType DEF QueueType, Entry
<1>3. CASE Dequeue(r)
  <2>1. CASE queue' = queue
    BY <2>1 DEF QueueType
  <2>2. CASE \E i \in DOMAIN queue : queue' = Without(queue, i)
    BY <2>2, WithoutType, ProxyAssumption DEF QueueType, Entry
  <2> QED BY <1>3, <2>1, <2>2, DequeueSteps
<1> QED BY <1>1, <1>2, <1>3

---------------------------------------------------------------------------
(* The steps of a request that leave the shared memory alone or write only *)
(* the tokens.                                                             *)
LEMMA ReadTypes ==
    ASSUME RestType, NEW r \in Request, ReadLoad(r) \/ ReadLoads(r)
    PROVE  /\ RestType'
           /\ UNCHANGED <<balancer, nginx, pdata, shared, history>>
<1>1. CASE ReadLoad(r)
  <2> DEFINE loads == <<shm["prefill"][Len(seen[r])]>>
  <2>1. Len(seen[r]) \in Peers("prefill")
    BY <1>1, LenProperties, ProxyAssumption DEF ReadLoad, RestType, Peers, Stage
  <2>2. loads \in Seq(Counters)
    BY <2>1 DEF RestType, Stage
  <2>3. seen[r] \o loads \in Seq(Counters)
    BY <2>2, ConcatProperties DEF RestType
  <2>4. seen' = [seen EXCEPT ![r] = @ \o loads]
        /\ UNCHANGED <<balancer, nginx, pdata, shared, history, failures>>
    BY <1>1 DEF ReadLoad, Read
  <2> HIDE DEF loads
  <2> QED BY <2>3, <2>4 DEF RestType, nginx, shared, history
<1>2. CASE ReadLoads(r)
  <2> DEFINE loads == [i \in 1 .. NumPeers["decode"] |-> shm["decode"][i - 1]]
  <2>1. \A i \in 1 .. NumPeers["decode"] : i - 1 \in Peers("decode")
    BY ProxyAssumption DEF Peers, Stage
  <2>2. loads \in [1 .. NumPeers["decode"] -> Counters]
    BY <2>1 DEF RestType, Stage
  <2>3. loads \in Seq(Counters)
    <3>1. NumPeers["decode"] \in Nat
      BY ProxyAssumption DEF Stage
    <3> HIDE DEF loads
    <3> QED BY <2>2, <3>1, FunctionIsSeq
  <2>4. seen[r] \o loads \in Seq(Counters)
    BY <2>3, ConcatProperties DEF RestType
  <2>5. seen' = [seen EXCEPT ![r] = @ \o loads]
        /\ UNCHANGED <<balancer, nginx, pdata, shared, history, failures>>
    BY <1>2 DEF ReadLoads, Read
  <2> HIDE DEF loads
  <2> QED BY <2>4, <2>5 DEF RestType, nginx, shared, history
<1> QED BY <1>1, <1>2

(* Where every filter counts for its own balancer only, that is a decode   *)
(* balancer, and the others see answers without tokens.                    *)
LEMMA FiltersCountTheirOwn ==
    ASSUME RestType, OwnData, NEW s \in Stage, NEW b \in Filters(s)
    PROVE  \/ s = "decode" /\ balancer["decode"] = b
           \/ b = "weighted_least_active" /\ s \notin balancer.reported
<1>1. balancer.prefill \in PrefillBalancers
  BY ProxyAssumption DEF RestType
<1> QED BY <1>1 DEF OwnData, Filters, Stage, PrefillBalancers

FilterBalancers == {"pd_score", "weighted_least_active"}

(* What a chunk with a report of tokens does.                              *)
Counts(r, b, added) ==
    /\ AddDecodedTokens(r, b, added)
    /\ pdata' \in [Request -> PeerData]
    /\ \A q \in Request \ {r} : pdata'[q] = pdata[q]
    /\ pdata'[r].chosen = pdata[r].chosen
    /\ pdata'[r].decode_token_count = pdata[r].decode_token_count + added
    /\ OwnData => added = 0 \/ (stage[r] = "decode" /\ balancer["decode"] = b)

LEMMA ChunkCounts ==
    ASSUME RestType, NEW r \in Request, NEW n \in 0 .. MaxTokens,
           TotalChunk(r, n) \/ TokenChunk(r, n)
    PROVE  \E b \in FilterBalancers, added \in Nat : Counts(r, b, added)
<1>1. /\ pdata[r] \in PeerData /\ stage[r] \in Stage /\ n \in Nat
      /\ pdata[r].last_total_tokens \in Nat /\ pdata[r].decode_token_count \in Nat
  BY ProxyAssumption DEF RestType, PeerData
<1>2. ASSUME NEW added \in Nat, pdata[r].decode_token_count + added <= MaxTokens,
             \/ pdata' = [pdata EXCEPT ![r].decode_token_count = @ + added]
             \/ pdata' = [pdata EXCEPT ![r].decode_token_count = @ + added,
                                       ![r].last_total_tokens = n]
      PROVE  /\ pdata' \in [Request -> PeerData]
             /\ \A q \in Request \ {r} : pdata'[q] = pdata[q]
             /\ pdata'[r].chosen = pdata[r].chosen
             /\ pdata'[r].decode_token_count = pdata[r].decode_token_count + added
  <2>1. \/ pdata'[r] = [pdata[r] EXCEPT !.decode_token_count = @ + added]
        \/ pdata'[r] = [pdata[r] EXCEPT !.decode_token_count = @ + added, !.last_total_tokens = n]
    BY <1>2 DEF RestType
  <2>2. pdata[r].decode_token_count + added \in 0 .. MaxTokens
    BY <1>1, <1>2, ProxyAssumption
  <2>3. /\ pdata'[r] \in PeerData /\ pdata'[r].chosen = pdata[r].chosen
        /\ pdata'[r].decode_token_count = pdata[r].decode_token_count + added
    BY <1>1, <2>1, <2>2 DEF PeerData
  <2> QED BY <1>2, <2>3 DEF RestType
<1>3. CASE TotalChunk(r, n)
  <2>1. PICK added \in Nat :
            /\ AddDecodedTokens(r, "pd_score", added)
            /\ \/ pdata' = [pdata EXCEPT ![r].decode_token_count = @ + added]
               \/ pdata' = [pdata EXCEPT ![r].decode_token_count = @ + added,
                                         ![r].last_total_tokens = n]
    <3>1. Added(r, n) \in Nat
      BY <1>1 DEF Added
    <3>2. CASE balancer[stage[r]] = "pd_score"
      BY <1>3, <3>1, <3>2 DEF TotalChunk
    <3>3. CASE balancer[stage[r]] # "pd_score"
      BY <1>1, <1>3, <3>3 DEF TotalChunk
    <3> QED BY <3>2, <3>3
  <2>2. pdata[r].decode_token_count + added <= MaxTokens
    BY <2>1 DEF AddDecodedTokens
  <2>3. OwnData => stage[r] = "decode" /\ balancer["decode"] = "pd_score"
    BY <1>1, <1>3, FiltersCountTheirOwn DEF TotalChunk
  <2>4. Counts(r, "pd_score", added)
    BY <1>2, <2>1, <2>2, <2>3 DEF Counts
  <2> QED BY <2>4 DEF FilterBalancers
<1>4. CASE TokenChunk(r, n)
  <2>1. /\ AddDecodedTokens(r, "weighted_least_active", n)
        /\ pdata' = [pdata EXCEPT ![r].decode_token_count = @ + n]
    BY <1>4 DEF TokenChunk
  <2>2. pdata[r].decode_token_count + n <= MaxTokens
    BY <2>1 DEF AddDecodedTokens
  <2>3. OwnData => n = 0 \/ (stage[r] = "decode" /\ balancer["decode"] = "weighted_least_active")
    BY <1>1, <1>4, FiltersCountTheirOwn DEF TokenChunk
  <2>4. Counts(r, "weighted_least_active", n)
    BY <1>1, <1>2, <2>1, <2>2, <2>3 DEF Counts
  <2> QED BY <1>1, <2>4 DEF FilterBalancers
<1> QED BY <1>3, <1>4

(* Of the shared memory it writes no more than the tokens of a peer.       *)
LEMMA CountsWrites ==
    ASSUME RestType, NEW r \in Request, NEW b \in FilterBalancers, NEW added \in Nat,
           Counts(r, b, added)
    PROVE  /\ UNCHANGED <<balancer, nginx, seen, queue, history, failures>>
           /\ DOMAIN shm' = Stage
           /\ \A s \in Stage : \A p \in Peers(s) :
                  shm'[s][p] = IF /\ balancer["decode"] = b
                                  /\ s = "decode" /\ p = pdata[r].chosen
                               THEN [shm[s][p] EXCEPT !.tokens = Word(@ + added)]
                               ELSE shm[s][p]
           /\ \A s \in Stage : shm'[s] \in [Peers(s) -> Counters]
<1>1. UNCHANGED <<balancer, nginx, seen, queue, history, failures>>
  BY DEF Counts, AddDecodedTokens
<1> DEFINE c == pdata[r].chosen
           old == shm["decode"][c]
           new == [old EXCEPT !.tokens = Word(@ + added)]
<1>2. CASE ~(balancer["decode"] = b /\ c \in Peers("decode"))
  <2>1. shm' = shm
    BY <1>2 DEF Counts, AddDecodedTokens
  <2> QED BY <1>1, <1>2, <2>1 DEF RestType
<1>3. CASE balancer["decode"] = b /\ c \in Peers("decode")
  <2>1. old \in Counters
    BY <1>3 DEF RestType, Stage
  <2>2. old.tokens \in Int
    BY <2>1, ProxyAssumption DEF Counters
  <2>3. Word(old.tokens + added) \in 0 .. CounterSize - 1
    BY <2>2, WordRange
  <2>4. new \in Counters
    BY <2>1, <2>3 DEF Counters
  <2>5. shm' = [shm EXCEPT !["decode"][c] = new]
    BY <1>3 DEF Counts, AddDecodedTokens
  <2> HIDE DEF new
  <2>6. DOMAIN shm' = Stage
    BY <2>5 DEF RestType
  <2>7. ASSUME NEW s \in Stage
        PROVE  /\ shm'[s] \in [Peers(s) -> Counters]
               /\ \A p \in Peers(s) :
                      shm'[s][p] = IF s = "decode" /\ p = c THEN new ELSE shm[s][p]
    BY <1>3, <2>4, <2>5 DEF RestType, Stage
  <2> QED BY <1>1, <1>3, <2>6, <2>7 DEF new
<1> QED BY <1>2, <1>3

LEMMA ChunkTypes ==
    ASSUME RestType, NEW r \in Request, NEW n \in 0 .. MaxTokens,
           TotalChunk(r, n) \/ TokenChunk(r, n)
    PROVE  /\ RestType'
           /\ UNCHANGED <<balancer, nginx, queue, history>>
           /\ \A q \in Request : pdata'[q].chosen = pdata[q].chosen
           /\ \A s \in Stage : \A p \in Peers(s) : shm'[s][p].requests = shm[s][p].requests
<1>1. PICK b \in FilterBalancers, added \in Nat : Counts(r, b, added)
  BY ChunkCounts
<1>2. /\ pdata' \in [Request -> PeerData]
      /\ \A q \in Request : pdata'[q].chosen = pdata[q].chosen
  BY <1>1 DEF Counts
<1>3. /\ UNCHANGED <<balancer, nginx, seen, queue, history, failures>>
      /\ DOMAIN shm' = Stage
      /\ \A s \in Stage : shm'[s] \in [Peers(s) -> Counters]
  BY <1>1, CountsWrites
<1>4. ASSUME NEW s \in Stage, NEW p \in Peers(s)
      PROVE  shm'[s][p].requests = shm[s][p].requests
  <2>1. shm[s][p] \in Counters
    BY DEF RestType
  <2>2. shm'[s][p] = shm[s][p] \/ shm'[s][p] = [shm[s][p] EXCEPT !.tokens = Word(@ + added)]
    BY <1>1, CountsWrites
  <2> QED BY <2>1, <2>2 DEF Counters
<1> QED BY <1>2, <1>3, <1>4 DEF RestType, nginx, history

LEMMA FreeSteps ==
    ASSUME RestType, NEW r \in Request, End(r) \/ Prefilled(r) \/ Refused(r)
    PROVE  /\ RestType' /\ state[r] \in {"connect", "sent"} /\ Free(r)
           /\ \A q \in Request \ {r} : pdata'[q] = pdata[q]
<1>1. state[r] \in {"connect", "sent"} /\ Free(r)
  BY DEF End, Prefilled, Refused
<1> DEFINE Freed == /\ DOMAIN shm' = Stage
                    /\ \A s \in Stage : shm'[s] \in [Peers(s) -> Counters]
                    /\ tries' \in [Request -> Nat]
                    /\ charged' \subseteq Request
                    /\ balancer' = balancer /\ seen' = seen
<1>2. Freed
  BY <1>1, FreeTypes
<1>3. \/ pdata' = pdata
      \/ pdata' = [pdata EXCEPT ![r].chosen = NoPeer]
      \/ pdata' = [pdata EXCEPT ![r] = NoData]
  BY DEF End, Prefilled, Refused
<1>4. stage[r] \in Stage
  BY DEF RestType
<1>5. /\ pdata' \in [Request -> PeerData]
      /\ \A q \in Request \ {r} : pdata'[q] = pdata[q]
      /\ pdata'[r].chosen \in Peers(stage[r]) \cup {NoPeer}
  <2>1. pdata[r] \in PeerData /\ pdata[r].chosen \in Peers(stage[r]) \cup {NoPeer}
    BY <1>1 DEF RestType
  <2>2. [pdata[r] EXCEPT !.chosen = NoPeer] \in PeerData /\ NoData \in PeerData
    BY <2>1, ProxyAssumption DEF PeerData, NoData
  <2>3. CASE pdata' = pdata
    BY <2>1, <2>3 DEF RestType
  <2>4. CASE pdata' = [pdata EXCEPT ![r].chosen = NoPeer]
    BY <2>1, <2>2, <2>4 DEF RestType, PeerData
  <2>5. CASE pdata' = [pdata EXCEPT ![r] = NoData]
    BY <2>2, <2>5 DEF RestType, NoData
  <2> QED BY <1>3, <2>3, <2>4, <2>5
<1>6. CASE End(r)
  <2>1. /\ state' = [state EXCEPT ![r] = "done"] /\ peer' = [peer EXCEPT ![r] = NoPeer]
        /\ UNCHANGED <<stage, early, failures>>
    BY <1>6 DEF End, Ends
  <2> QED BY <1>1, <1>2, <1>5, <2>1 DEF RestType
<1>7. CASE Prefilled(r)
  <2>1. /\ state' = [state EXCEPT ![r] = "begin"] /\ peer' = [peer EXCEPT ![r] = NoPeer]
        /\ stage' = [stage EXCEPT ![r] = "decode"]
        /\ UNCHANGED <<early, failures>>
    BY <1>7 DEF Prefilled
  <2> QED BY <1>1, <1>2, <1>5, <2>1 DEF RestType, Stage
<1>8. CASE Refused(r)
  <2>1. /\ failures' = failures + 1 /\ failures < MaxFailures /\ stage' = stage
        /\ early' = early \/ early' = early \cup {<<stage[r], pdata[r].chosen>>}
    BY <1>8 DEF Refused
  <2>2. failures' \in 0 .. MaxFailures /\ early' \subseteq Stage \X (Nat \cup {NoPeer})
    BY <1>4, <2>1, ProxyAssumption DEF RestType, PeerData
  <2>3. /\ peer' \in [Request -> Nat \cup {NoPeer}]
        /\ \/ state' = [state EXCEPT ![r] = "connect"]
           \/ state' = [state EXCEPT ![r] = "done"]
    <3>1. CASE Ends(r)
      BY <3>1 DEF Ends, RestType
    <3>2. CASE Get(r, pdata'[r].chosen)
      <4>1. PICK chosen \in Peers(stage[r]) \cup {NoPeer} : chosen = pdata'[r].chosen
        BY <1>5
      <4>2. Get(r, chosen)
        BY <3>2, <4>1
      <4> QED BY <4>2, GetTypes
    <3> QED BY <1>8, <3>1, <3>2 DEF Refused
  <2>4. \A q \in Request : state'[q] \in {"connect", "sent"} =>
            pdata'[q].chosen \in Peers(stage'[q]) \cup {NoPeer}
    BY <1>5, <2>1, <2>3 DEF RestType
  <2>5. state' \in [Request -> {"begin", "connect", "sent", "done"}]
    BY <2>3 DEF RestType
  <2>6. /\ balancer' \in Configurations /\ stage' \in [Request -> Stage]
        /\ seen' \in [Request -> Seq(Counters)]
    BY <1>2, <2>1 DEF RestType
  <2> QED BY <1>1, <1>2, <1>5, <2>2, <2>3, <2>4, <2>5, <2>6 DEF RestType
<1> QED BY <1>1, <1>5, <1>6, <1>7, <1>8

---------------------------------------------------------------------------
(* The steps of Next, by what they do to the charges.                      *)
Quiet ==
    /\ UNCHANGED <<balancer, stage, charged, early, queue>>
    /\ \A q \in Request : pdata'[q].chosen = pdata[q].chosen
    /\ \A s \in Stage : \A p \in Peers(s) : shm'[s][p].requests = shm[s][p].requests
    /\ \A q \in Request :
          /\ state'[q] = "begin" => state[q] = "begin"
          /\ state'[q] \in {"connect", "sent"} => state[q] \in {"connect", "sent"}

Chooses(r) ==
    PrefillStrategy(r) \/ DecodeStrategy(r) \/ PrefillScore(r)
        \/ WeightedLeastActive(r) \/ ChargeSeen(r)

Frees(r) == (End(r) \/ Prefilled(r) \/ Refused(r)) /\ Dequeue(r)

LEMMA Steps ==
    ASSUME RestType, [Next]_vars
    PROVE  /\ RestType'
           /\ Quiet \/ \E r \in Request : Chooses(r) \/ Frees(r)
<1>1. CASE UNCHANGED vars
  BY <1>1 DEF vars, nginx, shared, history, RestType, Quiet
<1>2. ASSUME NEW r \in Request, Step(r)
      PROVE  RestType' /\ (Quiet \/ Chooses(r) \/ Frees(r))
  <2>1. CASE End(r) \/ Prefilled(r) \/ Refused(r)
    BY <2>1, FreeSteps DEF Frees, Free
  <2>2. CASE Chooses(r)
    <3>1. PICK p \in Peers(stage[r]) \cup {NoPeer} : Charge(r, p)
      BY <2>2, ChooseCharges DEF Chooses
    <3> QED BY <2>2, <3>1, ChargeTypes
  <2>3. CASE ReadLoad(r) \/ ReadLoads(r)
    BY <2>3, ReadTypes DEF Quiet, nginx, shared, history
  <2>4. CASE Connected(r)
    <3>1. /\ state[r] = "connect" /\ state' = [state EXCEPT ![r] = "sent"]
          /\ UNCHANGED <<balancer, stage, tries, peer, seen, pdata, shm, queue, charged, early, failures>>
      BY <2>4 DEF Connected, shared, history
    <3>2. RestType'
      BY <3>1 DEF RestType
    <3>3. Quiet
      BY <3>1 DEF RestType, Quiet
    <3> QED BY <3>2, <3>3
  <2> QED BY <1>2, <2>1, <2>2, <2>3, <2>4 DEF Step, Choose, Chooses
<1>3. ASSUME NEW r \in Request, NEW n \in 0 .. MaxTokens, TotalChunk(r, n) \/ TokenChunk(r, n)
      PROVE  RestType' /\ Quiet
  BY <1>3, ChunkTypes DEF Quiet, nginx, history
<1>4. ASSUME NEW w \in Worker, Crash(w)
      PROVE  RestType' /\ Quiet
  <2>1. /\ \A q \in Request : state'[q] \in {state[q], "done"}
        /\ state' \in [Request -> {"begin", "connect", "sent", "done"}]
    BY <1>4 DEF Crash, RestType
  <2>2. peer' \in [Request -> Nat \cup {NoPeer}]
    BY <1>4 DEF Crash, RestType
  <2>3. seen' \in [Request -> Seq(Counters)]
    BY <1>4, EmptySeq DEF Crash, RestType
  <2>4. failures' \in 0 .. MaxFailures
    BY <1>4, ProxyAssumption DEF Crash, RestType
  <2>5. UNCHANGED <<balancer, stage, tries, pdata, shm, queue, charged, early>>
    BY <1>4 DEF Crash, shared, history
  <2>6. RestType'
    BY <2>1, <2>2, <2>3, <2>4, <2>5 DEF RestType
  <2>7. Quiet
    BY <2>1, <2>5 DEF Quiet
  <2> QED BY <2>6, <2>7
<1> QED BY <1>1, <1>2, <1>3, <1>4 DEF Next

LEMMA StepTypes == ASSUME TypeOK, [Next]_vars PROVE TypeOK'
<1>1. RestType /\ QueueType
  BY Parts
<1>2. RestType'
  BY <1>1, Steps
<1>3. QueueType'
  <2>1. CASE Quiet
    BY <1>1, <2>1 DEF Quiet, QueueType
  <2>2. ASSUME NEW r \in Request, Chooses(r) PROVE QueueType'
    BY <1>1, <2>2, ChooseCharges, QueueTypes DEF Chooses
  <2>3. ASSUME NEW r \in Request, Frees(r) PROVE QueueType'
    BY <1>1, <2>3, QueueTypes DEF Frees
  <2> QED BY <1>1, <2>1, <2>2, <2>3, Steps
<1>4. TypeOK' <=> RestType' /\ QueueType'
  BY DEF TypeOK, RestType, QueueType
<1> QED BY <1>2, <1>3, <1>4

(* Every variable has its type in every reachable state: the counters stay *)
(* within a word, the queue of pd_score never outgrows its arrays.         *)
THEOREM ProxyTypes == Spec => []TypeOK
<1>1. Init => TypeOK
  BY InitTypes
<1>2. TypeOK /\ [Next]_vars => TypeOK'
  BY StepTypes
<1> QED BY <1>1, <1>2, PTL DEF Spec

---------------------------------------------------------------------------
(* The queue of pd_score.                                                  *)
EntriesOf(a) == {i \in DOMAIN queue : queue[i].ptr = a}
Queued(a) == {r \in charged : stage[r] = "prefill" /\ Address[r] = a}

BeginUncharged == \A r \in Request : state[r] = "begin" => r \notin charged
OnlyPDScoreQueues == balancer["prefill"] # "pd_score" => queue = <<>>

LEMMA EntriesFinite ==
    ASSUME QueueType, NEW a
    PROVE  IsFiniteSet(EntriesOf(a)) /\ Cardinality(EntriesOf(a)) \in Nat
<1>1. DOMAIN queue = 1 .. Len(queue) /\ Len(queue) \in Nat
  BY LenProperties DEF QueueType
<1>2. IsFiniteSet(DOMAIN queue)
  BY <1>1, FS_Interval
<1> QED BY <1>2, FS_Subset, FS_CardinalityType DEF EntriesOf

LEMMA ChargedFinite ==
    ASSUME RestType, NEW S \in SUBSET charged
    PROVE  IsFiniteSet(S) /\ Cardinality(S) \in Nat
  BY ProxyAssumption, FS_Subset, FS_CardinalityType DEF RestType

LEMMA EnqueuedEntries ==
    ASSUME QueueType, NEW r \in Request, queue' = Append(queue, [length |-> Length[r], ptr |-> Address[r]]),
           NEW a
    PROVE  EntriesOf(a)' = IF a = Address[r] THEN EntriesOf(a) \cup {Len(queue) + 1} ELSE EntriesOf(a)
<1>1. queue \in Seq(Entry) /\ Len(queue) \in Nat /\ DOMAIN queue = 1 .. Len(queue)
  BY LenProperties DEF QueueType, Entry
<1>2. [length |-> Length[r], ptr |-> Address[r]] \in Entry
  BY ProxyAssumption DEF Entry, Range
<1>3. /\ DOMAIN queue' = 1 .. Len(queue) + 1
      /\ queue'[Len(queue) + 1].ptr = Address[r]
      /\ \A i \in 1 .. Len(queue) : queue'[i] = queue[i]
  BY <1>1, <1>2, AppendProperties, LenProperties
<1> QED BY <1>1, <1>3 DEF EntriesOf

(* Without an entry, the others of its pointer are left: the injection     *)
(* sends the entry that moved back to the end.                             *)
LEMMA WithoutEntries ==
    ASSUME QueueType, NEW i \in DOMAIN queue, queue' = Without(queue, i), NEW a
    PROVE  /\ Cardinality(EntriesOf(a)') <= Cardinality(EntriesOf(a))
           /\ a = queue[i].ptr => Cardinality(EntriesOf(a)') <= Cardinality(EntriesOf(a)) - 1
<1> DEFINE n == Len(queue)
           E == EntriesOf(a) \ {i}
<1>1. /\ n \in Nat /\ n > 0 /\ DOMAIN queue = 1 .. n /\ DOMAIN queue' = 1 .. n - 1
      /\ \A j \in 1 .. n - 1 : queue'[j] = IF j = i THEN queue[n] ELSE queue[j]
  BY WithoutType
<1>2. PICK F : F = EntriesOf(a)'
  OBVIOUS
<1> DEFINE f == [j \in F |-> IF j = i THEN n ELSE j]
<1>3. F = {j \in 1 .. n - 1 : queue'[j].ptr = a}
  BY <1>1, <1>2 DEF EntriesOf
<1>4. f \in [F -> E]
  BY <1>1, <1>3 DEF EntriesOf
<1>5. \A j, k \in F : f[j] = f[k] => j = k
  BY <1>1, <1>3
<1>6. f \in Injection(F, E)
  BY <1>4, <1>5 DEF Injection, IsInjective
<1>7. IsFiniteSet(E) /\ IsFiniteSet(EntriesOf(a)) /\ Cardinality(EntriesOf(a)) \in Nat
  BY EntriesFinite, FS_Subset
<1>8. Cardinality(F) <= Cardinality(E) /\ Cardinality(E) \in Nat /\ Cardinality(F) \in Nat
  BY <1>6, <1>7, FS_Injection, FS_CardinalityType
<1>9. Cardinality(E) = IF i \in EntriesOf(a) THEN Cardinality(EntriesOf(a)) - 1 ELSE Cardinality(EntriesOf(a))
  BY <1>7, FS_RemoveElement
<1> HIDE DEF f, E
<1> QED BY <1>2, <1>7, <1>8, <1>9 DEF EntriesOf

(* What the steps that charge and that free leave to the other requests.   *)
LEMMA ChooseEffects ==
    ASSUME RestType, NEW r \in Request, Chooses(r)
    PROVE  /\ state[r] = "begin" /\ state'[r] # "begin"
           /\ \A q \in Request \ {r} : state'[q] = state[q] /\ pdata'[q] = pdata[q]
           /\ UNCHANGED <<balancer, stage, early>>
           /\ \/ queue' = queue
              \/ balancer["prefill"] = "pd_score" /\ queue' = Enqueued(r)
           /\ \E p \in Peers(stage[r]) \cup {NoPeer} :
                  /\ Charge(r, p) /\ pdata'[r].chosen = p
                  /\ stage[r] = "decode" /\ balancer["decode"] = "pd_score"
                         => p = NoPeer \/ p \in Open
                  /\ queue' = queue \/ (stage[r] = "prefill" /\ p # NoPeer)
<1>1. /\ state[r] = "begin"
      /\ \/ queue' = queue
         \/ balancer["prefill"] = "pd_score" /\ queue' = Enqueued(r)
  BY ChooseCharges DEF Chooses
<1>2. PICK p \in Peers(stage[r]) \cup {NoPeer} :
           /\ Charge(r, p)
           /\ stage[r] = "decode" /\ balancer["decode"] = "pd_score"
                  => p = NoPeer \/ p \in Open
           /\ queue' = queue \/ (stage[r] = "prefill" /\ p # NoPeer)
  BY ChooseCharges DEF Chooses
<1>3. Get(r, p) /\ UNCHANGED <<balancer, stage, early>>
      /\ pdata' = [pdata EXCEPT ![r] = [NoData EXCEPT !.chosen = p]]
  BY <1>2 DEF Charge
<1>4. state' = [state EXCEPT ![r] = "connect"] \/ state' = [state EXCEPT ![r] = "done"]
  BY <1>3, GetTypes
<1>5. pdata'[r].chosen = p /\ \A q \in Request \ {r} : pdata'[q] = pdata[q]
  BY <1>3 DEF RestType, NoData
<1>6. state'[r] # "begin" /\ \A q \in Request \ {r} : state'[q] = state[q]
  BY <1>4 DEF RestType
<1> QED BY <1>1, <1>2, <1>3, <1>5, <1>6

LEMMA FreeEffects ==
    ASSUME RestType, NEW r \in Request, Frees(r)
    PROVE  /\ charged' = charged \ {r}
           /\ balancer' = balancer
           /\ \A q \in Request \ {r} :
                  state'[q] = state[q] /\ pdata'[q] = pdata[q] /\ stage'[q] = stage[q]
           /\ Dequeue(r)
<1>1. /\ Free(r) /\ Dequeue(r) /\ state[r] \in {"connect", "sent"}
      /\ \A q \in Request \ {r} : pdata'[q] = pdata[q]
  BY FreeSteps DEF Frees
<1>2. charged' = charged \ {r}
  BY <1>1, Zenon DEF Free, Release
<1>3. balancer' = balancer
  BY <1>1, FreeTypes
<1>4. \A q \in Request \ {r} : state'[q] = state[q] /\ stage'[q] = stage[q]
  BY DEF Frees, End, Ends, Prefilled, Refused, Get, RestType
<1> QED BY <1>1, <1>2, <1>3, <1>4 DEF RestType

LEMMA BeginStep ==
    ASSUME RestType, BeginUncharged, [Next]_vars
    PROVE  BeginUncharged'
<1>1. CASE Quiet
  BY <1>1 DEF Quiet, BeginUncharged
<1>2. ASSUME NEW r \in Request, Chooses(r) PROVE BeginUncharged'
  <2>1. charged' \subseteq charged \cup {r}
    BY <1>2, ChooseEffects DEF Charge
  <2> QED BY <1>2, <2>1, ChooseEffects DEF BeginUncharged
<1>3. ASSUME NEW r \in Request, Frees(r) PROVE BeginUncharged'
  BY <1>3, FreeEffects DEF BeginUncharged
<1> QED BY <1>1, <1>2, <1>3, Steps

(* An entry enters the queue with a charge and leaves it with the release  *)
(* of one, at the latest.                                                  *)
StaleInv == TypeOK /\ BeginUncharged /\ OnlyPDScoreQueues /\ NoStaleEntries

LEMMA StaleCounts ==
    NoStaleEntries <=> \A a \in Range(Address) : Cardinality(EntriesOf(a)) <= Cardinality(Queued(a))
  BY DEF NoStaleEntries, EntriesOf, Queued

LEMMA StaleStep ==
    ASSUME StaleInv, [Next]_vars
    PROVE  StaleInv'
<1>1. RestType /\ QueueType /\ RestType'
  BY Parts, Steps DEF StaleInv
<1>2. TypeOK' /\ BeginUncharged'
  BY <1>1, StepTypes, BeginStep DEF StaleInv
<1> SUFFICES OnlyPDScoreQueues' /\ NoStaleEntries'
  BY <1>2 DEF StaleInv
<1> SUFFICES /\ OnlyPDScoreQueues'
             /\ \A a \in Range(Address) : Cardinality(EntriesOf(a)') <= Cardinality(Queued(a)')
  BY DEF NoStaleEntries, EntriesOf, Queued
<1>3. ASSUME NEW a \in Range(Address)
      PROVE  /\ Cardinality(EntriesOf(a)) <= Cardinality(Queued(a))
             /\ Cardinality(EntriesOf(a)) \in Nat /\ Cardinality(Queued(a)) \in Nat
             /\ IsFiniteSet(Queued(a)) /\ IsFiniteSet(EntriesOf(a))
             /\ IsFiniteSet(Queued(a)') /\ Cardinality(Queued(a)') \in Nat
  <2>1. Queued(a) \in SUBSET charged
    BY DEF Queued
  <2>2. Queued(a)' \subseteq Request
    BY <1>1 DEF Queued, RestType
  <2>3. IsFiniteSet(Queued(a)') /\ Cardinality(Queued(a)') \in Nat
    BY <2>2, ProxyAssumption, FS_Subset, FS_CardinalityType
  <2> QED BY <1>1, <2>1, <2>3, StaleCounts, EntriesFinite, ChargedFinite DEF StaleInv
<1>4. CASE Quiet
  BY <1>3, <1>4 DEF Quiet, OnlyPDScoreQueues, StaleInv, EntriesOf, Queued
<1>5. ASSUME NEW r \in Request, Chooses(r)
      PROVE  /\ OnlyPDScoreQueues'
             /\ \A a \in Range(Address) : Cardinality(EntriesOf(a)') <= Cardinality(Queued(a)')
  <2>1. PICK p \in Peers(stage[r]) \cup {NoPeer} :
             Charge(r, p) /\ (queue' = queue \/ (stage[r] = "prefill" /\ p # NoPeer))
    BY <1>1, <1>5, ChooseEffects
  <2>2. /\ state[r] = "begin" /\ balancer' = balancer /\ stage' = stage
        /\ queue' = queue \/ (balancer["prefill"] = "pd_score" /\ queue' = Enqueued(r))
    BY <1>1, <1>5, ChooseEffects
  <2>3. r \notin charged
    BY <2>2 DEF StaleInv, BeginUncharged
  <2>4. charged' = IF p = NoPeer THEN charged ELSE charged \cup {r}
    BY <2>1 DEF Charge
  <2>5. OnlyPDScoreQueues'
    BY <2>2 DEF StaleInv, OnlyPDScoreQueues
  <2>6. ASSUME NEW a \in Range(Address)
        PROVE  Cardinality(EntriesOf(a)') <= Cardinality(Queued(a)')
    <3>1. Cardinality(Queued(a)) <= Cardinality(Queued(a)')
      <4>1. Queued(a) \subseteq Queued(a)'
        BY <2>2, <2>4 DEF Queued
      <4> QED BY <4>1, <1>3, FS_Subset
    <3>2. CASE queue' = queue
      <4>1. EntriesOf(a)' = EntriesOf(a)
        BY <3>2 DEF EntriesOf
      <4> QED BY <4>1, <3>1, <1>3
    <3>3. CASE queue' = Append(queue, [length |-> Length[r], ptr |-> Address[r]]) /\ queue' # queue
      <4>1. CASE a # Address[r]
        <5>1. EntriesOf(a)' = EntriesOf(a)
          BY <1>1, <3>3, <4>1, EnqueuedEntries
        <5> QED BY <5>1, <3>1, <1>3
      <4>2. CASE a = Address[r]
        <5>1. EntriesOf(a)' = EntriesOf(a) \cup {Len(queue) + 1}
          BY <1>1, <3>3, <4>2, EnqueuedEntries
        <5>2. Cardinality(EntriesOf(a)') <= Cardinality(EntriesOf(a)) + 1
          <6>1. PICK E : E = EntriesOf(a)
            OBVIOUS
          <6>2. IsFiniteSet(E) /\ Cardinality(E) \in Nat
            BY <6>1, <1>3
          <6>3. Cardinality(E \cup {Len(queue) + 1}) \in {Cardinality(E), Cardinality(E) + 1}
            BY <6>2, FS_AddElement, Zenon
          <6> QED BY <5>1, <6>1, <6>2, <6>3
        <5>3. stage[r] = "prefill" /\ p # NoPeer
          BY <2>1, <3>3
        <5>4. Queued(a)' = Queued(a) \cup {r} /\ r \notin Queued(a)
          BY <2>2, <2>3, <2>4, <4>2, <5>3 DEF Queued
        <5>5. Cardinality(Queued(a)') = Cardinality(Queued(a)) + 1
          BY <5>4, <1>3, FS_AddElement
        <5>6. Cardinality(EntriesOf(a)') \in Nat
          BY <5>1, <1>3, FS_AddElement, FS_CardinalityType
        <5> QED BY <5>2, <5>5, <5>6, <1>3
      <4> QED BY <4>1, <4>2
    <3> QED BY <1>1, <2>2, <3>2, <3>3, EnqueuedType
  <2> QED BY <2>5, <2>6
<1>6. ASSUME NEW r \in Request, Frees(r)
      PROVE  /\ OnlyPDScoreQueues'
             /\ \A a \in Range(Address) : Cardinality(EntriesOf(a)') <= Cardinality(Queued(a)')
  <2>1. /\ charged' = charged \ {r} /\ balancer' = balancer
        /\ \A q \in Request \ {r} : stage'[q] = stage[q]
        /\ Dequeue(r)
    BY <1>1, <1>6, FreeEffects
  <2>2. OnlyPDScoreQueues'
    <3>1. queue = <<>> => DOMAIN queue = {}
      BY EmptySeq
    <3> QED BY <2>1, <3>1, DequeueSteps DEF StaleInv, OnlyPDScoreQueues
  <2>3. ASSUME NEW a \in Range(Address)
        PROVE  Cardinality(EntriesOf(a)') <= Cardinality(Queued(a)')
    <3>1. Queued(a)' = Queued(a) \ {r}
      BY <2>1, <1>1 DEF Queued, RestType
    <3>2. Cardinality(Queued(a)') = IF r \in Queued(a) THEN Cardinality(Queued(a)) - 1
                                    ELSE Cardinality(Queued(a))
      BY <3>1, <1>3, FS_RemoveElement
    <3>3. CASE \E i \in DOMAIN queue : queue[i].ptr = Address[r] /\ queue' = Without(queue, i)
      <4>1. PICK i \in DOMAIN queue : queue[i].ptr = Address[r] /\ queue' = Without(queue, i)
        BY <3>3
      <4>2. /\ Cardinality(EntriesOf(a)') <= Cardinality(EntriesOf(a))
            /\ a = Address[r] => Cardinality(EntriesOf(a)') <= Cardinality(EntriesOf(a)) - 1
        BY <1>1, <4>1, WithoutEntries
      <4>3. r \in Queued(a) => a = Address[r]
        BY DEF Queued
      <4>4. Cardinality(EntriesOf(a)') \in Nat
        <5>1. QueueType'
          BY <1>2 DEF TypeOK, QueueType
        <5>2. DOMAIN queue' = 1 .. Len(queue') /\ Len(queue') \in Nat
          BY <5>1, LenProperties DEF QueueType
        <5>3. IsFiniteSet(DOMAIN queue')
          BY <5>2, FS_Interval
        <5>4. EntriesOf(a)' \subseteq DOMAIN queue'
          BY DEF EntriesOf
        <5> QED BY <5>3, <5>4, FS_Subset, FS_CardinalityType
      <4> QED BY <1>3, <3>2, <4>2, <4>3, <4>4
    <3>4. CASE /\ queue' = queue
               /\ balancer[stage[r]] = "pd_score" /\ stage[r] = "prefill"
                      => \A i \in DOMAIN queue : queue[i].ptr # Address[r]
      <4>1. EntriesOf(a)' = EntriesOf(a)
        BY <3>4 DEF EntriesOf
      <4>2. CASE r \notin Queued(a)
        BY <1>3, <3>2, <4>1, <4>2
      <4>3. CASE r \in Queued(a)
        <5>1. a = Address[r] /\ stage[r] = "prefill"
          BY <4>3 DEF Queued
        <5>2. EntriesOf(a) = {}
          <6>1. CASE balancer["prefill"] = "pd_score"
            BY <3>4, <5>1, <6>1 DEF EntriesOf
          <6>2. CASE balancer["prefill"] # "pd_score"
            <7>1. queue = <<>>
              BY <6>2 DEF StaleInv, OnlyPDScoreQueues
            <7>2. DOMAIN queue = {}
              BY <7>1, EmptySeq
            <7> QED BY <7>2 DEF EntriesOf
          <6> QED BY <6>1, <6>2
        <5>3. Cardinality(EntriesOf(a)') = 0
          BY <4>1, <5>2, FS_EmptySet
        <5> QED BY <5>3, <1>3
      <4> QED BY <4>2, <4>3
    <3> QED BY <2>1, <3>3, <3>4, DequeueSteps
  <2> QED BY <2>2, <2>3
<1> QED BY <1>1, <1>4, <1>5, <1>6, Steps

LEMMA InitStale == Init => StaleInv
<1> SUFFICES ASSUME Init PROVE StaleInv
  OBVIOUS
<1>1. TypeOK
  BY InitTypes
<1>2. BeginUncharged /\ OnlyPDScoreQueues
  BY DEF Init, BeginUncharged, OnlyPDScoreQueues
<1>3. ASSUME NEW a \in Range(Address)
      PROVE  Cardinality(EntriesOf(a)) <= Cardinality(Queued(a))
  <2>1. EntriesOf(a) = {} /\ Queued(a) = {}
    BY EmptySeq DEF Init, EntriesOf, Queued
  <2> QED BY <2>1, FS_EmptySet
<1> QED BY <1>1, <1>2, <1>3, StaleCounts DEF StaleInv

(* free_peer_P takes what prefill_strategy put into the queue out of it,   *)
(* for any number of requests and workers, and whatever addresses they     *)
(* share: the queue never holds more of an address than is charged there.  *)
THEOREM QueueHasNoStaleEntries == Spec => []NoStaleEntries
<1>1. Init => StaleInv
  BY InitStale
<1>2. StaleInv /\ [Next]_vars => StaleInv'
  BY StaleStep
<1>3. StaleInv => NoStaleEntries
  BY DEF StaleInv
<1> QED BY <1>1, <1>2, <1>3, PTL DEF Spec

---------------------------------------------------------------------------
(* The limit of pd_score.                                                  *)
LEMMA ChargeRequests ==
    ASSUME RestType, NEW r \in Request, NEW p \in Peers(stage[r]) \cup {NoPeer}, Charge(r, p)
    PROVE  \A s \in Stage : \A q \in Peers(s) :
               shm'[s][q].requests = IF s = stage[r] /\ q = p THEN Word(shm[s][q].requests + 1)
                                     ELSE shm[s][q].requests
<1>1. CASE p = NoPeer
  BY <1>1, PeersFinite DEF Charge
<1>2. CASE p # NoPeer
  <2> DEFINE old == shm[stage[r]][p]
             new == [requests |-> Word(old.requests + 1), cost |-> Word(old.cost + Cost(r)),
                     length |-> Word(old.length + LengthAdded(r)), tokens |-> old.tokens]
  <2>1. shm' = [shm EXCEPT ![stage[r]][p] = new]
    BY <1>2 DEF Charge
  <2>2. new.requests = Word(old.requests + 1)
    OBVIOUS
  <2>3. p \in Peers(stage[r]) /\ stage[r] \in Stage
    BY <1>2 DEF RestType
  <2> HIDE DEF new
  <2> QED BY <2>1, <2>2, <2>3 DEF RestType
<1> QED BY <1>1, <1>2

LEMMA FreeRequests ==
    ASSUME RestType, NEW r \in Request, state[r] \in {"connect", "sent"}, Free(r)
    PROVE  \A s \in Stage : \A q \in Peers(s) :
               shm'[s][q].requests =
                   IF s = stage[r] /\ q = pdata[r].chosen THEN Word(shm[s][q].requests - 1)
                   ELSE shm[s][q].requests
<1> DEFINE p == pdata[r].chosen
<1>1. CASE p = NoPeer
  BY <1>1, PeersFinite DEF Free, Release
<1>2. CASE p # NoPeer
  <2> DEFINE old == shm[stage[r]][p]
             new == [requests |-> Word(old.requests - 1), cost |-> Word(old.cost - Cost(r)),
                     length |-> Word(old.length - LengthTaken(r)),
                     tokens |-> Word(old.tokens - Counted(r))]
  <2>1. shm' = [shm EXCEPT ![stage[r]][p] = new]
    BY <1>2 DEF Free, Release, Uncharge
  <2>2. new.requests = Word(old.requests - 1)
    OBVIOUS
  <2>3. p \in Peers(stage[r]) /\ stage[r] \in Stage
    BY <1>2 DEF RestType
  <2> HIDE DEF new
  <2> QED BY <2>1, <2>2, <2>3 DEF RestType
<1> QED BY <1>1, <1>2

(* The requests of a decode peer are those charged to it, and a request    *)
(* that holds a peer is charged, so that its release takes its own charge. *)
DecodeCharges ==
    balancer["decode"] = "pd_score" =>
        \A p \in Peers("decode") : <<"decode", p>> \notin early =>
            /\ shm["decode"][p].requests = Cardinality(ChargedTo("decode", p))
            /\ shm["decode"][p].requests <= ReqLimit + 1

HoldersCharged ==
    balancer["decode"] = "pd_score" =>
        \A r \in Request :
            /\ state[r] \in {"connect", "sent"} /\ stage[r] = "decode"
            /\ pdata[r].chosen # NoPeer /\ <<"decode", pdata[r].chosen>> \notin early
            => r \in charged

LimitInv == TypeOK /\ BeginUncharged /\ DecodeCharges /\ HoldersCharged

LEMMA LimitChoose ==
    ASSUME ReqLimit + 1 < CounterSize, LimitInv, RestType,
           NEW r \in Request, Chooses(r)
    PROVE  DecodeCharges' /\ HoldersCharged'
<1> SUFFICES ASSUME balancer["decode"] = "pd_score"
             PROVE  DecodeCharges' /\ HoldersCharged'
  BY ChooseEffects DEF DecodeCharges, HoldersCharged
<1>1. /\ state[r] = "begin" /\ stage' = stage /\ early' = early
      /\ \A q \in Request \ {r} : state'[q] = state[q] /\ pdata'[q] = pdata[q]
  BY ChooseEffects
<1>2. PICK p \in Peers(stage[r]) \cup {NoPeer} :
           /\ Charge(r, p) /\ pdata'[r].chosen = p
           /\ stage[r] = "decode" => p = NoPeer \/ p \in Open
  BY ChooseEffects
<1>3. r \notin charged /\ charged \subseteq Request /\ "decode" \in Stage
  BY <1>1 DEF LimitInv, BeginUncharged, RestType, Stage
<1>4. charged' = IF p = NoPeer THEN charged ELSE charged \cup {r}
  BY <1>2 DEF Charge
<1>5. \A q \in Peers("decode") :
          shm'["decode"][q].requests = IF "decode" = stage[r] /\ q = p
                                       THEN Word(shm["decode"][q].requests + 1)
                                       ELSE shm["decode"][q].requests
  BY <1>2, <1>3, ChargeRequests
<1>6. ASSUME NEW q \in Peers("decode"), <<"decode", q>> \notin early
      PROVE  /\ shm'["decode"][q].requests = Cardinality(ChargedTo("decode", q)')
             /\ shm'["decode"][q].requests <= ReqLimit + 1
  <2>1. /\ shm["decode"][q].requests = Cardinality(ChargedTo("decode", q))
        /\ shm["decode"][q].requests <= ReqLimit + 1
    BY <1>6 DEF LimitInv, DecodeCharges
  <2>2. CASE stage[r] = "decode" /\ q = p
    <3>1. q # NoPeer /\ q \in Open
      BY <1>2, <1>3, <2>2, PeersFinite
    <3>2. shm["decode"][q].requests \in Nat /\ shm["decode"][q].requests <= ReqLimit
      BY <1>3, <3>1, ProxyAssumption DEF Open, RestType, Counters
    <3>3. Word(shm["decode"][q].requests + 1) = shm["decode"][q].requests + 1
      BY <3>2, WordSmall, ProxyAssumption
    <3>4. ChargedTo("decode", q)' = ChargedTo("decode", q) \cup {r} /\ r \notin ChargedTo("decode", q)
      BY <1>1, <1>2, <1>3, <1>4, <2>2, <3>1 DEF ChargedTo
    <3>5. PICK C : C = ChargedTo("decode", q)
      OBVIOUS
    <3>6. IsFiniteSet(C) /\ C \in SUBSET charged
      BY <3>5, ChargedFinite DEF ChargedTo
    <3>7. Cardinality(C \cup {r}) = Cardinality(C) + 1
      BY <3>4, <3>5, <3>6, FS_AddElement
    <3>8. shm'["decode"][q].requests = shm["decode"][q].requests + 1
      BY <1>5, <2>2, <3>3
    <3>9. Cardinality(ChargedTo("decode", q)') = shm["decode"][q].requests + 1
      BY <2>1, <3>4, <3>5, <3>7
    <3> QED BY <3>2, <3>8, <3>9, ProxyAssumption
  <2>3. CASE ~(stage[r] = "decode" /\ q = p)
    <3>1. ChargedTo("decode", q)' = ChargedTo("decode", q)
      BY <1>1, <1>2, <1>3, <1>4, <2>3 DEF ChargedTo
    <3> QED BY <1>5, <2>1, <2>3, <3>1
  <2> QED BY <2>2, <2>3
<1>7. DecodeCharges'
  BY <1>1, <1>6 DEF DecodeCharges
<1>8. HoldersCharged'
  BY <1>1, <1>2, <1>3, <1>4 DEF HoldersCharged, LimitInv
<1> QED BY <1>7, <1>8

LEMMA LimitFree ==
    ASSUME ReqLimit + 1 < CounterSize, LimitInv, RestType,
           NEW r \in Request, Frees(r)
    PROVE  DecodeCharges' /\ HoldersCharged'
<1> SUFFICES ASSUME balancer["decode"] = "pd_score"
             PROVE  DecodeCharges' /\ HoldersCharged'
  BY FreeEffects DEF DecodeCharges, HoldersCharged
<1>1. /\ charged' = charged \ {r}
      /\ \A q \in Request \ {r} :
             state'[q] = state[q] /\ pdata'[q] = pdata[q] /\ stage'[q] = stage[q]
  BY FreeEffects
<1>2. state[r] \in {"connect", "sent"} /\ Free(r) /\ charged \subseteq Request
      /\ "decode" \in Stage
  BY FreeSteps DEF Frees, RestType, Stage
<1>3. \A q \in Peers("decode") :
          shm'["decode"][q].requests = IF "decode" = stage[r] /\ q = pdata[r].chosen
                                       THEN Word(shm["decode"][q].requests - 1)
                                       ELSE shm["decode"][q].requests
  BY <1>2, FreeRequests
<1>4. early \subseteq early'
  BY DEF Frees, End, Prefilled, Refused
<1>5. stage[r] = "decode" /\ Refused(r) => pdata' = pdata
  BY DEF Remembers, Refused
<1>6. ASSUME NEW q \in Peers("decode"), <<"decode", q>> \notin early'
      PROVE  /\ shm'["decode"][q].requests = Cardinality(ChargedTo("decode", q)')
             /\ shm'["decode"][q].requests <= ReqLimit + 1
  <2>1. /\ shm["decode"][q].requests = Cardinality(ChargedTo("decode", q))
        /\ shm["decode"][q].requests <= ReqLimit + 1
        /\ <<"decode", q>> \notin early
    BY <1>4, <1>6 DEF LimitInv, DecodeCharges
  <2>2. CASE stage[r] = "decode" /\ q = pdata[r].chosen
    <3>1. r \in charged
      BY <1>2, <2>1, <2>2, PeersFinite DEF LimitInv, HoldersCharged
    <3>2. ChargedTo("decode", q)' = ChargedTo("decode", q) \ {r} /\ r \in ChargedTo("decode", q)
      BY <1>1, <1>2, <2>2, <3>1 DEF ChargedTo
    <3>3. PICK C : C = ChargedTo("decode", q)
      OBVIOUS
    <3>4. IsFiniteSet(C) /\ C \in SUBSET charged /\ Cardinality(C) \in Nat
      BY <3>3, ChargedFinite DEF ChargedTo
    <3>5. Cardinality(C \ {r}) = Cardinality(C) - 1
      BY <3>2, <3>3, <3>4, FS_RemoveElement
    <3>6. Cardinality(C \ {r}) \in Nat
      BY <3>4, FS_Subset, FS_CardinalityType
    <3>7. Word(shm["decode"][q].requests - 1) = shm["decode"][q].requests - 1
      BY <2>1, <3>3, <3>4, <3>5, <3>6, WordSmall, ProxyAssumption
    <3>8. shm'["decode"][q].requests = shm["decode"][q].requests - 1
      BY <1>3, <2>2, <3>7
    <3>9. Cardinality(ChargedTo("decode", q)') = shm["decode"][q].requests - 1
      BY <2>1, <3>2, <3>3, <3>5
    <3>10. shm["decode"][q].requests \in Nat
      BY <2>1, <3>3, <3>4
    <3> QED BY <2>1, <3>8, <3>9, <3>10, ProxyAssumption
  <2>3. CASE ~(stage[r] = "decode" /\ q = pdata[r].chosen)
    <3>1. ChargedTo("decode", q)' = ChargedTo("decode", q)
      BY <1>1, <1>2, <2>3 DEF ChargedTo
    <3> QED BY <1>3, <2>1, <2>3, <3>1
  <2> QED BY <2>2, <2>3
<1>7. DecodeCharges'
  BY <1>6 DEF DecodeCharges
<1>8. HoldersCharged'
  <2>1. ASSUME NEW q \in Request \ {r}, state'[q] \in {"connect", "sent"}, stage'[q] = "decode",
               pdata'[q].chosen # NoPeer, <<"decode", pdata'[q].chosen>> \notin early'
        PROVE  q \in charged'
    BY <1>1, <1>4, <2>1 DEF LimitInv, HoldersCharged
  <2>2. ASSUME state'[r] \in {"connect", "sent"}, stage'[r] = "decode",
               <<"decode", pdata'[r].chosen>> \notin early'
        PROVE  FALSE
    <3>1. CASE End(r)
      BY <2>2, <3>1 DEF End, Ends, RestType
    <3>2. CASE Prefilled(r)
      BY <2>2, <3>2 DEF Prefilled, RestType
    <3>3. CASE Refused(r)
      <4>1. stage' = stage /\ pdata' = pdata
        BY <1>5, <2>2, <3>3 DEF Refused
      <4>2. CASE tries'[r] = 0
        <5>1. Ends(r)
          BY <3>3, <4>2 DEF Refused
        <5> QED BY <2>2, <5>1 DEF Ends, RestType
      <4>3. CASE tries'[r] # 0
        <5>1. early' = early \cup {<<stage[r], pdata[r].chosen>>}
          BY <2>2, <3>3, <4>1, <4>3 DEF Refused
        <5> QED BY <2>2, <4>1, <5>1
      <4> QED BY <4>2, <4>3
    <3> QED BY <3>1, <3>2, <3>3 DEF Frees
  <2> QED BY <2>1, <2>2 DEF HoldersCharged
<1> QED BY <1>7, <1>8

LEMMA LimitQuiet ==
    ASSUME LimitInv, Quiet
    PROVE  DecodeCharges' /\ HoldersCharged'
<1>1. \A p : ChargedTo("decode", p)' = ChargedTo("decode", p)
  BY DEF Quiet, ChargedTo, LimitInv, TypeOK
<1> QED BY <1>1 DEF Quiet, LimitInv, DecodeCharges, HoldersCharged, Stage

(* pd_score_balance_decode_req_limit holds for any number of requests,     *)
(* workers and peers, whatever they interleave, crashes included, provided *)
(* that a counter can hold the limit.                                      *)
THEOREM DecodeLimitHolds ==
    ASSUME ReqLimit + 1 < CounterSize
    PROVE  Spec => []LimitHolds
<1>1. Init => LimitInv
  <2> SUFFICES ASSUME Init PROVE LimitInv
    OBVIOUS
  <2>1. TypeOK
    BY InitTypes
  <2>2. BeginUncharged /\ HoldersCharged
    BY DEF Init, BeginUncharged, HoldersCharged
  <2>3. ASSUME NEW p \in Peers("decode")
        PROVE  shm["decode"][p].requests = 0 /\ Cardinality(ChargedTo("decode", p)) = 0
    <3>1. ChargedTo("decode", p) = {}
      BY DEF Init, ChargedTo
    <3> QED BY <3>1, FS_EmptySet DEF Init, NoLoad, Stage
  <2>4. DecodeCharges
    BY <2>3, ProxyAssumption DEF DecodeCharges
  <2> QED BY <2>1, <2>2, <2>4 DEF LimitInv
<1>2. LimitInv /\ [Next]_vars => LimitInv'
  <2> SUFFICES ASSUME LimitInv, [Next]_vars PROVE LimitInv'
    OBVIOUS
  <2>1. RestType
    BY Parts DEF LimitInv
  <2>2. TypeOK' /\ BeginUncharged'
    BY <2>1, StepTypes, BeginStep DEF LimitInv
  <2>3. DecodeCharges' /\ HoldersCharged'
    BY <2>1, Steps, LimitQuiet, LimitChoose, LimitFree
  <2> QED BY <2>2, <2>3 DEF LimitInv
<1>3. LimitInv => LimitHolds
  BY DEF LimitInv, DecodeCharges, LimitHolds
<1> QED BY <1>1, <1>2, <1>3, PTL DEF Spec
---------------------------------------------------------------------------
(* The counters as sums over the requests charged to a peer.               *)
Ones    == [r \in Request |-> 1]
Costs   == [r \in Request |-> Cost(r)]
Lengths == [r \in Request |-> LengthAdded(r)]
Tokens  == [r \in Request |-> Counted(r)]

(* A counter n holds the sum of f over H.                                  *)
Holds(n, f, H) == n = Word(SumFunctionOnSet(f, H))

LEMMA WordShift ==
    ASSUME NEW n \in Int, NEW i \in Int
    PROVE  Word(Word(n) + i) = Word(n + i) /\ Word(Word(n) - i) = Word(n - i)
<1>1. CounterSize \in Nat \ {0} /\ -i \in Int
  BY ProxyAssumption
<1>2. ((n % CounterSize) + i) % CounterSize = (n + i) % CounterSize
  BY <1>1, RemainderOfShift
<1>3. ((n % CounterSize) + (-i)) % CounterSize = (n + (-i)) % CounterSize
  BY <1>1, RemainderOfShift
<1>4. Word(n) \in Int
  BY <1>1 DEF Word
<1>5. Word(n) + (-i) = Word(n) - i /\ n + (-i) = n - i
  BY <1>4
<1> QED BY <1>2, <1>3, <1>5 DEF Word

LEMMA HoldsSame ==
    ASSUME NEW H, IsFiniteSet(H), NEW f, NEW g,
           \A q \in H : f[q] \in Int /\ f[q] = g[q],
           NEW n, Holds(n, f, H)
    PROVE  Holds(n, g, H)
<1>1. SumFunctionOnSet(f, H) = SumFunctionOnSet(g, H)
  BY SumSame
<1> QED BY <1>1 DEF Holds

(* A request joins.                                                        *)
LEMMA HoldsJoin ==
    ASSUME NEW H, IsFiniteSet(H), NEW r, r \notin H, NEW f,
           \A q \in H \cup {r} : f[q] \in Int,
           NEW n, Holds(n, f, H)
    PROVE  Holds(Word(n + f[r]), f, H \cup {r}) /\ (f[r] = 0 => Holds(n, f, H \cup {r}))
<1>1. PICK F : F = SumFunctionOnSet(f, H)
  OBVIOUS
<1>2. SumFunctionOnSet(f, H \cup {r}) = f[r] + F /\ F \in Int
  BY <1>1, SumJoins
<1>3. f[r] \in Int /\ f[r] + F = F + f[r]
  BY <1>2
<1>4. Word(Word(F) + f[r]) = Word(F + f[r])
  BY <1>2, <1>3, WordShift
<1>5. f[r] = 0 => F + f[r] = F
  BY <1>2
<1> QED BY <1>1, <1>2, <1>3, <1>4, <1>5 DEF Holds

(* A request leaves.                                                       *)
LEMMA HoldsLeave ==
    ASSUME NEW H, IsFiniteSet(H), NEW r \in H, NEW f, \A q \in H : f[q] \in Int,
           NEW n, Holds(n, f, H), NEW G, G = H \ {r}
    PROVE  Holds(Word(n - f[r]), f, G)
<1>1. PICK F : F = SumFunctionOnSet(f, G)
  OBVIOUS
<1>2. IsFiniteSet(G) /\ \A q \in G : f[q] \in Int
  BY FS_RemoveElement
<1>3. SumFunctionOnSet(f, H) = f[r] + F
  BY <1>1, SumTakes
<1>4. F \in Int /\ f[r] \in Int
  BY <1>1, <1>2, SumInt
<1>5. f[r] + F \in Int /\ (f[r] + F) - f[r] = F
  BY <1>4
<1>6. Word(Word(f[r] + F) - f[r]) = Word(F)
  BY <1>4, <1>5, WordShift
<1> QED BY <1>1, <1>3, <1>6 DEF Holds

(* The amount of a request grows.                                          *)
LEMMA HoldsMore ==
    ASSUME NEW H, IsFiniteSet(H), NEW r \in H, NEW f, NEW g, NEW i \in Int,
           \A q \in H : f[q] \in Int,
           g[r] = f[r] + i, \A q \in H \ {r} : g[q] = f[q],
           NEW n, Holds(n, f, H)
    PROVE  Holds(Word(n + i), g, H)
<1>1. PICK G : G = H \ {r}
  OBVIOUS
<1>2. PICK F : F = SumFunctionOnSet(f, G)
  OBVIOUS
<1>3. IsFiniteSet(G) /\ \A q \in G : f[q] \in Int /\ f[q] = g[q]
  BY <1>1, FS_RemoveElement
<1>4. F \in Int /\ SumFunctionOnSet(g, G) = F
  BY <1>2, <1>3, SumInt, SumSame
<1>5. SumFunctionOnSet(f, H) = f[r] + F
  BY <1>1, <1>2, SumTakes
<1>6. SumFunctionOnSet(g, H) = g[r] + F
  <2>1. \A q \in H : g[q] \in Int
    OBVIOUS
  <2> QED BY <1>1, <1>4, <2>1, SumTakes
<1>7. f[r] + F \in Int /\ (f[r] + F) + i = g[r] + F
  BY <1>4
<1>8. Word(Word(f[r] + F) + i) = Word(g[r] + F)
  BY <1>7, WordShift
<1> QED BY <1>5, <1>6, <1>8 DEF Holds

(* The sums of the specification are those of the fold that the lemmas of  *)
(* FiniteLemmas are about.                                                 *)
LEMMA CostsAreSummed ==
    ASSUME NEW H \in SUBSET Request, IsFiniteSet(H)
    PROVE  MapThenSumSet(LAMBDA r : Cost(r), H) = SumFunctionOnSet(Costs, H)
<1> DEFINE Solves(g) == g = [s \in SUBSET H |-> IF s = {} THEN 0
                                                ELSE Cost(Some(s)) + g[s \ {Some(s)}]]
<1>1. \A g : Solves(g) <=> SumsUp(g, Costs, H)
  <2>1. ASSUME NEW s \in SUBSET H, s # {} PROVE Costs[Some(s)] = Cost(Some(s))
    BY <2>1, SomeIsIn DEF Costs
  <2> QED BY <2>1 DEF SumsUp
<1>2. MapThenSumSet(LAMBDA r : Cost(r), H) = (CHOOSE g : Solves(g))[H]
  BY DEF MapThenSumSet, MapThenFoldSet, Some
<1>3. \E g : Solves(g)
  BY <1>1, SumExists
<1> HIDE DEF Solves
<1>4. Solves(CHOOSE g : Solves(g))
  BY <1>3, Zenon
<1> QED BY <1>1, <1>2, <1>4, SumSolved

LEMMA LengthsAreSummed ==
    ASSUME NEW H \in SUBSET Request, IsFiniteSet(H)
    PROVE  MapThenSumSet(LAMBDA r : LengthAdded(r), H) = SumFunctionOnSet(Lengths, H)
<1> DEFINE Solves(g) == g = [s \in SUBSET H |-> IF s = {} THEN 0
                                                ELSE LengthAdded(Some(s)) + g[s \ {Some(s)}]]
<1>1. \A g : Solves(g) <=> SumsUp(g, Lengths, H)
  <2>1. ASSUME NEW s \in SUBSET H, s # {} PROVE Lengths[Some(s)] = LengthAdded(Some(s))
    BY <2>1, SomeIsIn DEF Lengths
  <2> QED BY <2>1 DEF SumsUp
<1>2. MapThenSumSet(LAMBDA r : LengthAdded(r), H) = (CHOOSE g : Solves(g))[H]
  BY DEF MapThenSumSet, MapThenFoldSet, Some
<1>3. \E g : Solves(g)
  BY <1>1, SumExists
<1> HIDE DEF Solves
<1>4. Solves(CHOOSE g : Solves(g))
  BY <1>3, Zenon
<1> QED BY <1>1, <1>2, <1>4, SumSolved

LEMMA TokensAreSummed ==
    ASSUME NEW H \in SUBSET Request, IsFiniteSet(H)
    PROVE  MapThenSumSet(LAMBDA r : Counted(r), H) = SumFunctionOnSet(Tokens, H)
<1> DEFINE Solves(g) == g = [s \in SUBSET H |-> IF s = {} THEN 0
                                                ELSE Counted(Some(s)) + g[s \ {Some(s)}]]
<1>1. \A g : Solves(g) <=> SumsUp(g, Tokens, H)
  <2>1. ASSUME NEW s \in SUBSET H, s # {} PROVE Tokens[Some(s)] = Counted(Some(s))
    BY <2>1, SomeIsIn DEF Tokens
  <2> QED BY <2>1 DEF SumsUp
<1>2. MapThenSumSet(LAMBDA r : Counted(r), H) = (CHOOSE g : Solves(g))[H]
  BY DEF MapThenSumSet, MapThenFoldSet, Some
<1>3. \E g : Solves(g)
  BY <1>1, SumExists
<1> HIDE DEF Solves
<1>4. Solves(CHOOSE g : Solves(g))
  BY <1>3, Zenon
<1> QED BY <1>1, <1>2, <1>4, SumSolved

(* Where the lengths are counted as they are added.                        *)
OwnLengths(s) == ~(s = "prefill" /\ balancer[s] = "pd_score")

ExactHere(s, p) ==
    /\ Holds(shm[s][p].requests, Ones, ChargedTo(s, p))
    /\ Holds(shm[s][p].cost, Costs, ChargedTo(s, p))
    /\ OwnLengths(s) => Holds(shm[s][p].length, Lengths, ChargedTo(s, p))
    /\ OwnData => Holds(shm[s][p].tokens, Tokens, ChargedTo(s, p))
Exact == \A s \in Stage : \A p \in Peers(s) : <<s, p>> \notin early => ExactHere(s, p)

LEMMA ExactMeans == RestType => (CountersExact <=> Exact)
<1> SUFFICES ASSUME RestType PROVE CountersExact <=> Exact
  OBVIOUS
<1>1. ASSUME NEW s, NEW p
      PROVE  /\ Cardinality(ChargedTo(s, p)) = SumFunctionOnSet(Ones, ChargedTo(s, p))
             /\ MapThenSumSet(LAMBDA r : Cost(r), ChargedTo(s, p)) = SumFunctionOnSet(Costs, ChargedTo(s, p))
             /\ MapThenSumSet(LAMBDA r : LengthAdded(r), ChargedTo(s, p))
                    = SumFunctionOnSet(Lengths, ChargedTo(s, p))
             /\ MapThenSumSet(LAMBDA r : Counted(r), ChargedTo(s, p))
                    = SumFunctionOnSet(Tokens, ChargedTo(s, p))
  <2>1. PICK H : H = ChargedTo(s, p)
    OBVIOUS
  <2>2. H \in SUBSET charged /\ H \in SUBSET Request
    BY <2>1 DEF ChargedTo, RestType
  <2>3. IsFiniteSet(H) /\ Cardinality(H) \in Nat
    BY <2>2, ChargedFinite
  <2>4. MapThenSumSet(LAMBDA r : Cost(r), H) = SumFunctionOnSet(Costs, H)
    BY <2>2, <2>3, CostsAreSummed
  <2>5. MapThenSumSet(LAMBDA r : LengthAdded(r), H) = SumFunctionOnSet(Lengths, H)
    BY <2>2, <2>3, LengthsAreSummed
  <2>6. MapThenSumSet(LAMBDA r : Counted(r), H) = SumFunctionOnSet(Tokens, H)
    BY <2>2, <2>3, TokensAreSummed
  <2>7. SumFunctionOnSet(Ones, H) = 1 * Cardinality(H)
    <3>1. PICK ones : ones = Ones
      OBVIOUS
    <3>2. PICK one \in Int : one = 1
      OBVIOUS
    <3>3. \A q \in H : ones[q] = one
      BY <2>2, <3>1, <3>2 DEF Ones
    <3>4. SumFunctionOnSet(ones, H) = one * Cardinality(H)
      BY <2>3, <3>3, SumConstant
    <3> QED BY <3>1, <3>2, <3>4
  <2>8. Cardinality(H) = SumFunctionOnSet(Ones, H)
    BY <2>3, <2>7
  <2> QED BY <2>1, <2>4, <2>5, <2>6, <2>8
<1>2. ASSUME NEW s, NEW p
      PROVE  ExactHere(s, p) <=>
                 /\ shm[s][p].requests = Word(Cardinality(ChargedTo(s, p)))
                 /\ shm[s][p].cost = Word(MapThenSumSet(LAMBDA r : Cost(r), ChargedTo(s, p)))
                 /\ OwnLengths(s) =>
                        shm[s][p].length = Word(MapThenSumSet(LAMBDA r : LengthAdded(r), ChargedTo(s, p)))
                 /\ OwnData =>
                        shm[s][p].tokens = Word(MapThenSumSet(LAMBDA r : Counted(r), ChargedTo(s, p)))
  BY <1>1 DEF ExactHere, Holds
<1> QED BY <1>2 DEF CountersExact, Exact, OwnLengths

(* A request that holds a peer is charged to it, whatever the balancer,    *)
(* unless the peer was released early: what its release takes back is what *)
(* it had put there.                                                       *)
Holders ==
    \A r \in Request :
        /\ state[r] \in {"connect", "sent"} /\ pdata[r].chosen # NoPeer
        /\ <<stage[r], pdata[r].chosen>> \notin early
        => r \in charged

ExactInv == TypeOK /\ BeginUncharged /\ Holders /\ Exact

LEMMA AmountsType ==
    ASSUME RestType, NEW q \in Request
    PROVE  Ones[q] = 1 /\ Costs[q] \in Int /\ Lengths[q] \in Int /\ Tokens[q] \in Int
  BY ProxyAssumption DEF RestType, PeerData, Ones, Costs, Lengths, Tokens,
                         Cost, LengthAdded, Counted

LEMMA ChargedToType ==
    ASSUME RestType, NEW s, NEW p
    PROVE  IsFiniteSet(ChargedTo(s, p)) /\ ChargedTo(s, p) \subseteq Request
<1>1. PICK H : H = ChargedTo(s, p)
  OBVIOUS
<1>2. H \in SUBSET charged /\ H \in SUBSET Request
  BY <1>1 DEF ChargedTo, RestType
<1> QED BY <1>1, <1>2, ChargedFinite

(* Exact of the next state, for a step that changes no balancer.           *)
ExactNext(s, p) ==
    /\ Holds(shm'[s][p].requests, Ones, ChargedTo(s, p)')
    /\ Holds(shm'[s][p].cost, Costs', ChargedTo(s, p)')
    /\ OwnLengths(s) => Holds(shm'[s][p].length, Lengths', ChargedTo(s, p)')
    /\ OwnData => Holds(shm'[s][p].tokens, Tokens', ChargedTo(s, p)')

LEMMA ExactFromNext ==
    ASSUME balancer' = balancer,
           \A s \in Stage : \A p \in Peers(s) : <<s, p>> \notin early' => ExactNext(s, p)
    PROVE  Exact'
<1>1. Ones' = Ones
  BY DEF Ones
<1>2. OwnData' <=> OwnData
  BY DEF OwnData, Filters
<1>3. \A s : OwnLengths(s)' <=> OwnLengths(s)
  BY DEF OwnLengths
<1> QED BY <1>1, <1>2, <1>3 DEF Exact, ExactHere, ExactNext, Holds

(* Of a peer that a step neither charges nor releases: the amounts of the  *)
(* requests charged to it are the same.                                    *)
SameAmounts(H) ==
    \A q \in H : Costs'[q] = Costs[q] /\ Lengths'[q] = Lengths[q] /\ Tokens'[q] = Tokens[q]

LEMMA SameCount ==
    ASSUME RestType, NEW s, NEW p, ExactHere(s, p),
           ChargedTo(s, p)' = ChargedTo(s, p), SameAmounts(ChargedTo(s, p)),
           shm'[s][p].requests = shm[s][p].requests, shm'[s][p].cost = shm[s][p].cost,
           shm'[s][p].length = shm[s][p].length,
           OwnData => shm'[s][p].tokens = shm[s][p].tokens
    PROVE  ExactNext(s, p)
<1>1. PICK H, f, g, l, m, t, u :
          /\ H = ChargedTo(s, p) /\ f = Costs /\ g = Costs'
          /\ l = Lengths /\ m = Lengths' /\ t = Tokens /\ u = Tokens'
  OBVIOUS
<1>2. IsFiniteSet(H) /\ \A q \in H : f[q] \in Int /\ l[q] \in Int /\ t[q] \in Int
  BY <1>1, AmountsType, ChargedToType
<1>3. \A q \in H : f[q] = g[q] /\ l[q] = m[q] /\ t[q] = u[q]
  BY <1>1 DEF SameAmounts
<1>4. /\ \A n : Holds(n, f, H) => Holds(n, g, H)
      /\ \A n : Holds(n, l, H) => Holds(n, m, H)
      /\ \A n : Holds(n, t, H) => Holds(n, u, H)
  BY <1>2, <1>3, HoldsSame
<1> QED BY <1>1, <1>4 DEF ExactHere, ExactNext

(* What Charge writes into the counters.                                   *)
LEMMA ChargeCounters ==
    ASSUME RestType, NEW r \in Request, NEW p \in Peers(stage[r]) \cup {NoPeer}, Charge(r, p),
           NEW s \in Stage, NEW q \in Peers(s)
    PROVE  LET old == shm[s][q]
           IN  shm'[s][q] = IF s = stage[r] /\ q = p
                            THEN [requests |-> Word(old.requests + 1),
                                  cost     |-> Word(old.cost + Cost(r)),
                                  length   |-> Word(old.length + LengthAdded(r)),
                                  tokens   |-> old.tokens]
                            ELSE old
<1>1. CASE p = NoPeer
  BY <1>1, PeersFinite DEF Charge
<1>2. CASE p # NoPeer
  <2> DEFINE old == shm[stage[r]][p]
             new == [requests |-> Word(old.requests + 1), cost |-> Word(old.cost + Cost(r)),
                     length |-> Word(old.length + LengthAdded(r)), tokens |-> old.tokens]
  <2>1. shm' = [shm EXCEPT ![stage[r]][p] = new]
    BY <1>2 DEF Charge
  <2>2. p \in Peers(stage[r]) /\ stage[r] \in Stage
    BY <1>2 DEF RestType
  <2>3. shm'[s][q] = IF s = stage[r] /\ q = p THEN new ELSE shm[s][q]
    <3> HIDE DEF new
    <3> QED BY <2>1, <2>2 DEF RestType
  <2> QED BY <2>3
<1> QED BY <1>1, <1>2

LEMMA FreeCounters ==
    ASSUME RestType, NEW r \in Request, state[r] \in {"connect", "sent"}, Free(r),
           NEW s \in Stage, NEW q \in Peers(s)
    PROVE  LET old == shm[s][q]
           IN  shm'[s][q] = IF s = stage[r] /\ q = pdata[r].chosen
                            THEN [requests |-> Word(old.requests - 1),
                                  cost     |-> Word(old.cost - Cost(r)),
                                  length   |-> Word(old.length - LengthTaken(r)),
                                  tokens   |-> Word(old.tokens - Counted(r))]
                            ELSE old
<1> DEFINE p == pdata[r].chosen
<1>1. CASE p = NoPeer
  BY <1>1, PeersFinite DEF Free, Release
<1>2. CASE p # NoPeer
  <2> DEFINE old == shm[stage[r]][p]
             new == [requests |-> Word(old.requests - 1), cost |-> Word(old.cost - Cost(r)),
                     length |-> Word(old.length - LengthTaken(r)),
                     tokens |-> Word(old.tokens - Counted(r))]
  <2>1. shm' = [shm EXCEPT ![stage[r]][p] = new]
    BY <1>2 DEF Free, Release, Uncharge
  <2>2. p \in Peers(stage[r]) /\ stage[r] \in Stage
    BY <1>2 DEF RestType
  <2>3. shm'[s][q] = IF s = stage[r] /\ q = p THEN new ELSE shm[s][q]
    <3> HIDE DEF new
    <3> QED BY <2>1, <2>2 DEF RestType
  <2> QED BY <2>3
<1> QED BY <1>1, <1>2

LEMMA ExactChoose ==
    ASSUME ExactInv, RestType, NEW r \in Request, Chooses(r)
    PROVE  Exact' /\ Holders'
<1>1. /\ state[r] = "begin" /\ UNCHANGED <<balancer, stage, early>>
      /\ \A q \in Request \ {r} : state'[q] = state[q] /\ pdata'[q] = pdata[q]
  BY ChooseEffects
<1>2. PICK p \in Peers(stage[r]) \cup {NoPeer} : Charge(r, p) /\ pdata'[r].chosen = p
  BY ChooseEffects
<1>3. r \notin charged /\ charged \subseteq Request
  BY <1>1 DEF ExactInv, BeginUncharged, RestType
<1>4. charged' = IF p = NoPeer THEN charged ELSE charged \cup {r}
  BY <1>2 DEF Charge
<1>5. Costs' = Costs /\ Lengths' = Lengths /\ \A q \in Request \ {r} : Tokens'[q] = Tokens[q]
  BY <1>1 DEF Costs, Cost, Lengths, LengthAdded, Tokens, Counted
<1>6. Tokens'[r] = 0
  <2>1. pdata' = [pdata EXCEPT ![r] = [NoData EXCEPT !.chosen = p]]
    BY <1>2 DEF Charge
  <2>2. pdata'[r] = [NoData EXCEPT !.chosen = p]
    BY <2>1 DEF RestType
  <2>3. pdata'[r].decode_token_count = 0
    BY <2>2 DEF NoData
  <2> QED BY <2>3 DEF Tokens, Counted
<1>7. ASSUME NEW s \in Stage, NEW q \in Peers(s), <<s, q>> \notin early'
      PROVE  ExactNext(s, q)
  <2>1. ExactHere(s, q)
    BY <1>1, <1>7 DEF ExactInv, Exact
  <2>2. CASE s = stage[r] /\ q = p
    <3>1. q # NoPeer
      BY <2>2, PeersFinite
    <3>2. PICK H, f, l, t, u : /\ H = ChargedTo(s, q) /\ f = Costs /\ l = Lengths
                               /\ t = Tokens /\ u = Tokens'
      OBVIOUS
    <3>3. ChargedTo(s, q)' = H \cup {r} /\ r \notin H
      BY <1>1, <1>2, <1>3, <1>4, <2>2, <3>1, <3>2 DEF ChargedTo
    <3>4. /\ IsFiniteSet(H) /\ H \subseteq Request
          /\ \A x \in H \cup {r} : Ones[x] = 1 /\ f[x] \in Int /\ l[x] \in Int
          /\ \A x \in H : t[x] \in Int /\ t[x] = u[x]
      BY <1>5, <3>2, <3>3, AmountsType, ChargedToType
    <3>5. u[r] = 0 /\ \A x \in H \cup {r} : u[x] \in Int
      BY <1>6, <3>2, <3>4
    <3>6. Ones[r] = 1 /\ f[r] = Cost(r) /\ l[r] = LengthAdded(r)
      BY <3>2 DEF Ones, Costs, Lengths
    <3>7. PICK old : old = shm[s][q]
      OBVIOUS
    <3>8. /\ Holds(old.requests, Ones, H) /\ Holds(old.cost, f, H)
          /\ OwnLengths(s) => Holds(old.length, l, H)
          /\ OwnData => Holds(old.tokens, t, H)
      BY <2>1, <3>2, <3>7 DEF ExactHere
    <3>9. Holds(Word(old.requests + Ones[r]), Ones, H \cup {r})
      <4>1. PICK f1 : f1 = Ones
        OBVIOUS
      <4>2. Holds(Word(old.requests + f1[r]), f1, H \cup {r})
        <5>1. \A x \in H \cup {r} : f1[x] \in Int
          BY <3>4, <4>1
        <5>2. Holds(old.requests, f1, H)
          BY <3>8, <4>1
        <5> QED BY <3>3, <3>4, <5>1, <5>2, HoldsJoin
      <4> QED BY <4>1, <4>2
    <3>10. Holds(Word(old.cost + f[r]), f, H \cup {r})
      BY <3>3, <3>4, <3>8, HoldsJoin
    <3>11. OwnLengths(s) => Holds(Word(old.length + l[r]), l, H \cup {r})
      BY <3>3, <3>4, <3>8, HoldsJoin
    <3>12. OwnData => Holds(old.tokens, u, H \cup {r})
      <4>1. OwnData => Holds(old.tokens, u, H)
        BY <3>4, <3>8, HoldsSame
      <4> QED BY <3>3, <3>4, <3>5, <4>1, HoldsJoin
    <3>13. shm'[s][q] = [requests |-> Word(old.requests + 1), cost |-> Word(old.cost + Cost(r)),
                         length |-> Word(old.length + LengthAdded(r)), tokens |-> old.tokens]
      BY <1>2, <2>2, <3>7, ChargeCounters
    <3>14. /\ shm'[s][q].requests = Word(old.requests + Ones[r])
          /\ shm'[s][q].cost = Word(old.cost + f[r])
           /\ shm'[s][q].length = Word(old.length + l[r]) /\ shm'[s][q].tokens = old.tokens
      BY <3>6, <3>13
    <3>15. ChargedTo(s, q)' = H \cup {r} /\ Costs' = f /\ Lengths' = l /\ Tokens' = u
      BY <1>5, <3>2, <3>3
    <3> QED BY <3>9, <3>10, <3>11, <3>12, <3>14, <3>15, Zenon DEF ExactNext
  <2>3. CASE ~(s = stage[r] /\ q = p)
    <3>1. ChargedTo(s, q)' = ChargedTo(s, q) /\ r \notin ChargedTo(s, q)
      BY <1>1, <1>2, <1>3, <1>4, <2>3 DEF ChargedTo
    <3>2. shm'[s][q] = shm[s][q]
      <4> DEFINE new == [requests |-> Word(shm[s][q].requests + 1),
                         cost     |-> Word(shm[s][q].cost + Cost(r)),
                         length   |-> Word(shm[s][q].length + LengthAdded(r)),
                         tokens   |-> shm[s][q].tokens]
      <4>1. shm'[s][q] = IF s = stage[r] /\ q = p THEN new ELSE shm[s][q]
        BY <1>2, ChargeCounters
      <4> HIDE DEF new
      <4> QED BY <2>3, <4>1
    <3>3. SameAmounts(ChargedTo(s, q))
      BY <1>5, <3>1, ChargedToType DEF SameAmounts
    <3> QED BY <2>1, <3>1, <3>2, <3>3, SameCount
  <2> QED BY <2>2, <2>3
<1>8. Exact'
  BY <1>1, <1>7, ExactFromNext
<1>9. Holders'
  BY <1>1, <1>2, <1>3, <1>4 DEF Holders, ExactInv
<1> QED BY <1>8, <1>9

LEMMA ExactFree ==
    ASSUME ExactInv, RestType, NEW r \in Request, Frees(r)
    PROVE  Exact' /\ Holders'
<1>1. /\ charged' = charged \ {r} /\ balancer' = balancer
      /\ \A q \in Request \ {r} :
             state'[q] = state[q] /\ pdata'[q] = pdata[q] /\ stage'[q] = stage[q]
  BY FreeEffects
<1>2. state[r] \in {"connect", "sent"} /\ Free(r) /\ charged \subseteq Request
  BY FreeSteps DEF Frees, RestType
<1>3. early \subseteq early'
  BY DEF Frees, End, Prefilled, Refused
<1>4. \A q \in Request \ {r} : /\ Costs'[q] = Costs[q] /\ Lengths'[q] = Lengths[q]
                               /\ Tokens'[q] = Tokens[q]
  BY <1>1 DEF Costs, Cost, Lengths, LengthAdded, Tokens, Counted
<1>5. ASSUME NEW s \in Stage, NEW q \in Peers(s), <<s, q>> \notin early'
      PROVE  ExactNext(s, q)
  <2> DEFINE new == [requests |-> Word(shm[s][q].requests - 1),
                     cost     |-> Word(shm[s][q].cost - Cost(r)),
                     length   |-> Word(shm[s][q].length - LengthTaken(r)),
                     tokens   |-> Word(shm[s][q].tokens - Counted(r))]
  <2>1. ExactHere(s, q) /\ <<s, q>> \notin early
    BY <1>3, <1>5 DEF ExactInv, Exact
  <2>2. shm'[s][q] = IF s = stage[r] /\ q = pdata[r].chosen THEN new ELSE shm[s][q]
    BY <1>2, FreeCounters
  <2>3. CASE s = stage[r] /\ q = pdata[r].chosen
    <3>1. r \in charged
      BY <1>2, <2>1, <2>3, PeersFinite DEF ExactInv, Holders
    <3>2. PICK H, f, g, l, m, t, u :
              /\ H = ChargedTo(s, q) /\ f = Costs /\ g = Costs'
              /\ l = Lengths /\ m = Lengths' /\ t = Tokens /\ u = Tokens'
      OBVIOUS
    <3>3. PICK G : G = H \ {r}
      OBVIOUS
    <3>4. ChargedTo(s, q)' = G /\ r \in H
      BY <1>1, <1>2, <2>3, <3>1, <3>2, <3>3 DEF ChargedTo
    <3>5. /\ IsFiniteSet(H) /\ IsFiniteSet(G)
          /\ \A x \in H : Ones[x] \in Int /\ f[x] \in Int /\ l[x] \in Int /\ t[x] \in Int
      BY <3>2, <3>3, AmountsType, ChargedToType, FS_Subset
    <3>6. \A x \in G : f[x] = g[x] /\ l[x] = m[x] /\ t[x] = u[x]
      BY <1>4, <3>2, <3>3, ChargedToType
    <3>7. Ones[r] = 1 /\ f[r] = Cost(r) /\ t[r] = Counted(r)
      BY <3>2 DEF Ones, Costs, Tokens
    <3>8. OwnLengths(s) => LengthTaken(r) = l[r]
      BY <2>3, <3>2 DEF OwnLengths, Lengths, LengthAdded, LengthTaken, Stage
    <3>9. PICK old : old = shm[s][q]
      OBVIOUS
    <3>10. /\ Holds(old.requests, Ones, H) /\ Holds(old.cost, f, H)
           /\ OwnLengths(s) => Holds(old.length, l, H)
           /\ OwnData => Holds(old.tokens, t, H)
      BY <2>1, <3>2, <3>9 DEF ExactHere
    <3>11. Holds(Word(old.requests - 1), Ones, G)
      BY <3>3, <3>4, <3>5, <3>7, <3>10, HoldsLeave
    <3>12. Holds(Word(old.cost - f[r]), g, G)
      <4>1. Holds(Word(old.cost - f[r]), f, G)
        BY <3>3, <3>4, <3>5, <3>10, HoldsLeave
      <4> QED BY <3>3, <3>5, <3>6, <4>1, HoldsSame
    <3>13. OwnLengths(s) => Holds(Word(old.length - l[r]), m, G)
      <4>1. OwnLengths(s) => Holds(Word(old.length - l[r]), l, G)
        BY <3>3, <3>4, <3>5, <3>10, HoldsLeave
      <4> QED BY <3>3, <3>5, <3>6, <4>1, HoldsSame
    <3>14. OwnData => Holds(Word(old.tokens - t[r]), u, G)
      <4>1. OwnData => Holds(Word(old.tokens - t[r]), t, G)
        BY <3>3, <3>4, <3>5, <3>10, HoldsLeave
      <4> QED BY <3>3, <3>5, <3>6, <4>1, HoldsSame
    <3>15. /\ shm'[s][q].requests = Word(old.requests - 1)
           /\ shm'[s][q].cost = Word(old.cost - f[r])
           /\ shm'[s][q].length = Word(old.length - LengthTaken(r))
           /\ shm'[s][q].tokens = Word(old.tokens - t[r])
      BY <2>2, <2>3, <3>7, <3>9
    <3>16. ChargedTo(s, q)' = G /\ Costs' = g /\ Lengths' = m /\ Tokens' = u
      BY <3>2, <3>4
    <3> HIDE DEF new
    <3> QED BY <3>8, <3>11, <3>12, <3>13, <3>14, <3>15, <3>16, Zenon DEF ExactNext
  <2>4. CASE ~(s = stage[r] /\ q = pdata[r].chosen)
    <3>1. ChargedTo(s, q)' = ChargedTo(s, q) /\ r \notin ChargedTo(s, q)
      BY <1>1, <1>2, <2>4 DEF ChargedTo
    <3>2. shm'[s][q] = shm[s][q]
      <4> HIDE DEF new
      <4> QED BY <2>2, <2>4
    <3>3. SameAmounts(ChargedTo(s, q))
      BY <1>4, <3>1, ChargedToType DEF SameAmounts
    <3> HIDE DEF new
    <3> QED BY <2>1, <3>1, <3>2, <3>3, SameCount
  <2> QED BY <2>3, <2>4
<1>6. Exact'
  BY <1>1, <1>5, ExactFromNext
<1>7. ASSUME NEW q \in Request \ {r}, state'[q] \in {"connect", "sent"},
             pdata'[q].chosen # NoPeer, <<stage'[q], pdata'[q].chosen>> \notin early'
      PROVE  q \in charged'
  BY <1>1, <1>3, <1>7 DEF ExactInv, Holders
<1>8. ASSUME state'[r] \in {"connect", "sent"}, pdata'[r].chosen # NoPeer,
             <<stage'[r], pdata'[r].chosen>> \notin early'
      PROVE  FALSE
  <2>1. CASE End(r)
    BY <1>8, <2>1 DEF End, Ends, RestType
  <2>2. CASE Prefilled(r)
    BY <1>8, <2>2 DEF Prefilled, RestType
  <2>3. CASE Refused(r)
    <3>1. pdata' = IF Remembers(r) THEN [pdata EXCEPT ![r].chosen = NoPeer] ELSE pdata
      BY <2>3 DEF Refused
    <3>2. ~Remembers(r)
      <4>1. Remembers(r) => pdata'[r].chosen = NoPeer
        BY <3>1 DEF RestType, PeerData
      <4> QED BY <1>8, <4>1
    <3>3. pdata' = pdata /\ balancer[stage[r]] # "least_total_load" /\ stage' = stage
      BY <2>3, <3>1, <3>2 DEF Remembers, Refused
    <3>4. CASE tries'[r] = 0
      <4>1. Ends(r)
        BY <2>3, <3>4 DEF Refused
      <4> QED BY <1>8, <4>1 DEF Ends, RestType
    <3>5. CASE tries'[r] # 0
      <4>1. early' = early \cup {<<stage[r], pdata[r].chosen>>}
        BY <2>3, <3>3, <3>5 DEF Refused
      <4> QED BY <1>8, <3>3, <4>1
    <3> QED BY <3>4, <3>5
  <2> QED BY <2>1, <2>2, <2>3 DEF Frees
<1>9. Holders'
  BY <1>7, <1>8 DEF Holders
<1> QED BY <1>6, <1>9

(* The tokens of a chunk go to the request and to its peer.                *)
LEMMA ExactChunk ==
    ASSUME ExactInv, RestType, NEW r \in Request, NEW b \in FilterBalancers, NEW added \in Nat,
           Counts(r, b, added)
    PROVE  Exact' /\ Holders'
<1>1. /\ state[r] = "sent"
      /\ UNCHANGED <<balancer, stage, state, charged, early>>
  BY DEF Counts, AddDecodedTokens, nginx, history
<1>2. /\ \A q \in Request \ {r} : pdata'[q] = pdata[q]
      /\ pdata'[r].chosen = pdata[r].chosen
      /\ pdata'[r].decode_token_count = pdata[r].decode_token_count + added
      /\ OwnData => added = 0 \/ (stage[r] = "decode" /\ balancer["decode"] = b)
  BY DEF Counts
<1>3. Costs' = Costs /\ Lengths' = Lengths
  BY <1>1 DEF Costs, Cost, Lengths, LengthAdded
<1>4. /\ \A q \in Request \ {r} : Tokens'[q] = Tokens[q]
      /\ added = 0 => Tokens'[r] = Tokens[r]
      /\ stage[r] = "decode" /\ balancer["decode"] = b => Tokens'[r] = Tokens[r] + added
  <2>1. pdata[r].decode_token_count \in Nat
    BY ProxyAssumption DEF RestType, PeerData
  <2> QED BY <1>1, <1>2, <2>1 DEF Tokens, Counted, FilterBalancers
<1>5. \A s, q : ChargedTo(s, q)' = ChargedTo(s, q)
  BY <1>1, <1>2 DEF ChargedTo, RestType
<1>6. ASSUME NEW s \in Stage, NEW q \in Peers(s), <<s, q>> \notin early'
      PROVE  ExactNext(s, q)
  <2>1. ExactHere(s, q) /\ <<s, q>> \notin early
    BY <1>1, <1>6 DEF ExactInv, Exact
  <2>2. PICK old : old = shm[s][q]
    OBVIOUS
  <2>3. old \in Counters /\ old.tokens \in 0 .. CounterSize - 1
    BY <2>2 DEF RestType, Counters
  <2> DEFINE Here == balancer["decode"] = b /\ s = "decode" /\ q = pdata[r].chosen
  <2>4. shm'[s][q] = IF Here THEN [old EXCEPT !.tokens = Word(@ + added)] ELSE old
    BY <2>2, CountsWrites
  <2>5. /\ shm'[s][q].requests = old.requests /\ shm'[s][q].cost = old.cost
        /\ shm'[s][q].length = old.length
        /\ shm'[s][q].tokens = IF Here THEN Word(old.tokens + added) ELSE old.tokens
    BY <2>3, <2>4 DEF Counters
  <2>6. PICK H, t, u : H = ChargedTo(s, q) /\ t = Tokens /\ u = Tokens'
    OBVIOUS
  <2>7. /\ IsFiniteSet(H) /\ H \subseteq Request
        /\ \A x \in H : t[x] \in Int
    BY <2>6, AmountsType, ChargedToType
  <2>8. OwnData => Holds(old.tokens, t, H)
    BY <2>1, <2>2, <2>6 DEF ExactHere
  <2>9. ASSUME OwnData PROVE Holds(shm'[s][q].tokens, u, H)
    <3>1. CASE added = 0
      <4>1. old.tokens + 0 = old.tokens /\ Word(old.tokens) = old.tokens
        BY <2>3, WordSmall, ProxyAssumption
      <4>2. shm'[s][q].tokens = old.tokens
        BY <2>5, <3>1, <4>1
      <4>3. \A x \in H : t[x] = u[x]
        BY <1>4, <2>6, <2>7, <3>1
      <4>4. Holds(old.tokens, u, H)
        BY <2>7, <2>8, <2>9, <4>3, HoldsSame
      <4> QED BY <4>2, <4>4
    <3>2. CASE stage[r] = "decode" /\ balancer["decode"] = b
      <4>1. CASE Here
        <5>1. r \in charged
          BY <1>1, <2>1, <3>2, <4>1, PeersFinite DEF ExactInv, Holders
        <5>2. r \in H
          BY <2>6, <3>2, <4>1, <5>1 DEF ChargedTo
        <5>3. u[r] = t[r] + added /\ \A x \in H \ {r} : u[x] = t[x]
          BY <1>4, <2>6, <2>7, <3>2
        <5>4. Holds(old.tokens, t, H) /\ added \in Int
          BY <2>8, <2>9
        <5>5. Holds(Word(old.tokens + added), u, H)
          BY <2>7, <5>2, <5>3, <5>4, HoldsMore
        <5> QED BY <2>5, <4>1, <5>5
      <4>2. CASE ~Here
        <5>1. r \notin H
          BY <2>6, <3>2, <4>2 DEF ChargedTo
        <5>2. \A x \in H : t[x] = u[x]
          BY <1>4, <2>6, <2>7, <5>1
        <5>3. Holds(old.tokens, u, H)
          BY <2>7, <2>8, <2>9, <5>2, HoldsSame
        <5> QED BY <2>5, <4>2, <5>3
      <4> QED BY <4>1, <4>2
    <3> QED BY <1>2, <2>9, <3>1, <3>2
  <2>10. ChargedTo(s, q)' = H /\ Tokens' = u
    BY <1>5, <2>6
  <2>11. /\ Holds(old.requests, Ones, H) /\ Holds(old.cost, Costs, H)
         /\ OwnLengths(s) => Holds(old.length, Lengths, H)
    BY <2>1, <2>2, <2>6 DEF ExactHere
  <2> HIDE DEF Here
  <2> QED BY <1>3, <2>5, <2>9, <2>10, <2>11 DEF ExactNext
<1>7. Exact'
  BY <1>1, <1>6, ExactFromNext
<1>8. \A q \in Request : pdata'[q].chosen = pdata[q].chosen
  BY <1>2
<1>9. Holders'
  <2>1. UNCHANGED <<stage, state, charged, early>>
    BY <1>1
  <2> QED BY <1>8, <2>1 DEF Holders, ExactInv
<1> QED BY <1>7, <1>9

(* A step that neither charges nor frees nor counts tokens.                *)
Idle ==
    /\ UNCHANGED <<balancer, stage, pdata, shm, charged, early>>
    /\ \A q \in Request : state'[q] \in {"connect", "sent"} => state[q] \in {"connect", "sent"}

LEMMA ExactIdle ==
    ASSUME ExactInv, RestType, Idle
    PROVE  Exact' /\ Holders'
<1>1. \A s, q : ChargedTo(s, q)' = ChargedTo(s, q)
  BY DEF Idle, ChargedTo
<1>2. Costs' = Costs /\ Lengths' = Lengths /\ Tokens' = Tokens
  BY DEF Idle, Costs, Cost, Lengths, LengthAdded, Tokens, Counted
<1>3. ASSUME NEW s \in Stage, NEW q \in Peers(s), <<s, q>> \notin early'
      PROVE  ExactNext(s, q)
  BY <1>1, <1>2, <1>3 DEF Idle, ExactInv, Exact, ExactHere, ExactNext
<1>4. Exact'
  BY <1>3, ExactFromNext DEF Idle
<1>5. Holders'
  BY DEF Idle, ExactInv, Holders
<1> QED BY <1>4, <1>5

LEMMA StepKinds ==
    ASSUME RestType, [Next]_vars
    PROVE  \/ Idle
           \/ \E r \in Request : Chooses(r) \/ Frees(r)
           \/ \E r \in Request, b \in FilterBalancers, added \in Nat : Counts(r, b, added)
<1>1. CASE UNCHANGED vars
  BY <1>1 DEF vars, nginx, shared, history, Idle
<1>2. ASSUME NEW r \in Request, Step(r)
      PROVE  Idle \/ Chooses(r) \/ Frees(r)
  <2>1. CASE End(r) \/ Prefilled(r) \/ Refused(r)
    BY <2>1, FreeSteps DEF Frees, Free
  <2>2. CASE ReadLoad(r) \/ ReadLoads(r)
    BY <2>2 DEF ReadLoad, ReadLoads, Read, Idle, nginx, shared, history
  <2>3. CASE Connected(r)
    BY <2>3 DEF Connected, Idle, RestType, shared, history
  <2> QED BY <1>2, <2>1, <2>2, <2>3 DEF Step, Choose, Chooses
<1>3. ASSUME NEW r \in Request, NEW n \in 0 .. MaxTokens, TotalChunk(r, n) \/ TokenChunk(r, n)
      PROVE  \E b \in FilterBalancers, added \in Nat : Counts(r, b, added)
  BY <1>3, ChunkCounts
<1>4. ASSUME NEW w \in Worker, Crash(w)
      PROVE  Idle
  <2>1. \A q \in Request : state'[q] \in {state[q], "done"}
    BY <1>4 DEF Crash
  <2>2. UNCHANGED <<balancer, stage, pdata, shm, charged, early>>
    BY <1>4 DEF Crash, shared, history
  <2> QED BY <2>1, <2>2 DEF Idle
<1> QED BY <1>1, <1>2, <1>3, <1>4 DEF Next

(* The counters of a peer that balancers choose by are what is charged to  *)
(* it, modulo the size of a word, for any number of requests, workers and  *)
(* peers and each pair of balancers, whatever they interleave and wherever *)
(* a worker crashes.  Exempt are a peer that was released before a retry   *)
(* went to it again, the tokens where a filter counts requests of another  *)
(* balancer, and the lengths of the prefill peers of pd_score, which no    *)
(* balancer reads.                                                         *)
THEOREM CountersAreCharges == Spec => []CountersExact
<1>1. Init => ExactInv
  <2> SUFFICES ASSUME Init PROVE ExactInv
    OBVIOUS
  <2>1. TypeOK
    BY InitTypes
  <2>2. BeginUncharged /\ Holders
    BY DEF Init, BeginUncharged, Holders
  <2>3. ASSUME NEW s \in Stage, NEW p \in Peers(s) PROVE ExactHere(s, p)
    <3>1. ChargedTo(s, p) = {}
      BY DEF Init, ChargedTo
    <3>2. shm[s][p] = NoLoad
      BY DEF Init
    <3>3. Word(0) = 0
      BY WordSmall, ProxyAssumption
    <3>4. \A f : Holds(0, f, {})
      BY <3>3, SumOfNone DEF Holds
    <3> QED BY <3>1, <3>2, <3>4 DEF ExactHere, NoLoad
  <2> QED BY <2>1, <2>2, <2>3 DEF ExactInv, Exact
<1>2. ExactInv /\ [Next]_vars => ExactInv'
  <2> SUFFICES ASSUME ExactInv, [Next]_vars PROVE ExactInv'
    OBVIOUS
  <2>1. RestType
    BY Parts DEF ExactInv
  <2>2. TypeOK' /\ BeginUncharged'
    BY <2>1, StepTypes, BeginStep DEF ExactInv
  <2>3. Exact' /\ Holders'
    BY <2>1, StepKinds, ExactIdle, ExactChoose, ExactFree, ExactChunk
  <2> QED BY <2>2, <2>3 DEF ExactInv
<1>3. ExactInv => CountersExact
  BY Parts, ExactMeans DEF ExactInv
<1> QED BY <1>1, <1>2, <1>3, PTL DEF Spec
=============================================================================
