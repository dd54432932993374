------------------------- MODULE NPUSchedulerProofs -------------------------
(***************************************************************************)
(* For every number of requests, blocks and batches, every prompt and      *)
(* limit: a request is in one queue, blocks are neither lost nor shared,   *)
(* the names of the batches under way are exact, and the assertions of     *)
(* schedule() hold, and the waiting queue is fair.                         *)
(*                                                                         *)
(* The argument: a request that runs has one token to compute, or is in    *)
(* exactly one batch; a request that waits is in none, so that its next    *)
(* admission starts afresh.  The queue is seen as one line at all times:   *)
(* what schedule() has skipped is still in it, in its old place.           *)
(***************************************************************************)
EXTENDS NPUScheduler, SequenceTheorems, FiniteSetTheorems, TLAPS

-----------------------------------------------------------------------------
(* Sequences without repetition.                                           *)

LEMMA AppendKeeps ==
    ASSUME NEW S, NEW s \in Seq(S), NEW e \in S, IsInjective(s), e \notin Range(s)
    PROVE  /\ Append(s, e) \in Seq(S)
           /\ IsInjective(Append(s, e))
           /\ Range(Append(s, e)) = Range(s) \cup {e}
<1>1. /\ Append(s, e) \in Seq(S)
      /\ Len(Append(s, e)) = Len(s) + 1 /\ Len(s) \in Nat
      /\ \A i \in 1 .. Len(s) : Append(s, e)[i] = s[i]
      /\ Append(s, e)[Len(s) + 1] = e
      /\ DOMAIN s = 1 .. Len(s) /\ DOMAIN Append(s, e) = 1 .. Len(s) + 1
  BY AppendProperties, LenProperties
<1> QED BY <1>1 DEF IsInjective, Range

LEMMA TailKeeps ==
    ASSUME NEW S, NEW s \in Seq(S), s # <<>>, IsInjective(s)
    PROVE  /\ Head(s) \in S /\ Head(s) \in Range(s)
           /\ Tail(s) \in Seq(S)
           /\ IsInjective(Tail(s))
           /\ Range(Tail(s)) = Range(s) \ {Head(s)}
<1>1. /\ Head(s) \in S /\ Tail(s) \in Seq(S)
      /\ Len(s) \in Nat \ {0} /\ Len(Tail(s)) = Len(s) - 1
      /\ \A i \in 1 .. Len(s) - 1 : Tail(s)[i] = s[i + 1]
      /\ Head(s) = s[1]
      /\ DOMAIN s = 1 .. Len(s) /\ DOMAIN Tail(s) = 1 .. Len(s) - 1
  BY HeadTailProperties, LenProperties, EmptySeq
<1>2. IsInjective(Tail(s))
  BY <1>1 DEF IsInjective
<1>3. \A x \in Range(s) : x # Head(s) => x \in Range(Tail(s))
  <2> SUFFICES ASSUME NEW i \in 1 .. Len(s), s[i] # Head(s) PROVE s[i] \in Range(Tail(s))
    BY <1>1 DEF Range
  <2>1. i - 1 \in 1 .. Len(s) - 1 /\ Tail(s)[i - 1] = s[i]
    BY <1>1
  <2> QED BY <2>1, <1>1 DEF Range
<1>4. \A x \in Range(Tail(s)) : x \in Range(s) /\ x # Head(s)
  BY <1>1 DEF IsInjective, Range
<1>5. Head(s) \in Range(s)
  BY <1>1 DEF Range
<1>6. Range(Tail(s)) = Range(s) \ {Head(s)}
  BY <1>3, <1>4
<1> QED BY <1>1, <1>2, <1>5, <1>6

LEMMA ConcatKeeps ==
    ASSUME NEW S, NEW s \in Seq(S), NEW t \in Seq(S), IsInjective(s), IsInjective(t),
           Range(s) \cap Range(t) = {}
    PROVE  /\ s \o t \in Seq(S)
           /\ IsInjective(s \o t)
           /\ Range(s \o t) = Range(s) \cup Range(t)
<1>1. /\ s \o t \in Seq(S)
      /\ Len(s \o t) = Len(s) + Len(t) /\ Len(s) \in Nat /\ Len(t) \in Nat
      /\ \A i \in 1 .. Len(s) + Len(t) :
             (s \o t)[i] = IF i <= Len(s) THEN s[i] ELSE t[i - Len(s)]
      /\ DOMAIN s = 1 .. Len(s) /\ DOMAIN t = 1 .. Len(t)
      /\ DOMAIN (s \o t) = 1 .. Len(s) + Len(t)
  BY ConcatProperties, LenProperties
<1>2. \A i \in 1 .. Len(s), j \in 1 .. Len(t) : s[i] # t[j]
  BY <1>1 DEF Range
<1>3. IsInjective(s \o t)
  <2> SUFFICES ASSUME NEW i \in 1 .. Len(s) + Len(t), NEW j \in 1 .. Len(s) + Len(t),
                      (s \o t)[i] = (s \o t)[j]
               PROVE  i = j
    BY <1>1 DEF IsInjective
  <2>1. CASE i <= Len(s) /\ j <= Len(s)
    BY <2>1, <1>1 DEF IsInjective
  <2>2. CASE i > Len(s) /\ j > Len(s)
    <3>1. i - Len(s) \in 1 .. Len(t) /\ j - Len(s) \in 1 .. Len(t)
          /\ t[i - Len(s)] = t[j - Len(s)]
      BY <2>2, <1>1
    <3>2. i - Len(s) = j - Len(s)
      BY <3>1, <1>1 DEF IsInjective
    <3> QED BY <3>2, <1>1
  <2>3. CASE i <= Len(s) /\ j > Len(s)
    BY <2>3, <1>1, <1>2
  <2>4. CASE i > Len(s) /\ j <= Len(s)
    BY <2>4, <1>1, <1>2
  <2> QED BY <2>1, <2>2, <2>3, <2>4, <1>1
<1> QED BY <1>1, <1>3, RangeConcatenation

LEMMA ConcatSplits ==
    ASSUME NEW S, NEW s \in Seq(S), NEW t \in Seq(S), IsInjective(s \o t)
    PROVE  IsInjective(s) /\ IsInjective(t) /\ Range(s) \cap Range(t) = {}
<1>1. /\ Len(s) \in Nat /\ Len(t) \in Nat
      /\ \A i \in 1 .. Len(s) + Len(t) :
             (s \o t)[i] = IF i <= Len(s) THEN s[i] ELSE t[i - Len(s)]
      /\ DOMAIN s = 1 .. Len(s) /\ DOMAIN t = 1 .. Len(t)
      /\ DOMAIN (s \o t) = 1 .. Len(s) + Len(t)
  BY ConcatProperties, LenProperties
<1>2. \A i \in 1 .. Len(s) : i \in 1 .. Len(s) + Len(t) /\ (s \o t)[i] = s[i]
  BY <1>1
<1>3. \A j \in 1 .. Len(t) :
          j + Len(s) \in 1 .. Len(s) + Len(t) /\ (s \o t)[j + Len(s)] = t[j]
  BY <1>1
<1>4. IsInjective(s)
  BY <1>1, <1>2 DEF IsInjective
<1>5. IsInjective(t)
  <2> SUFFICES ASSUME NEW i \in 1 .. Len(t), NEW j \in 1 .. Len(t), t[i] = t[j]
               PROVE  i = j
    BY <1>1 DEF IsInjective
  <2>1. i + Len(s) = j + Len(s)
    BY <1>1, <1>3 DEF IsInjective
  <2> QED BY <2>1, <1>1
<1>6. \A i \in 1 .. Len(s), j \in 1 .. Len(t) : s[i] # t[j]
  <2> SUFFICES ASSUME NEW i \in 1 .. Len(s), NEW j \in 1 .. Len(t), s[i] = t[j]
               PROVE  FALSE
    OBVIOUS
  <2>1. i = j + Len(s)
    BY <1>1, <1>2, <1>3 DEF IsInjective
  <2> QED BY <2>1, <1>1
<1> QED BY <1>1, <1>4, <1>5, <1>6 DEF Range

LEMMA SubSeqKeeps ==
    ASSUME NEW S, NEW s \in Seq(S), NEW m \in 1 .. Len(s) + 1, NEW n \in 0 .. Len(s),
           IsInjective(s)
    PROVE  /\ SubSeq(s, m, n) \in Seq(S)
           /\ IsInjective(SubSeq(s, m, n))
           /\ Range(SubSeq(s, m, n)) = {s[i] : i \in m .. n}
<1>1. Len(s) \in Nat /\ DOMAIN s = 1 .. Len(s) /\ \A i \in 1 .. Len(s) : s[i] \in S
  BY LenProperties, ElementOfSeq
<1>2. /\ SubSeq(s, m, n) \in Seq(S)
      /\ Len(SubSeq(s, m, n)) = IF m <= n THEN n - m + 1 ELSE 0
      /\ \A i \in 1 .. n - m + 1 : SubSeq(s, m, n)[i] = s[m + i - 1]
  BY <1>1, SubSeqProperties
<1>3. DOMAIN SubSeq(s, m, n) = 1 .. Len(SubSeq(s, m, n))
  BY <1>2, LenProperties
<1>4. IsInjective(SubSeq(s, m, n))
  BY <1>1, <1>2, <1>3 DEF IsInjective
<1>5. \A i \in m .. n : s[i] \in Range(SubSeq(s, m, n))
  <2> TAKE i \in m .. n
  <2>1. i - m + 1 \in 1 .. n - m + 1 /\ m + (i - m + 1) - 1 = i /\ m <= n
    BY <1>1
  <2>2. SubSeq(s, m, n)[i - m + 1] = s[i] /\ i - m + 1 \in 1 .. Len(SubSeq(s, m, n))
    BY <2>1, <1>2
  <2> QED BY <2>2, <1>3 DEF Range
<1>6. Range(SubSeq(s, m, n)) \subseteq {s[i] : i \in m .. n}
  BY <1>1, <1>2, <1>3 DEF Range
<1> QED BY <1>2, <1>4, <1>5, <1>6

(* list.remove takes one member out.                                       *)
LEMMA RemovedKeeps ==
    ASSUME NEW S, NEW s \in Seq(S), NEW e \in Range(s), IsInjective(s)
    PROVE  /\ Removed(s, e) \in Seq(S)
           /\ IsInjective(Removed(s, e))
           /\ Range(Removed(s, e)) = Range(s) \ {e}
           /\ Len(Removed(s, e)) = Len(s) - 1
<1> DEFINE k == CHOOSE i \in DOMAIN s : s[i] = e
<1>1. Len(s) \in Nat /\ DOMAIN s = 1 .. Len(s)
  BY LenProperties
<1>2. k \in 1 .. Len(s) /\ s[k] = e
  BY <1>1 DEF Range
<1> HIDE DEF k
<1> DEFINE a == SubSeq(s, 1, k - 1)  b == SubSeq(s, k + 1, Len(s))
<1>3. /\ a \in Seq(S) /\ IsInjective(a) /\ Range(a) = {s[i] : i \in 1 .. k - 1}
      /\ b \in Seq(S) /\ IsInjective(b) /\ Range(b) = {s[i] : i \in k + 1 .. Len(s)}
  <2>1. /\ 1 \in 1 .. Len(s) + 1 /\ k - 1 \in 0 .. Len(s)
        /\ k + 1 \in 1 .. Len(s) + 1 /\ Len(s) \in 0 .. Len(s)
    BY <1>1, <1>2
  <2> QED BY <2>1, SubSeqKeeps
<1>4. Range(a) \cap Range(b) = {}
  BY <1>1, <1>2, <1>3 DEF IsInjective
<1>5. Removed(s, e) = a \o b
  BY DEF Removed, RemoveAt, k
<1>6. Range(a) \cup Range(b) = Range(s) \ {e}
  <2>1. Range(s) = {s[i] : i \in 1 .. Len(s)}
    BY <1>1 DEF Range
  <2>2. \A i \in 1 .. Len(s) : s[i] # e <=> i \in 1 .. k - 1 \/ i \in k + 1 .. Len(s)
    BY <1>1, <1>2 DEF IsInjective
  <2>3. \A i \in 1 .. k - 1 : i \in 1 .. Len(s)
    BY <1>1, <1>2
  <2>4. \A i \in k + 1 .. Len(s) : i \in 1 .. Len(s)
    BY <1>1, <1>2
  <2> QED BY <2>1, <2>2, <2>3, <2>4, <1>3
<1>7. Len(a) = k - 1 /\ Len(b) = Len(s) - k
  <2>1. \A i \in 1 .. Len(s) : s[i] \in S
    BY ElementOfSeq
  <2>2. Len(a) = IF 1 <= k - 1 THEN k - 1 - 1 + 1 ELSE 0
    BY <2>1, <1>1, <1>2, SubSeqProperties
  <2>3. Len(b) = IF k + 1 <= Len(s) THEN Len(s) - (k + 1) + 1 ELSE 0
    BY <2>1, <1>1, <1>2, SubSeqProperties
  <2>4. k \in Int /\ 1 <= k /\ k <= Len(s) /\ Len(s) \in Int
    BY <1>1, <1>2
  <2>5. Len(a) = k - 1
    BY <2>2, <2>4
  <2>6. Len(b) = Len(s) - k
    BY <2>3, <2>4
  <2> QED BY <2>5, <2>6
<1>8. Len(a \o b) = Len(a) + Len(b)
  BY <1>3, ConcatProperties
<1> HIDE DEF a, b
<1>9. /\ a \o b \in Seq(S) /\ IsInjective(a \o b)
      /\ Range(a \o b) = Range(a) \cup Range(b)
  <2>1. a \in Seq(S) /\ IsInjective(a) /\ b \in Seq(S) /\ IsInjective(b)
    BY <1>3
  <2> QED BY <2>1, <1>4, ConcatKeeps
<1>10. Len(Removed(s, e)) = Len(s) - 1
  BY <1>1, <1>2, <1>5, <1>7, <1>8
<1> QED BY <1>5, <1>6, <1>9, <1>10

LEMMA ReverseKeeps ==
    ASSUME NEW S, NEW s \in Seq(S), IsInjective(s)
    PROVE  /\ Reverse(s) \in Seq(S)
           /\ IsInjective(Reverse(s))
           /\ Range(Reverse(s)) = Range(s)
<1>1. Len(s) \in Nat /\ DOMAIN s = 1 .. Len(s) /\ \A i \in 1 .. Len(s) : s[i] \in S
  BY LenProperties, ElementOfSeq
<1>2. \A i \in 1 .. Len(s) : Len(s) - i + 1 \in 1 .. Len(s)
  BY <1>1
<1>3. Reverse(s) \in [1 .. Len(s) -> S]
  BY <1>1, <1>2 DEF Reverse
<1>4. Reverse(s) \in Seq(S)
  BY <1>1, <1>3
<1>5. /\ DOMAIN Reverse(s) = 1 .. Len(s)
      /\ \A i \in 1 .. Len(s) : Reverse(s)[i] = s[Len(s) - i + 1]
  BY DEF Reverse
<1>6. IsInjective(Reverse(s))
  BY <1>1, <1>2, <1>5 DEF IsInjective
<1>7. \A i \in 1 .. Len(s) : Reverse(s)[Len(s) - i + 1] = s[i]
  BY <1>1, <1>2, <1>5
<1>8. Range(Reverse(s)) = Range(s)
  BY <1>1, <1>2, <1>5, <1>7 DEF Range
<1> QED BY <1>4, <1>6, <1>8

-----------------------------------------------------------------------------
(* The inductive invariant.                                                *)

(* The requests of the batch that schedule() builds, and their tokens.     *)
Building  == IF InSchedule THEN DOMAIN num_scheduled_tokens ELSE {}
Tokens(r) == IF r \in Building THEN num_scheduled_tokens[r] ELSE 0

InFlight(r, i) == i \in DOMAIN in_flight /\ r \in DOMAIN in_flight[i]
Handled(r, i)  == pc = "update" /\ i = 1 /\ r \in Range(new_running)

Phases ==
    /\ pc # "prefill" => skipped = <<>>
    /\ pc # "update" => new_running = <<>>
    /\ pc \in {"await", "update"} => in_flight # <<>>
    /\ pc = "update" => Len(new_running) < req_index
    /\ pc \in {"decode", "update"} => req_index \in 1 .. Len(running) + 1
    /\ Len(running) <= MaxRunning
    /\ \A r \in Building : status[r] = "running"
    /\ pc = "decode" =>
           /\ scheduled_req_ids = DOMAIN num_scheduled_tokens
           /\ scheduled_req_ids = {running[i] : i \in 1 .. req_index - 1}

(* ScheduledIsInFlight, for the batches in flight and the one being built. *)
Names ==
    /\ scheduled_req_ids =
           {r \in Request : /\ status[r] = "running"
                            /\ \/ r \in Building
                               \/ \E i : InFlight(r, i) /\ ~Handled(r, i)}
    /\ \A r \in scheduled_req_ids : \A i, j :
           InFlight(r, i) /\ InFlight(r, j) => i = j
    /\ \A r \in Building : \A i : ~InFlight(r, i)

(* A request that waits is in no batch.                                    *)
Apart ==
    \A r \in Request : status[r] \in {"unknown", "waiting", "preempted"} =>
        r \notin Building /\ \A i : ~InFlight(r, i)

(* A request that runs has one token to compute, or all under way, and     *)
(* blocks for them.                                                        *)
InStep ==
    \A r \in Request : status[r] = "running" =>
        /\ num_computed_tokens[r] + Tokens(r) + (IF r \in scheduled_req_ids THEN 0 ELSE 1)
               = num_tokens(r)
        /\ num_computed_tokens[r] + Tokens(r) <= Cardinality(held[r]) * BlockSize

Blocks ==
    /\ \A r \in Request : held[r] \cap free_blocks = {}
    /\ \A q, r \in Request : q # r => held[q] \cap held[r] = {}
    /\ \A b \in Block : b \in free_blocks \/ \E r \in Request : b \in held[r]
    /\ \A r \in Request : status[r] # "running" => held[r] = {}

SchedInv == TypeOK /\ Phases /\ RequestsInOnePlace /\ Names /\ Apart /\ InStep /\ Blocks

-----------------------------------------------------------------------------
(* Blocks.                                                                 *)

LEMMA Limits ==
    /\ BlockSize \in Nat \ {0} /\ MaxRunning \in Nat \ {0} /\ TokenBudget \in Nat \ {0}
    /\ MaxModelLen \in Nat \ {0} /\ MaxBatches \in Nat \ {0}
    /\ IsFiniteSet(Block)
BY SchedulerAssumption

LEMMA SubsetOfSize ==
    ASSUME NEW S, IsFiniteSet(S), NEW n \in Nat, n <= Cardinality(S)
    PROVE  \E T \in SUBSET S : Cardinality(T) = n
<1>1. Cardinality(S) \in Nat
  BY FS_CardinalityType
<1>2. PICK f : f \in Bijection(1 .. Cardinality(S), S)
  BY FS_CardinalityType DEF ExistsBijection
<1> DEFINE T == {f[i] : i \in 1 .. n}
<1>3. /\ f \in [1 .. Cardinality(S) -> S]
      /\ \A i, j \in 1 .. Cardinality(S) : f[i] = f[j] => i = j
  BY <1>2 DEF Bijection, Injection, IsInjective
<1>4. 1 .. n \subseteq 1 .. Cardinality(S)
  BY <1>1
<1>5. T \subseteq S
  BY <1>3, <1>4
<1> DEFINE g == [i \in 1 .. n |-> f[i]]
<1>6. g \in Bijection(1 .. n, T)
  BY <1>3, <1>4 DEF Bijection, Injection, Surjection, IsInjective
<1>7. IsFiniteSet(1 .. n) /\ Cardinality(1 .. n) = n
  BY FS_Interval
<1>8. Cardinality(T) = n
  BY <1>6, <1>7, FS_Bijection DEF ExistsBijection
<1> QED BY <1>5, <1>8

LEMMA BlocksEnough ==
    ASSUME NEW n \in Nat, NEW d \in Nat \ {0}
    PROVE  CeilDiv(n, d) \in Nat /\ n <= CeilDiv(n, d) * d
BY Z3 DEF CeilDiv

(* What allocate_slots gives.                                              *)
LEMMA AllocateGives ==
    ASSUME TypeOK, Blocks, NEW r \in Request, NEW c \in Nat, NEW n \in Nat,
           CanAllocate(r, c, n), Allocate(r, c, n)
    PROVE  /\ \E new \in SUBSET free_blocks :
                  /\ held' = [held EXCEPT ![r] = @ \cup new]
                  /\ free_blocks' = free_blocks \ new
           /\ held' \in [Request -> SUBSET Block] /\ free_blocks' \in SUBSET Block
           /\ \A q \in Request : q # r => held'[q] = held[q]
           /\ c + n <= Cardinality(held'[r]) * BlockSize
<1>1. /\ free_blocks \subseteq Block /\ held \in [Request -> SUBSET Block]
      /\ IsFiniteSet(free_blocks) /\ IsFiniteSet(held[r])
      /\ held[r] \cap free_blocks = {}
  <2>1. free_blocks \subseteq Block /\ held \in [Request -> SUBSET Block]
    BY DEF TypeOK
  <2>2. held[r] \cap free_blocks = {}
    BY DEF Blocks
  <2> QED BY <2>1, <2>2, Limits, FS_Subset
<1>2. Cardinality(free_blocks) \in Nat /\ Cardinality(held[r]) \in Nat
  BY <1>1, FS_CardinalityType
<1>3. CeilDiv(c + n, BlockSize) \in Nat /\ c + n <= CeilDiv(c + n, BlockSize) * BlockSize
  BY BlocksEnough, Limits
<1> DEFINE k   == Missing(r, c, n)
           new == IF k <= 0 THEN {} ELSE CHOOSE S \in SUBSET free_blocks : Cardinality(S) = k
<1>4. k \in Int /\ k = CeilDiv(c + n, BlockSize) - Cardinality(held[r])
  BY <1>2, <1>3 DEF Missing
<1>5. k <= Cardinality(free_blocks)
  BY DEF CanAllocate
<1>6. held' = [held EXCEPT ![r] = @ \cup new] /\ free_blocks' = free_blocks \ new
  BY DEF Allocate
<1> HIDE DEF k
<1>7. new \subseteq free_blocks /\ (k > 0 => Cardinality(new) = k)
  <2>1. CASE k <= 0
    BY <2>1, <1>4
  <2>2. CASE k > 0
    <3>1. \E S \in SUBSET free_blocks : Cardinality(S) = k
      BY <2>2, <1>1, <1>4, <1>5, SubsetOfSize
    <3> QED BY <2>2, <3>1, <1>4
  <2> QED BY <2>1, <2>2, <1>4
<1> HIDE DEF new
<1>8. held'[r] = held[r] \cup new
  BY <1>1, <1>6
<1>9. Cardinality(held'[r]) \in Nat /\ Cardinality(held'[r]) >= CeilDiv(c + n, BlockSize)
  <2>1. CASE k <= 0
    <3>1. held[r] \subseteq held'[r] /\ IsFiniteSet(held'[r])
      BY <1>1, <1>7, <1>8, FS_Subset, FS_Union
    <3>2. Cardinality(held[r]) <= Cardinality(held'[r]) /\ Cardinality(held'[r]) \in Nat
      BY <3>1, FS_Subset, FS_CardinalityType
    <3> QED BY <3>2, <2>1, <1>2, <1>3, <1>4
  <2>2. CASE k > 0
    <3>1. IsFiniteSet(new) /\ held[r] \cap new = {}
      BY <1>1, <1>7, FS_Subset
    <3>2. Cardinality(held[r] \cup new)
              = Cardinality(held[r]) + Cardinality(new) - Cardinality(held[r] \cap new)
      BY <3>1, <1>1, FS_Union
    <3>3. Cardinality(held'[r]) = Cardinality(held[r]) + k
      BY <3>1, <3>2, <2>2, <1>2, <1>4, <1>7, <1>8, FS_EmptySet
    <3> QED BY <3>3, <2>2, <1>2, <1>3, <1>4
  <2> QED BY <2>1, <2>2, <1>4
<1>10. c + n <= Cardinality(held'[r]) * BlockSize
  <2>1. \A x, y, b, m \in Nat : m <= x * b /\ x <= y => m <= y * b
    BY Z3
  <2> QED BY <2>1, <1>3, <1>9, Limits
<1> QED BY <1>1, <1>6, <1>7, <1>10

(* What a request gives back.                                              *)
LEMMA FreeKeeps ==
    ASSUME TypeOK, Blocks, NEW r \in Request, Free(r),
           status' \in [Request -> Status],
           \A q \in Request : q # r => status'[q] = status[q]
    PROVE  /\ Blocks'
           /\ held' \in [Request -> SUBSET Block] /\ free_blocks' \in SUBSET Block
           /\ \A q \in Request : q # r => held'[q] = held[q]
<1>1. /\ held \in [Request -> SUBSET Block] /\ free_blocks \subseteq Block
      /\ held'[r] = {} /\ \A q \in Request : q # r => held'[q] = held[q]
      /\ free_blocks' = free_blocks \cup held[r]
      /\ held' \in [Request -> SUBSET Block] /\ free_blocks' \in SUBSET Block
  BY DEF TypeOK, Free
<1>3. \A b \in Block : b \in free_blocks' \/ \E q \in Request : b \in held'[q]
  <2> TAKE b \in Block
  <2>1. CASE b \in free_blocks
    BY <2>1, <1>1
  <2>2. CASE \E q \in Request : b \in held[q]
    BY <2>2, <1>1
  <2> QED BY <2>1, <2>2 DEF Blocks
<1>4. \A q \in Request : held'[q] \cap free_blocks' = {}
  BY <1>1 DEF Blocks
<1>5. \A p, q \in Request : p # q => held'[p] \cap held'[q] = {}
  BY <1>1 DEF Blocks
<1>6. \A q \in Request : status'[q] # "running" => held'[q] = {}
  BY <1>1 DEF Blocks
<1> QED BY <1>1, <1>3, <1>4, <1>5, <1>6 DEF Blocks

(* Blocks taken from the free ones by a request that runs then.            *)
LEMMA AllocateKeeps ==
    ASSUME TypeOK, Blocks, NEW r \in Request, NEW new \in SUBSET free_blocks,
           held' = [held EXCEPT ![r] = @ \cup new], free_blocks' = free_blocks \ new,
           status'[r] = "running",
           \A q \in Request : q # r => status'[q] = status[q]
    PROVE  Blocks'
<1>1. /\ held \in [Request -> SUBSET Block]
      /\ held'[r] = held[r] \cup new /\ \A q \in Request : q # r => held'[q] = held[q]
  BY DEF TypeOK
<1>3. \A b \in Block : b \in free_blocks' \/ \E q \in Request : b \in held'[q]
  <2> TAKE b \in Block
  <2>1. CASE b \in free_blocks
    BY <2>1, <1>1
  <2>2. CASE \E q \in Request : b \in held[q]
    BY <2>2, <1>1
  <2> QED BY <2>1, <2>2 DEF Blocks
<1>4. \A q \in Request : held'[q] \cap free_blocks' = {}
  BY <1>1 DEF Blocks
<1>5. \A p, q \in Request : p # q => held'[p] \cap held'[q] = {}
  BY <1>1 DEF Blocks
<1>6. \A q \in Request : status'[q] # "running" => held'[q] = {}
  BY <1>1 DEF Blocks
<1> QED BY <1>3, <1>4, <1>5, <1>6 DEF Blocks

-----------------------------------------------------------------------------
(* The steps, one lemma each.                                              *)

Fresh == {"unknown", "waiting", "preempted"}

LEMMA SchedInit == Init => SchedInv
<1> SUFFICES ASSUME Init PROVE SchedInv
  OBVIOUS
<1>1. TypeOK
  <2>1. Range(<<>>) = {} /\ <<>> \in Seq({}) /\ <<>> \in Seq(Request)
    BY DEF Range
  <2> QED BY <2>1 DEF Init, TypeOK, Status, IsBatch, EmptyBatch
<1>2. waiting = <<>> /\ running = <<>> /\ skipped = <<>> /\ new_running = <<>> /\ Live = <<>>
  BY DEF Init, Live
<1>3. RequestsInOnePlace
  BY <1>2 DEF Init, RequestsInOnePlace, IsInjective, Range, Waiting
<1>4. Building = {}
  BY DEF Init, Building, InSchedule
<1>5. Len(running) <= MaxRunning
  BY <1>2, Limits
<1>6. Phases
  BY <1>4, <1>5 DEF Init, Phases
<1>7. Names /\ Apart /\ InStep /\ Blocks
  BY <1>4 DEF Init, Names, Apart, InStep, Blocks, InFlight
<1> QED BY <1>1, <1>3, <1>6, <1>7 DEF SchedInv

(* What a step leaves to the batches that takes no request in or out.      *)
LEMMA BatchesKept ==
    ASSUME SchedInv,
           \A q \in Request : status'[q] = "running" <=> status[q] = "running",
           \A q \in Request : status'[q] \in Fresh => status[q] \in Fresh,
           UNCHANGED <<in_flight, scheduled_req_ids, memory, num_output_tokens>>,
           Building' = Building,
           \A q \in Building : num_scheduled_tokens'[q] = num_scheduled_tokens[q],
           \A q \in Request : \A i : InFlight(q, i) => (Handled(q, i)' <=> Handled(q, i))
    PROVE  Names' /\ Apart' /\ InStep' /\ Blocks'
<1>1. \A q, i : InFlight(q, i)' <=> InFlight(q, i)
  BY DEF InFlight
<1>2. \A q : Tokens(q)' = Tokens(q)
  BY DEF Tokens
<1>3. Names'
  BY <1>1 DEF SchedInv, Names
<1>4. Apart'
  BY <1>1 DEF SchedInv, Apart, Fresh
<1>5. InStep'
  BY <1>2 DEF SchedInv, InStep, memory, num_tokens
<1>6. Blocks'
  BY DEF SchedInv, Blocks, memory
<1> QED BY <1>3, <1>4, <1>5, <1>6

LEMMA AddRequestStep ==
    ASSUME SchedInv, NEW r \in Request, AddRequest(r)
    PROVE  SchedInv'
<1> USE DEF AddRequest, BetweenSteps
<1>1. TypeOK /\ Phases /\ RequestsInOnePlace
  BY DEF SchedInv
<1>2. /\ waiting \in Seq(Request) /\ status \in [Request -> Status]
      /\ status' = [status EXCEPT ![r] = "waiting"]
      /\ UNCHANGED <<running, skipped, new_running, num_scheduled_tokens, pc>>
  BY <1>1 DEF TypeOK, queues, locals
<1>3. r \notin Range(waiting) /\ IsInjective(waiting)
  BY <1>1, <1>2 DEF RequestsInOnePlace, Waiting
<1>4. /\ waiting' \in Seq(Request) /\ IsInjective(waiting')
      /\ Range(waiting') = Range(waiting) \cup {r}
  BY <1>2, <1>3, AppendKeeps
<1>5. TypeOK'
  BY <1>1, <1>2, <1>4 DEF TypeOK, Status, memory, locals
<1>6. RequestsInOnePlace'
  <2>1. Live' = Live
    BY <1>2 DEF Live
  <2>2. Range(waiting') \cap Range(skipped) = {}
    BY <1>1, <1>2, <1>4 DEF RequestsInOnePlace, Waiting
  <2>3. Range(waiting') \cup Range(skipped) = {q \in Request : status'[q] \in Waiting}
    BY <1>1, <1>2, <1>4 DEF RequestsInOnePlace, Waiting
  <2>4. Range(Live) = {q \in Request : status'[q] = "running"}
    BY <1>1, <1>2 DEF RequestsInOnePlace
  <2> QED BY <1>1, <1>2, <1>4, <2>1, <2>2, <2>3, <2>4 DEF RequestsInOnePlace
<1>7. Building = {} /\ Building' = {}
  BY <1>2 DEF Building, InSchedule
<1>8. Phases'
  BY <1>1, <1>2, <1>7 DEF Phases
<1>9. Names' /\ Apart' /\ InStep' /\ Blocks'
  BY <1>2, <1>7, BatchesKept DEF Fresh, Handled
<1> QED BY <1>5, <1>6, <1>8, <1>9 DEF SchedInv

LEMMA BeginScheduleStep == SchedInv /\ BeginSchedule => SchedInv'
<1> SUFFICES ASSUME SchedInv, BeginSchedule PROVE SchedInv'
  OBVIOUS
<1> USE DEF BeginSchedule
<1>1. TypeOK /\ Phases /\ RequestsInOnePlace
  BY DEF SchedInv
<1>2. /\ pc = "idle" /\ pc' = "prefill"
      /\ UNCHANGED <<waiting, running, skipped, new_running, status>>
  BY DEF queues
<1>3. TypeOK'
  BY <1>1, <1>2, Limits DEF TypeOK, memory, IsBatch, EmptyBatch
<1>4. RequestsInOnePlace'
  BY <1>1, <1>2 DEF RequestsInOnePlace, Live
<1>5. Building = {} /\ Building' = {}
  BY <1>2 DEF Building, InSchedule, EmptyBatch
<1>6. Phases'
  BY <1>1, <1>2, <1>5 DEF Phases
<1>7. Names' /\ Apart' /\ InStep' /\ Blocks'
  BY <1>2, <1>5, BatchesKept DEF Handled
<1> QED BY <1>3, <1>4, <1>6, <1>7 DEF SchedInv

(* The head of the queue is skipped.                                       *)
LEMMA SkipHeadStep == SchedInv /\ SkipHead => SchedInv'
<1> SUFFICES ASSUME SchedInv, SkipHead PROVE SchedInv'
  OBVIOUS
<1> USE DEF SkipHead
<1>1. TypeOK /\ Phases /\ RequestsInOnePlace
  BY DEF SchedInv
<1> DEFINE r == Head(waiting)
<1>2. /\ pc = "prefill" /\ waiting # <<>>
      /\ waiting \in Seq(Request) /\ skipped \in Seq(Request)
      /\ UNCHANGED <<running, new_running, memory, locals, status, pc>>
  BY <1>1 DEF MorePrefills, TypeOK
<1>3. /\ r \in Request /\ r \in Range(waiting)
      /\ waiting' \in Seq(Request) /\ IsInjective(waiting')
      /\ Range(waiting') = Range(waiting) \ {r}
  BY <1>1, <1>2, TailKeeps DEF RequestsInOnePlace
<1>4. <<r>> \in Seq(Request) /\ IsInjective(<<r>>) /\ Range(<<r>>) = {r}
  BY <1>3 DEF IsInjective, Range
<1>5. Range(<<r>>) \cap Range(skipped) = {}
  BY <1>1, <1>3, <1>4 DEF RequestsInOnePlace
<1>6. /\ skipped' \in Seq(Request) /\ IsInjective(skipped')
      /\ Range(skipped') = Range(skipped) \cup {r}
  <2>1. IsInjective(skipped)
    BY <1>1 DEF RequestsInOnePlace
  <2> DEFINE one == <<r>>
  <2>2. one \in Seq(Request) /\ IsInjective(one) /\ Range(one) \cap Range(skipped) = {}
    BY <1>4, <1>5
  <2> HIDE DEF one
  <2>3. /\ one \o skipped \in Seq(Request) /\ IsInjective(one \o skipped)
        /\ Range(one \o skipped) = Range(one) \cup Range(skipped)
    BY <1>2, <2>1, <2>2, ConcatKeeps
  <2> QED BY <2>3, <1>4 DEF one
<1>7. TypeOK'
  BY <1>1, <1>2, <1>3, <1>6 DEF TypeOK, memory, locals
<1>8. RequestsInOnePlace'
  BY <1>1, <1>2, <1>3, <1>6 DEF RequestsInOnePlace, Live
<1>9. Building' = Building
  BY <1>2 DEF Building, InSchedule, locals
<1>10. Phases'
  BY <1>1, <1>2, <1>9 DEF Phases
<1>11. Names' /\ Apart' /\ InStep' /\ Blocks'
  BY <1>2, <1>9, BatchesKept DEF Handled, locals
<1> QED BY <1>7, <1>8, <1>10, <1>11 DEF SchedInv

LEMMA IgnoreHeadStep == SchedInv /\ IgnoreHead => SchedInv'
<1> SUFFICES ASSUME SchedInv, IgnoreHead PROVE SchedInv'
  OBVIOUS
<1> USE DEF IgnoreHead
<1>1. TypeOK /\ Phases /\ RequestsInOnePlace
  BY DEF SchedInv
<1> DEFINE r == Head(waiting)
<1>2. /\ pc = "prefill" /\ waiting # <<>> /\ waiting \in Seq(Request)
      /\ UNCHANGED <<running, skipped, new_running, memory, locals, pc>>
      /\ status' = [status EXCEPT ![r] = "ignored"] /\ status \in [Request -> Status]
  BY <1>1 DEF MorePrefills, TypeOK
<1>3. /\ r \in Request /\ r \in Range(waiting)
      /\ waiting' \in Seq(Request) /\ IsInjective(waiting')
      /\ Range(waiting') = Range(waiting) \ {r}
  BY <1>1, <1>2, TailKeeps DEF RequestsInOnePlace
<1>4. status[r] \in Waiting
  BY <1>1, <1>3 DEF RequestsInOnePlace
<1>5. /\ status' \in [Request -> Status] /\ status'[r] = "ignored"
      /\ \A q \in Request : q # r => status'[q] = status[q]
  BY <1>2, <1>3 DEF Status
<1>6. TypeOK'
  BY <1>1, <1>2, <1>3, <1>5 DEF TypeOK, memory, locals
<1>7. RequestsInOnePlace'
  <2>1. Live' = Live
    BY <1>2 DEF Live
  <2>2. Range(waiting') \cup Range(skipped) = {q \in Request : status'[q] \in Waiting}
    BY <1>1, <1>3, <1>4, <1>5 DEF RequestsInOnePlace, Waiting
  <2>3. Range(Live) = {q \in Request : status'[q] = "running"}
    BY <1>1, <1>4, <1>5 DEF RequestsInOnePlace, Waiting
  <2> QED BY <1>1, <1>2, <1>3, <2>1, <2>2, <2>3 DEF RequestsInOnePlace
<1>8. Building' = Building
  BY <1>2 DEF Building, InSchedule, locals
<1>9. Phases'
  <2>1. \A q \in Building' : status'[q] = "running"
    <3>1. Building \subseteq Request
      BY <1>1 DEF Building, TypeOK, IsBatch
    <3> QED BY <3>1, <1>1, <1>4, <1>5, <1>8 DEF Phases, Waiting
  <2> QED BY <1>1, <1>2, <2>1 DEF Phases
<1>10. Names' /\ Apart' /\ InStep' /\ Blocks'
  BY <1>2, <1>4, <1>5, <1>8, BatchesKept DEF Handled, locals, Fresh, Waiting
<1> QED BY <1>6, <1>7, <1>9, <1>10 DEF SchedInv

LEMMA EndPrefillStep == SchedInv /\ EndPrefill => SchedInv'
<1> SUFFICES ASSUME SchedInv, EndPrefill PROVE SchedInv'
  OBVIOUS
<1> USE DEF EndPrefill
<1>1. TypeOK /\ Phases /\ RequestsInOnePlace /\ Names
  BY DEF SchedInv
<1>2. /\ pc = "prefill" /\ pc' \in {"decode", "output"}
      /\ waiting \in Seq(Request) /\ skipped \in Seq(Request)
      /\ UNCHANGED <<running, new_running, memory, token_budget, num_scheduled_tokens, status>>
  BY <1>1 DEF TypeOK
<1>3. Reverse(skipped) \in Seq(Request) /\ IsInjective(Reverse(skipped))
      /\ Range(Reverse(skipped)) = Range(skipped)
  BY <1>1, <1>2, ReverseKeeps DEF RequestsInOnePlace
<1>4. /\ waiting' \in Seq(Request) /\ IsInjective(waiting')
      /\ Range(waiting') = Range(skipped) \cup Range(waiting)
  BY <1>1, <1>2, <1>3, ConcatKeeps DEF RequestsInOnePlace, SkippedFirst
<1>5. TypeOK'
  BY <1>1, <1>2, <1>4 DEF TypeOK, memory
<1>6. RequestsInOnePlace'
  <2>1. IsInjective(skipped') /\ Range(skipped') = {}
    BY DEF IsInjective, Range
  <2> QED BY <1>1, <1>2, <1>4, <2>1 DEF RequestsInOnePlace, Live
<1>7. Building = DOMAIN num_scheduled_tokens /\ Building' = Building
  BY <1>2 DEF Building, InSchedule
<1>8. Phases'
  <2>1. Len(running) \in Nat
    BY <1>1, LenProperties DEF TypeOK
  <2>2. pc' = "decode" =>
            /\ scheduled_req_ids = DOMAIN num_scheduled_tokens
            /\ scheduled_req_ids = {running[i] : i \in 1 .. 1 - 1}
    <3> SUFFICES ASSUME scheduled_req_ids = {}
                 PROVE  DOMAIN num_scheduled_tokens = {} /\ {running[i] : i \in 1 .. 1 - 1} = {}
      BY DEF NothingScheduled
    <3>1. Building \subseteq scheduled_req_ids
      <4>1. Building \subseteq Request
        BY <1>1 DEF Building, TypeOK, IsBatch
      <4> QED BY <4>1, <1>1 DEF Names, Phases
    <3> QED BY <3>1, <1>7
  <2> QED BY <1>1, <1>2, <1>7, <2>1, <2>2 DEF Phases
<1>9. Names' /\ Apart' /\ InStep' /\ Blocks'
  BY <1>2, <1>7, BatchesKept DEF Handled
<1> QED BY <1>5, <1>6, <1>8, <1>9 DEF SchedInv

LEMMA EndDecodeStep == SchedInv /\ EndDecode => SchedInv'
<1> SUFFICES ASSUME SchedInv, EndDecode PROVE SchedInv'
  OBVIOUS
<1> USE DEF EndDecode
<1>1. TypeOK /\ Phases /\ RequestsInOnePlace
  BY DEF SchedInv
<1>2. pc = "decode" /\ pc' = "output" /\ UNCHANGED <<queues, memory, locals, status>>
  OBVIOUS
<1>3. TypeOK'
  BY <1>1, <1>2 DEF TypeOK, queues, memory, locals
<1>4. RequestsInOnePlace'
  BY <1>1, <1>2 DEF RequestsInOnePlace, Live, queues
<1>5. Building' = Building
  BY <1>2 DEF Building, InSchedule, locals
<1>6. Phases'
  BY <1>1, <1>2, <1>5 DEF Phases, queues, locals
<1>7. Names' /\ Apart' /\ InStep' /\ Blocks'
  BY <1>2, <1>5, BatchesKept DEF Handled, locals
<1> QED BY <1>3, <1>4, <1>6, <1>7 DEF SchedInv

LEMMA AbortIgnoredStep ==
    ASSUME SchedInv, NEW r \in Request, AbortIgnored(r)
    PROVE  SchedInv'
<1> USE DEF AbortIgnored, BetweenSteps
<1>1. TypeOK /\ Phases /\ RequestsInOnePlace
  BY DEF SchedInv
<1>2. pc = "idle" /\ pc' = "failed" /\ UNCHANGED <<queues, memory, locals, status>>
  OBVIOUS
<1>3. TypeOK'
  BY <1>1, <1>2 DEF TypeOK, queues, memory, locals
<1>4. RequestsInOnePlace'
  BY <1>1, <1>2 DEF RequestsInOnePlace, Live, queues
<1>5. Building' = Building
  BY <1>2 DEF Building, InSchedule, locals
<1>6. Phases'
  BY <1>1, <1>2, <1>5 DEF Phases, queues, locals
<1>7. Names' /\ Apart' /\ InStep' /\ Blocks'
  BY <1>2, <1>5, BatchesKept DEF Handled, locals
<1> QED BY <1>3, <1>4, <1>6, <1>7 DEF SchedInv

-----------------------------------------------------------------------------
(* A request enters the batch.                                             *)

LEMMA NumTokensType ==
    ASSUME TypeOK, NEW r \in Request
    PROVE  num_tokens(r) \in Nat \ {0}
BY SchedulerAssumption DEF TypeOK, num_tokens

LEMMA ScheduledType ==
    ASSUME TypeOK, NEW r \in Request, NEW n \in Nat \ {0}
    PROVE  /\ IsBatch(Scheduled(r, n))
           /\ DOMAIN Scheduled(r, n) = DOMAIN num_scheduled_tokens \cup {r}
           /\ Scheduled(r, n)[r] = n
           /\ \A q \in DOMAIN num_scheduled_tokens : q # r =>
                  Scheduled(r, n)[q] = num_scheduled_tokens[q]
BY DEF TypeOK, IsBatch, Scheduled

(* What a step leaves to the batches that schedules n tokens of r, which   *)
(* was in no batch and goes on with c computed tokens.                     *)
LEMMA BatchesGrow ==
    ASSUME SchedInv, InSchedule, InSchedule',
           NEW r \in Request, NEW n \in Nat \ {0}, NEW c \in Nat,
           r \notin Building, \A i : ~InFlight(r, i),
           c + n = num_tokens(r),
           num_scheduled_tokens' = Scheduled(r, n),
           scheduled_req_ids' = scheduled_req_ids \cup {r},
           num_computed_tokens' = [num_computed_tokens EXCEPT ![r] = c],
           CanAllocate(r, c, n), Allocate(r, c, n),
           status'[r] = "running",
           \A q \in Request : q # r => status'[q] = status[q],
           UNCHANGED <<in_flight, num_output_tokens>>
    PROVE  /\ Names' /\ Apart' /\ InStep' /\ Blocks'
           /\ Building' = Building \cup {r}
           /\ held' \in [Request -> SUBSET Block] /\ free_blocks' \in SUBSET Block
<1>1. TypeOK /\ Names /\ Apart /\ InStep /\ Blocks
  BY DEF SchedInv
<1>2. /\ Building = DOMAIN num_scheduled_tokens /\ Building' = Building \cup {r}
      /\ num_scheduled_tokens'[r] = n
      /\ \A q \in Building : num_scheduled_tokens'[q] = num_scheduled_tokens[q]
  BY <1>1, ScheduledType DEF Building
<1>3. Tokens(r)' = n /\ \A q : q # r => Tokens(q)' = Tokens(q)
  BY <1>2 DEF Tokens
<1>4. /\ \A q, i : InFlight(q, i)' <=> InFlight(q, i)
      /\ \A q, i : ~Handled(q, i) /\ ~Handled(q, i)'
  BY DEF InFlight, Handled, InSchedule
<1>5. /\ \A q \in Request : q # r => held'[q] = held[q]
      /\ held' \in [Request -> SUBSET Block] /\ free_blocks' \in SUBSET Block
      /\ c + n <= Cardinality(held'[r]) * BlockSize
  BY <1>1, AllocateGives
<1>6. Blocks'
  <2>1. PICK new \in SUBSET free_blocks :
            /\ held' = [held EXCEPT ![r] = @ \cup new]
            /\ free_blocks' = free_blocks \ new
    BY <1>1, AllocateGives
  <2> QED BY <1>1, <2>1, AllocateKeeps
<1>7. Names'
  <2>1. scheduled_req_ids' =
            {q \in Request : /\ status'[q] = "running"
                             /\ \/ q \in Building'
                                \/ \E i : InFlight(q, i)' /\ ~Handled(q, i)'}
    BY <1>1, <1>2, <1>4 DEF Names
  <2>2. \A q \in scheduled_req_ids' : \A i, j :
            InFlight(q, i)' /\ InFlight(q, j)' => i = j
    BY <1>1, <1>4 DEF Names
  <2>3. \A q \in Building' : \A i : ~InFlight(q, i)'
    BY <1>1, <1>2, <1>4 DEF Names
  <2> QED BY <2>1, <2>2, <2>3 DEF Names
<1>8. Apart'
  BY <1>1, <1>2, <1>4 DEF Apart
<1>9. InStep'
  <2> SUFFICES ASSUME NEW q \in Request, status'[q] = "running"
               PROVE  /\ num_computed_tokens'[q] + Tokens(q)'
                             + (IF q \in scheduled_req_ids' THEN 0 ELSE 1) = num_tokens(q)'
                      /\ num_computed_tokens'[q] + Tokens(q)'
                             <= Cardinality(held'[q]) * BlockSize
    BY DEF InStep
  <2>1. num_tokens(q)' = num_tokens(q) /\ num_computed_tokens \in [Request -> Nat]
    BY <1>1 DEF num_tokens, TypeOK
  <2>2. CASE q = r
    BY <2>1, <2>2, <1>3, <1>5
  <2>3. CASE q # r
    <3>1. num_computed_tokens'[q] = num_computed_tokens[q] /\ Tokens(q)' = Tokens(q)
          /\ held'[q] = held[q] /\ status[q] = "running"
          /\ (q \in scheduled_req_ids' <=> q \in scheduled_req_ids)
      BY <2>1, <2>3, <1>3, <1>5
    <3> QED BY <3>1, <2>1, <1>1 DEF InStep
  <2> QED BY <2>2, <2>3
<1> QED BY <1>2, <1>5, <1>6, <1>7, <1>8, <1>9

LEMMA AdmitHeadStep == SchedInv /\ AdmitHead => SchedInv'
<1> SUFFICES ASSUME SchedInv, AdmitHead PROVE SchedInv'
  OBVIOUS
<1> USE DEF AdmitHead
<1>1. TypeOK /\ Phases /\ RequestsInOnePlace /\ Names /\ Apart
  BY DEF SchedInv
<1> DEFINE r == Head(waiting)
           n == num_tokens(r)
<1>2. /\ pc = "prefill" /\ waiting # <<>> /\ waiting \in Seq(Request)
      /\ running \in Seq(Request) /\ token_budget \in Nat
      /\ status \in [Request -> Status] /\ num_computed_tokens \in [Request -> Nat]
      /\ running' = Append(running, r) /\ waiting' = Tail(waiting)
      /\ token_budget' = token_budget - n
      /\ status' = [status EXCEPT ![r] = "running"]
      /\ num_computed_tokens' = [num_computed_tokens EXCEPT ![r] = 0]
      /\ scheduled_req_ids' = scheduled_req_ids \cup {r}
      /\ num_scheduled_tokens' = Scheduled(r, n)
      /\ CanAllocate(r, 0, n) /\ Allocate(r, 0, n)
      /\ UNCHANGED <<skipped, new_running, num_output_tokens, req_index,
                     finished_req_ids, in_flight, pc>>
  BY <1>1 DEF HeadFits, MorePrefills, TypeOK
<1>3. /\ r \in Request /\ r \in Range(waiting)
      /\ waiting' \in Seq(Request) /\ IsInjective(waiting')
      /\ Range(waiting') = Range(waiting) \ {r}
  BY <1>1, <1>2, TailKeeps DEF RequestsInOnePlace
<1>4. n \in Nat \ {0} /\ n <= token_budget
  <2>1. n \in Nat \ {0}
    BY <1>1, <1>3, NumTokensType
  <2>2. Cardinality(Block) \in Nat
    BY Limits, FS_CardinalityType
  <2>3. Cardinality(Block) * BlockSize \in Nat
    BY <2>2, Limits
  <2>4. n <= Smaller(prompt_limit, token_budget)
    BY DEF HeadFits
  <2>5. prompt_limit \in Nat
    BY <2>3, Limits DEF prompt_limit, Smaller
  <2> QED BY <2>1, <2>4, <2>5, <1>2 DEF Smaller
<1> HIDE DEF n
<1>5. status[r] \in Waiting
  BY <1>1, <1>3 DEF RequestsInOnePlace
<1>6. r \notin Building /\ \A i : ~InFlight(r, i)
  BY <1>1, <1>3, <1>5 DEF Apart, Waiting
<1> HIDE DEF r
<1>7. /\ status' \in [Request -> Status] /\ status'[r] = "running"
      /\ \A q \in Request : q # r => status'[q] = status[q]
  BY <1>2, <1>3 DEF Status
<1>8. /\ Names' /\ Apart' /\ InStep' /\ Blocks'
      /\ Building' = Building \cup {r}
      /\ held' \in [Request -> SUBSET Block] /\ free_blocks' \in SUBSET Block
  <2>1. InSchedule /\ InSchedule'
    BY <1>2 DEF InSchedule
  <2>2. 0 + n = num_tokens(r) /\ 0 \in Nat
    BY <1>4 DEF n
  <2> QED BY <2>1, <2>2, <1>2, <1>3, <1>4, <1>6, <1>7, BatchesGrow
<1>9. r \notin Range(running) /\ Live = running /\ Live' = running'
  BY <1>1, <1>2, <1>5 DEF RequestsInOnePlace, Live, Waiting
<1>10. /\ running' \in Seq(Request) /\ IsInjective(running')
       /\ Range(running') = Range(running) \cup {r}
  BY <1>1, <1>2, <1>3, <1>9, AppendKeeps DEF RequestsInOnePlace
<1>11. TypeOK'
  <2>1. IsBatch(num_scheduled_tokens')
    <3>1. IsBatch(Scheduled(r, n))
      BY <1>1, <1>3, <1>4, ScheduledType
    <3>2. num_scheduled_tokens' = Scheduled(r, n)
      BY <1>2
    <3> QED BY <3>1, <3>2
  <2>2. num_computed_tokens' \in [Request -> Nat] /\ token_budget' \in Nat
    BY <1>2, <1>4
  <2> QED BY <1>1, <1>2, <1>3, <1>7, <1>8, <1>10, <2>1, <2>2 DEF TypeOK
<1>12. RequestsInOnePlace'
  <2>1. Range(waiting') \cup Range(skipped) = {q \in Request : status'[q] \in Waiting}
    BY <1>1, <1>3, <1>5, <1>7 DEF RequestsInOnePlace, Waiting
  <2>2. Range(running') = {q \in Request : status'[q] = "running"}
    BY <1>1, <1>3, <1>5, <1>7, <1>9, <1>10 DEF RequestsInOnePlace
  <2> QED BY <1>1, <1>2, <1>3, <1>9, <1>10, <2>1, <2>2 DEF RequestsInOnePlace
<1>13. Phases'
  <2>1. Len(running') <= MaxRunning
    <3>1. Len(running) # MaxRunning /\ Len(running) <= MaxRunning /\ Len(running) \in Nat
      BY <1>1, <1>2, LenProperties DEF Phases, HeadFits, MorePrefills
    <3>2. Len(running') = Len(running) + 1
      BY <1>2, <1>3, AppendProperties
    <3> QED BY <3>1, <3>2, Limits
  <2>2. \A q \in Building' : status'[q] = "running"
    <3>1. Building \subseteq Request
      BY <1>1 DEF Building, TypeOK, IsBatch
    <3> QED BY <3>1, <1>1, <1>7, <1>8 DEF Phases
  <2> QED BY <1>1, <1>2, <2>1, <2>2 DEF Phases
<1> QED BY <1>8, <1>11, <1>12, <1>13 DEF SchedInv

LEMMA DecodeNextStep == SchedInv /\ DecodeNext => SchedInv'
<1> SUFFICES ASSUME SchedInv, DecodeNext PROVE SchedInv'
  OBVIOUS
<1> USE DEF DecodeNext
<1>1. TypeOK /\ Phases /\ RequestsInOnePlace /\ Names /\ InStep
  BY DEF SchedInv
<1> DEFINE r == running[req_index]
           c == num_computed_tokens[r]
<1>2. /\ pc = "decode" /\ Live = running /\ running \in Seq(Request)
      /\ req_index \in Nat /\ req_index \in 1 .. Len(running)
      /\ token_budget \in Nat /\ token_budget > 0
      /\ num_computed_tokens \in [Request -> Nat]
      /\ CanAllocate(r, c, 1) /\ Allocate(r, c, 1)
      /\ scheduled_req_ids' = scheduled_req_ids \cup {r}
      /\ num_scheduled_tokens' = Scheduled(r, 1)
      /\ UNCHANGED <<queues, num_computed_tokens, status, num_output_tokens,
                     finished_req_ids, in_flight, pc>>
  BY <1>1 DEF TypeOK, Phases, MoreDecodes, Live
<1>3. /\ DOMAIN running = 1 .. Len(running) /\ Len(running) \in Nat
      /\ r \in Range(running) /\ r \in Request
  BY <1>2, LenProperties, ElementOfSeq DEF Range
<1>4. status[r] = "running"
  BY <1>1, <1>2, <1>3 DEF RequestsInOnePlace
<1>5. r \notin scheduled_req_ids
  BY <1>1, <1>2, <1>3 DEF RequestsInOnePlace, IsInjective, Phases
<1>6. r \notin Building /\ \A i : ~InFlight(r, i)
  BY <1>1, <1>2, <1>3, <1>4, <1>5 DEF Names, Handled
<1>7. c \in Nat /\ c + 1 = num_tokens(r)
  BY <1>1, <1>2, <1>3, <1>4, <1>5, <1>6 DEF InStep, Tokens
<1> HIDE DEF r, c
<1>8. num_computed_tokens' = [num_computed_tokens EXCEPT ![r] = c]
  BY <1>2, <1>3 DEF c
<1>9. /\ Names' /\ Apart' /\ InStep' /\ Blocks'
      /\ Building' = Building \cup {r}
      /\ held' \in [Request -> SUBSET Block] /\ free_blocks' \in SUBSET Block
  <2>1. InSchedule /\ InSchedule' /\ 1 \in Nat \ {0}
    BY <1>2 DEF InSchedule
  <2> QED BY <2>1, <1>2, <1>3, <1>4, <1>6, <1>7, <1>8, BatchesGrow
<1>10. DOMAIN num_scheduled_tokens' = DOMAIN num_scheduled_tokens \cup {r}
       /\ IsBatch(num_scheduled_tokens')
  <2>1. IsBatch(Scheduled(r, 1)) /\ DOMAIN Scheduled(r, 1) = DOMAIN num_scheduled_tokens \cup {r}
    <3>1. 1 \in Nat \ {0}
      OBVIOUS
    <3> QED BY <3>1, <1>1, <1>3, ScheduledType
  <2>2. num_scheduled_tokens' = Scheduled(r, 1)
    BY <1>2
  <2> QED BY <2>1, <2>2
<1>11. TypeOK'
  <2>1. token_budget' \in Nat /\ req_index' \in Nat
    BY <1>2
  <2>2. scheduled_req_ids' \in SUBSET Request
    BY <1>1, <1>2, <1>3 DEF TypeOK
  <2> QED BY <1>1, <1>2, <1>9, <1>10, <2>1, <2>2 DEF TypeOK, queues
<1>12. RequestsInOnePlace'
  BY <1>1, <1>2 DEF RequestsInOnePlace, Live, queues
<1>13. Phases'
  <2>1. req_index' \in 1 .. Len(running) + 1 /\ req_index' - 1 = req_index
    BY <1>2, <1>3
  <2>2. {running[i] : i \in 1 .. req_index} = {running[i] : i \in 1 .. req_index - 1} \cup {r}
    <3>1. \A i : i \in 1 .. req_index <=> i \in 1 .. req_index - 1 \/ i = req_index
      BY <1>2
    <3> QED BY <3>1 DEF r
  <2>3. \A q \in Building' : status'[q] = "running"
    BY <1>1, <1>2, <1>4, <1>9 DEF Phases
  <2>4. scheduled_req_ids' = DOMAIN num_scheduled_tokens'
    BY <1>1, <1>2, <1>10 DEF Phases
  <2>5. scheduled_req_ids' = {running'[i] : i \in 1 .. req_index' - 1}
    <3>1. scheduled_req_ids' = {running[i] : i \in 1 .. req_index}
      BY <1>1, <1>2, <2>2 DEF Phases
    <3> QED BY <3>1, <2>1, <1>2 DEF queues
  <2> QED BY <1>1, <1>2, <2>1, <2>3, <2>4, <2>5 DEF Phases, queues
<1> QED BY <1>9, <1>11, <1>12, <1>13 DEF SchedInv

(* What a step leaves to the batches that takes r out of them: r neither   *)
(* runs nor waits any more, or waits without being in a batch.             *)
LEMMA BatchesShrink ==
    ASSUME SchedInv, NEW r \in Request, Free(r),
           status' \in [Request -> Status], status'[r] # "running",
           \A q \in Request : q # r => status'[q] = status[q],
           status'[r] \in Fresh => r \notin Building /\ \A i : ~InFlight(r, i),
           r \notin Building \/ status[r] # "running",
           scheduled_req_ids' = scheduled_req_ids \ {r},
           \A q \in Request : q # r => num_computed_tokens'[q] = num_computed_tokens[q],
           \A q \in Request : q # r => num_output_tokens'[q] = num_output_tokens[q],
           Building' = Building, UNCHANGED <<in_flight, num_scheduled_tokens>>,
           \A q, i : q # r => (Handled(q, i)' <=> Handled(q, i))
    PROVE  /\ Names' /\ Apart' /\ InStep' /\ Blocks'
           /\ held' \in [Request -> SUBSET Block] /\ free_blocks' \in SUBSET Block
<1>1. TypeOK /\ Names /\ Apart /\ InStep /\ Blocks
  BY DEF SchedInv
<1>2. \A q, i : InFlight(q, i)' <=> InFlight(q, i)
  BY DEF InFlight
<1>3. \A q : Tokens(q)' = Tokens(q)
  BY DEF Tokens
<1>4. /\ Blocks' /\ \A q \in Request : q # r => held'[q] = held[q]
      /\ held' \in [Request -> SUBSET Block] /\ free_blocks' \in SUBSET Block
  BY <1>1, FreeKeeps
<1>5. Names'
  <2>1. scheduled_req_ids' =
            {q \in Request : /\ status'[q] = "running"
                             /\ \/ q \in Building'
                                \/ \E i : InFlight(q, i)' /\ ~Handled(q, i)'}
    BY <1>1, <1>2 DEF Names
  <2>2. \A q \in scheduled_req_ids' : \A i, j :
            InFlight(q, i)' /\ InFlight(q, j)' => i = j
    BY <1>1, <1>2 DEF Names
  <2>3. \A q \in Building' : \A i : ~InFlight(q, i)'
    BY <1>1, <1>2 DEF Names
  <2> QED BY <2>1, <2>2, <2>3 DEF Names
<1>6. Apart'
  BY <1>1, <1>2 DEF Apart, Fresh
<1>7. InStep'
  <2> SUFFICES ASSUME NEW q \in Request, status'[q] = "running"
               PROVE  /\ num_computed_tokens'[q] + Tokens(q)'
                             + (IF q \in scheduled_req_ids' THEN 0 ELSE 1) = num_tokens(q)'
                      /\ num_computed_tokens'[q] + Tokens(q)'
                             <= Cardinality(held'[q]) * BlockSize
    BY DEF InStep
  <2>1. /\ q # r /\ status[q] = "running" /\ num_tokens(q)' = num_tokens(q)
        /\ num_computed_tokens'[q] = num_computed_tokens[q] /\ held'[q] = held[q]
        /\ (q \in scheduled_req_ids' <=> q \in scheduled_req_ids)
    BY <1>4 DEF num_tokens
  <2> QED BY <2>1, <1>1, <1>3 DEF InStep
<1> QED BY <1>4, <1>5, <1>6, <1>7

LEMMA PreemptLastStep == SchedInv /\ PreemptLast => SchedInv'
<1> SUFFICES ASSUME SchedInv, PreemptLast PROVE SchedInv'
  OBVIOUS
<1>1. TypeOK /\ Phases /\ RequestsInOnePlace /\ Names
  BY DEF SchedInv
<1> DEFINE n == Len(running)
           r == running[n]
<1>2. /\ pc = "decode" /\ Live = running /\ running \in Seq(Request)
      /\ waiting \in Seq(Request) /\ status \in [Request -> Status]
      /\ num_computed_tokens \in [Request -> Nat]
      /\ req_index \in Nat /\ req_index \in 1 .. n
      /\ Free(r) /\ status' = [status EXCEPT ![r] = "preempted"]
      /\ num_computed_tokens' = [num_computed_tokens EXCEPT ![r] = 0]
      /\ waiting' = <<r>> \o waiting
      /\ running' = SubSeq(running, 1, n - 1)
      /\ pc' = IF r = running[req_index] THEN "output" ELSE pc
      /\ UNCHANGED <<skipped, new_running, locals, num_output_tokens,
                     scheduled_req_ids, finished_req_ids, in_flight>>
  BY <1>1 DEF PreemptLast, Preempt, TypeOK, Phases, MoreDecodes, Live
<1>3. /\ DOMAIN running = 1 .. n /\ n \in Nat /\ n >= 1 /\ n \in 1 .. n
      /\ r \in Range(running) /\ r \in Request
  <2>1. n \in Nat /\ DOMAIN running = 1 .. n
    BY <1>2, LenProperties
  <2>2. n >= 1 /\ n \in 1 .. n
    BY <1>2, <2>1
  <2> QED BY <1>2, <2>1, <2>2, ElementOfSeq DEF Range
<1>4. status[r] = "running"
  BY <1>1, <1>2, <1>3 DEF RequestsInOnePlace
<1>4a. n = Len(running)
  OBVIOUS
<1> HIDE DEF n
<1>4b. IsInjective(running)
  BY <1>1, <1>2 DEF RequestsInOnePlace
<1>4c. \A i \in 1 .. n - 1 : i \in 1 .. n /\ i # n /\ running[i] # r
  <2> TAKE i \in 1 .. n - 1
  <2>1. i \in 1 .. n /\ i # n
    BY <1>3
  <2> QED BY <2>1, <1>3, <1>4b DEF IsInjective
<1>5. r \notin scheduled_req_ids
  <2>1. \A i \in 1 .. req_index - 1 : i \in 1 .. n - 1
    BY <1>2, <1>3
  <2>2. scheduled_req_ids = {running[i] : i \in 1 .. req_index - 1}
    BY <1>1, <1>2 DEF Phases
  <2> QED BY <2>1, <2>2, <1>4c
<1>6. r \notin Building /\ \A i : ~InFlight(r, i)
  BY <1>1, <1>2, <1>3, <1>4, <1>5 DEF Names, Handled
<1>7. pc' = "decode" => req_index \in 1 .. n - 1
  BY <1>2, <1>3
<1> HIDE DEF r
<1>8. /\ status' \in [Request -> Status] /\ status'[r] = "preempted"
      /\ \A q \in Request : q # r => status'[q] = status[q]
  BY <1>2, <1>3 DEF Status
<1>9. InSchedule /\ InSchedule' /\ Building' = Building
  BY <1>2 DEF InSchedule, Building, locals
<1>10. /\ Names' /\ Apart' /\ InStep' /\ Blocks'
       /\ held' \in [Request -> SUBSET Block] /\ free_blocks' \in SUBSET Block
  <2>1. scheduled_req_ids' = scheduled_req_ids \ {r}
    BY <1>2, <1>5
  <2>2. \A q \in Request : q # r => num_computed_tokens'[q] = num_computed_tokens[q]
    BY <1>2
  <2>3. \A q, i : ~Handled(q, i) /\ ~Handled(q, i)'
    BY <1>2 DEF Handled
  <2> QED BY <1>2, <1>3, <1>6, <1>8, <1>9, <2>1, <2>2, <2>3, BatchesShrink DEF locals
<1>11. /\ running' \in Seq(Request) /\ IsInjective(running')
       /\ Range(running') = Range(running) \ {r} /\ Len(running') = n - 1
  <2>1. 1 \in 1 .. n + 1 /\ n - 1 \in 0 .. n
    BY <1>3
  <2>2. /\ running' \in Seq(Request) /\ IsInjective(running')
        /\ Range(running') = {running[i] : i \in 1 .. n - 1}
    <3>1. /\ running \in Seq(Request) /\ 1 \in 1 .. Len(running) + 1
          /\ n - 1 \in 0 .. Len(running)
      BY <1>2, <1>4a, <2>1
    <3>2. /\ SubSeq(running, 1, n - 1) \in Seq(Request) /\ IsInjective(SubSeq(running, 1, n - 1))
          /\ Range(SubSeq(running, 1, n - 1)) = {running[i] : i \in 1 .. n - 1}
      BY <3>1, <1>4b, SubSeqKeeps
    <3>3. running' = SubSeq(running, 1, n - 1)
      BY <1>2
    <3> QED BY <3>2, <3>3
  <2>3. {running[i] : i \in 1 .. n - 1} = Range(running) \ {r}
    <3>1. Range(running) = {running[i] : i \in 1 .. n}
      BY <1>3 DEF Range
    <3>2. \A i : i \in 1 .. n <=> i \in 1 .. n - 1 \/ i = n
      BY <1>3
    <3>3. r = running[n]
      BY DEF r
    <3> QED BY <3>1, <3>2, <3>3, <1>3, <1>4c
  <2>4. Len(running') = n - 1
    <3>1. \A i \in 1 .. n : running[i] \in Request
      BY <1>2, <1>4a, ElementOfSeq
    <3>2. Len(running') = IF 1 <= n - 1 THEN n - 1 - 1 + 1 ELSE 0
      BY <3>1, <1>2, <1>3, SubSeqProperties
    <3> QED BY <3>2, <1>3
  <2> QED BY <2>2, <2>3, <2>4
<1>12. r \notin Range(waiting) /\ r \notin Range(skipped)
  BY <1>1, <1>3, <1>4 DEF RequestsInOnePlace, Waiting
<1>13. /\ waiting' \in Seq(Request) /\ IsInjective(waiting')
       /\ Range(waiting') = Range(waiting) \cup {r}
  <2> DEFINE one == <<r>>
  <2>1. one \in Seq(Request) /\ IsInjective(one) /\ Range(one) = {r}
    BY <1>3 DEF IsInjective, Range
  <2> HIDE DEF one
  <2>2. IsInjective(waiting) /\ Range(one) \cap Range(waiting) = {}
    BY <1>1, <1>12, <2>1 DEF RequestsInOnePlace
  <2>3. /\ one \o waiting \in Seq(Request) /\ IsInjective(one \o waiting)
        /\ Range(one \o waiting) = Range(one) \cup Range(waiting)
    BY <1>2, <2>1, <2>2, ConcatKeeps
  <2> QED BY <2>1, <2>3, <1>2 DEF one
<1>14. TypeOK'
  <2>1. num_computed_tokens' \in [Request -> Nat]
    <3>1. /\ num_computed_tokens \in [Request -> Nat]
          /\ num_computed_tokens' = [num_computed_tokens EXCEPT ![r] = 0]
      BY <1>2
    <3> QED BY <3>1
  <2>2. pc' \in {"decode", "output"}
    BY <1>2
  <2>3. UNCHANGED <<skipped, new_running, num_output_tokens, scheduled_req_ids, in_flight,
                    finished_req_ids, token_budget, req_index, num_scheduled_tokens>>
    BY <1>2 DEF locals
  <2>4. {waiting', skipped', running', new_running'} \subseteq Seq(Request)
    BY <1>1, <1>11, <1>13, <2>3 DEF TypeOK
  <2> QED BY <1>1, <1>8, <1>10, <2>1, <2>2, <2>3, <2>4 DEF TypeOK
<1>15. RequestsInOnePlace'
  <2>1. Live' = running'
    BY <1>2 DEF Live
  <2>2. Range(waiting') \cup Range(skipped) = {q \in Request : status'[q] \in Waiting}
    BY <1>1, <1>3, <1>8, <1>13 DEF RequestsInOnePlace, Waiting
  <2>3. Range(running') = {q \in Request : status'[q] = "running"}
    BY <1>1, <1>2, <1>8, <1>11 DEF RequestsInOnePlace
  <2>4. Range(waiting') \cap Range(skipped) = {}
    BY <1>1, <1>12, <1>13 DEF RequestsInOnePlace
  <2> QED BY <1>1, <1>2, <1>11, <1>13, <2>1, <2>2, <2>3, <2>4 DEF RequestsInOnePlace
<1>16. Phases'
  <2>1. Len(running') <= MaxRunning
    BY <1>1, <1>3, <1>11, <1>4a, Limits DEF Phases
  <2>2. \A q \in Building' : status'[q] = "running"
    <3>1. Building \subseteq Request
      BY <1>1 DEF Building, TypeOK, IsBatch
    <3> QED BY <3>1, <1>1, <1>6, <1>8, <1>9 DEF Phases
  <2>3. pc' = "decode" => req_index \in 1 .. Len(running') + 1
    BY <1>3, <1>7, <1>11
  <2>4. pc' = "decode" =>
            {running'[i] : i \in 1 .. req_index - 1} = {running[i] : i \in 1 .. req_index - 1}
    <3> SUFFICES ASSUME pc' = "decode"
                 PROVE  \A i \in 1 .. req_index - 1 : running'[i] = running[i]
      OBVIOUS
    <3>1. \A i \in 1 .. n : running[i] \in Request
      BY <1>2, <1>4a, ElementOfSeq
    <3>2. \A i \in 1 .. n - 1 - 1 + 1 : running'[i] = running[1 + i - 1]
      BY <3>1, <1>2, <1>3, SubSeqProperties
    <3> QED BY <3>2, <1>3, <1>7
  <2> QED BY <1>1, <1>2, <2>1, <2>2, <2>3, <2>4 DEF Phases, locals
<1> QED BY <1>10, <1>14, <1>15, <1>16 DEF SchedInv

-----------------------------------------------------------------------------
(* Batches begin and end.                                                  *)

(* Another batch is in flight.                                             *)
LEMMA AnotherBatch ==
    ASSUME NEW s, NEW b, s \in Seq(Range(s))
    PROVE  /\ Append(s, b) \in Seq(Range(Append(s, b)))
           /\ Range(Append(s, b)) = Range(s) \cup {b}
           /\ Append(s, b) # <<>>
           /\ Len(s) \in Nat /\ DOMAIN s = 1 .. Len(s)
           /\ DOMAIN Append(s, b) = DOMAIN s \cup {Len(s) + 1}
           /\ \A i \in DOMAIN s : Append(s, b)[i] = s[i]
           /\ Append(s, b)[Len(s) + 1] = b
<1> DEFINE S == Range(s) \cup {b}
<1>1. s \in Seq(S) /\ b \in S
  BY SeqMonotonic
<1> HIDE DEF S
<1>2. /\ Append(s, b) \in Seq(S) /\ Append(s, b) # <<>>
      /\ Len(Append(s, b)) = Len(s) + 1
      /\ \A i \in 1 .. Len(s) : Append(s, b)[i] = s[i]
      /\ Append(s, b)[Len(s) + 1] = b
  BY <1>1, AppendProperties
<1>3. /\ Len(s) \in Nat /\ DOMAIN s = 1 .. Len(s)
      /\ DOMAIN Append(s, b) = 1 .. Len(s) + 1
  BY <1>1, <1>2, LenProperties
<1>4. 1 .. Len(s) + 1 = (1 .. Len(s)) \cup {Len(s) + 1}
  BY <1>3
<1>5. Range(Append(s, b)) = Range(s) \cup {b}
  BY <1>2, <1>3, <1>4 DEF Range
<1>6. Append(s, b) \in Seq(Range(Append(s, b)))
  BY <1>2, SeqOfRange
<1> QED BY <1>2, <1>3, <1>4, <1>5, <1>6

LEMMA EndScheduleStep == SchedInv /\ EndSchedule => SchedInv'
<1> SUFFICES ASSUME SchedInv, EndSchedule PROVE SchedInv'
  OBVIOUS
<1>1. TypeOK /\ Phases /\ RequestsInOnePlace /\ Names /\ Apart /\ InStep /\ Blocks
  BY DEF SchedInv
<1>2. /\ pc = "output" /\ pc' \in {"await", "idle"}
      /\ pc' = "await" => in_flight' # <<>>
      /\ num_computed_tokens' =
             [r \in Request |-> num_computed_tokens[r]
                  + IF r \in DOMAIN num_scheduled_tokens THEN num_scheduled_tokens[r] ELSE 0]
      /\ in_flight' = IF num_scheduled_tokens = EmptyBatch THEN in_flight
                      ELSE Append(in_flight, num_scheduled_tokens)
      /\ finished_req_ids' = {}
      /\ UNCHANGED <<queues, held, free_blocks, locals, status,
                     num_output_tokens, scheduled_req_ids>>
  BY DEF EndSchedule
<1>3. /\ in_flight \in Seq(Range(in_flight)) /\ \A b \in Range(in_flight) : IsBatch(b)
      /\ IsBatch(num_scheduled_tokens) /\ num_computed_tokens \in [Request -> Nat]
  BY <1>1 DEF TypeOK
<1>4. InSchedule /\ Building = DOMAIN num_scheduled_tokens /\ Building' = {}
  BY <1>2 DEF InSchedule, Building
<1>5. \A q, i : ~Handled(q, i) /\ ~Handled(q, i)'
  BY <1>2 DEF Handled
<1>6. /\ in_flight' \in Seq(Range(in_flight')) /\ \A b \in Range(in_flight') : IsBatch(b)
      /\ Len(in_flight) + 1 \notin DOMAIN in_flight
      /\ \A q, i : InFlight(q, i)' <=>
             InFlight(q, i) \/ (i = Len(in_flight) + 1 /\ q \in Building)
  <2>1. /\ Len(in_flight) \in Nat /\ DOMAIN in_flight = 1 .. Len(in_flight)
        /\ Len(in_flight) + 1 \notin DOMAIN in_flight
    BY <1>3, LenProperties
  <2>2. CASE num_scheduled_tokens = EmptyBatch
    <3>1. in_flight' = in_flight /\ Building = {}
      BY <2>2, <1>2, <1>4 DEF EmptyBatch
    <3> QED BY <3>1, <2>1, <1>3 DEF InFlight
  <2>3. CASE num_scheduled_tokens # EmptyBatch
    <3>1. in_flight' = Append(in_flight, num_scheduled_tokens)
      BY <2>3, <1>2
    <3>2. /\ in_flight' \in Seq(Range(in_flight'))
          /\ Range(in_flight') = Range(in_flight) \cup {num_scheduled_tokens}
          /\ DOMAIN in_flight' = DOMAIN in_flight \cup {Len(in_flight) + 1}
          /\ \A i \in DOMAIN in_flight : in_flight'[i] = in_flight[i]
          /\ in_flight'[Len(in_flight) + 1] = num_scheduled_tokens
      BY <3>1, <1>3, AnotherBatch
    <3> QED BY <3>2, <2>1, <1>3, <1>4 DEF InFlight
  <2> QED BY <2>2, <2>3
<1>7. \A q \in Request : num_computed_tokens'[q] = num_computed_tokens[q] + Tokens(q)
  BY <1>2, <1>4 DEF Tokens
<1>8. \A q \in Request : Tokens(q) \in Nat
  BY <1>3, <1>4 DEF Tokens, IsBatch
<1>9. num_computed_tokens' \in [Request -> Nat]
  <2>1. \A q \in Request : num_computed_tokens'[q] \in Nat
    BY <1>3, <1>7, <1>8
  <2>2. num_computed_tokens' = [q \in Request |-> num_computed_tokens'[q]]
    BY <1>2
  <2> QED BY <2>1, <2>2
<1>10. TypeOK'
  BY <1>1, <1>2, <1>6, <1>9 DEF TypeOK, queues, locals
<1>11. RequestsInOnePlace'
  <2>1. Live' = Live
    BY <1>2 DEF Live, queues
  <2> QED BY <2>1, <1>1, <1>2 DEF RequestsInOnePlace, queues
<1>12. Phases'
  BY <1>1, <1>2, <1>4 DEF Phases, queues
<1>13. Names'
  <2>1. scheduled_req_ids' =
            {q \in Request : /\ status'[q] = "running"
                             /\ \/ q \in Building'
                                \/ \E i : InFlight(q, i)' /\ ~Handled(q, i)'}
    BY <1>1, <1>2, <1>4, <1>5, <1>6 DEF Names
  <2>2. ASSUME NEW q \in scheduled_req_ids', NEW i, NEW j,
               InFlight(q, i)', InFlight(q, j)'
        PROVE  i = j
    <3>1. q \in scheduled_req_ids
      BY <1>2
    <3>2. CASE q \in Building
      BY <3>2, <2>2, <1>1, <1>6 DEF Names
    <3>3. CASE q \notin Building
      BY <3>1, <3>3, <2>2, <1>1, <1>6 DEF Names
    <3> QED BY <3>2, <3>3
  <2>3. \A q \in Building' : \A i : ~InFlight(q, i)'
    BY <1>4
  <2> QED BY <2>1, <2>2, <2>3 DEF Names
<1>14. Apart'
  BY <1>1, <1>2, <1>4, <1>6 DEF Apart
<1>15. InStep'
  <2> SUFFICES ASSUME NEW q \in Request, status'[q] = "running"
               PROVE  /\ num_computed_tokens'[q] + Tokens(q)'
                             + (IF q \in scheduled_req_ids' THEN 0 ELSE 1) = num_tokens(q)'
                      /\ num_computed_tokens'[q] + Tokens(q)'
                             <= Cardinality(held'[q]) * BlockSize
    BY DEF InStep
  <2>1. /\ Tokens(q)' = 0 /\ num_tokens(q)' = num_tokens(q) /\ held' = held
        /\ scheduled_req_ids' = scheduled_req_ids /\ status[q] = "running"
    BY <1>2, <1>4 DEF Tokens, num_tokens
  <2>2. /\ num_computed_tokens'[q] = num_computed_tokens[q] + Tokens(q)
        /\ num_computed_tokens'[q] \in Nat
    BY <1>7, <1>9
  <2>3. /\ num_computed_tokens[q] + Tokens(q)
               + (IF q \in scheduled_req_ids THEN 0 ELSE 1) = num_tokens(q)
        /\ num_computed_tokens[q] + Tokens(q) <= Cardinality(held[q]) * BlockSize
    BY <1>1, <2>1 DEF InStep
  <2>4. num_computed_tokens'[q] + Tokens(q)' = num_computed_tokens[q] + Tokens(q)
    BY <2>1, <2>2
  <2> QED BY <2>1, <2>3, <2>4
<1>16. Blocks'
  BY <1>1, <1>2 DEF Blocks
<1> QED BY <1>10, <1>11, <1>12, <1>13, <1>14, <1>15, <1>16 DEF SchedInv

LEMMA BeginUpdateStep == SchedInv /\ BeginUpdate => SchedInv'
<1> SUFFICES ASSUME SchedInv, BeginUpdate PROVE SchedInv'
  OBVIOUS
<1>1. TypeOK /\ Phases /\ RequestsInOnePlace
  BY DEF SchedInv
<1>2. /\ pc \in {"await", "idle"} /\ pc' = "update"
      /\ pc = "await" \/ Len(in_flight) = MaxBatches
      /\ req_index' = 1 /\ new_running' = <<>>
      /\ UNCHANGED <<waiting, running, skipped, memory, token_budget, num_scheduled_tokens,
                     status, num_output_tokens, scheduled_req_ids, finished_req_ids, in_flight>>
  BY DEF BeginUpdate
<1>3. running \in Seq(Request) /\ Len(running) \in Nat
  BY <1>1, LenProperties DEF TypeOK
<1>4. in_flight # <<>>
  <2>1. CASE pc = "await"
    BY <2>1, <1>1 DEF Phases
  <2>2. CASE Len(in_flight) = MaxBatches
    BY <2>2, Limits, EmptySeq
  <2> QED BY <2>1, <2>2, <1>2
<1>5. Building = {} /\ Building' = {}
  BY <1>2 DEF Building, InSchedule
<1>6. TypeOK'
  BY <1>1, <1>2 DEF TypeOK, memory
<1>7. RequestsInOnePlace'
  <2>1. SubSeq(running, 1, Len(running)) = running
    BY <1>3, SubSeqFull
  <2>2. <<>> \o running = running
    BY <1>3, ConcatEmptySeq
  <2>3. Live = running /\ Live' = running
    BY <1>2, <2>1, <2>2 DEF Live
  <2> QED BY <2>3, <1>1, <1>2 DEF RequestsInOnePlace
<1>8. Phases'
  <2>1. Len(<<>>) = 0 /\ 1 \in 1 .. Len(running) + 1
    BY <1>3, EmptySeq
  <2> QED BY <2>1, <1>1, <1>2, <1>4, <1>5 DEF Phases
<1>9. \A q, i : ~Handled(q, i) /\ ~Handled(q, i)'
  BY <1>2 DEF Handled, Range
<1>10. Names' /\ Apart' /\ InStep' /\ Blocks'
  BY <1>2, <1>5, <1>9, BatchesKept
<1> QED BY <1>6, <1>7, <1>8, <1>10 DEF SchedInv

(* The requests that update_from_output() has seen and has to see.         *)
LEMMA Turn ==
    ASSUME SchedInv, pc = "update", req_index <= Len(running),
           NEW r, r = running[req_index],
           NEW rest, rest = SubSeq(running, req_index + 1, Len(running))
    PROVE  /\ r \in Request /\ status[r] = "running" /\ req_index \in Nat
           /\ new_running \in Seq(Request) /\ IsInjective(new_running)
           /\ rest \in Seq(Request) /\ IsInjective(rest)
           /\ r \notin Range(new_running) /\ r \notin Range(rest)
           /\ Range(new_running) \cap Range(rest) = {}
           /\ Range(Live) = Range(new_running) \cup {r} \cup Range(rest)
           /\ req_index + 1 \in 1 .. Len(running) + 1
<1>1. /\ running \in Seq(Request) /\ new_running \in Seq(Request)
      /\ req_index \in 1 .. Len(running) + 1 /\ IsInjective(Live)
      /\ Range(Live) = {q \in Request : status[q] = "running"}
  BY DEF SchedInv, TypeOK, Phases, RequestsInOnePlace
<1>2. /\ Len(running) \in Nat /\ \A i \in 1 .. Len(running) : running[i] \in Request
      /\ req_index \in 1 .. Len(running) /\ req_index \in Nat
      /\ Len(running) \in req_index .. Len(running)
      /\ req_index + 1 \in 1 .. Len(running) + 1
  <2>1. Len(running) \in Nat /\ \A i \in 1 .. Len(running) : running[i] \in Request
    BY <1>1, LenProperties, ElementOfSeq
  <2> QED BY <1>1, <2>1
<1>3. r \in Request /\ rest \in Seq(Request)
  <2>1. \A i \in req_index + 1 .. Len(running) : i \in 1 .. Len(running)
    BY <1>2
  <2>2. req_index + 1 \in Int /\ Len(running) \in Int
    BY <1>2
  <2>3. SubSeq(running, req_index + 1, Len(running)) \in Seq(Request)
    BY <2>1, <2>2, <1>2, SubSeqProperties
  <2> QED BY <2>3, <1>2
<1> DEFINE one == <<r>>
<1>4. one \in Seq(Request) /\ IsInjective(one) /\ Range(one) = {r}
  BY <1>3 DEF IsInjective, Range
<1>5. SubSeq(running, req_index, Len(running)) = one \o rest
  BY <1>1, <1>2, SubSeqRecursiveFirst
<1> HIDE DEF one
<1>6. Live = new_running \o (one \o rest)
  BY <1>5 DEF Live
<1>7. one \o rest \in Seq(Request)
  BY <1>3, <1>4, ConcatProperties
<1>8. IsInjective(new_running) /\ IsInjective(one \o rest)
      /\ Range(new_running) \cap Range(one \o rest) = {}
  BY <1>1, <1>6, <1>7, ConcatSplits
<1>9. IsInjective(rest) /\ Range(one) \cap Range(rest) = {}
  BY <1>3, <1>4, <1>8, ConcatSplits
<1>10. Range(one \o rest) = Range(one) \cup Range(rest)
  BY <1>3, <1>4, RangeConcatenation
<1>11. Range(Live) = Range(new_running) \cup Range(one \o rest)
  <2>1. new_running \in Seq(Request)
    BY <1>1
  <2> DEFINE others == one \o rest
  <2>2. others \in Seq(Request) /\ Live = new_running \o others
    BY <1>6, <1>7
  <2> HIDE DEF others
  <2>3. Range(new_running \o others) = Range(new_running) \cup Range(others)
    BY <2>1, <2>2, RangeConcatenation
  <2> QED BY <2>2, <2>3 DEF others
<1>12. status[r] = "running"
  BY <1>1, <1>4, <1>10, <1>11
<1> QED BY <1>1, <1>2, <1>3, <1>4, <1>8, <1>9, <1>10, <1>11, <1>12

(* r goes on, so that as many requests run as before.                      *)
LEMMA TurnKeeps ==
    ASSUME SchedInv, pc = "update", pc' = "update", req_index <= Len(running),
           new_running' = Append(new_running, running[req_index]),
           req_index' = req_index + 1, UNCHANGED running
    PROVE  /\ new_running' \in Seq(Request)
           /\ Range(new_running') = Range(new_running) \cup {running[req_index]}
           /\ Len(new_running') < req_index'
           /\ req_index' \in Nat /\ req_index' \in 1 .. Len(running) + 1
           /\ IsInjective(Live') /\ Range(Live') = Range(Live)
<1> DEFINE r    == running[req_index]
           rest == SubSeq(running, req_index + 1, Len(running))
<1>1. /\ r \in Request /\ status[r] = "running" /\ req_index \in Nat
      /\ new_running \in Seq(Request) /\ IsInjective(new_running)
      /\ rest \in Seq(Request) /\ IsInjective(rest)
      /\ r \notin Range(new_running) /\ r \notin Range(rest)
      /\ Range(new_running) \cap Range(rest) = {}
      /\ Range(Live) = Range(new_running) \cup {r} \cup Range(rest)
      /\ req_index + 1 \in 1 .. Len(running) + 1
  BY Turn
<1>2. Live' = new_running' \o rest /\ new_running' = Append(new_running, r)
  BY DEF Live
<1> HIDE DEF r, rest
<1>3. /\ new_running' \in Seq(Request) /\ IsInjective(new_running')
      /\ Range(new_running') = Range(new_running) \cup {r}
  BY <1>1, <1>2, AppendKeeps
<1>4. Range(new_running') \cap Range(rest) = {}
  BY <1>1, <1>3
<1>5. /\ IsInjective(new_running' \o rest)
      /\ Range(new_running' \o rest) = Range(new_running') \cup Range(rest)
  BY <1>1, <1>3, <1>4, ConcatKeeps
<1>6. Len(new_running') < req_index'
  <2>1. Len(new_running) < req_index /\ Len(new_running) \in Nat
    BY <1>1, LenProperties DEF SchedInv, Phases
  <2>2. Len(new_running') = Len(new_running) + 1
    BY <1>1, <1>2, AppendProperties
  <2> QED BY <2>1, <2>2, <1>1
<1>7. Range(Live') = Range(Live)
  BY <1>1, <1>2, <1>3, <1>5
<1> QED BY <1>1, <1>2, <1>3, <1>5, <1>6, <1>7 DEF r

LEMMA HeadOfBatches ==
    ASSUME SchedInv, pc = "update"
    PROVE  /\ Head(in_flight) = in_flight[1] /\ 1 \in DOMAIN in_flight
           /\ Len(in_flight) \in Nat /\ Len(in_flight) >= 1
           /\ DOMAIN in_flight = 1 .. Len(in_flight)
<1>1. in_flight # <<>> /\ in_flight \in Seq(Range(in_flight))
  BY DEF SchedInv, Phases, TypeOK
<1>2. Len(in_flight) \in Nat \ {0} /\ DOMAIN in_flight = 1 .. Len(in_flight)
  BY <1>1, EmptySeq, LenProperties
<1> QED BY <1>2

LEMMA PassOverStep == SchedInv /\ PassOver => SchedInv'
<1> SUFFICES ASSUME SchedInv, PassOver PROVE SchedInv'
  OBVIOUS
<1>1. TypeOK /\ Phases /\ RequestsInOnePlace
  BY DEF SchedInv
<1>2. /\ pc = "update" /\ req_index <= Len(running)
      /\ running[req_index] \notin DOMAIN Head(in_flight)
      /\ new_running' = Append(new_running, running[req_index])
      /\ req_index' = req_index + 1
      /\ UNCHANGED <<waiting, running, skipped, memory, token_budget, num_scheduled_tokens,
                     status, num_output_tokens, scheduled_req_ids, finished_req_ids, in_flight,
                     pc>>
  BY DEF PassOver
<1>3. /\ new_running' \in Seq(Request)
      /\ Range(new_running') = Range(new_running) \cup {running[req_index]}
      /\ Len(new_running') < req_index'
      /\ req_index' \in Nat /\ req_index' \in 1 .. Len(running) + 1
      /\ IsInjective(Live') /\ Range(Live') = Range(Live)
  BY <1>2, TurnKeeps
<1>4. Building = {} /\ Building' = {}
  BY <1>2 DEF Building, InSchedule
<1>5. TypeOK'
  BY <1>1, <1>2, <1>3 DEF TypeOK, memory
<1>6. RequestsInOnePlace'
  BY <1>1, <1>2, <1>3 DEF RequestsInOnePlace
<1>7. Phases'
  BY <1>1, <1>2, <1>3, <1>4 DEF Phases
<1>8. \A q, i : InFlight(q, i) => (Handled(q, i)' <=> Handled(q, i))
  BY <1>2, <1>3, HeadOfBatches DEF Handled, InFlight
<1>9. Names' /\ Apart' /\ InStep' /\ Blocks'
  BY <1>2, <1>4, <1>8, BatchesKept
<1> QED BY <1>5, <1>6, <1>7, <1>9 DEF SchedInv

LEMMA TakeTokenStep ==
    ASSUME SchedInv, NEW ends \in BOOLEAN, TakeToken(ends)
    PROVE  SchedInv'
<1>1. TypeOK /\ Phases /\ RequestsInOnePlace /\ Names /\ Apart /\ InStep /\ Blocks
  BY DEF SchedInv
<1>0. PICK r : r = running[req_index]
  OBVIOUS
<1> DEFINE rest == SubSeq(running, req_index + 1, Len(running))
<1>2. /\ pc = "update" /\ req_index <= Len(running)
      /\ r \in DOMAIN Head(in_flight)
      /\ num_output_tokens' = [num_output_tokens EXCEPT ![r] = @ + 1]
      /\ scheduled_req_ids' = scheduled_req_ids \ {r}
      /\ ends => /\ status' = [status EXCEPT ![r] = "stopped"]
                 /\ Free(r)
                 /\ finished_req_ids' = finished_req_ids \cup {r}
                 /\ UNCHANGED new_running
      /\ ~ends => /\ new_running' = Append(new_running, r)
                  /\ UNCHANGED <<status, held, free_blocks, finished_req_ids>>
      /\ req_index' = req_index + 1
      /\ UNCHANGED <<waiting, running, skipped, num_computed_tokens, token_budget,
                     num_scheduled_tokens, in_flight, pc>>
  BY <1>0 DEF TakeToken, Forget
<1>3. /\ r \in Request /\ status[r] = "running" /\ req_index \in Nat
      /\ new_running \in Seq(Request) /\ IsInjective(new_running)
      /\ rest \in Seq(Request) /\ IsInjective(rest)
      /\ r \notin Range(new_running) /\ r \notin Range(rest)
      /\ Range(new_running) \cap Range(rest) = {}
      /\ Range(Live) = Range(new_running) \cup {r} \cup Range(rest)
      /\ req_index + 1 \in 1 .. Len(running) + 1
  BY <1>2, <1>0, Turn
<1>4. /\ Live' = new_running' \o rest
      /\ ~ends => new_running' = Append(new_running, running[req_index])
  BY <1>2, <1>0 DEF Live
<1>11. req_index' \in Nat /\ req_index' \in 1 .. Len(running) + 1
  BY <1>2, <1>3
<1> HIDE DEF rest
<1>5. InFlight(r, 1) /\ ~Handled(r, 1)
  BY <1>2, <1>3, HeadOfBatches DEF InFlight, Handled
<1>6. r \in scheduled_req_ids /\ \A i : InFlight(r, i) => i = 1
  BY <1>1, <1>3, <1>5 DEF Names
<1>7. Building = {} /\ Building' = {}
  BY <1>2 DEF Building, InSchedule
<1>8. /\ num_output_tokens' \in [Request -> Nat]
      /\ num_output_tokens'[r] = num_output_tokens[r] + 1
      /\ \A q \in Request : q # r => num_output_tokens'[q] = num_output_tokens[q]
  BY <1>1, <1>2, <1>3 DEF TypeOK
<1>9. CASE ends
  <2>1. /\ status' \in [Request -> Status] /\ status'[r] = "stopped"
        /\ \A q \in Request : q # r => status'[q] = status[q]
        /\ Free(r) /\ new_running' = new_running
    BY <1>1, <1>2, <1>3, <1>9 DEF TypeOK, Status
  <2>2. /\ IsInjective(Live') /\ Range(Live') = Range(new_running) \cup Range(rest)
    BY <1>3, <1>4, <2>1, ConcatKeeps
  <2>3. /\ Names' /\ Apart' /\ InStep' /\ Blocks'
        /\ held' \in [Request -> SUBSET Block] /\ free_blocks' \in SUBSET Block
    <3>1. \A q, i : q # r => (Handled(q, i)' <=> Handled(q, i))
      BY <1>2, <2>1 DEF Handled
    <3> QED BY <3>1, <1>2, <1>3, <1>7, <1>8, <2>1, BatchesShrink DEF Fresh
  <2>4. TypeOK'
    <3>1. finished_req_ids' \in SUBSET Request /\ scheduled_req_ids' \in SUBSET Request
      BY <1>1, <1>2, <1>3, <1>9 DEF TypeOK
    <3> QED BY <3>1, <1>1, <1>2, <1>8, <1>11, <2>1, <2>3 DEF TypeOK
  <2>5. RequestsInOnePlace'
    <3>1. Range(Live') = {q \in Request : status'[q] = "running"}
      BY <1>1, <1>3, <2>1, <2>2 DEF RequestsInOnePlace
    <3>2. {q \in Request : status'[q] \in Waiting} = {q \in Request : status[q] \in Waiting}
      BY <1>3, <2>1 DEF Waiting
    <3> QED BY <3>1, <3>2, <1>1, <1>2, <2>2 DEF RequestsInOnePlace
  <2>6. Phases'
    <3>1. Len(new_running') < req_index'
      <4>1. Len(new_running) < req_index /\ Len(new_running) \in Nat
        BY <1>1, <1>2, <1>3, LenProperties DEF Phases
      <4> QED BY <4>1, <1>2, <1>3, <2>1
    <3> QED BY <3>1, <1>1, <1>2, <1>7, <1>11 DEF Phases
  <2> QED BY <2>3, <2>4, <2>5, <2>6 DEF SchedInv
<1>10. CASE ~ends
  <2>1. /\ new_running' = Append(new_running, running[req_index])
        /\ UNCHANGED <<status, held, free_blocks, finished_req_ids>>
    BY <1>2, <1>4, <1>10
  <2>2. /\ new_running' \in Seq(Request) /\ Range(new_running') = Range(new_running) \cup {r}
        /\ Len(new_running') < req_index'
        /\ IsInjective(Live') /\ Range(Live') = Range(Live)
    BY <1>2, <1>0, <2>1, TurnKeeps
  <2>3. TypeOK'
    BY <1>1, <1>2, <1>8, <1>11, <2>1, <2>2 DEF TypeOK
  <2>4. RequestsInOnePlace'
    BY <1>1, <1>2, <2>1, <2>2 DEF RequestsInOnePlace
  <2>5. Phases'
    BY <1>1, <1>2, <1>7, <1>11, <2>2 DEF Phases
  <2>6. /\ \A q, i : InFlight(q, i)' <=> InFlight(q, i)
        /\ \A q, i : q # r => (Handled(q, i)' <=> Handled(q, i))
        /\ Handled(r, 1)'
    <3>1. pc = "update" /\ pc' = "update" /\ in_flight' = in_flight
          /\ Range(new_running') = Range(new_running) \cup {r}
      BY <1>2, <2>2
    <3>2. \A q, i : InFlight(q, i)' <=> InFlight(q, i)
      BY <3>1 DEF InFlight
    <3>3. Handled(r, 1)'
      BY <3>1 DEF Handled
    <3>4. ASSUME NEW q, NEW i, q # r PROVE Handled(q, i)' <=> Handled(q, i)
      <4>1. q \in Range(new_running') <=> q \in Range(new_running)
        BY <3>1, <3>4
      <4> QED BY <4>1, <3>1 DEF Handled
    <3> QED BY <3>2, <3>3, <3>4
  <2>7. Names'
    <3>1. scheduled_req_ids' =
              {q \in Request : /\ status'[q] = "running"
                               /\ \/ q \in Building'
                                  \/ \E i : InFlight(q, i)' /\ ~Handled(q, i)'}
      <4>2. r \notin scheduled_req_ids' /\ ~\E i : InFlight(r, i)' /\ ~Handled(r, i)'
        <5>1. \A i : InFlight(r, i)' => Handled(r, i)'
          BY <1>6, <2>6
        <5> QED BY <5>1, <1>2
      <4>3. \A q \in scheduled_req_ids' : q \in Request
        BY <1>1, <1>2 DEF Names
      <4>4. status' = status
        BY <2>1
      <4>5. ASSUME NEW q \in Request
            PROVE  q \in scheduled_req_ids' <=>
                       /\ status'[q] = "running"
                       /\ \/ q \in Building'
                          \/ \E i : InFlight(q, i)' /\ ~Handled(q, i)'
        <5>1. CASE q = r
          BY <5>1, <4>2, <1>7
        <5>2. CASE q # r
          <6>1. q \in scheduled_req_ids <=>
                    /\ status[q] = "running"
                    /\ \/ q \in Building
                       \/ \E i : InFlight(q, i) /\ ~Handled(q, i)
            BY <1>1 DEF Names
          <6>2. q \in scheduled_req_ids' <=> q \in scheduled_req_ids
            BY <5>2, <1>2
          <6>4. \A i : InFlight(q, i)' /\ ~Handled(q, i)' <=> InFlight(q, i) /\ ~Handled(q, i)
            BY <5>2, <2>6
          <6>3. q \notin Building /\ q \notin Building' /\ status'[q] = status[q]
            BY <4>4, <1>7
          <6> QED BY <6>1, <6>2, <6>3, <6>4
        <5> QED BY <5>1, <5>2
      <4> QED BY <4>3, <4>5
    <3>2. \A q \in scheduled_req_ids' : \A i, j :
              InFlight(q, i)' /\ InFlight(q, j)' => i = j
      BY <1>1, <1>2, <2>6 DEF Names
    <3> QED BY <3>1, <3>2, <1>7 DEF Names
  <2>8. Apart'
    BY <1>1, <1>7, <2>1, <2>6 DEF Apart
  <2>9. InStep'
    <3> SUFFICES ASSUME NEW q \in Request, status'[q] = "running"
                 PROVE  /\ num_computed_tokens'[q] + Tokens(q)'
                               + (IF q \in scheduled_req_ids' THEN 0 ELSE 1) = num_tokens(q)'
                        /\ num_computed_tokens'[q] + Tokens(q)'
                               <= Cardinality(held'[q]) * BlockSize
      BY DEF InStep
    <3>1. /\ Tokens(q) = 0 /\ Tokens(q)' = 0 /\ held' = held /\ status[q] = "running"
          /\ num_computed_tokens'[q] = num_computed_tokens[q] /\ num_computed_tokens[q] \in Nat
      BY <1>1, <1>2, <1>7, <2>1 DEF Tokens, TypeOK
    <3>2. /\ num_computed_tokens[q] + 0 + (IF q \in scheduled_req_ids THEN 0 ELSE 1)
                 = num_tokens(q)
          /\ num_computed_tokens[q] + 0 <= Cardinality(held[q]) * BlockSize
      BY <1>1, <3>1 DEF InStep
    <3>3. CASE q = r
      <4>1. num_tokens(q)' = num_tokens(q) + 1 /\ num_tokens(q) \in Nat
        <5>1. PromptLen[r] \in Nat /\ num_output_tokens[r] \in Nat
          BY <1>1, <1>3, SchedulerAssumption DEF TypeOK
        <5> QED BY <5>1, <1>8, <3>3 DEF num_tokens
      <4> QED BY <4>1, <3>1, <3>2, <3>3, <1>2, <1>6
    <3>4. CASE q # r
      <4>1. num_tokens(q)' = num_tokens(q)
        BY <1>8, <3>4 DEF num_tokens
      <4> QED BY <4>1, <3>1, <3>2, <3>4, <1>2
    <3> QED BY <3>3, <3>4
  <2>10. Blocks'
    BY <1>1, <2>1 DEF Blocks
  <2> QED BY <2>3, <2>4, <2>5, <2>7, <2>8, <2>9, <2>10 DEF SchedInv
<1> QED BY <1>9, <1>10

LEMMA EndUpdateStep == SchedInv /\ EndUpdate => SchedInv'
<1> SUFFICES ASSUME SchedInv, EndUpdate PROVE SchedInv'
  OBVIOUS
<1>1. TypeOK /\ Phases /\ RequestsInOnePlace /\ Names /\ Apart /\ InStep /\ Blocks
  BY DEF SchedInv
<1>2. /\ pc = "update" /\ req_index > Len(running)
      /\ running' = new_running /\ in_flight' = Tail(in_flight)
      /\ new_running' = <<>> /\ pc' = "idle"
      /\ UNCHANGED <<waiting, skipped, memory, locals, status, num_output_tokens,
                     scheduled_req_ids, finished_req_ids>>
  BY DEF EndUpdate
<1>3. /\ running \in Seq(Request) /\ new_running \in Seq(Request)
      /\ Len(running) \in Nat /\ Len(new_running) \in Nat
      /\ in_flight # <<>> /\ in_flight \in Seq(Range(in_flight))
      /\ req_index = Len(running) + 1
  <2>1. /\ running \in Seq(Request) /\ new_running \in Seq(Request)
        /\ Len(running) \in Nat /\ Len(new_running) \in Nat
    BY <1>1, LenProperties DEF TypeOK
  <2>2. in_flight # <<>> /\ in_flight \in Seq(Range(in_flight))
    BY <1>1, <1>2 DEF TypeOK, Phases
  <2>3. req_index \in 1 .. Len(running) + 1 /\ req_index > Len(running)
    BY <1>1, <1>2 DEF Phases
  <2> QED BY <2>1, <2>2, <2>3
<1>4. Live = new_running /\ Live' = new_running
  <2>1. SubSeq(running, req_index, Len(running)) = <<>>
    BY <1>3, SubSeqEmpty
  <2>2. new_running \o <<>> = new_running
    BY <1>3, ConcatEmptySeq
  <2> QED BY <2>1, <2>2, <1>2 DEF Live
<1>5. /\ Len(in_flight) \in Nat /\ DOMAIN in_flight = 1 .. Len(in_flight)
      /\ Tail(in_flight) \in Seq(Range(in_flight))
      /\ DOMAIN Tail(in_flight) = 1 .. Len(in_flight) - 1
      /\ \A i \in 1 .. Len(in_flight) - 1 : Tail(in_flight)[i] = in_flight[i + 1]
  <2>1. /\ Len(in_flight) \in Nat /\ DOMAIN in_flight = 1 .. Len(in_flight)
    BY <1>3, LenProperties
  <2>2. /\ Tail(in_flight) \in Seq(Range(in_flight))
        /\ Len(Tail(in_flight)) = Len(in_flight) - 1
        /\ \A i \in 1 .. Len(Tail(in_flight)) : Tail(in_flight)[i] = in_flight[i + 1]
    BY <1>3, HeadTailProperties
  <2>3. DOMAIN Tail(in_flight) = 1 .. Len(Tail(in_flight))
    BY <2>2, LenProperties
  <2> QED BY <2>1, <2>2, <2>3
<1>6. \A q, i : InFlight(q, i)' <=> i \in 1 .. Len(in_flight) - 1 /\ InFlight(q, i + 1)
  BY <1>2, <1>5 DEF InFlight
<1>7. Building = {} /\ Building' = {}
  BY <1>2 DEF Building, InSchedule
<1>8. TypeOK'
  <2>1. Range(in_flight') \subseteq Range(in_flight) /\ in_flight' \in Seq(Range(in_flight'))
    BY <1>2, <1>5, RangeOfSeq, SeqOfRange
  <2> QED BY <2>1, <1>1, <1>2 DEF TypeOK, memory, locals
<1>9. RequestsInOnePlace'
  BY <1>1, <1>2, <1>4 DEF RequestsInOnePlace
<1>10. Phases'
  <2>1. Len(new_running) <= MaxRunning
    BY <1>1, <1>2, <1>3, Limits DEF Phases
  <2> QED BY <2>1, <1>1, <1>2, <1>7 DEF Phases
<1>11. Names'
  <2>1. \A q \in Request : status[q] = "running" => Handled(q, 1)
    BY <1>1, <1>2, <1>4 DEF RequestsInOnePlace, Handled
  <2>2. \A q, i : InFlight(q, i) /\ i # 1 => InFlight(q, i - 1)'
    <3> SUFFICES ASSUME NEW q, NEW i, InFlight(q, i), i # 1 PROVE InFlight(q, i - 1)'
      OBVIOUS
    <3>1. i - 1 \in 1 .. Len(in_flight) - 1 /\ i - 1 + 1 = i
      BY <1>5 DEF InFlight
    <3> QED BY <3>1, <1>6
  <2>3. \A q, i : ~Handled(q, i)' /\ (i # 1 => ~Handled(q, i))
    BY <1>2 DEF Handled
  <2>4. ASSUME NEW q \in Request, status[q] = "running"
        PROVE  (\E i : InFlight(q, i) /\ ~Handled(q, i)) <=> \E i : InFlight(q, i)'
    <3>1. ASSUME NEW i, InFlight(q, i), ~Handled(q, i) PROVE InFlight(q, i - 1)'
      BY <3>1, <2>1, <2>2, <2>4
    <3>2. ASSUME NEW i, InFlight(q, i)' PROVE InFlight(q, i + 1) /\ ~Handled(q, i + 1)
      <4>1. i \in 1 .. Len(in_flight) - 1 /\ InFlight(q, i + 1)
        BY <3>2, <1>6
      <4>2. i + 1 # 1
        BY <4>1, <1>5
      <4> QED BY <4>1, <4>2, <2>3
    <3> QED BY <3>1, <3>2
  <2>5. scheduled_req_ids' =
            {q \in Request : /\ status'[q] = "running"
                             /\ \/ q \in Building'
                                \/ \E i : InFlight(q, i)' /\ ~Handled(q, i)'}
    BY <1>1, <1>2, <1>7, <2>3, <2>4 DEF Names
  <2>6. ASSUME NEW q \in scheduled_req_ids', NEW i, NEW j,
               InFlight(q, i)', InFlight(q, j)'
        PROVE  i = j
    <3>1. q \in scheduled_req_ids /\ InFlight(q, i + 1) /\ InFlight(q, j + 1)
          /\ i \in 1 .. Len(in_flight) - 1 /\ j \in 1 .. Len(in_flight) - 1
      BY <2>6, <1>2, <1>6
    <3>2. i + 1 = j + 1
      BY <3>1, <1>1 DEF Names
    <3> QED BY <3>1, <3>2, <1>5
  <2> QED BY <2>5, <2>6, <1>7 DEF Names
<1>12. Apart'
  BY <1>1, <1>2, <1>6, <1>7 DEF Apart
<1>13. InStep'
  BY <1>1, <1>2, <1>7 DEF InStep, Tokens, num_tokens, memory
<1>14. Blocks'
  BY <1>1, <1>2 DEF Blocks, memory
<1> QED BY <1>8, <1>9, <1>10, <1>11, <1>12, <1>13, <1>14 DEF SchedInv

LEMMA AbortStep ==
    ASSUME SchedInv, NEW r \in Request, Abort(r)
    PROVE  SchedInv'
<1>1. TypeOK /\ Phases /\ RequestsInOnePlace /\ Names
  BY DEF SchedInv
<1>2. /\ pc = "idle" /\ pc' = "idle" /\ status[r] \in {"waiting", "preempted", "running"}
      /\ Leave(r)
      /\ status' = [status EXCEPT ![r] = "aborted"]
      /\ Free(r)
      /\ finished_req_ids' = finished_req_ids \cup {r}
      /\ UNCHANGED <<skipped, new_running, num_computed_tokens, locals, num_output_tokens,
                     in_flight>>
  BY DEF Abort, BetweenSteps
<1>3. /\ waiting \in Seq(Request) /\ running \in Seq(Request)
      /\ status \in [Request -> Status]
  BY <1>1 DEF TypeOK
<1>4. /\ status' \in [Request -> Status] /\ status'[r] = "aborted"
      /\ \A q \in Request : q # r => status'[q] = status[q]
  BY <1>2, <1>3 DEF Status
<1>5. /\ IsInjective(waiting) /\ IsInjective(running) /\ skipped = <<>>
      /\ Range(waiting) = {q \in Request : status[q] \in Waiting}
      /\ Range(running) = {q \in Request : status[q] = "running"}
      /\ Live = running /\ Live' = running'
  <2>1. Live = running /\ Live' = running' /\ skipped = <<>>
    BY <1>1, <1>2 DEF Live, Phases
  <2>2. Range(skipped) = {}
    BY <2>1 DEF Range
  <2> QED BY <2>1, <2>2, <1>1 DEF RequestsInOnePlace
<1>6. Building = {} /\ Building' = {}
  BY <1>2 DEF Building, InSchedule
<1>7. /\ {waiting', running'} \subseteq Seq(Request)
      /\ IsInjective(waiting') /\ IsInjective(running')
      /\ Range(waiting') = Range(waiting) \ {r} /\ Range(running') = Range(running) \ {r}
      /\ scheduled_req_ids' = scheduled_req_ids \ {r}
      /\ Len(running') <= MaxRunning
  <2>1. CASE status[r] = "running"
    <3>1. /\ running' = Removed(running, r) /\ waiting' = waiting
          /\ scheduled_req_ids' = scheduled_req_ids \ {r}
      BY <2>1, <1>2 DEF Leave
    <3>2. r \in Range(running) /\ r \notin Range(waiting)
      BY <2>1, <1>5 DEF Waiting
    <3>3. /\ Removed(running, r) \in Seq(Request)
          /\ IsInjective(Removed(running, r))
          /\ Range(Removed(running, r)) = Range(running) \ {r}
          /\ Len(Removed(running, r)) = Len(running) - 1
      BY <3>2, <1>3, <1>5, RemovedKeeps
    <3>4. Len(running') <= MaxRunning
      <4>1. Len(running) \in Nat /\ Len(running) <= MaxRunning
        BY <1>1, <1>3, LenProperties DEF Phases
      <4> QED BY <4>1, <3>1, <3>3, Limits
    <3> QED BY <3>1, <3>2, <3>3, <3>4, <1>3, <1>5
  <2>2. CASE status[r] # "running"
    <3>1. /\ waiting' = Removed(waiting, r) /\ running' = running
          /\ scheduled_req_ids' = scheduled_req_ids
      BY <2>2, <1>2 DEF Leave
    <3>2. r \in Range(waiting) /\ r \notin Range(running)
      BY <2>2, <1>2, <1>5 DEF Waiting
    <3>3. /\ Removed(waiting, r) \in Seq(Request)
          /\ IsInjective(Removed(waiting, r))
          /\ Range(Removed(waiting, r)) = Range(waiting) \ {r}
      BY <3>2, <1>3, <1>5, RemovedKeeps
    <3>4. r \notin scheduled_req_ids
      BY <2>2, <1>1 DEF Names
    <3> QED BY <3>1, <3>2, <3>3, <3>4, <1>1, <1>3, <1>5 DEF Phases
  <2> QED BY <2>1, <2>2
<1>8. /\ Names' /\ Apart' /\ InStep' /\ Blocks'
      /\ held' \in [Request -> SUBSET Block] /\ free_blocks' \in SUBSET Block
  <2>1. \A q, i : ~Handled(q, i) /\ ~Handled(q, i)'
    BY <1>2 DEF Handled
  <2> QED BY <2>1, <1>2, <1>4, <1>6, <1>7, BatchesShrink DEF Fresh, locals
<1>9. TypeOK'
  BY <1>1, <1>2, <1>4, <1>7, <1>8 DEF TypeOK, locals
<1>10. RequestsInOnePlace'
  <2>1. Range(skipped) = {} /\ IsInjective(skipped)
    BY <1>5 DEF Range, IsInjective
  <2>2. Range(waiting') = {q \in Request : status'[q] \in Waiting}
    BY <1>4, <1>5, <1>7 DEF Waiting
  <2>3. Range(running') = {q \in Request : status'[q] = "running"}
    BY <1>4, <1>5, <1>7
  <2> QED BY <2>1, <2>2, <2>3, <1>2, <1>5, <1>7 DEF RequestsInOnePlace
<1>11. Phases'
  BY <1>1, <1>2, <1>6, <1>7 DEF Phases
<1> QED BY <1>8, <1>9, <1>10, <1>11 DEF SchedInv

-----------------------------------------------------------------------------
(* The theorems.                                                           *)

LEMMA SchedStep == SchedInv /\ [Next]_vars => SchedInv'
<1> SUFFICES ASSUME SchedInv, [Next]_vars PROVE SchedInv'
  OBVIOUS
<1>1. CASE Schedule
  BY <1>1, BeginScheduleStep, SkipHeadStep, IgnoreHeadStep, AdmitHeadStep, EndPrefillStep,
     DecodeNextStep, PreemptLastStep, EndDecodeStep, EndScheduleStep DEF Schedule
<1>2. CASE Update
  BY <1>2, BeginUpdateStep, PassOverStep, TakeTokenStep, EndUpdateStep DEF Update
<1>3. ASSUME NEW r \in Request, AddRequest(r) \/ Abort(r) \/ AbortIgnored(r)
      PROVE  SchedInv'
  BY <1>3, AddRequestStep, AbortStep, AbortIgnoredStep
<1>4. CASE UNCHANGED vars
  <2>1. UNCHANGED <<waiting, running, skipped, new_running, num_computed_tokens, held,
                    free_blocks, token_budget, req_index, num_scheduled_tokens, status,
                    num_output_tokens, scheduled_req_ids, finished_req_ids, in_flight, pc>>
    BY <1>4 DEF vars, queues, memory, locals
  <2>2. TypeOK' /\ RequestsInOnePlace' /\ Phases'
    BY <2>1 DEF SchedInv, TypeOK, RequestsInOnePlace, Live, Phases, Building, InSchedule
  <2>3. Names' /\ Apart' /\ InStep' /\ Blocks'
    <3>1. /\ Building' = Building
          /\ \A q, i : Handled(q, i)' <=> Handled(q, i)
      BY <2>1 DEF Building, InSchedule, Handled
    <3> QED BY <2>1, <3>1, BatchesKept DEF memory
  <2> QED BY <2>2, <2>3 DEF SchedInv
<1> QED BY <1>1, <1>2, <1>3, <1>4 DEF Next

(* The inductive invariant holds.                                          *)
THEOREM SchedulerInvariant == Spec => []SchedInv
BY SchedInit, SchedStep, PTL DEF Spec

(* The queues, the blocks, the names and the batches stay within their     *)
(* types: token budgets and counts of computed tokens never go below zero. *)
THEOREM SchedulerTypes == Spec => []TypeOK
<1>1. SchedInv => TypeOK
  BY DEF SchedInv
<1> QED BY <1>1, SchedulerInvariant, PTL

(* A request is in the one queue that its status names.                    *)
THEOREM RequestsPlaced == Spec => []RequestsInOnePlace
<1>1. SchedInv => RequestsInOnePlace
  BY DEF SchedInv
<1> QED BY <1>1, SchedulerInvariant, PTL

(* No block is lost or shared, and running requests have enough of them.   *)
THEOREM BlocksStay == Spec => []BlocksConserved
<1>1. ASSUME SchedInv PROVE BlocksConserved
  <2>1. TypeOK /\ InStep /\ Blocks
    BY <1>1 DEF SchedInv
  <2>2. free_blocks \cup UNION {held[r] : r \in Request} = Block
    <3>1. /\ free_blocks \subseteq Block /\ \A r \in Request : held[r] \subseteq Block
          /\ \A b \in Block : b \in free_blocks \/ \E r \in Request : b \in held[r]
      BY <2>1 DEF TypeOK, Blocks
    <3> QED BY <3>1
  <2>3. ASSUME NEW r \in Request, status[r] = "running"
        PROVE  num_computed_tokens[r] <= Cardinality(held[r]) * BlockSize
    <3>1. num_computed_tokens[r] + Tokens(r) <= Cardinality(held[r]) * BlockSize
      BY <2>1, <2>3 DEF InStep
    <3>2. num_computed_tokens[r] \in Nat /\ Tokens(r) \in Nat
      BY <2>1 DEF TypeOK, Tokens, Building, IsBatch
    <3>3. Cardinality(held[r]) * BlockSize \in Nat
      <4>1. IsFiniteSet(held[r])
        BY <2>1, Limits, FS_Subset DEF TypeOK
      <4>2. Cardinality(held[r]) \in Nat
        BY <4>1, FS_CardinalityType
      <4> QED BY <4>2, Limits
    <3> QED BY <3>1, <3>2, <3>3
  <2> QED BY <2>1, <2>2, <2>3 DEF BlocksConserved, Blocks
<1> QED BY <1>1, SchedulerInvariant, PTL

(* Where a request is in Batches.                                          *)
LEMMA InBatches ==
    ASSUME TypeOK, NEW r, NEW i
    PROVE  i \in DOMAIN Batches /\ r \in DOMAIN Batches[i]
               <=> InFlight(r, i) \/ (i = Len(in_flight) + 1 /\ r \in Building)
<1>1. in_flight \in Seq(Range(in_flight))
  BY DEF TypeOK
<1>2. CASE InSchedule
  <2>1. Batches = Append(in_flight, num_scheduled_tokens)
    <3>1. /\ in_flight \in Seq(Range(in_flight) \cup {num_scheduled_tokens})
      BY <1>1, SeqMonotonic
    <3>2. num_scheduled_tokens \in Range(in_flight) \cup {num_scheduled_tokens}
      OBVIOUS
    <3> QED BY <1>2, <3>1, <3>2, AppendIsConcat DEF Batches
  <2>2. /\ Len(in_flight) \in Nat /\ DOMAIN in_flight = 1 .. Len(in_flight)
        /\ DOMAIN Batches = DOMAIN in_flight \cup {Len(in_flight) + 1}
        /\ \A k \in DOMAIN in_flight : Batches[k] = in_flight[k]
        /\ Batches[Len(in_flight) + 1] = num_scheduled_tokens
    BY <1>1, <2>1, AnotherBatch
  <2>3. Len(in_flight) + 1 \notin DOMAIN in_flight
    BY <2>2
  <2> QED BY <1>2, <2>2, <2>3 DEF InFlight, Building
<1>3. CASE ~InSchedule
  <2>1. Batches = in_flight /\ Building = {}
    BY <1>1, <1>3, ConcatEmptySeq DEF Batches, Building
  <2> QED BY <2>1 DEF InFlight
<1> QED BY <1>2, <1>3

(* scheduled_req_ids names the running requests of the batches under way,  *)
(* and each of them is in one batch.                                       *)
THEOREM ScheduledNamed == Spec => []ScheduledIsInFlight
<1>1. ASSUME SchedInv PROVE ScheduledIsInFlight
  <2>1. TypeOK /\ Names
    BY <1>1 DEF SchedInv
  <2>2. \A r, i : i \in DOMAIN Batches /\ r \in DOMAIN Batches[i]
               <=> InFlight(r, i) \/ (i = Len(in_flight) + 1 /\ r \in Building)
    BY <2>1, InBatches
  <2>3. \A r, i : i \in DOMAIN Batches /\ UnderWay(r, i)
               <=> (InFlight(r, i) /\ ~Handled(r, i))
                       \/ (i = Len(in_flight) + 1 /\ r \in Building)
    <3>1. \A r, i : r \in Building => ~Handled(r, i)
      BY DEF Building, InSchedule, Handled
    <3> QED BY <2>2, <3>1 DEF UnderWay, Handled
  <2>4. scheduled_req_ids =
            {r \in Request : status[r] = "running" /\ \E i \in DOMAIN Batches : UnderWay(r, i)}
    BY <2>1, <2>3 DEF Names
  <2>5. ASSUME NEW r \in scheduled_req_ids, NEW i \in DOMAIN Batches, NEW j \in DOMAIN Batches,
               r \in DOMAIN Batches[i] \cap DOMAIN Batches[j]
        PROVE  i = j
    <3>1. CASE r \in Building
      BY <3>1, <2>1, <2>2, <2>5 DEF Names
    <3>2. CASE r \notin Building
      BY <3>2, <2>1, <2>2, <2>5 DEF Names
    <3> QED BY <3>1, <3>2
  <2> QED BY <2>4, <2>5 DEF ScheduledIsInFlight
<1> QED BY <1>1, SchedulerInvariant, PTL

(* The assertions of schedule() hold: a decode has one token to compute.   *)
THEOREM ScheduleAssertions == Spec => []AssertionsHold
<1>1. ASSUME SchedInv PROVE AssertionsHold
  <2>1. TypeOK /\ Phases /\ RequestsInOnePlace /\ Names /\ InStep
    BY <1>1 DEF SchedInv
  <2>2. ASSUME pc = "decode", NEW i \in req_index .. Len(running)
        PROVE  DecodeTokens(running[i]) = 1
    <3>1. /\ running \in Seq(Request) /\ DOMAIN running = 1 .. Len(running)
          /\ Len(running) \in Nat /\ req_index \in 1 .. Len(running) + 1
      BY <2>1, <2>2, LenProperties DEF TypeOK, Phases
    <3>2. i \in 1 .. Len(running) /\ i \notin 1 .. req_index - 1
          /\ \A k \in 1 .. req_index - 1 : k \in 1 .. Len(running)
      BY <3>1
    <3>3. PICK r : r = running[i]
      OBVIOUS
    <3>4. r \in Request /\ r \in Range(running)
      BY <3>1, <3>2, <3>3, ElementOfSeq DEF Range
    <3>5. status[r] = "running" /\ IsInjective(running)
      BY <2>1, <2>2, <3>4 DEF RequestsInOnePlace, Live
    <3>6. r \notin scheduled_req_ids
      BY <2>1, <2>2, <3>1, <3>2, <3>3, <3>5 DEF Phases, IsInjective
    <3>7. r \notin Building
      BY <2>1, <3>4, <3>5, <3>6 DEF Names
    <3>8. num_computed_tokens[r] + 0 + 1 = num_tokens(r)
      BY <2>1, <3>4, <3>5, <3>6, <3>7 DEF InStep, Tokens
    <3>9. num_computed_tokens[r] \in Nat
      BY <2>1, <3>4 DEF TypeOK
    <3> QED BY <3>3, <3>8, <3>9 DEF DecodeTokens
  <2>3. ASSUME pc = "output"
        PROVE  /\ token_budget >= 0
               /\ Len(running) <= MaxRunning
               /\ DOMAIN num_scheduled_tokens \subseteq Range(running)
    <3>1. Building = DOMAIN num_scheduled_tokens /\ Live = running
      BY <2>3 DEF Building, InSchedule, Live
    <3>2. DOMAIN num_scheduled_tokens \subseteq Request /\ token_budget >= 0
      BY <2>1 DEF TypeOK, IsBatch
    <3> QED BY <3>1, <3>2, <2>1 DEF Phases, RequestsInOnePlace
  <2> QED BY <2>2, <2>3 DEF AssertionsHold
<1> QED BY <1>1, SchedulerInvariant, PTL

-----------------------------------------------------------------------------
(* The waiting queue is fair.  While schedule() prefills, the queue is in  *)
(* two parts: what the loop has skipped, last one first, and the rest.     *)

Line == Reverse(skipped) \o waiting

(* Preempted requests come first, then newcomers as they arrived.          *)
InLine(s, st) ==
    \A i, j \in DOMAIN s : i < j /\ st[s[i]] = "waiting" =>
        st[s[j]] = "waiting" /\ s[i] < s[j]

Arrivals ==
    \A q, r \in Request : q < r /\ status[q] = "unknown" => status[r] = "unknown"

LineInv == InLine(Line, status) /\ Arrivals

LEMMA ReversePlaces ==
    ASSUME NEW S, NEW s \in Seq(S)
    PROVE  /\ Reverse(s) \in Seq(S)
           /\ Len(Reverse(s)) = Len(s)
           /\ \A i \in 1 .. Len(s) : Reverse(s)[i] = s[Len(s) - i + 1]
<1>1. Len(s) \in Nat /\ DOMAIN s = 1 .. Len(s) /\ \A i \in 1 .. Len(s) : s[i] \in S
  BY LenProperties, ElementOfSeq
<1>2. \A i \in 1 .. Len(s) : Len(s) - i + 1 \in 1 .. Len(s)
  BY <1>1
<1>3. Reverse(s) \in [1 .. Len(s) -> S]
  BY <1>1, <1>2 DEF Reverse
<1>4. Reverse(s) \in Seq(S)
  BY <1>1, <1>3
<1>5. DOMAIN Reverse(s) = 1 .. Len(s)
  BY DEF Reverse
<1>6. Len(Reverse(s)) = Len(s)
  BY <1>1, <1>4, <1>5, LenProperties
<1>7. \A i \in 1 .. Len(s) : Reverse(s)[i] = s[Len(s) - i + 1]
  BY DEF Reverse
<1> QED BY <1>4, <1>6, <1>7

LEMMA ReverseEmpty == Reverse(<<>>) = <<>>
<1>1. <<>> \in Seq({}) /\ Len(<<>>) = 0
  OBVIOUS
<1>2. Reverse(<<>>) \in Seq({}) /\ Len(Reverse(<<>>)) = 0
  BY <1>1, ReversePlaces
<1> QED BY <1>2, EmptySeq

(* Who is put before the skipped ones comes after them when they return.   *)
LEMMA ReverseCons ==
    ASSUME NEW S, NEW s \in Seq(S), NEW e \in S
    PROVE  Reverse(<<e>> \o s) = Reverse(s) \o <<e>>
<1> DEFINE one == <<e>>  t == one \o s  u == Reverse(s)
<1>1. one \in Seq(S) /\ Len(one) = 1 /\ one[1] = e
  OBVIOUS
<1> HIDE DEF one
<1>2. Len(s) \in Nat
  BY LenProperties
<1>3. /\ t \in Seq(S) /\ Len(t) = Len(s) + 1
      /\ \A i \in 1 .. Len(s) + 1 : t[i] = IF i <= 1 THEN one[i] ELSE s[i - 1]
  <2>1. /\ one \o s \in Seq(S) /\ Len(one \o s) = Len(one) + Len(s)
        /\ \A i \in 1 .. Len(one) + Len(s) :
               (one \o s)[i] = IF i <= Len(one) THEN one[i] ELSE s[i - Len(one)]
    BY <1>1, ConcatProperties
  <2>2. Len(one) + Len(s) = Len(s) + 1
    BY <1>1, <1>2
  <2> QED BY <1>1, <2>1, <2>2
<1> HIDE DEF t
<1>4. /\ u \in Seq(S) /\ Len(u) = Len(s)
      /\ \A i \in 1 .. Len(s) : u[i] = s[Len(s) - i + 1]
  BY ReversePlaces
<1>5. /\ Reverse(t) \in Seq(S) /\ Len(Reverse(t)) = Len(s) + 1
      /\ \A i \in 1 .. Len(s) + 1 : Reverse(t)[i] = t[Len(s) + 1 - i + 1]
  BY <1>3, ReversePlaces
<1> HIDE DEF u
<1>6. /\ u \o one \in Seq(S) /\ Len(u \o one) = Len(s) + 1
      /\ \A i \in 1 .. Len(s) + 1 :
             (u \o one)[i] = IF i <= Len(s) THEN u[i] ELSE one[i - Len(s)]
  <2>1. /\ u \o one \in Seq(S) /\ Len(u \o one) = Len(u) + Len(one)
        /\ \A i \in 1 .. Len(u) + Len(one) :
               (u \o one)[i] = IF i <= Len(u) THEN u[i] ELSE one[i - Len(u)]
    BY <1>1, <1>4, ConcatProperties
  <2> QED BY <1>1, <1>4, <2>1
<1>7. ASSUME NEW i \in 1 .. Len(s) + 1 PROVE Reverse(t)[i] = (u \o one)[i]
  <2>1. CASE i = Len(s) + 1
    <3>1. Reverse(t)[i] = t[1] /\ t[1] = one[1]
      BY <2>1, <1>2, <1>3, <1>5
    <3>2. (u \o one)[i] = one[1]
      BY <2>1, <1>2, <1>6
    <3> QED BY <3>1, <3>2
  <2>2. CASE i # Len(s) + 1
    <3>1. i \in 1 .. Len(s) /\ Len(s) + 2 - i \in 2 .. Len(s) + 1
      BY <2>2, <1>2
    <3>2. Reverse(t)[i] = t[Len(s) + 2 - i]
      <4>1. Len(s) + 1 - i + 1 = Len(s) + 2 - i
        BY <1>2, <3>1
      <4> QED BY <4>1, <1>5
    <3>3. t[Len(s) + 2 - i] = s[Len(s) - i + 1]
      <4>1. Len(s) + 2 - i - 1 = Len(s) - i + 1 /\ ~(Len(s) + 2 - i <= 1)
            /\ Len(s) + 2 - i \in 1 .. Len(s) + 1
        BY <1>2, <3>1
      <4> QED BY <4>1, <1>3
    <3>4. (u \o one)[i] = s[Len(s) - i + 1]
      BY <3>1, <1>2, <1>4, <1>6
    <3> QED BY <3>2, <3>3, <3>4
  <2> QED BY <2>1, <2>2
<1>8. Reverse(t) = u \o one
  BY <1>5, <1>6, <1>7, SeqEqual
<1> QED BY <1>8 DEF t, u, one

(* t is s without its k-th member.                                         *)
LineWithout(s, t, k) ==
    /\ k \in 1 .. Len(s)
    /\ Len(t) = Len(s) - 1
    /\ \A i \in 1 .. Len(t) : t[i] = IF i < k THEN s[i] ELSE s[i + 1]

LEMMA LineShrinks ==
    ASSUME NEW s \in Seq(Request), NEW t \in Seq(Request), NEW k, LineWithout(s, t, k),
           NEW st, NEW st2, InLine(s, st),
           \A i \in DOMAIN s : i # k => st2[s[i]] = st[s[i]]
    PROVE  InLine(t, st2)
<1>1. /\ Len(s) \in Nat /\ DOMAIN s = 1 .. Len(s)
      /\ Len(t) = Len(s) - 1 /\ DOMAIN t = 1 .. Len(s) - 1
      /\ k \in 1 .. Len(s)
      /\ \A i \in 1 .. Len(s) - 1 : t[i] = IF i < k THEN s[i] ELSE s[i + 1]
  BY LenProperties DEF LineWithout
<1> DEFINE f(i) == IF i < k THEN i ELSE i + 1
<1>2. \A i \in 1 .. Len(s) - 1 : f(i) \in 1 .. Len(s) /\ f(i) # k /\ t[i] = s[f(i)]
  BY <1>1
<1>3. \A i, j \in 1 .. Len(s) - 1 : i < j => f(i) < f(j)
  BY <1>1
<1> HIDE DEF f
<1> SUFFICES ASSUME NEW i \in 1 .. Len(s) - 1, NEW j \in 1 .. Len(s) - 1, i < j,
                    st2[t[i]] = "waiting"
             PROVE  st2[t[j]] = "waiting" /\ t[i] < t[j]
  BY <1>1 DEF InLine
<1>4. /\ f(i) \in DOMAIN s /\ f(j) \in DOMAIN s /\ f(i) < f(j)
      /\ t[i] = s[f(i)] /\ t[j] = s[f(j)]
      /\ st2[s[f(i)]] = st[s[f(i)]] /\ st2[s[f(j)]] = st[s[f(j)]]
  BY <1>1, <1>2, <1>3
<1> QED BY <1>4 DEF InLine

LEMMA LineStays ==
    ASSUME NEW s, NEW st, NEW st2, InLine(s, st),
           \A i \in DOMAIN s : st2[s[i]] = st[s[i]]
    PROVE  InLine(s, st2)
BY DEF InLine

(* list.remove keeps the order of the others.                              *)
LEMMA RemovedIsWithout ==
    ASSUME NEW S, NEW s \in Seq(S), NEW e \in Range(s), IsInjective(s)
    PROVE  \E k : LineWithout(s, Removed(s, e), k) /\ s[k] = e
<1> DEFINE k == CHOOSE i \in DOMAIN s : s[i] = e
<1>1. Len(s) \in Nat /\ DOMAIN s = 1 .. Len(s) /\ \A i \in 1 .. Len(s) : s[i] \in S
  BY LenProperties, ElementOfSeq
<1>2. k \in 1 .. Len(s) /\ s[k] = e
  BY <1>1 DEF Range
<1>3. Removed(s, e) = SubSeq(s, 1, k - 1) \o SubSeq(s, k + 1, Len(s))
  BY DEF Removed, RemoveAt
<1> HIDE DEF k
<1> DEFINE a == SubSeq(s, 1, k - 1)  b == SubSeq(s, k + 1, Len(s))
<1>4. /\ 1 \in 1 .. Len(s) + 1 /\ k - 1 \in 0 .. Len(s)
      /\ k + 1 \in 1 .. Len(s) + 1 /\ Len(s) \in 0 .. Len(s)
  BY <1>1, <1>2
<1>5. a \in Seq(S) /\ b \in Seq(S)
  BY <1>4, SubSeqKeeps
<1>6. /\ Len(a) = IF 1 <= k - 1 THEN k - 1 - 1 + 1 ELSE 0
      /\ \A i \in 1 .. k - 1 - 1 + 1 : a[i] = s[1 + i - 1]
  BY <1>1, <1>2, <1>4, SubSeqProperties
<1>7. /\ Len(b) = IF k + 1 <= Len(s) THEN Len(s) - (k + 1) + 1 ELSE 0
      /\ \A i \in 1 .. Len(s) - (k + 1) + 1 : b[i] = s[k + 1 + i - 1]
  BY <1>1, <1>2, <1>4, SubSeqProperties
<1> HIDE DEF a, b
<1>8. /\ Len(a) = k - 1 /\ Len(b) = Len(s) - k
      /\ \A i \in 1 .. k - 1 : a[i] = s[i]
      /\ \A i \in 1 .. Len(s) - k : b[i] = s[k + i]
  <2>0. k \in Nat /\ Len(s) \in Nat /\ 1 <= k /\ k <= Len(s)
    BY <1>1, <1>2
  <2>1. Len(a) = k - 1 /\ k - 1 - 1 + 1 = k - 1
    <3>1. Len(a) = IF 1 <= k - 1 THEN k - 1 - 1 + 1 ELSE 0
      BY <1>6
    <3> QED BY <3>1, <2>0
  <2>2. Len(b) = Len(s) - k /\ Len(s) - (k + 1) + 1 = Len(s) - k
    <3>1. Len(b) = IF k + 1 <= Len(s) THEN Len(s) - (k + 1) + 1 ELSE 0
      BY <1>7
    <3> QED BY <3>1, <2>0
  <2>3. ASSUME NEW i \in 1 .. k - 1 PROVE a[i] = s[i]
    <3>1. 1 + i - 1 = i
      BY <1>1, <1>2
    <3> QED BY <2>1, <3>1, <1>6
  <2>4. ASSUME NEW i \in 1 .. Len(s) - k PROVE b[i] = s[k + i]
    <3>1. k + 1 + i - 1 = k + i
      BY <1>1, <1>2
    <3> QED BY <2>2, <3>1, <1>7
  <2> QED BY <2>1, <2>2, <2>3, <2>4
<1>9. /\ Len(a \o b) = Len(a) + Len(b)
      /\ \A i \in 1 .. Len(a) + Len(b) :
             (a \o b)[i] = IF i <= Len(a) THEN a[i] ELSE b[i - Len(a)]
  BY <1>5, ConcatProperties
<1>10. Len(a \o b) = Len(s) - 1
  BY <1>1, <1>2, <1>8, <1>9
<1>11. ASSUME NEW i \in 1 .. Len(a \o b)
       PROVE  (a \o b)[i] = IF i < k THEN s[i] ELSE s[i + 1]
  <2>1. (a \o b)[i] = IF i <= k - 1 THEN a[i] ELSE b[i - (k - 1)]
    BY <1>8, <1>9
  <2>2. CASE i < k
    <3>1. i \in 1 .. k - 1 /\ i <= k - 1
      BY <2>2, <1>1, <1>2, <1>10
    <3> QED BY <2>1, <2>2, <3>1, <1>8
  <2>3. CASE ~(i < k)
    <3>1. ~(i <= k - 1) /\ i - (k - 1) \in 1 .. Len(s) - k /\ k + (i - (k - 1)) = i + 1
      BY <2>3, <1>1, <1>2, <1>10
    <3> QED BY <2>1, <2>3, <3>1, <1>8
  <2> QED BY <2>2, <2>3
<1>12. LineWithout(s, a \o b, k)
  BY <1>2, <1>10, <1>11 DEF LineWithout
<1> QED BY <1>2, <1>3, <1>12 DEF a, b

(* Who is in the line waits, and is there once.                            *)
LEMMA LineOfWaiters ==
    ASSUME SchedInv
    PROVE  /\ Line \in Seq(Request) /\ IsInjective(Line)
           /\ \A i \in DOMAIN Line : Line[i] \in Request /\ status[Line[i]] \in Waiting
           /\ pc # "prefill" => skipped = <<>> /\ Line = waiting
<1>1. /\ waiting \in Seq(Request) /\ skipped \in Seq(Request)
      /\ IsInjective(waiting) /\ IsInjective(skipped) /\ Range(waiting) \cap Range(skipped) = {}
      /\ Range(waiting) \cup Range(skipped) = {r \in Request : status[r] \in Waiting}
  BY DEF SchedInv, TypeOK, RequestsInOnePlace
<1>2. /\ Reverse(skipped) \in Seq(Request) /\ IsInjective(Reverse(skipped))
      /\ Range(Reverse(skipped)) = Range(skipped)
  BY <1>1, ReverseKeeps
<1>3. /\ Line \in Seq(Request) /\ IsInjective(Line)
      /\ Range(Line) = Range(skipped) \cup Range(waiting)
  BY <1>1, <1>2, ConcatKeeps DEF Line
<1>4. \A i \in DOMAIN Line : Line[i] \in Request /\ status[Line[i]] \in Waiting
  BY <1>1, <1>3 DEF Range
<1>5. ASSUME pc # "prefill" PROVE skipped = <<>> /\ Line = waiting
  <2>1. skipped = <<>>
    BY <1>5 DEF SchedInv, Phases
  <2> QED BY <2>1, <1>1, ReverseEmpty, ConcatEmptySeq DEF Line
<1> QED BY <1>3, <1>4, <1>5

(* Nobody in the line is touched, nobody leaves or arrives.                *)
LEMMA LineUntouched ==
    ASSUME SchedInv, LineInv, Line' = Line,
           \A q \in Request : status[q] \in Waiting => status'[q] = status[q],
           \A q \in Request : status'[q] = "unknown" <=> status[q] = "unknown"
    PROVE  LineInv'
<1>1. \A i \in DOMAIN Line : status'[Line[i]] = status[Line[i]]
  BY LineOfWaiters
<1>2. PICK st : st = status'
  OBVIOUS
<1>3. InLine(Line, st)
  BY <1>1, <1>2, LineStays DEF LineInv
<1>4. InLine(Line, status)'
  BY <1>2, <1>3 DEF InLine
<1> QED BY <1>4 DEF LineInv, Arrivals

(* The k-th of the line leaves it.                                         *)
LEMMA LineLeft ==
    ASSUME SchedInv, SchedInv', LineInv, NEW k, LineWithout(Line, Line', k),
           NEW r \in Request, Line[k] = r,
           \A q \in Request : q # r => status'[q] = status[q],
           \A q \in Request : status'[q] = "unknown" <=> status[q] = "unknown"
    PROVE  LineInv'
<1>1. /\ Line \in Seq(Request) /\ IsInjective(Line)
      /\ \A i \in DOMAIN Line : Line[i] \in Request
  BY LineOfWaiters
<1>2. Line' \in Seq(Request)
  <2>1. (SchedInv => Line \in Seq(Request))'
    BY LineOfWaiters, PTL
  <2> QED BY <2>1 DEF Request
<1>3. k \in DOMAIN Line
  BY <1>1, LenProperties DEF LineWithout
<1>4. \A i \in DOMAIN Line : i # k => status'[Line[i]] = status[Line[i]]
  BY <1>1, <1>3 DEF IsInjective
<1>5. PICK t : t = Line'
  OBVIOUS
<1>6. PICK st : st = status'
  OBVIOUS
<1>7. InLine(t, st)
  BY <1>1, <1>2, <1>4, <1>5, <1>6, LineShrinks DEF LineInv
<1>8. InLine(Line, status)'
  BY <1>5, <1>6, <1>7 DEF InLine
<1> QED BY <1>8 DEF LineInv, Arrivals

(* The head of the waiting queue leaves it for good.                       *)
LEMMA HeadLeavesLine ==
    ASSUME SchedInv, waiting # <<>>, waiting' = Tail(waiting), skipped' = skipped
    PROVE  \E k : LineWithout(Line, Line', k) /\ Line[k] = Head(waiting)
<1> DEFINE u == Reverse(skipped)  k == Len(u) + 1
<1>1. /\ waiting \in Seq(Request) /\ skipped \in Seq(Request)
  BY DEF SchedInv, TypeOK
<1>2. /\ Len(waiting) \in Nat \ {0} /\ Tail(waiting) \in Seq(Request)
      /\ Len(Tail(waiting)) = Len(waiting) - 1
      /\ \A i \in 1 .. Len(waiting) - 1 : Tail(waiting)[i] = waiting[i + 1]
      /\ Head(waiting) = waiting[1]
  BY <1>1, HeadTailProperties, LenProperties, EmptySeq
<1>3. u \in Seq(Request) /\ Len(u) \in Nat
  BY <1>1, ReversePlaces, LenProperties
<1>4. Line = u \o waiting /\ Line' = u \o Tail(waiting)
  BY DEF Line
<1> HIDE DEF u
<1>5. /\ Len(u \o waiting) = Len(u) + Len(waiting)
      /\ \A i \in 1 .. Len(u) + Len(waiting) :
             (u \o waiting)[i] = IF i <= Len(u) THEN u[i] ELSE waiting[i - Len(u)]
  BY <1>1, <1>3, ConcatProperties
<1>6. /\ Len(u \o Tail(waiting)) = Len(u) + (Len(waiting) - 1)
      /\ \A i \in 1 .. Len(u) + (Len(waiting) - 1) :
             (u \o Tail(waiting))[i] = IF i <= Len(u) THEN u[i] ELSE Tail(waiting)[i - Len(u)]
  BY <1>2, <1>3, ConcatProperties
<1>7. k \in 1 .. Len(u) + Len(waiting) /\ (u \o waiting)[k] = Head(waiting)
  <2>1. k \in 1 .. Len(u) + Len(waiting) /\ ~(k <= Len(u)) /\ k - Len(u) = 1
    BY <1>2, <1>3
  <2> QED BY <2>1, <1>2, <1>5
<1>8. ASSUME NEW i \in 1 .. Len(u) + (Len(waiting) - 1)
      PROVE  (u \o Tail(waiting))[i]
                 = IF i < k THEN (u \o waiting)[i] ELSE (u \o waiting)[i + 1]
  <2>1. CASE i < k
    <3>1. i <= Len(u) /\ i \in 1 .. Len(u) + Len(waiting)
      BY <2>1, <1>2, <1>3
    <3> QED BY <2>1, <3>1, <1>5, <1>6
  <2>2. CASE ~(i < k)
    <3>1. /\ ~(i <= Len(u)) /\ ~(i + 1 <= Len(u))
          /\ i - Len(u) \in 1 .. Len(waiting) - 1 /\ i + 1 - Len(u) = i - Len(u) + 1
          /\ i + 1 \in 1 .. Len(u) + Len(waiting)
      BY <2>2, <1>2, <1>3
    <3>2. (u \o Tail(waiting))[i] = Tail(waiting)[i - Len(u)]
      BY <3>1, <1>6
    <3>3. Tail(waiting)[i - Len(u)] = waiting[i + 1 - Len(u)]
      BY <3>1, <1>2
    <3>4. (u \o waiting)[i + 1] = waiting[i + 1 - Len(u)]
      BY <3>1, <1>5
    <3> QED BY <2>2, <3>2, <3>3, <3>4
  <2> QED BY <2>1, <2>2
<1>9. Len(u) + (Len(waiting) - 1) = Len(u) + Len(waiting) - 1
  BY <1>2, <1>3
<1>10. LineWithout(Line, Line', k)
  BY <1>4, <1>5, <1>6, <1>7, <1>8, <1>9 DEF LineWithout
<1> QED BY <1>4, <1>7, <1>10

LEMMA LineInit == Init => LineInv
<1> SUFFICES ASSUME Init PROVE LineInv
  OBVIOUS
<1>1. Line = <<>> /\ \A r \in Request : status[r] = "unknown"
  BY ReverseEmpty DEF Init, Line
<1> QED BY <1>1 DEF LineInv, InLine, Arrivals

(* The newcomer is the last to have arrived.                               *)
LEMMA AddRequestInLine ==
    ASSUME SchedInv, SchedInv', LineInv, NEW r \in Request, AddRequest(r)
    PROVE  LineInv'
<1>1. /\ pc = "idle" /\ pc' = "idle" /\ status[r] = "unknown"
      /\ \A q \in 1 .. r - 1 : status[q] # "unknown"
      /\ status' = [status EXCEPT ![r] = "waiting"]
      /\ waiting' = Append(waiting, r)
  BY DEF AddRequest, BetweenSteps
<1>2. status \in [Request -> Status] /\ waiting \in Seq(Request)
  BY DEF SchedInv, TypeOK
<1>3. status'[r] = "waiting" /\ \A q \in Request : q # r => status'[q] = status[q]
  BY <1>1, <1>2
<1>4. Line = waiting /\ Line' = waiting'
  <2>1. (SchedInv => (pc # "prefill" => Line = waiting))'
    BY LineOfWaiters, PTL
  <2> QED BY <1>1, <2>1, LineOfWaiters
<1>5. /\ Len(waiting) \in Nat /\ DOMAIN waiting = 1 .. Len(waiting)
      /\ DOMAIN waiting' = 1 .. Len(waiting) + 1
      /\ \A i \in 1 .. Len(waiting) : waiting'[i] = waiting[i]
      /\ waiting'[Len(waiting) + 1] = r
  BY <1>1, <1>2, AppendProperties, LenProperties
<1>6. \A i \in 1 .. Len(waiting) : waiting[i] \in Request /\ status[waiting[i]] \in Waiting
  BY <1>4, <1>5, LineOfWaiters
<1>7. r \in Int /\ \A q \in Request : q \in Int
  BY SchedulerAssumption DEF Request
<1>8. ASSUME NEW i \in DOMAIN waiting', NEW j \in DOMAIN waiting', i < j,
             status'[waiting'[i]] = "waiting"
      PROVE  status'[waiting'[j]] = "waiting" /\ waiting'[i] < waiting'[j]
  <2>1. i \in 1 .. Len(waiting) /\ waiting'[i] = waiting[i]
    BY <1>5, <1>8
  <2>2. /\ waiting[i] \in Request /\ waiting[i] # r
        /\ status[waiting[i]] = "waiting"
    BY <2>1, <1>1, <1>3, <1>6, <1>8 DEF Waiting
  <2>3. CASE j \in 1 .. Len(waiting)
    <3>1. /\ waiting'[j] = waiting[j] /\ waiting[j] \in Request
          /\ waiting[j] # r /\ status'[waiting[j]] = status[waiting[j]]
      BY <2>3, <1>1, <1>3, <1>5, <1>6 DEF Waiting
    <3>2. status[waiting[j]] = "waiting" /\ waiting[i] < waiting[j]
      BY <2>1, <2>2, <2>3, <1>4, <1>5, <1>8 DEF LineInv, InLine
    <3> QED BY <2>1, <3>1, <3>2
  <2>4. CASE j \notin 1 .. Len(waiting)
    <3>1. waiting'[j] = r
      BY <2>4, <1>5
    <3>2. ~(r < waiting[i])
      BY <2>2, <1>1 DEF LineInv, Arrivals
    <3>3. waiting[i] < r
      <4>1. PICK p : p = waiting[i]
        OBVIOUS
      <4>2. p \in Int /\ r \in Int /\ p # r /\ ~(r < p)
        BY <2>2, <3>2, <4>1, <1>7
      <4>3. p < r
        BY <4>2
      <4> QED BY <4>1, <4>3
    <3> QED BY <2>1, <3>1, <3>3, <1>3
  <2> QED BY <2>3, <2>4
<1>9. Arrivals'
  <2> SUFFICES ASSUME NEW p \in Request, NEW q \in Request, p < q, status'[p] = "unknown"
               PROVE  status'[q] = "unknown"
    BY DEF Arrivals
  <2>1. p # r /\ status[p] = "unknown"
    BY <1>3
  <2>2. q # r
    <3>1. \A x \in Request : x < r => x \in 1 .. r - 1
      BY SchedulerAssumption DEF Request
    <3> QED BY <2>1, <3>1, <1>1
  <2> QED BY <2>1, <2>2, <1>3 DEF LineInv, Arrivals
<1>10. InLine(Line, status)'
  BY <1>4, <1>8 DEF InLine
<1> QED BY <1>9, <1>10 DEF LineInv

(* Who is skipped keeps its place, and goes back to it.                    *)
LEMMA SkipHeadInLine == SchedInv /\ LineInv /\ SkipHead => LineInv'
<1> SUFFICES ASSUME SchedInv, LineInv, SkipHead PROVE LineInv'
  OBVIOUS
<1>1. /\ waiting # <<>> /\ waiting' = Tail(waiting) /\ status' = status
      /\ skipped' = <<Head(waiting)>> \o skipped
      /\ waiting \in Seq(Request) /\ skipped \in Seq(Request)
  BY DEF SkipHead, MorePrefills, SchedInv, TypeOK
<1>2. PICK h : h = Head(waiting)
  OBVIOUS
<1>3. h \in Request /\ Tail(waiting) \in Seq(Request) /\ waiting = <<h>> \o Tail(waiting)
  BY <1>1, <1>2, HeadTailProperties
<1>4. Reverse(skipped') = Reverse(skipped) \o <<h>>
  BY <1>1, <1>2, <1>3, ReverseCons
<1>5. Reverse(skipped) \in Seq(Request)
  BY <1>1, ReversePlaces
<1> DEFINE u == Reverse(skipped)  t == Tail(waiting)  one == <<h>>
<1>6. one \in Seq(Request) /\ u \in Seq(Request) /\ t \in Seq(Request)
  BY <1>3, <1>5
<1>7. Line' = (u \o one) \o t /\ Line = u \o (one \o t)
  BY <1>1, <1>3, <1>4 DEF Line
<1> HIDE DEF u, t, one
<1>8. (u \o one) \o t = u \o (one \o t)
  BY <1>6, ConcatAssociative
<1>9. Line' = Line
  BY <1>7, <1>8
<1> QED BY <1>1, <1>9, LineUntouched

LEMMA EndPrefillInLine == SchedInv /\ LineInv /\ EndPrefill => LineInv'
<1> SUFFICES ASSUME SchedInv, LineInv, EndPrefill PROVE LineInv'
  OBVIOUS
<1>1. /\ waiting' = Reverse(skipped) \o waiting /\ skipped' = <<>> /\ status' = status
      /\ waiting \in Seq(Request) /\ skipped \in Seq(Request)
  BY DEF EndPrefill, SkippedFirst, SchedInv, TypeOK
<1>2. Line \in Seq(Request) /\ Line' = <<>> \o Line
  BY <1>1, ReverseEmpty, LineOfWaiters DEF Line
<1>3. Line' = Line
  BY <1>2, ConcatEmptySeq
<1> QED BY <1>1, <1>3, LineUntouched

LEMMA HeadOfQueue ==
    ASSUME SchedInv, waiting # <<>>
    PROVE  /\ Head(waiting) \in Request /\ status[Head(waiting)] \in Waiting
           /\ status \in [Request -> Status]
<1>1. waiting \in Seq(Request) /\ IsInjective(waiting) /\ status \in [Request -> Status]
  BY DEF SchedInv, TypeOK, RequestsInOnePlace
<1>2. Head(waiting) \in Request /\ Head(waiting) \in Range(waiting)
  BY <1>1, TailKeeps
<1> QED BY <1>1, <1>2 DEF SchedInv, RequestsInOnePlace

LEMMA IgnoreHeadInLine == SchedInv /\ SchedInv' /\ LineInv /\ IgnoreHead => LineInv'
<1> SUFFICES ASSUME SchedInv, SchedInv', LineInv, IgnoreHead PROVE LineInv'
  OBVIOUS
<1>1. PICK h : h = Head(waiting)
  OBVIOUS
<1>2. /\ waiting # <<>> /\ waiting' = Tail(waiting) /\ skipped' = skipped
      /\ status' = [status EXCEPT ![h] = "ignored"]
  BY <1>1 DEF IgnoreHead, MorePrefills
<1>3. h \in Request /\ status[h] \in Waiting /\ status \in [Request -> Status]
  BY <1>1, <1>2, HeadOfQueue
<1>4. PICK k : LineWithout(Line, Line', k) /\ Line[k] = h
  BY <1>1, <1>2, HeadLeavesLine
<1> QED BY <1>2, <1>3, <1>4, LineLeft DEF Waiting

LEMMA AdmitHeadInLine == SchedInv /\ SchedInv' /\ LineInv /\ AdmitHead => LineInv'
<1> SUFFICES ASSUME SchedInv, SchedInv', LineInv, AdmitHead PROVE LineInv'
  OBVIOUS
<1>1. PICK h : h = Head(waiting)
  OBVIOUS
<1>2. /\ waiting # <<>> /\ waiting' = Tail(waiting) /\ skipped' = skipped
      /\ status' = [status EXCEPT ![h] = "running"]
  BY <1>1 DEF AdmitHead, HeadFits, MorePrefills
<1>3. h \in Request /\ status[h] \in Waiting /\ status \in [Request -> Status]
  BY <1>1, <1>2, HeadOfQueue
<1>4. PICK k : LineWithout(Line, Line', k) /\ Line[k] = h
  BY <1>1, <1>2, HeadLeavesLine
<1> QED BY <1>2, <1>3, <1>4, LineLeft DEF Waiting

(* The victim is before every newcomer, and need not be before another     *)
(* victim.                                                                 *)
LEMMA PreemptLastInLine == SchedInv /\ SchedInv' /\ LineInv /\ PreemptLast => LineInv'
<1> SUFFICES ASSUME SchedInv, SchedInv', LineInv, PreemptLast PROVE LineInv'
  OBVIOUS
<1>1. PICK v : v = running[Len(running)]
  OBVIOUS
<1>2. /\ pc = "decode" /\ pc' \in {"decode", "output"}
      /\ status' = [status EXCEPT ![v] = "preempted"]
      /\ waiting' = <<v>> \o waiting
      /\ req_index <= Len(running)
  BY <1>1 DEF PreemptLast, Preempt, MoreDecodes
<1>3. /\ running \in Seq(Request) /\ waiting \in Seq(Request)
      /\ status \in [Request -> Status]
      /\ req_index \in 1 .. Len(running) + 1
      /\ Range(running) = {r \in Request : status[r] = "running"}
  BY <1>2 DEF SchedInv, TypeOK, Phases, RequestsInOnePlace, Live
<1>4. v \in Request /\ status[v] = "running"
  <2>1. Len(running) \in DOMAIN running
    BY <1>2, <1>3, LenProperties
  <2>2. v \in Range(running)
    BY <1>1, <2>1 DEF Range
  <2> QED BY <2>2, <1>3
<1>5. status'[v] = "preempted" /\ \A q \in Request : q # v => status'[q] = status[q]
  BY <1>2, <1>3, <1>4
<1>6. Line = waiting /\ Line' = waiting'
  <2>1. (SchedInv => (pc # "prefill" => Line = waiting))'
    BY LineOfWaiters, PTL
  <2> QED BY <1>2, <2>1, LineOfWaiters
<1> DEFINE one == <<v>>
<1>7. one \in Seq(Request) /\ Len(one) = 1 /\ one[1] = v
  BY <1>4
<1>8. waiting' = one \o waiting
  BY <1>2
<1> HIDE DEF one
<1>9. /\ waiting' \in Seq(Request) /\ Len(waiting') = 1 + Len(waiting)
      /\ \A i \in 1 .. 1 + Len(waiting) :
             waiting'[i] = IF i <= 1 THEN one[i] ELSE waiting[i - 1]
  <2>1. /\ one \o waiting \in Seq(Request) /\ Len(one \o waiting) = Len(one) + Len(waiting)
        /\ \A i \in 1 .. Len(one) + Len(waiting) :
               (one \o waiting)[i] = IF i <= Len(one) THEN one[i] ELSE waiting[i - Len(one)]
    BY <1>3, <1>7, ConcatProperties
  <2> QED BY <1>7, <1>8, <2>1
<1>10. /\ Len(waiting) \in Nat /\ DOMAIN waiting = 1 .. Len(waiting)
       /\ DOMAIN waiting' = 1 .. 1 + Len(waiting)
  BY <1>3, <1>9, LenProperties
<1>11. \A i \in 1 .. Len(waiting) :
           /\ waiting[i] # v
           /\ status'[waiting[i]] = status[waiting[i]]
  BY <1>4, <1>5, <1>6, <1>10, LineOfWaiters DEF Waiting
<1>12. ASSUME NEW i \in DOMAIN waiting', NEW j \in DOMAIN waiting', i < j,
              status'[waiting'[i]] = "waiting"
       PROVE  status'[waiting'[j]] = "waiting" /\ waiting'[i] < waiting'[j]
  <2>1. i # 1
    <3>1. waiting'[1] = v
      BY <1>7, <1>9, <1>10
    <3> QED BY <3>1, <1>5, <1>12
  <2>2. /\ i - 1 \in 1 .. Len(waiting) /\ j - 1 \in 1 .. Len(waiting) /\ i - 1 < j - 1
        /\ waiting'[i] = waiting[i - 1] /\ waiting'[j] = waiting[j - 1]
    <3>1. /\ i - 1 \in 1 .. Len(waiting) /\ j - 1 \in 1 .. Len(waiting) /\ i - 1 < j - 1
          /\ ~(i <= 1) /\ ~(j <= 1)
      BY <2>1, <1>10, <1>12
    <3> QED BY <3>1, <1>9, <1>10
  <2>3. status[waiting[i - 1]] = "waiting"
    BY <2>2, <1>11, <1>12
  <2>4. status[waiting[j - 1]] = "waiting" /\ waiting[i - 1] < waiting[j - 1]
    BY <2>2, <2>3, <1>6, <1>10 DEF LineInv, InLine
  <2> QED BY <2>2, <2>4, <1>11
<1>13. InLine(Line, status)'
  BY <1>6, <1>12 DEF InLine
<1>14. Arrivals'
  BY <1>4, <1>5 DEF LineInv, Arrivals
<1> QED BY <1>13, <1>14 DEF LineInv

LEMMA TakeTokenInLine ==
    ASSUME SchedInv, LineInv, NEW ends \in BOOLEAN, TakeToken(ends)
    PROVE  LineInv'
<1>1. PICK r : r = running[req_index]
  OBVIOUS
<1>2. /\ pc = "update" /\ req_index <= Len(running)
      /\ UNCHANGED <<waiting, skipped>>
      /\ status' = [status EXCEPT ![r] = "stopped"] \/ status' = status
  BY <1>1 DEF TakeToken
<1>3. /\ running \in Seq(Request) /\ new_running \in Seq(Request)
      /\ status \in [Request -> Status] /\ req_index \in 1 .. Len(running) + 1
      /\ Range(new_running \o SubSeq(running, req_index, Len(running)))
             = {q \in Request : status[q] = "running"}
  BY <1>2 DEF SchedInv, TypeOK, Phases, RequestsInOnePlace, Live
<1>4. r \in Request /\ status[r] = "running"
  <2>1. Len(running) \in Nat /\ DOMAIN running = 1 .. Len(running)
        /\ \A i \in 1 .. Len(running) : running[i] \in Request
    BY <1>3, LenProperties, ElementOfSeq
  <2> DEFINE rest == SubSeq(running, req_index, Len(running))
  <2>2. /\ rest \in Seq(Request)
        /\ Len(rest) = IF req_index <= Len(running) THEN Len(running) - req_index + 1 ELSE 0
        /\ \A i \in 1 .. Len(running) - req_index + 1 : rest[i] = running[req_index + i - 1]
    BY <2>1, <1>3, SubSeqProperties
  <2>3. Range(new_running \o rest) = {q \in Request : status[q] = "running"}
    BY <1>3
  <2> HIDE DEF rest
  <2>4. 1 \in 1 .. Len(rest) /\ rest[1] = r
    <3>1. req_index \in Nat /\ req_index <= Len(running) /\ req_index + 1 - 1 = req_index
          /\ 1 \in 1 .. Len(running) - req_index + 1
      BY <1>2, <1>3, <2>1
    <3>2. rest[1] = r
      BY <3>1, <2>2, <1>1
    <3>3. Len(rest) = Len(running) - req_index + 1
      BY <3>1, <2>2
    <3> QED BY <3>1, <3>2, <3>3
  <2>5. r \in Range(rest)
    BY <2>2, <2>4, LenProperties DEF Range
  <2>6. Range(new_running \o rest) = Range(new_running) \cup Range(rest)
    BY <1>3, <2>2, RangeConcatenation
  <2> QED BY <2>3, <2>5, <2>6
<1>5. \A q \in Request : q # r => status'[q] = status[q]
  BY <1>2, <1>3
<1>6. status'[r] \in {"stopped", "running"}
  BY <1>2, <1>3, <1>4
<1>7. Line' = Line
  BY <1>2 DEF Line
<1> QED BY <1>4, <1>5, <1>6, <1>7, LineUntouched DEF Waiting

LEMMA AbortInLine ==
    ASSUME SchedInv, SchedInv', LineInv, NEW r \in Request, Abort(r)
    PROVE  LineInv'
<1>1. /\ pc = "idle" /\ pc' = "idle" /\ status[r] \in {"waiting", "preempted", "running"}
      /\ Leave(r)
      /\ status' = [status EXCEPT ![r] = "aborted"]
      /\ skipped' = skipped
  BY DEF Abort, BetweenSteps
<1>2. /\ waiting \in Seq(Request) /\ status \in [Request -> Status]
      /\ IsInjective(waiting)
      /\ Range(waiting) \cup Range(skipped) = {q \in Request : status[q] \in Waiting}
  BY DEF SchedInv, TypeOK, RequestsInOnePlace
<1>3. status'[r] = "aborted" /\ \A q \in Request : q # r => status'[q] = status[q]
  BY <1>1, <1>2
<1>4. skipped = <<>> /\ Line = waiting /\ Line' = waiting'
  <2>1. (SchedInv => (pc # "prefill" => Line = waiting))'
    BY LineOfWaiters, PTL
  <2> QED BY <1>1, <2>1, LineOfWaiters
<1>5. CASE status[r] = "running"
  <2>1. Line' = Line
    BY <1>1, <1>4, <1>5 DEF Leave
  <2> QED BY <2>1, <1>3, <1>5, LineUntouched DEF Waiting
<1>6. CASE status[r] # "running"
  <2>1. waiting' = Removed(waiting, r)
    BY <1>1, <1>6 DEF Leave
  <2>2. r \in Range(waiting)
    <3>1. Range(skipped) = {}
      BY <1>4 DEF Range
    <3> QED BY <3>1, <1>1, <1>2, <1>6 DEF Waiting
  <2>3. PICK k : LineWithout(Line, Line', k) /\ Line[k] = r
    BY <2>1, <2>2, <1>2, <1>4, RemovedIsWithout
  <2> QED BY <2>3, <1>1, <1>3, LineLeft
<1> QED BY <1>5, <1>6

LEMMA LineStep == SchedInv /\ LineInv /\ [Next]_vars => LineInv'
<1> SUFFICES ASSUME SchedInv, LineInv, [Next]_vars PROVE LineInv'
  OBVIOUS
<1>1. SchedInv'
  BY SchedStep
<1>2. ASSUME UNCHANGED <<waiting, skipped, status>> PROVE LineInv'
  <2>1. Line' = Line
    BY <1>2 DEF Line
  <2> QED BY <2>1, <1>2, LineUntouched
<1>3. CASE UNCHANGED vars
  BY <1>2, <1>3 DEF vars, queues
<1>4. CASE BeginSchedule \/ DecodeNext \/ EndDecode \/ EndSchedule
  BY <1>2, <1>4 DEF BeginSchedule, DecodeNext, EndDecode, EndSchedule, queues
<1>5. CASE SkipHead \/ IgnoreHead \/ AdmitHead \/ EndPrefill \/ PreemptLast
  BY <1>1, <1>5, SkipHeadInLine, IgnoreHeadInLine, AdmitHeadInLine, EndPrefillInLine,
     PreemptLastInLine
<1>6. CASE Update
  <2>1. CASE BeginUpdate \/ PassOver \/ EndUpdate
    BY <1>2, <2>1 DEF BeginUpdate, PassOver, EndUpdate
  <2>2. ASSUME NEW ends \in BOOLEAN, TakeToken(ends) PROVE LineInv'
    BY <2>2, TakeTokenInLine
  <2> QED BY <1>6, <2>1, <2>2 DEF Update
<1>7. ASSUME NEW r \in Request, AddRequest(r) \/ Abort(r) \/ AbortIgnored(r)
      PROVE  LineInv'
  <2>1. CASE AbortIgnored(r)
    BY <1>2, <2>1 DEF AbortIgnored, queues
  <2> QED BY <1>1, <1>7, <2>1, AddRequestInLine, AbortInLine
<1> QED BY <1>3, <1>4, <1>5, <1>6, <1>7 DEF Next, Schedule

(* Whoever is skipped, preempted, ignored or aborted: between two calls of *)
(* schedule(), preempted requests come before newcomers, and newcomers in  *)
(* the order of their arrival.                                             *)
THEOREM QueueStaysFair == Spec => []QueueOrder
<1>1. SchedInv /\ LineInv => QueueOrder
  <2> SUFFICES ASSUME SchedInv, LineInv, ~InSchedule PROVE QueueOrder
    BY DEF QueueOrder
  <2>1. Line = waiting
    BY LineOfWaiters DEF InSchedule
  <2> QED BY <2>1 DEF QueueOrder, LineInv, InLine
<1>2. SchedInv /\ LineInv /\ [Next]_vars => (SchedInv /\ LineInv)'
  BY SchedStep, LineStep
<1>3. Init => SchedInv /\ LineInv
  BY SchedInit, LineInit
<1> QED BY <1>1, <1>2, <1>3, PTL DEF Spec
=============================================================================
