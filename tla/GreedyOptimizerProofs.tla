------------------------ MODULE GreedyOptimizerProofs ------------------------
(***************************************************************************)
(* Proofs about the greedy optimizer.  Every decision is shown to fit what *)
(* is believed (Fits); what it does to the beliefs is worked out once for  *)
(* each of the three kinds; that both sides stay in step with each other   *)
(* and with the placement, and that no load appears, follows from there.   *)
(***************************************************************************)
EXTENDS GreedyOptimizer, FiniteLemmas, SequenceTheorems

-----------------------------------------------------------------------------
(* The geometry.                                                           *)

LEMMA Geometry ==
    /\ Deploy \in Nat \ {0} /\ Position \subseteq Nat /\ IsFiniteSet(Position)
    /\ -1 \notin Position /\ NoExpert \notin Expert
    /\ Rank = 0 .. WorldSize - 1 /\ IsFiniteSet(Rank) /\ Cardinality(Rank) = WorldSize
    /\ -1 \notin Rank /\ Layer \subseteq Nat
<1>1. Deploy \in Nat \ {0}
  BY GeometryAssumption DEF Deploy
<1>2. NumLayers * Deploy - 1 \in Int
  BY <1>1, GeometryAssumption
<1>3. Position \subseteq Nat /\ IsFiniteSet(Position) /\ -1 \notin Position
  BY <1>2, FS_Interval DEF Position
<1>4. NoExpert \notin Expert
  BY DEF NoExpert, Expert
<1>5. IsFiniteSet(Rank) /\ Cardinality(Rank) = WorldSize /\ -1 \notin Rank
  <2>1. 0 \in Int /\ WorldSize - 1 \in Int /\ WorldSize - 1 - 0 + 1 = WorldSize /\ 0 <= WorldSize - 1
    BY GeometryAssumption
  <2>2. IsFiniteSet(0 .. WorldSize - 1) /\ Cardinality(0 .. WorldSize - 1) = WorldSize - 1 - 0 + 1
    BY <2>1, FS_Interval
  <2> QED BY <2>1, <2>2 DEF Rank
<1> QED BY <1>1, <1>3, <1>4, <1>5 DEF Layer, Rank

LEMMA OwnerType == \A p \in Position : Owner(p) \in Rank
<1> TAKE p \in Position
<1>1. p \in Nat
  BY Geometry
<1>2. p % Deploy \in 0 .. WorldSize * DeployPerRank - 1
  BY <1>1, Geometry DEF Deploy
<1> QED BY <1>2, QuotientBelow, GeometryAssumption DEF Owner, Rank

LEMMA QuotientType ==
    ASSUME NEW v \in Nat, NEW n \in Nat \ {0}
    PROVE  v \div n \in Nat /\ n * (v \div n) <= v
<1> DEFINE q == v \div n
           m == v % n
<1>1. q \in Int /\ m \in 0 .. n - 1 /\ v = n * q + m
  OBVIOUS
<1> HIDE DEF q, m
<1>2. n * q <= v
  BY <1>1
<1>3. q >= 0
  <2> SUFFICES ASSUME q <= -1 PROVE FALSE
    BY <1>1
  <2>1. n * q <= n * (-1)
    BY <1>1
  <2> QED BY <1>1, <2>1
<1> QED BY <1>1, <1>2, <1>3 DEF q

LEMMA QuotientIs ==
    ASSUME NEW k \in Nat \ {0}, NEW a \in Int, NEW b \in 0 .. k - 1
    PROVE  (k * a + b) \div k = a /\ (k * a + b) % k = b
<1> DEFINE x == k * a + b
           q == x \div k
           m == x % k
<1>1. x \in Int
  OBVIOUS
<1> HIDE DEF x
<1>2. q \in Int /\ m \in 0 .. k - 1 /\ x = k * q + m
  BY <1>1
<1> HIDE DEF q, m
<1>3. k * q + m = k * a + b
  BY <1>2 DEF x
<1>4. m = b
  BY <1>2, <1>3, RemainderUnique
<1>5. k * q = k * a
  BY <1>2, <1>3, <1>4
<1>6. ASSUME NEW y \in Int, NEW z \in Int, y < z PROVE k * y # k * z
  <2>1. k * (z - y) = k * z - k * y
    OBVIOUS
  <2>2. z - y \in Int /\ z - y >= 1
    BY <1>6
  <2>3. k * (z - y) >= k
    BY <2>2
  <2> QED BY <2>1, <2>3
<1>7. q = a
  BY <1>2, <1>5, <1>6
<1> QED BY <1>4, <1>7 DEF x, q, m

(* Position i of a rank in the layer is one of its positions there.        *)
LEMMA GlobalIs ==
    ASSUME layer \in Layer, NEW r \in Rank, NEW i \in 0 .. DeployPerRank - 1
    PROVE  Global(r, i) \in OfRank(r)
<1> DEFINE low == r * DeployPerRank + i
           p   == Global(r, i)
<1>1. /\ r \in 0 .. WorldSize - 1 /\ layer \in 0 .. NumLayers - 1
      /\ DeployPerRank \in Nat \ {0} /\ WorldSize \in Nat \ {0} /\ NumLayers \in Nat \ {0}
      /\ Deploy \in Nat \ {0} /\ Deploy = WorldSize * DeployPerRank
  BY Geometry, GeometryAssumption DEF Rank, Layer, Deploy
<1>2. low \in 0 .. Deploy - 1
  <2>1. r * DeployPerRank >= 0 /\ r * DeployPerRank \in Int
    BY <1>1
  <2>2. (WorldSize - 1 - r) * DeployPerRank >= 0
    BY <1>1
  <2>3. (WorldSize - 1 - r) * DeployPerRank =
            WorldSize * DeployPerRank - DeployPerRank - r * DeployPerRank
    BY <1>1
  <2> QED BY <1>1, <2>1, <2>2, <2>3
<1>3. p = Deploy * layer + low
  BY <1>1 DEF Global
<1>4. p \div Deploy = layer /\ p % Deploy = low
  <2>1. PICK a \in Int, b \in 0 .. Deploy - 1 : a = layer /\ b = low
    BY <1>1, <1>2
  <2>2. (Deploy * a + b) \div Deploy = a /\ (Deploy * a + b) % Deploy = b
    BY <1>1, QuotientIs
  <2> HIDE DEF low, p
  <2> QED BY <1>3, <2>1, <2>2
<1> HIDE DEF low
<1>5. low \div DeployPerRank = r
  <2>1. low = DeployPerRank * r + i
    BY <1>1 DEF low
  <2> QED BY <1>1, <2>1, QuotientIs
<1>6. p \in Position
  <2>1. Deploy * layer >= 0 /\ Deploy * layer \in Int
    BY <1>1
  <2>2. Deploy * (NumLayers - 1 - layer) >= 0
    BY <1>1
  <2>3. Deploy * (NumLayers - 1 - layer) = NumLayers * Deploy - Deploy - Deploy * layer
    BY <1>1
  <2> QED BY <1>1, <1>2, <1>3, <2>1, <2>2, <2>3 DEF Position
<1> QED BY <1>4, <1>5, <1>6 DEF OfRank, InLayer, LayerOf, Owner
-----------------------------------------------------------------------------
(* What is known of a state between two steps.                             *)

Owners == Expert \cup {NoExpert}
Move   == [type : {"SWAP", "ADD", "REMOVE"}, source : Position \cup {-1}, target : Position]
Listed == [type : {"SWAP", "ADD", "REMOVE"},
           source_rank : Rank \cup {-1}, source_position : Position \cup {-1}, source_expert : Owners,
           target_rank : Rank, target_position : Position, target_expert : Owners]

GreedyTypes ==
    /\ view \in [Position -> Owners] /\ deployed \in [Position -> Owners]
    /\ loads \in [Position -> Nat]
    /\ DOMAIN shares = Expert /\ \A e \in Expert : shares[e] \in [At(e) -> Nat]
    /\ layer \in Layer /\ excluded \subseteq Rank
    /\ highest \in Rank \cup {-1} /\ position \in Nat /\ best \in Nat
    /\ list \in Seq(Listed)

Beliefs == GreedyTypes /\ BeliefsAgree

LEMMA AtType ==
    ASSUME Beliefs, NEW e \in Expert
    PROVE  /\ At(e) = {p \in Position : deployed[p] = e} /\ IsFiniteSet(At(e))
           /\ Cardinality(At(e)) \in Nat /\ shares[e] \in [At(e) -> Nat]
           /\ \A p \in At(e) : deployed[p] = e /\ shares[e][p] = loads[p] /\ loads[p] \in Nat
<1>1. At(e) = {p \in Position : deployed[p] = e}
  BY DEF Beliefs, BeliefsAgree
<1>2. At(e) \subseteq Position
  BY <1>1
<1>3. IsFiniteSet(At(e)) /\ Cardinality(At(e)) \in Nat
  BY <1>2, Geometry, FS_Subset, FS_CardinalityType
<1>4. \A p \in At(e) : deployed[p] = e /\ shares[e][p] = loads[p] /\ loads[p] \in Nat
  <2> SUFFICES ASSUME NEW p \in At(e)
               PROVE  deployed[p] = e /\ shares[e][p] = loads[p] /\ loads[p] \in Nat
    OBVIOUS
  <2>1. p \in Position /\ deployed[p] = e /\ e # NoExpert
    BY <1>1, Geometry
  <2> QED BY <2>1 DEF Beliefs, BeliefsAgree, GreedyTypes
<1> QED BY <1>1, <1>3, <1>4 DEF Beliefs, GreedyTypes

LEMMA AtOthers ==
    ASSUME Beliefs, NEW e \in Expert, NEW p \in At(e)
    PROVE  /\ IsFiniteSet(At(e) \ {p}) /\ Cardinality(At(e) \ {p}) = Cardinality(At(e)) - 1
           /\ Spare(e) => Cardinality(At(e) \ {p}) \in Nat \ {0}
<1>1. PICK A : A = At(e) /\ IsFiniteSet(A) /\ Cardinality(A) \in Nat
  BY AtType
<1>2. IsFiniteSet(A \ {p}) /\ Cardinality(A \ {p}) = Cardinality(A) - 1
  BY <1>1, FS_RemoveElement
<1> QED BY <1>1, <1>2 DEF Spare

(* The two sides as they should be: what d deploys, l loads, sh shares.    *)
Agreeing(d, l, sh) ==
    /\ d \in [Position -> Owners] /\ l \in [Position -> Nat] /\ DOMAIN sh = Expert
    /\ \A e \in Expert : sh[e] \in [{p \in Position : d[p] = e} -> Nat]
    /\ \A p \in Position : l[p] = IF d[p] = NoExpert THEN 0 ELSE sh[d[p]][p]

(* In S, replica t gets at most what the replicas A give, and its old load *)
(* is shared out among U: n are the loads afterwards, l before.            *)
Reshared(n, l, t, S) ==
    \E A, U \in SUBSET (S \ {t}), part, c \in Nat :
        /\ A \cap U = {}
        /\ c * Cardinality(U) <= l[t]
        /\ n[t] = part * Cardinality(A)
        /\ \A q \in S \ {t} : IF q \in A THEN n[q] = l[q] - part
                             ELSE IF q \in U THEN n[q] = l[q] + c ELSE n[q] <= l[q]

LEMMA AgreeingNow == ASSUME Beliefs PROVE Agreeing(deployed, loads, shares)
<1>1. \A e \in Expert : shares[e] \in [{p \in Position : deployed[p] = e} -> Nat]
  BY AtType
<1> QED BY <1>1 DEF Agreeing, Beliefs, GreedyTypes, BeliefsAgree

(* A removal shares out the load of its position.                          *)
LEMMA RemoveBelieves ==
    ASSUME Beliefs, NEW t \in Position, NEW e \in Expert, deployed[t] = e, Spare(e),
           Believe([type |-> "REMOVE", source |-> -1, target |-> t])
    PROVE  LET U == At(e) \ {t}
               c == loads[t] \div Cardinality(U)
           IN  /\ c \in Nat
               /\ deployed' = [deployed EXCEPT ![t] = NoExpert]
               /\ loads' = [q \in Position |-> IF q = t THEN 0
                                               ELSE IF q \in U THEN loads[q] + c ELSE loads[q]]
               /\ shares' = [x \in Expert |-> IF x = e THEN [q \in U |-> loads[q] + c] ELSE shares[x]]
<1> DEFINE m == [type |-> "REMOVE", source |-> -1, target |-> t]
           U == At(e) \ {t}
           c == loads[t] \div Cardinality(U)
           holder(q) == {x \in Touched(m) : q \in DOMAIN shares'[x]}
           told(q)   == CHOOSE x \in holder(q) : TRUE
<1>1. e # NoExpert /\ t \in At(e)
  BY AtType, Geometry
<1>2. \A q \in At(e) : deployed[q] = e /\ shares[e][q] = loads[q] /\ q \in Position
  BY AtType
<1>3. loads[t] \in Nat /\ Cardinality(U) \in Nat \ {0}
  BY <1>1, AtType, AtOthers
<1>4. c \in Nat
  <2> HIDE DEF U
  <2> QED BY <1>3, QuotientType
<1>5. shares' = NewShares(m) /\ Touched(m) = {e}
  BY <1>1 DEF Believe, Touched
<1>6. shares' = [x \in Expert |-> IF x = e THEN [q \in U |-> loads[q] + c] ELSE shares[x]]
  <2>0. shares[e][t] = loads[t]
    BY <1>1, <1>2
  <2>1. shares[e][t] = loads[t] /\ DOMAIN shares[e] = At(e)
    BY <2>0 DEF At
  <2>2. ShareOut(Without(shares[e], t), shares[e][t]) = [q \in U |-> loads[q] + c]
    BY <1>2, <2>1 DEF ShareOut, Without
  <2>3. \A x \in Expert : NewShares(m)[x] = IF x = e THEN ShareOut(Without(shares[e], t), shares[e][t])
                                                    ELSE shares[x]
    BY DEF NewShares
  <2>4. shares' = [x \in Expert |-> IF x = e THEN ShareOut(Without(shares[e], t), shares[e][t])
                                            ELSE shares[x]]
    BY <1>5, <2>3 DEF NewShares
  <2> QED BY <2>2, <2>4
<1> HIDE DEF c
<1>7. shares'[e] = [q \in U |-> loads[q] + c]
  BY <1>6
<1>8. \A q : holder(q) = IF q \in U THEN {e} ELSE {}
  BY <1>5, <1>7
<1>9. \A q \in U : told(q) = e
  BY <1>8
<1>10. /\ deployed' = [q \in Position |-> IF holder(q) # {} THEN told(q)
                                          ELSE IF q = t THEN NoExpert ELSE deployed[q]]
       /\ loads' = [q \in Position |-> IF holder(q) # {} THEN shares'[told(q)][q]
                                       ELSE IF q = t THEN 0 ELSE loads[q]]
  BY DEF Believe
<1> HIDE DEF holder, told
<1>11. deployed' = [q \in Position |-> IF q \in U THEN e ELSE IF q = t THEN NoExpert ELSE deployed[q]]
  BY <1>8, <1>9, <1>10
<1>12. deployed' = [deployed EXCEPT ![t] = NoExpert]
  BY <1>2, <1>11 DEF Beliefs, GreedyTypes
<1>13. loads' = [q \in Position |-> IF q = t THEN 0
                                   ELSE IF q \in U THEN loads[q] + c ELSE loads[q]]
  <2>1. \A q \in U : shares'[told(q)][q] = loads[q] + c
    BY <1>7, <1>9
  <2> QED BY <1>8, <1>10, <2>1
<1> QED BY <1>4, <1>6, <1>12, <1>13 DEF c

LEMMA RemoveAgrees ==
    ASSUME Beliefs, NEW t \in Position, NEW e \in Expert, deployed[t] = e, Spare(e),
           Believe([type |-> "REMOVE", source |-> -1, target |-> t])
    PROVE  Agreeing(deployed', loads', shares')
<1> DEFINE U == At(e) \ {t}
           c == loads[t] \div Cardinality(U)
<1>1. /\ c \in Nat
      /\ deployed' = [deployed EXCEPT ![t] = NoExpert]
      /\ loads' = [q \in Position |-> IF q = t THEN 0
                                      ELSE IF q \in U THEN loads[q] + c ELSE loads[q]]
      /\ shares' = [x \in Expert |-> IF x = e THEN [q \in U |-> loads[q] + c] ELSE shares[x]]
  BY RemoveBelieves
<1>2. \A x \in Expert : /\ shares[x] \in [{p \in Position : deployed[p] = x} -> Nat]
                        /\ x # NoExpert
  BY AgreeingNow, Geometry DEF Agreeing
<1>3. U = {p \in Position : deployed[p] = e} \ {t} /\ U \subseteq Position
  BY AtType
<1>4. /\ deployed \in [Position -> Owners] /\ loads \in [Position -> Nat]
      /\ \A p \in Position : loads[p] = IF deployed[p] = NoExpert THEN 0 ELSE shares[deployed[p]][p]
  BY AgreeingNow DEF Agreeing
<1> HIDE DEF U, c
<1>5. deployed' \in [Position -> Owners] /\ loads' \in [Position -> Nat] /\ DOMAIN shares' = Expert
  BY <1>1, <1>4 DEF Owners
<1>6. ASSUME NEW x \in Expert PROVE shares'[x] \in [{p \in Position : deployed'[p] = x} -> Nat]
  <2>1. CASE x = e
    <3>1. {p \in Position : deployed'[p] = x} = U
      BY <1>1, <1>2, <1>3, <1>4, <2>1
    <3>2. shares'[x] = [q \in U |-> loads[q] + c]
      BY <1>1, <2>1
    <3>3. \A q \in U : loads[q] + c \in Nat
      BY <1>1, <1>3, <1>4
    <3>4. shares'[x] \in [U -> Nat]
      BY <3>2, <3>3
    <3> QED BY <3>1, <3>4
  <2>2. CASE x # e
    <3>1. {p \in Position : deployed'[p] = x} = {p \in Position : deployed[p] = x}
      BY <1>1, <1>2, <1>4, <2>2
    <3> QED BY <1>1, <1>2, <2>2, <3>1
  <2> QED BY <2>1, <2>2
<1>7. ASSUME NEW p \in Position
      PROVE  loads'[p] = IF deployed'[p] = NoExpert THEN 0 ELSE shares'[deployed'[p]][p]
  <2>1. CASE p = t
    BY <1>1, <1>4, <2>1
  <2>2. CASE p \in U
    <3>1. deployed'[p] = e /\ e # NoExpert /\ p # t
      BY <1>1, <1>2, <1>3, <1>4, <2>2
    <3> QED BY <1>1, <2>2, <3>1
  <2>3. CASE p # t /\ p \notin U
    <3>1. deployed'[p] = deployed[p] /\ deployed[p] # e /\ loads'[p] = loads[p]
      BY <1>1, <1>3, <1>4, <2>3
    <3>2. deployed[p] # NoExpert => shares'[deployed[p]] = shares[deployed[p]]
      BY <1>1, <1>4, <3>1 DEF Owners
    <3> QED BY <1>4, <3>1, <3>2
  <2> QED BY <2>1, <2>2, <2>3
<1> QED BY <1>5, <1>6, <1>7 DEF Agreeing

(* A swap exchanges two positions.                                         *)
LEMMA SwapAgrees ==
    ASSUME Beliefs, NEW s \in Position, NEW t \in Position, deployed[s] # deployed[t],
           Believe([type |-> "SWAP", source |-> s, target |-> t])
    PROVE  /\ deployed' = [deployed EXCEPT ![s] = deployed[t], ![t] = deployed[s]]
           /\ loads' = [loads EXCEPT ![s] = loads[t], ![t] = loads[s]]
           /\ Agreeing(deployed', loads', shares')
<1> DEFINE a == deployed[s]
           b == deployed[t]
           m == [type |-> "SWAP", source |-> s, target |-> t]
<1>1. /\ deployed' = [deployed EXCEPT ![s] = b, ![t] = a]
      /\ loads' = [loads EXCEPT ![s] = loads[t], ![t] = loads[s]]
      /\ shares' = NewShares(m)
  BY DEF Believe
<1>2. shares' = [x \in Expert |-> IF x = a THEN Moved(shares[x], s, t, loads[s])
                                  ELSE IF x = b THEN Moved(shares[x], t, s, loads[t])
                                  ELSE shares[x]]
  BY <1>1 DEF NewShares
<1>3. /\ deployed \in [Position -> Owners] /\ loads \in [Position -> Nat]
      /\ \A p \in Position : loads[p] = IF deployed[p] = NoExpert THEN 0 ELSE shares[deployed[p]][p]
      /\ \A x \in Expert : shares[x] \in [{p \in Position : deployed[p] = x} -> Nat]
  BY AgreeingNow DEF Agreeing
<1>4. a \in Owners /\ b \in Owners /\ a # b /\ s # t /\ loads[s] \in Nat /\ loads[t] \in Nat
  BY <1>3
<1>5. \A p \in Position : /\ deployed'[p] = IF p = t THEN a ELSE IF p = s THEN b ELSE deployed[p]
                         /\ loads'[p] = IF p = t THEN loads[s] ELSE IF p = s THEN loads[t] ELSE loads[p]
  BY <1>1, <1>3
<1>6. deployed[s] = a /\ deployed[t] = b
  OBVIOUS
<1> HIDE DEF a, b, m
<1>7. deployed' \in [Position -> Owners] /\ loads' \in [Position -> Nat] /\ DOMAIN shares' = Expert
  <2>1. \A p \in Position : deployed'[p] \in Owners /\ loads'[p] \in Nat
    BY <1>3, <1>4, <1>5
  <2> QED BY <1>1, <1>2, <1>3, <2>1
<1>8. ASSUME NEW x \in Expert
      PROVE  /\ shares'[x] \in [{p \in Position : deployed'[p] = x} -> Nat]
             /\ \A p \in Position : deployed'[p] = x => shares'[x][p] = loads'[p]
  <2>1. PICK A : A = {p \in Position : deployed[p] = x} /\ shares[x] \in [A -> Nat]
    BY <1>3
  <2>2. \A p \in A : shares[x][p] = loads[p] /\ p \in Position /\ loads[p] \in Nat
    <3>1. x # NoExpert
      BY Geometry
    <3> QED BY <1>3, <2>1, <3>1
  <2>3. CASE x = a
    <3>1. {p \in Position : deployed'[p] = x} = (A \ {s}) \cup {t}
      BY <1>4, <1>5, <1>6, <2>1, <2>3
    <3>2. shares'[x] = [q \in (A \ {s}) \cup {t} |-> IF q = t THEN loads[s] ELSE shares[x][q]]
      BY <1>2, <2>1, <2>3 DEF Moved
    <3>3. \A q \in (A \ {s}) \cup {t} : shares'[x][q] = loads'[q]
      BY <1>4, <1>5, <2>2, <3>2
    <3> QED BY <1>4, <2>2, <3>1, <3>2, <3>3
  <2>4. CASE x = b
    <3>1. {p \in Position : deployed'[p] = x} = (A \ {t}) \cup {s}
      BY <1>4, <1>5, <1>6, <2>1, <2>4
    <3>2. shares'[x] = [q \in (A \ {t}) \cup {s} |-> IF q = s THEN loads[t] ELSE shares[x][q]]
      BY <1>2, <1>4, <2>1, <2>4 DEF Moved
    <3>3. \A q \in (A \ {t}) \cup {s} : shares'[x][q] = loads'[q]
      BY <1>4, <1>5, <2>2, <3>2
    <3> QED BY <1>4, <2>2, <3>1, <3>2, <3>3
  <2>5. CASE x # a /\ x # b
    <3>1. {p \in Position : deployed'[p] = x} = A
      BY <1>5, <1>6, <2>1, <2>5
    <3>2. shares'[x] = shares[x]
      BY <1>2, <2>5
    <3>3. \A q \in A : q # s /\ q # t
      BY <1>6, <2>1, <2>5
    <3> QED BY <1>5, <2>1, <2>2, <3>1, <3>2, <3>3
  <2> QED BY <2>3, <2>4, <2>5
<1>9. ASSUME NEW p \in Position
      PROVE  loads'[p] = IF deployed'[p] = NoExpert THEN 0 ELSE shares'[deployed'[p]][p]
  <2>1. CASE deployed'[p] = NoExpert
    <3>1. \A q \in Position : deployed[q] = NoExpert => loads[q] = 0
      BY <1>3
    <3> QED BY <1>5, <1>6, <2>1, <3>1
  <2>2. CASE deployed'[p] # NoExpert
    <3>1. deployed'[p] \in Expert
      BY <1>7, <2>2 DEF Owners
    <3> QED BY <1>8, <2>2, <3>1
  <2> QED BY <2>1, <2>2
<1> QED BY <1>1, <1>7, <1>8, <1>9 DEF Agreeing, a, b

(* An addition takes a part from the replicas there are, and shares out    *)
(* the load of the replica it replaces.                                    *)
LEMMA SplitIs ==
    ASSUME Beliefs, NEW a \in Expert, NEW s \in At(a), NEW t \in Position \ At(a)
    PROVE  \E part \in Nat, able \in SUBSET At(a) :
              /\ \A q \in able : part <= loads[q]
              /\ part * Cardinality(able) \in Nat
              /\ Split(shares[a], t) = [q \in At(a) \cup {t} |->
                     IF q = t THEN part * Cardinality(able)
                     ELSE IF q \in able THEN loads[q] - part ELSE 0]
<1> DEFINE n    == Cardinality(At(a))
           sum  == SumFunction(shares[a])
           part == (sum \div (n + 1)) \div n
           able == {q \in At(a) : shares[a][q] >= part}
<1>1. /\ DOMAIN shares[a] = At(a) /\ IsFiniteSet(At(a)) /\ n \in Nat
      /\ \A q \in At(a) : shares[a][q] = loads[q] /\ loads[q] \in Nat
  BY AtType DEF At
<1>2. n \in Nat \ {0} /\ n + 1 \in Nat \ {0}
  <2>1. At(a) # {}
    OBVIOUS
  <2>2. n # 0
    BY <1>1, <2>1, FS_EmptySet
  <2> QED BY <1>1, <2>2
<1>3. sum \in Nat
  <2>1. PICK A, f : A = At(a) /\ f = shares[a]
    OBVIOUS
  <2>2. IsFiniteSet(A) /\ \A q \in A : f[q] \in Nat
    BY <1>1, <2>1
  <2>3. SumFunctionOnSet(f, A) \in Nat
    BY <2>2, SumNat
  <2>4. sum = SumFunctionOnSet(f, A)
    BY <1>1, <2>1 DEF SumFunction
  <2> QED BY <2>3, <2>4
<1>4. part \in Nat
  <2>1. PICK v, k : v = sum /\ k = n
    OBVIOUS
  <2>2. v \div (k + 1) \in Nat
    BY <1>2, <1>3, <2>1, QuotientType
  <2>3. (v \div (k + 1)) \div k \in Nat
    BY <1>2, <2>1, <2>2, QuotientType
  <2> QED BY <2>1, <2>3
<1>5. Split(shares[a], t) = [q \in At(a) \cup {t} |->
           IF q = t THEN part * Cardinality(able)
           ELSE IF q \in able THEN shares[a][q] - part ELSE 0]
  BY <1>1 DEF Split
<1>6. IsFiniteSet(able) /\ Cardinality(able) \in Nat /\ able \in SUBSET At(a)
  <2>1. able \in SUBSET At(a)
    OBVIOUS
  <2> HIDE DEF able
  <2> QED BY <1>1, <2>1, FS_Subset, FS_CardinalityType
<1>7. \A q \in able : part <= loads[q] /\ shares[a][q] = loads[q]
  <2>1. \A q \in able : shares[a][q] >= part /\ q \in At(a)
    OBVIOUS
  <2> HIDE DEF part, able
  <2> QED BY <1>1, <1>4, <2>1
<1> HIDE DEF part, able
<1>8. Split(shares[a], t) = [q \in At(a) \cup {t} |->
           IF q = t THEN part * Cardinality(able)
           ELSE IF q \in able THEN loads[q] - part ELSE 0]
  BY <1>5, <1>7
<1>9. part * Cardinality(able) \in Nat
  BY <1>4, <1>6
<1> QED BY <1>4, <1>6, <1>7, <1>8, <1>9

LEMMA ReplacedIs ==
    ASSUME Beliefs, NEW b \in Owners, NEW t \in Position, deployed[t] = b, b # NoExpert => Spare(b)
    PROVE  \E U \in SUBSET (Position \ {t}), c \in Nat :
              /\ U = {p \in Position : deployed[p] = b /\ b # NoExpert} \ {t}
              /\ c * Cardinality(U) <= loads[t]
              /\ b # NoExpert => /\ U = At(b) \ {t}
                                 /\ ShareOut(Without(shares[b], t), shares[b][t])
                                      = [q \in U |-> loads[q] + c]
<1>1. CASE b = NoExpert
  <2>1. loads[t] \in Nat
    BY DEF Beliefs, GreedyTypes
  <2>2. {p \in Position : deployed[p] = b /\ b # NoExpert} \ {t} = {} /\ 0 * Cardinality({}) <= loads[t]
    BY <1>1, <2>1, FS_EmptySet
  <2> QED BY <1>1, <2>2
<1>2. CASE b # NoExpert
  <2>1. b \in Expert /\ Spare(b)
    BY <1>2 DEF Owners
  <2>2. At(b) = {p \in Position : deployed[p] = b} /\ t \in At(b)
    BY <2>1, AtType
  <2> DEFINE U == At(b) \ {t}
             c == loads[t] \div Cardinality(U)
  <2>3. loads[t] \in Nat /\ Cardinality(U) \in Nat \ {0}
    BY <2>1, <2>2, AtType, AtOthers
  <2>4. c \in Nat /\ c * Cardinality(U) <= loads[t]
    <3> HIDE DEF U
    <3>1. c \in Nat /\ Cardinality(U) * c <= loads[t]
      BY <2>3, QuotientType
    <3> HIDE DEF c
    <3> QED BY <2>3, <3>1
  <2>5. shares[b][t] = loads[t] /\ \A q \in U : shares[b][q] = loads[q]
    BY <2>1, <2>2, AtType
  <2>6. DOMAIN shares[b] = At(b)
    BY DEF At
  <2>7. ShareOut(Without(shares[b], t), shares[b][t]) = [q \in U |-> loads[q] + c]
    BY <2>5, <2>6 DEF ShareOut, Without
  <2>8. U = {p \in Position : deployed[p] = b /\ b # NoExpert} \ {t} /\ U \in SUBSET (Position \ {t})
    BY <1>2, <2>2
  <2> HIDE DEF c
  <2> QED BY <2>4, <2>7, <2>8
<1> QED BY <1>1, <1>2

LEMMA AddAgrees ==
    ASSUME Beliefs, NEW s \in Position, NEW t \in Position, deployed[s] # deployed[t],
           deployed[s] # NoExpert, deployed[t] # NoExpert => Spare(deployed[t]),
           Believe([type |-> "ADD", source |-> s, target |-> t])
    PROVE  /\ deployed' = [deployed EXCEPT ![t] = deployed[s]]
           /\ Agreeing(deployed', loads', shares')
           /\ Reshared(loads', loads, t, Position)
<1>1. PICK a, b : a = deployed[s] /\ b = deployed[t]
  OBVIOUS
<1>2. /\ deployed \in [Position -> Owners] /\ loads \in [Position -> Nat]
      /\ \A p \in Position : loads[p] = IF deployed[p] = NoExpert THEN 0 ELSE shares[deployed[p]][p]
      /\ \A x \in Expert : shares[x] \in [{p \in Position : deployed[p] = x} -> Nat]
      /\ \A x \in Expert : x # NoExpert
  BY AgreeingNow, Geometry DEF Agreeing
<1>3. a \in Expert /\ b \in Owners /\ a # b /\ (b # NoExpert => b \in Expert /\ Spare(b))
  BY <1>1, <1>2 DEF Owners
<1>4. PICK A : A = At(a) /\ A = {p \in Position : deployed[p] = a}
               /\ \A q \in A : shares[a][q] = loads[q] /\ loads[q] \in Nat
  BY <1>3, AtType
<1>5. s \in A /\ t \in Position \ A
  BY <1>1, <1>3, <1>4
<1>6. PICK part \in Nat, able \in SUBSET At(a) :
        /\ \A q \in able : part <= loads[q]
        /\ part * Cardinality(able) \in Nat
        /\ Split(shares[a], t) = [q \in At(a) \cup {t} |->
               IF q = t THEN part * Cardinality(able)
               ELSE IF q \in able THEN loads[q] - part ELSE 0]
  <2>1. a \in Expert /\ s \in At(a) /\ t \in Position \ At(a)
    BY <1>3, <1>4, <1>5
  <2> QED BY <2>1, SplitIs
<1>7. PICK U \in SUBSET (Position \ {t}), c \in Nat :
        /\ U = {p \in Position : deployed[p] = b /\ b # NoExpert} \ {t}
        /\ c * Cardinality(U) <= loads[t]
        /\ b # NoExpert => /\ U = At(b) \ {t}
                           /\ ShareOut(Without(shares[b], t), shares[b][t]) = [q \in U |-> loads[q] + c]
  BY <1>1, <1>3, ReplacedIs
<1> DEFINE m    == [type |-> "ADD", source |-> s, target |-> t]
           gain == part * Cardinality(able)
           holder(q) == {x \in Touched(m) : q \in DOMAIN shares'[x]}
           told(q)   == CHOOSE x \in holder(q) : TRUE
<1>8. shares' = NewShares(m) /\ Touched(m) = {a, b} \ {NoExpert}
  BY <1>1, <1>3 DEF Believe, Touched
<1>9. PICK k : k = gain /\ k \in Nat
  BY <1>6
<1>10. shares' = [x \in Expert |->
           IF x = a THEN [q \in A \cup {t} |-> IF q = t THEN k ELSE IF q \in able THEN loads[q] - part ELSE 0]
           ELSE IF x = b THEN [q \in U |-> loads[q] + c] ELSE shares[x]]
  <2>1. \A x \in Expert : NewShares(m)[x] = IF x = a THEN Split(shares[a], t)
                                  ELSE IF x = b THEN ShareOut(Without(shares[b], t), shares[b][t])
                                  ELSE shares[x]
    BY <1>1 DEF NewShares
  <2>2. shares' = [x \in Expert |-> IF x = a THEN Split(shares[a], t)
                                  ELSE IF x = b THEN ShareOut(Without(shares[b], t), shares[b][t])
                                  ELSE shares[x]]
    BY <1>8, <2>1 DEF NewShares
  <2>3. Split(shares[a], t) =
            [q \in A \cup {t} |-> IF q = t THEN k ELSE IF q \in able THEN loads[q] - part ELSE 0]
    BY <1>4, <1>6, <1>9
  <2> HIDE DEF m, gain
  <2> QED BY <1>2, <1>7, <2>2, <2>3
<1>11. A \cap U = {} /\ t \notin U /\ able \cap U = {} /\ A \subseteq Position /\ able \subseteq A
  BY <1>3, <1>4, <1>6, <1>7
<1>12. \A q \in A \cup {t} : /\ holder(q) = {a}
                            /\ shares'[a][q] = IF q = t THEN k ELSE IF q \in able THEN loads[q] - part ELSE 0
  BY <1>2, <1>3, <1>8, <1>10, <1>11
<1>13. \A q \in U : holder(q) = {b} /\ shares'[b][q] = loads[q] + c
  <2>1. U # {} => b \in Expert
    BY <1>3, <1>7
  <2> QED BY <1>2, <1>3, <1>8, <1>10, <1>11, <2>1
<1>14. \A q : q \notin A \cup {t} \cup U => holder(q) = {}
  BY <1>2, <1>3, <1>8, <1>10
<1>15. (\A q \in A \cup {t} : told(q) = a) /\ (\A q \in U : told(q) = b)
  BY <1>12, <1>13
<1>16. /\ deployed' = [q \in Position |-> IF holder(q) # {} THEN told(q)
                                           ELSE IF q = t THEN NoExpert ELSE deployed[q]]
       /\ loads' = [q \in Position |-> IF holder(q) # {} THEN shares'[told(q)][q]
                                        ELSE IF q = t THEN 0 ELSE loads[q]]
  BY DEF Believe
<1> HIDE DEF holder, told, m, gain
<1>17. \A q \in Position :
          /\ deployed'[q] = IF q = t THEN a ELSE deployed[q]
          /\ loads'[q] = IF q = t THEN k ELSE IF q \in able THEN loads[q] - part
                         ELSE IF q \in A THEN 0 ELSE IF q \in U THEN loads[q] + c ELSE loads[q]
  <2> TAKE q \in Position
  <2>1. CASE q \in A \cup {t}
    <3>1. holder(q) # {} /\ told(q) = a
      BY <1>12, <1>15, <2>1
    <3>2. q # t => deployed[q] = a
      BY <1>4, <2>1
    <3>3. able \subseteq A /\ t \notin A
      BY <1>5, <1>11
    <3> QED BY <1>12, <1>16, <2>1, <3>1, <3>2, <3>3
  <2>2. CASE q \in U
    <3>1. holder(q) # {} /\ told(q) = b /\ deployed[q] = b /\ q \notin A /\ q # t /\ q \notin able
      BY <1>7, <1>11, <1>13, <1>15, <2>2
    <3> QED BY <1>13, <1>16, <2>2, <3>1
  <2>3. CASE q \notin A \cup {t} \cup U
    <3>1. holder(q) = {} /\ q \notin able
      BY <1>11, <1>14, <2>3
    <3> QED BY <1>16, <2>3, <3>1
  <2> QED BY <2>1, <2>2, <2>3
<1>18. deployed' = [deployed EXCEPT ![t] = a]
  BY <1>2, <1>16, <1>17
<1>19. \A q \in able : loads[q] - part \in Nat /\ part <= loads[q]
  <2>1. \A q \in able : loads[q] \in Nat /\ part <= loads[q]
    BY <1>4, <1>6
  <2> QED BY <2>1
<1>20. \A q \in U : loads[q] + c \in Nat
  <2>1. \A q \in U : loads[q] \in Nat
    BY <1>2
  <2> QED BY <2>1
<1>21. deployed' \in [Position -> Owners] /\ loads' \in [Position -> Nat] /\ DOMAIN shares' = Expert
  <2>1. \A q \in Position : deployed'[q] \in Owners
    BY <1>2, <1>3, <1>17 DEF Owners
  <2>2. \A q \in Position : loads'[q] \in Nat
    BY <1>2, <1>9, <1>17, <1>19, <1>20
  <2> QED BY <1>10, <1>16, <2>1, <2>2
<1>22. ASSUME NEW x \in Expert
       PROVE  /\ shares'[x] \in [{p \in Position : deployed'[p] = x} -> Nat]
              /\ \A p \in Position : deployed'[p] = x => shares'[x][p] = loads'[p]
  <2>1. CASE x = a
    <3>1. {p \in Position : deployed'[p] = x} = A \cup {t}
      BY <1>4, <1>5, <1>17, <2>1
    <3>2. shares'[x] =
            [q \in A \cup {t} |-> IF q = t THEN k ELSE IF q \in able THEN loads[q] - part ELSE 0]
      BY <1>10, <2>1
    <3>3. \A q \in A \cup {t} : shares'[x][q] = loads'[q] /\ loads'[q] \in Nat
      BY <1>11, <1>17, <1>21, <3>2
    <3> QED BY <3>1, <3>2, <3>3
  <2>2. CASE x = b
    <3>1. {p \in Position : deployed'[p] = x} = U
      BY <1>2, <1>3, <1>7, <1>17, <2>2
    <3>2. shares'[x] = [q \in U |-> loads[q] + c]
      BY <1>3, <1>10, <2>2
    <3>3. \A q \in U : shares'[x][q] = loads'[q] /\ loads'[q] \in Nat
      BY <1>11, <1>17, <1>20, <3>2
    <3> QED BY <3>1, <3>2, <3>3
  <2>3. CASE x # a /\ x # b
    <3>1. {p \in Position : deployed'[p] = x} = {p \in Position : deployed[p] = x}
      BY <1>1, <1>17, <2>3
    <3>2. shares'[x] = shares[x]
      BY <1>10, <2>3
    <3>3. \A p \in Position : deployed'[p] = x => p # t /\ p \notin able /\ p \notin A /\ p \notin U
                                                /\ deployed[p] = x
      BY <1>1, <1>4, <1>7, <1>17, <2>3
    <3>4. \A p \in Position : deployed'[p] = x => loads'[p] = loads[p] /\ loads[p] = shares[x][p]
      BY <1>2, <1>17, <3>3
    <3> QED BY <1>2, <3>1, <3>2, <3>4
  <2> QED BY <2>1, <2>2, <2>3
<1>23. ASSUME NEW p \in Position
       PROVE  loads'[p] = IF deployed'[p] = NoExpert THEN 0 ELSE shares'[deployed'[p]][p]
  <2>1. CASE deployed'[p] = NoExpert
    <3>1. p # t /\ deployed[p] = NoExpert /\ p \notin A /\ p \notin U /\ p \notin able
      BY <1>2, <1>3, <1>4, <1>7, <1>17, <2>1
    <3> QED BY <1>2, <1>17, <2>1, <3>1
  <2>2. CASE deployed'[p] # NoExpert
    <3>1. deployed'[p] \in Expert
      BY <1>21, <2>2 DEF Owners
    <3> QED BY <1>22, <2>2, <3>1
  <2> QED BY <2>1, <2>2
<1>24. Agreeing(deployed', loads', shares')
  BY <1>21, <1>22, <1>23 DEF Agreeing
<1>25. /\ able \in SUBSET (Position \ {t}) /\ loads'[t] = part * Cardinality(able)
       /\ \A q \in Position \ {t} :
             IF q \in able THEN loads'[q] = loads[q] - part
             ELSE IF q \in U THEN loads'[q] = loads[q] + c
             ELSE loads'[q] <= loads[q]
  <2>1. able \in SUBSET (Position \ {t}) /\ k = part * Cardinality(able)
    BY <1>5, <1>9, <1>11 DEF gain
  <2>2. loads'[t] = k
    BY <1>17
  <2>3. ASSUME NEW q \in Position \ {t}
        PROVE  IF q \in able THEN loads'[q] = loads[q] - part
               ELSE IF q \in U THEN loads'[q] = loads[q] + c
               ELSE loads'[q] <= loads[q]
    <3>1. loads[q] \in Nat
      BY <1>2
    <3>2. q \in U => q \notin A
      BY <1>11
    <3> QED BY <1>17, <3>1, <3>2
  <2> QED BY <2>1, <2>2, <2>3
<1>26. Reshared(loads', loads, t, Position)
  BY <1>7, <1>11, <1>25 DEF Reshared
<1> QED BY <1>1, <1>18, <1>24, <1>26

-----------------------------------------------------------------------------
(* No load appears.                                                        *)

LEMMA ResharedIsNoMore ==
    ASSUME NEW S, IsFiniteSet(S), NEW t \in S,
           NEW l, NEW n, \A q \in S : l[q] \in Nat /\ n[q] \in Nat, Reshared(n, l, t, S)
    PROVE  SumFunctionOnSet(n, S) <= SumFunctionOnSet(l, S)
<1>0. PICK A \in SUBSET (S \ {t}), U \in SUBSET (S \ {t}), part \in Nat, c \in Nat :
        /\ A \cap U = {}
        /\ c * Cardinality(U) <= l[t]
        /\ n[t] = part * Cardinality(A)
        /\ \A q \in S \ {t} : IF q \in A THEN n[q] = l[q] - part
                             ELSE IF q \in U THEN n[q] = l[q] + c ELSE n[q] <= l[q]
  BY DEF Reshared
<1> DEFINE f == [q \in S |-> IF q \in A THEN l[q] + (-part) ELSE l[q]]
           g == [q \in S |-> IF q \in U THEN f[q] + c ELSE f[q]]
           T == S \ {t}
<1>1. /\ A \in SUBSET S /\ U \in SUBSET S /\ IsFiniteSet(T) /\ -part \in Int
      /\ IsFiniteSet(A) /\ IsFiniteSet(U)
  BY FS_Subset
<1>2. /\ \A q \in S : f[q] = IF q \in A THEN l[q] + (-part) ELSE l[q]
      /\ \A q \in S : g[q] = IF q \in U THEN f[q] + c ELSE f[q]
  OBVIOUS
<1> HIDE DEF f, g
<1>3. \A q \in S : l[q] \in Int /\ f[q] \in Int /\ g[q] \in Int /\ n[q] \in Int
  <2>1. \A q \in S : l[q] \in Int /\ n[q] \in Int
    OBVIOUS
  <2>2. \A q \in S : f[q] \in Int
    BY <1>1, <1>2, <2>1
  <2> QED BY <1>2, <2>1, <2>2
<1>4. SumFunctionOnSet(f, S) = SumFunctionOnSet(l, S) + (-part) * Cardinality(A)
  BY <1>1, <1>2, <1>3, SumShift
<1>5. SumFunctionOnSet(g, S) = SumFunctionOnSet(f, S) + c * Cardinality(U)
  BY <1>1, <1>2, <1>3, SumShift
<1>6. g[t] = l[t] /\ \A q \in T : n[q] <= g[q]
  <2>1. t \notin A /\ t \notin U /\ g[t] = l[t]
    BY <1>2
  <2>2. ASSUME NEW q \in T PROVE n[q] <= g[q]
    <3>1. l[q] \in Nat /\ n[q] \in Nat
      OBVIOUS
    <3>2. q \in A => n[q] = l[q] - part /\ f[q] = l[q] + (-part) /\ g[q] = f[q]
      BY <1>0, <1>2
    <3>3. q \notin A => f[q] = l[q]
      BY <1>2
    <3>4. q \notin A /\ q \in U => n[q] = l[q] + c /\ g[q] = f[q] + c
      BY <1>0, <1>2
    <3>5. q \notin A /\ q \notin U => n[q] <= l[q] /\ g[q] = f[q]
      BY <1>0, <1>2
    <3> QED BY <3>1, <3>2, <3>3, <3>4, <3>5
  <2> QED BY <2>1, <2>2
<1>7. SumFunctionOnSet(g, S) = g[t] + SumFunctionOnSet(g, T)
  BY <1>3, SumTakes
<1>8. SumFunctionOnSet(n, S) = n[t] + SumFunctionOnSet(n, T)
  BY <1>3, SumTakes
<1>9. SumFunctionOnSet(n, T) <= SumFunctionOnSet(g, T)
  <2>1. \A q \in T : n[q] \in Int /\ g[q] \in Int /\ n[q] <= g[q]
    BY <1>3, <1>6
  <2> HIDE DEF T
  <2> QED BY <1>1, <2>1, SumMonotone
<1>10. /\ SumFunctionOnSet(n, T) \in Int /\ SumFunctionOnSet(g, T) \in Int
       /\ SumFunctionOnSet(l, S) \in Int
  <2>1. \A q \in T : n[q] \in Int /\ g[q] \in Int
    BY <1>3
  <2>2. SumFunctionOnSet(l, S) \in Int
    BY <1>3, SumInt
  <2> HIDE DEF T
  <2> QED BY <1>1, <2>1, <2>2, SumInt
<1>11. PICK k, j : k = part * Cardinality(A) /\ j = c * Cardinality(U) /\ k \in Int /\ j \in Int
  BY <1>1, FS_CardinalityType
<1>12. (-part) * Cardinality(A) = -k
  BY <1>1, <1>11, FS_CardinalityType
<1>13. l[t] \in Int /\ j <= l[t] /\ n[t] = k
  BY <1>0, <1>3, <1>11
<1>14. /\ SumFunctionOnSet(g, S) = SumFunctionOnSet(l, S) - k + j
       /\ SumFunctionOnSet(g, S) = l[t] + SumFunctionOnSet(g, T)
       /\ SumFunctionOnSet(n, S) = k + SumFunctionOnSet(n, T)
  <2>1. SumFunctionOnSet(f, S) \in Int
    BY <1>3, SumInt
  <2>2. SumFunctionOnSet(g, S) = SumFunctionOnSet(f, S) + j
    BY <1>5, <1>11
  <2>3. SumFunctionOnSet(f, S) = SumFunctionOnSet(l, S) - k
    BY <1>4, <1>10, <1>11, <1>12
  <2> HIDE DEF T
  <2> QED BY <1>6, <1>7, <1>8, <1>10, <1>11, <1>13, <2>1, <2>2, <2>3
<1> HIDE DEF T
<1> QED BY <1>9, <1>10, <1>11, <1>13, <1>14

LEMMA RemoveIsNoMore ==
    ASSUME Beliefs, NEW t \in Position, NEW e \in Expert, deployed[t] = e, Spare(e),
           Believe([type |-> "REMOVE", source |-> -1, target |-> t]),
           NEW S \in SUBSET Position, At(e) \subseteq S
    PROVE  SumFunctionOnSet(loads', S) <= SumFunctionOnSet(loads, S)
<1> DEFINE U == At(e) \ {t}
           c == loads[t] \div Cardinality(U)
<1>1. /\ c \in Nat
      /\ loads' = [q \in Position |-> IF q = t THEN 0
                                      ELSE IF q \in U THEN loads[q] + c ELSE loads[q]]
  BY RemoveBelieves
<1>2. t \in At(e)
  BY AtType
<1>3. loads[t] \in Nat /\ Cardinality(U) \in Nat \ {0}
  BY <1>2, AtType, AtOthers
<1>4. c * Cardinality(U) <= loads[t]
  <2> HIDE DEF U
  <2>1. c \in Nat /\ Cardinality(U) * c <= loads[t]
    BY <1>3, QuotientType
  <2> HIDE DEF c
  <2> QED BY <1>3, <2>1
<1>5. U \in SUBSET (S \ {t}) /\ t \in S /\ IsFiniteSet(S)
  BY <1>2, Geometry, FS_Subset
<1> HIDE DEF c, U
<1>6. PICK n, l : n = loads' /\ l = loads
  OBVIOUS
<1>7. \A q \in S : l[q] \in Nat /\ n[q] \in Nat
  <2>1. \A q \in S : l[q] \in Nat
    BY <1>6 DEF Beliefs, GreedyTypes
  <2> QED BY <1>1, <1>6, <2>1
<1>8. n[t] = 0 * Cardinality({})
  BY <1>1, <1>6, FS_EmptySet
<1>9. \A q \in S \ {t} : IF q \in {} THEN n[q] = l[q] - 0
                         ELSE IF q \in U THEN n[q] = l[q] + c ELSE n[q] <= l[q]
  BY <1>1, <1>6, <1>7
<1>10. c * Cardinality(U) <= l[t]
  BY <1>4, <1>6
<1>11. {} \in SUBSET (S \ {t}) /\ {} \cap U = {} /\ 0 \in Nat
  OBVIOUS
<1>12. Reshared(n, l, t, S)
  BY <1>1, <1>5, <1>8, <1>9, <1>10, <1>11 DEF Reshared
<1>13. SumFunctionOnSet(n, S) <= SumFunctionOnSet(l, S)
  BY <1>5, <1>7, <1>12, ResharedIsNoMore
<1> QED BY <1>6, <1>13

LEMMA SwapIsNoMore ==
    ASSUME NEW S, IsFiniteSet(S), NEW s \in S, NEW t \in S, s # t,
           NEW l, NEW n, \A q \in S : l[q] \in Nat /\ n[q] \in Nat,
           n[s] = l[t], n[t] = l[s], \A q \in S \ {s, t} : n[q] = l[q]
    PROVE  SumFunctionOnSet(n, S) = SumFunctionOnSet(l, S)
<1> DEFINE T == S \ {s}
           R == T \ {t}
<1>1. /\ IsFiniteSet(T) /\ IsFiniteSet(R) /\ t \in T
      /\ \A q \in S : l[q] \in Int /\ n[q] \in Int
      /\ \A q \in T : l[q] \in Int /\ n[q] \in Int
      /\ \A q \in R : n[q] \in Int /\ n[q] = l[q]
  BY FS_Subset
<1>2. /\ SumFunctionOnSet(n, S) = n[s] + SumFunctionOnSet(n, T)
      /\ SumFunctionOnSet(l, S) = l[s] + SumFunctionOnSet(l, T)
  BY <1>1, SumTakes
<1> HIDE DEF T
<1>3. /\ SumFunctionOnSet(n, T) = n[t] + SumFunctionOnSet(n, R)
      /\ SumFunctionOnSet(l, T) = l[t] + SumFunctionOnSet(l, R)
  BY <1>1, SumTakes
<1> HIDE DEF R
<1>4. SumFunctionOnSet(n, R) = SumFunctionOnSet(l, R) /\ SumFunctionOnSet(n, R) \in Int
  BY <1>1, SumSame, SumInt
<1>5. l[s] \in Int /\ l[t] \in Int
  BY <1>1
<1> QED BY <1>2, <1>3, <1>4, <1>5

-----------------------------------------------------------------------------
(* A decision that fits what is believed.                                  *)

Fits(m) ==
    /\ m \in Move
    /\ LegalMove(deployed, m)
    /\ LayerOf(m.target) = layer
    /\ m.source # -1 => LayerOf(m.source) = layer

LEMMA AtIsReplicas ==
    ASSUME Beliefs, NEW e \in Expert
    PROVE  At(e) = Replicas(deployed, e) /\ (Spare(e) <=> Redundant(deployed, e))
BY AtType DEF Replicas, Spare, Redundant

(* Both sides stay in step, and the deployed experts change as the         *)
(* instruction says.                                                       *)
LEMMA FitsAgrees ==
    ASSUME Beliefs, NEW m, Fits(m), Believe(m)
    PROVE  /\ Agreeing(deployed', loads', shares')
           /\ deployed' = AfterMove(deployed, m)
           /\ SumFunction(loads') <= SumFunction(loads)
<1>1. PICK ty, s, t : /\ ty = m.type /\ s = m.source /\ t = m.target
                      /\ m = [type |-> ty, source |-> s, target |-> t]
                      /\ t \in Position /\ s \in Position \cup {-1}
                      /\ ty \in {"SWAP", "ADD", "REMOVE"}
  BY DEF Fits, Move
<1>2. /\ deployed \in [Position -> Owners] /\ loads \in [Position -> Nat]
      /\ \A x \in Expert : x # NoExpert
      /\ IsFiniteSet(Position) /\ -1 \notin Position
  BY Geometry DEF Beliefs, GreedyTypes
<1>3. ASSUME loads' \in [Position -> Nat],
             SumFunctionOnSet(loads', Position) <= SumFunctionOnSet(loads, Position)
      PROVE  SumFunction(loads') <= SumFunction(loads)
  BY <1>2, <1>3 DEF SumFunction
<1>4. CASE ty = "REMOVE"
  <2>1. /\ s = -1 /\ m = [type |-> "REMOVE", source |-> -1, target |-> t]
        /\ deployed[t] \in Expert /\ Redundant(deployed, deployed[t])
    BY <1>1, <1>2, <1>4 DEF Fits, LegalMove, Owners
  <2>2. PICK e \in Expert : deployed[t] = e /\ Spare(e)
    BY <2>1, AtIsReplicas
  <2>3. Believe([type |-> "REMOVE", source |-> -1, target |-> t])
    BY <2>1
  <2>4. deployed' = [deployed EXCEPT ![t] = NoExpert] /\ Agreeing(deployed', loads', shares')
    BY <1>1, <2>2, <2>3, RemoveBelieves, RemoveAgrees
  <2>5. deployed' = AfterMove(deployed, m)
    BY <1>1, <1>2, <1>4, <2>1, <2>4 DEF AfterMove
  <2>6. At(e) \subseteq Position
    BY AtType
  <2>7. SumFunctionOnSet(loads', Position) <= SumFunctionOnSet(loads, Position)
    BY <1>1, <2>2, <2>3, <2>6, RemoveIsNoMore
  <2>8. loads' \in [Position -> Nat]
    BY <2>4 DEF Agreeing
  <2> QED BY <1>3, <2>4, <2>5, <2>7, <2>8
<1>5. CASE ty = "SWAP"
  <2>1. s \in Position /\ deployed[s] # deployed[t] /\ s # t
    BY <1>1, <1>5 DEF Fits, LegalMove
  <2>2. Believe([type |-> "SWAP", source |-> s, target |-> t])
    BY <1>1, <1>5
  <2>3. /\ deployed' = [deployed EXCEPT ![s] = deployed[t], ![t] = deployed[s]]
        /\ loads' = [loads EXCEPT ![s] = loads[t], ![t] = loads[s]]
        /\ Agreeing(deployed', loads', shares')
    BY <1>1, <2>1, <2>2, SwapAgrees
  <2>4. deployed' = AfterMove(deployed, m)
    BY <1>1, <1>2, <1>5, <2>1, <2>3 DEF AfterMove
  <2>5. loads' \in [Position -> Nat]
    BY <2>3 DEF Agreeing
  <2>6. PICK n, l : n = loads' /\ l = loads
    OBVIOUS
  <2>7. /\ \A q \in Position : l[q] \in Nat /\ n[q] \in Nat
        /\ n[s] = l[t] /\ n[t] = l[s] /\ \A q \in Position \ {s, t} : n[q] = l[q]
    BY <1>1, <1>2, <2>1, <2>3, <2>5, <2>6
  <2>8. SumFunctionOnSet(n, Position) = SumFunctionOnSet(l, Position)
    BY <1>1, <1>2, <2>1, <2>7, SwapIsNoMore
  <2>9. SumFunctionOnSet(l, Position) \in Nat
    BY <1>2, <2>7, SumNat
  <2> QED BY <1>3, <2>3, <2>4, <2>5, <2>6, <2>8, <2>9
<1>6. CASE ty = "ADD"
  <2>1. /\ s \in Position /\ deployed[s] # deployed[t] /\ s # t /\ deployed[s] # NoExpert
        /\ deployed[t] # NoExpert => Redundant(deployed, deployed[t])
    BY <1>1, <1>6 DEF Fits, LegalMove
  <2>2. deployed[t] # NoExpert => Spare(deployed[t])
    BY <1>1, <1>2, <2>1, AtIsReplicas DEF Owners
  <2>3. Believe([type |-> "ADD", source |-> s, target |-> t])
    BY <1>1, <1>6
  <2>4. /\ deployed' = [deployed EXCEPT ![t] = deployed[s]]
        /\ Agreeing(deployed', loads', shares')
    BY <1>1, <2>1, <2>2, <2>3, AddAgrees
  <2>5. Reshared(loads', loads, t, Position)
    BY <1>1, <2>1, <2>2, <2>3, AddAgrees
  <2>6. deployed' = AfterMove(deployed, m)
    BY <1>1, <1>2, <1>6, <2>1, <2>4 DEF AfterMove
  <2>7. loads' \in [Position -> Nat]
    BY <2>4 DEF Agreeing
  <2>8. PICK n, l : n = loads' /\ l = loads
    OBVIOUS
  <2>9. Reshared(n, l, t, Position)
    BY <2>5, <2>8
  <2>10. \A q \in Position : l[q] \in Nat /\ n[q] \in Nat
    BY <1>2, <2>7, <2>8
  <2>11. SumFunctionOnSet(n, Position) <= SumFunctionOnSet(l, Position)
    BY <1>1, <1>2, <2>9, <2>10, ResharedIsNoMore
  <2> QED BY <1>3, <2>4, <2>6, <2>7, <2>8, <2>11
<1> QED BY <1>1, <1>4, <1>5, <1>6

-----------------------------------------------------------------------------
(* Every decision fits what is believed.                                   *)

LEMMA RemovalFits ==
    ASSUME Beliefs, Visiting, Removable
    PROVE  /\ Fits([type |-> "REMOVE", source |-> -1, target |-> Here])
           /\ Here \in OfRank(highest)
<1>1. /\ highest \in Rank /\ position \in 0 .. DeployPerRank - 1 /\ layer \in Layer
      /\ deployed \in [Position -> Owners]
  BY GeometryAssumption DEF Visiting, Beliefs, GreedyTypes
<1>2. Here \in OfRank(highest)
  <2>1. PICK r \in Rank, i \in 0 .. DeployPerRank - 1 : r = highest /\ i = position
    BY <1>1
  <2>2. Global(r, i) \in OfRank(r)
    BY <1>1, GlobalIs
  <2> QED BY <2>1, <2>2 DEF Here
<1>3. Here \in Position /\ LayerOf(Here) = layer
  BY <1>2 DEF OfRank, InLayer
<1>4. PICK t \in Position : t = Here
  BY <1>3
<1>5. deployed[t] \in Expert /\ Spare(deployed[t])
  BY <1>1, <1>4 DEF Removable, Owners
<1>6. Redundant(deployed, deployed[t]) /\ deployed[t] # NoExpert
  BY <1>5, AtIsReplicas, Geometry
<1> QED BY <1>2, <1>3, <1>4, <1>6 DEF Fits, LegalMove, Move

LEMMA ImprovingIsOffered ==
    ASSUME NEW offers, NEW m \in Improving(offers)
    PROVE  m \in offers
<1> DEFINE scored == {[move |-> n, ratio |-> Forecast(n)] : n \in offers}
           now    == Ratio(RankLoads(loads))
           good   == {y \in scored : Less(y.ratio, now) /\ \A z \in scored : ~Less(z.ratio, y.ratio)}
           top    == {x.move : x \in good}
<1>1. m \in {n \in top : \A k \in top : n = k \/ Before(n, k)}
  BY DEF Improving
<1>2. m \in top
  <2> HIDE DEF top
  <2> QED BY <1>1
<1>3. PICK x \in good : m = x.move
  <2> HIDE DEF good
  <2> QED BY <1>2
<1>4. x \in scored
  <2> HIDE DEF scored, now
  <2> QED BY <1>3
<1>5. PICK n \in offers : x = [move |-> n, ratio |-> Forecast(n)]
  BY <1>4
<1> QED BY <1>3, <1>5

(* A pair that a rank offers is a legal swap, and a free one a legal       *)
(* addition, whoever of the two holds an expert.                           *)
LEMMA PairFits ==
    ASSUME Beliefs, NEW r, NEW x \in Pairs(r), deployed[x[1]] # deployed[x[2]]
    PROVE  /\ Fits([type |-> "SWAP", source |-> x[1], target |-> x[2]])
           /\ /\ deployed[x[1]] # NoExpert /\ Room(deployed[x[1]])
              /\ deployed[x[2]] # NoExpert => Spare(deployed[x[2]])
              => Fits([type |-> "ADD", source |-> x[1], target |-> x[2]])
<1>1. PICK s \in OfRank(r), t \in InLayer(layer) \ OfRank(r) : x[1] = s /\ x[2] = t
  BY DEF Pairs
<1>2. /\ s \in Position /\ LayerOf(s) = layer /\ Owner(s) = r
      /\ t \in Position /\ LayerOf(t) = layer /\ Owner(t) # r
      /\ s # -1
  BY <1>1, Geometry DEF OfRank, InLayer
<1>3. deployed[s] # deployed[t]
  BY <1>1
<1>4. Fits([type |-> "SWAP", source |-> s, target |-> t])
  BY <1>2, <1>3 DEF Fits, LegalMove, Move
<1>5. ASSUME deployed[s] # NoExpert, Room(deployed[s]), deployed[t] # NoExpert => Spare(deployed[t])
      PROVE  Fits([type |-> "ADD", source |-> s, target |-> t])
  <2>1. deployed[s] \in Expert /\ (deployed[t] # NoExpert => deployed[t] \in Expert)
    BY <1>2, <1>5 DEF Beliefs, GreedyTypes, Owners
  <2>2. Cardinality(Replicas(deployed, deployed[s])) <= ExpertRedundantLimit
    BY <1>5, <2>1, AtIsReplicas DEF Room
  <2>3. deployed[t] # NoExpert => Redundant(deployed, deployed[t])
    BY <1>5, <2>1, AtIsReplicas
  <2> QED BY <1>2, <1>3, <1>5, <2>2, <2>3 DEF Fits, LegalMove, Move
<1> QED BY <1>1, <1>4, <1>5

LEMMA ChosenFits ==
    ASSUME Beliefs, NEW m \in Chosen
    PROVE  Fits(m) /\ m.type # "REMOVE"
<1>1. CASE m \in OffersOfHighest
  <2>1. PICK r : r = HighestRank(Rank)
    OBVIOUS
  <2>2. PICK x \in Pairs(r) :
          /\ deployed[x[1]] # deployed[x[2]]
          /\ \/ m = [type |-> "SWAP", source |-> x[1], target |-> x[2]]
             \/ /\ m = [type |-> "ADD", source |-> x[1], target |-> x[2]]
                /\ deployed[x[1]] # NoExpert /\ Room(deployed[x[1]])
                /\ deployed[x[2]] # NoExpert => Spare(deployed[x[2]])
    BY <1>1, <2>1 DEF OffersOfHighest
  <2>3. Fits(m)
    BY <2>2, PairFits
  <2> QED BY <2>2, <2>3
<1>2. CASE m \in OffersOfLowest
  <2>1. PICK r : r = LowestRank
    OBVIOUS
  <2>2. PICK x \in Pairs(r) :
          /\ deployed[x[1]] # deployed[x[2]]
          /\ m = [type |-> "SWAP", source |-> x[1], target |-> x[2]]
    BY <1>2, <2>1 DEF OffersOfLowest
  <2>3. Fits(m)
    BY <2>2, PairFits
  <2> QED BY <2>2, <2>3
<1>3. m \in OffersOfHighest \/ m \in OffersOfLowest
  <2>1. PICK offers : offers = IF turn % 2 = 0 THEN OffersOfHighest ELSE OffersOfLowest
    OBVIOUS
  <2>2. m \in Improving(offers)
    BY <2>1 DEF Chosen
  <2>3. m \in offers
    BY <2>2, ImprovingIsOffered
  <2> QED BY <2>1, <2>3
<1> QED BY <1>1, <1>2, <1>3

-----------------------------------------------------------------------------
(* Placements: no expert leaves its layer or has too few or too many       *)
(* replicas, and what is believed of a layer is nothing or what is there.  *)

Layered(v)  == \A p \in Position : v[p] # NoExpert => ExpertLayer(v[p]) = LayerOf(p)
InBounds(v) == \A e \in Expert : Cardinality(Replicas(v, e)) \in 1 .. ExpertRedundantLimit + 1
Known(d, v) ==
    \A l \in Layer :
        \/ \A p \in InLayer(l) : d[p] = NoExpert
        \/ \A p \in InLayer(l) : d[p] = v[p]

(* Placement patterns keep every expert in its layer, with at least one    *)
(* and not too many replicas.                                              *)
PatternsSound == \A v \in Placements : Layered(v) /\ InBounds(v)

LEMMA LayerOfType == \A p \in Position : LayerOf(p) \in Layer
<1> TAKE p \in Position
<1>1. PICK k \in Nat \ {0}, n \in Nat : k = Deploy /\ n = NumLayers
  BY Geometry, GeometryAssumption
<1>2. p \in 0 .. n * k - 1
  BY <1>1 DEF Position
<1>3. p \div k \in 0 .. n - 1
  BY <1>2, QuotientBelow
<1> QED BY <1>1, <1>3 DEF LayerOf, Layer

LEMMA MoveKeepsLayers ==
    ASSUME NEW v \in [Position -> Owners], Layered(v), NEW m \in Move, LegalMove(v, m)
    PROVE  AfterMove(v, m) \in [Position -> Owners] /\ Layered(AfterMove(v, m))
<1>1. m.target \in Position /\ (m.type # "REMOVE" => m.source \in Position)
  BY DEF Move, LegalMove
<1>2. AfterMove(v, m) \in [Position -> Owners]
  BY <1>1 DEF AfterMove, Owners
<1>3. ASSUME NEW p \in Position, AfterMove(v, m)[p] # NoExpert
      PROVE  ExpertLayer(AfterMove(v, m)[p]) = LayerOf(p)
  <2>1. m.type # "REMOVE" => LayerOf(m.source) = LayerOf(m.target)
    BY DEF LegalMove
  <2> QED BY <1>1, <1>3, <2>1 DEF AfterMove, Layered
<1> QED BY <1>2, <1>3 DEF Layered

LEMMA Exchanged ==
    ASSUME NEW R, IsFiniteSet(R), NEW s \in R, NEW t, t \notin R \ {s}
    PROVE  Cardinality((R \ {s}) \cup {t}) = Cardinality(R)
<1>1. PICK T : T = R \ {s}
  OBVIOUS
<1>2. IsFiniteSet(T) /\ Cardinality(T) = Cardinality(R) - 1 /\ Cardinality(R) \in Nat
  BY <1>1, FS_RemoveElement, FS_CardinalityType
<1>3. Cardinality(T \cup {t}) = Cardinality(T) + 1
  BY <1>1, <1>2, FS_AddElement
<1> QED BY <1>1, <1>2, <1>3

LEMMA MoveKeepsBounds ==
    ASSUME NEW v \in [Position -> Owners], InBounds(v), NEW m \in Move, LegalMove(v, m)
    PROVE  InBounds(AfterMove(v, m))
<1> SUFFICES ASSUME NEW e \in Expert
             PROVE  Cardinality(Replicas(AfterMove(v, m), e)) \in 1 .. ExpertRedundantLimit + 1
  BY DEF InBounds
<1>1. PICK R, n, L : /\ R = Replicas(v, e) /\ n = Cardinality(R) /\ L = ExpertRedundantLimit
  OBVIOUS
<1>2. IsFiniteSet(R) /\ n \in 1 .. L + 1 /\ L \in Nat
  <2>1. IsFiniteSet(R)
    BY <1>1, Geometry, FS_Subset DEF Replicas
  <2> QED BY <1>1, <2>1, LimitAssumption DEF InBounds
<1>3. \A p : p \in R <=> p \in Position /\ v[p] = e
  BY <1>1 DEF Replicas
<1>4. \A p : p \in Replicas(AfterMove(v, m), e) <=>
              /\ p \in Position
              /\ e = IF p = m.target THEN IF m.type = "REMOVE" THEN NoExpert ELSE v[m.source]
                     ELSE IF p = m.source /\ m.type = "SWAP" THEN v[m.target] ELSE v[p]
  BY DEF Replicas, AfterMove
<1>5. PICK s, t : s = m.source /\ t = m.target /\ t \in Position /\ e # NoExpert
  BY Geometry DEF Move
<1>6. CASE m.type = "REMOVE"
  <2>1. v[t] = e => n > 1
    BY <1>1, <1>5, <1>6 DEF LegalMove, Redundant
  <2>2. CASE v[t] = e
    <3>1. Replicas(AfterMove(v, m), e) = R \ {t} /\ t \in R
      BY <1>3, <1>4, <1>5, <1>6, <2>2
    <3>2. Cardinality(R \ {t}) = n - 1
      BY <1>1, <1>2, <3>1, FS_RemoveElement
    <3> QED BY <1>1, <1>2, <2>1, <2>2, <3>1, <3>2
  <2>3. CASE v[t] # e
    <3>1. Replicas(AfterMove(v, m), e) = R
      BY <1>3, <1>4, <1>5, <1>6, <2>3
    <3> QED BY <1>1, <1>2, <3>1
  <2> QED BY <2>2, <2>3
<1>7. CASE m.type = "SWAP"
  <2>1. s \in Position /\ v[s] # v[t] /\ s # t
    BY <1>5, <1>7 DEF LegalMove, Move
  <2>2. CASE v[s] = e
    <3>1. Replicas(AfterMove(v, m), e) = (R \ {s}) \cup {t} /\ s \in R /\ t \notin R \ {s}
      BY <1>3, <1>4, <1>5, <1>7, <2>1, <2>2
    <3>2. Cardinality((R \ {s}) \cup {t}) = n
      BY <1>1, <1>2, <3>1, Exchanged
    <3> QED BY <1>1, <1>2, <3>1, <3>2
  <2>3. CASE v[t] = e
    <3>1. Replicas(AfterMove(v, m), e) = (R \ {t}) \cup {s} /\ t \in R /\ s \notin R \ {t}
      BY <1>3, <1>4, <1>5, <1>7, <2>1, <2>3
    <3>2. Cardinality((R \ {t}) \cup {s}) = n
      BY <1>1, <1>2, <3>1, Exchanged
    <3> QED BY <1>1, <1>2, <3>1, <3>2
  <2>4. CASE v[s] # e /\ v[t] # e
    <3>1. Replicas(AfterMove(v, m), e) = R
      BY <1>3, <1>4, <1>5, <1>7, <2>1, <2>4
    <3> QED BY <1>1, <1>2, <3>1
  <2> QED BY <2>2, <2>3, <2>4
<1>8. CASE m.type = "ADD"
  <2>1. /\ s \in Position /\ v[s] # v[t] /\ s # t
        /\ v[t] = e => n > 1
        /\ v[s] = e => n <= L
    BY <1>1, <1>5, <1>8 DEF LegalMove, Redundant, Move
  <2>2. CASE v[s] = e
    <3>1. Replicas(AfterMove(v, m), e) = R \cup {t} /\ t \notin R
      BY <1>3, <1>4, <1>5, <1>8, <2>1, <2>2
    <3>2. Cardinality(R \cup {t}) = n + 1
      BY <1>1, <1>2, <3>1, FS_AddElement
    <3> QED BY <1>1, <1>2, <2>1, <2>2, <3>1, <3>2
  <2>3. CASE v[t] = e
    <3>1. Replicas(AfterMove(v, m), e) = R \ {t} /\ t \in R
      BY <1>3, <1>4, <1>5, <1>8, <2>1, <2>3
    <3>2. Cardinality(R \ {t}) = n - 1
      BY <1>1, <1>2, <3>1, FS_RemoveElement
    <3> QED BY <1>1, <1>2, <2>1, <2>3, <3>1, <3>2
  <2>4. CASE v[s] # e /\ v[t] # e
    <3>1. Replicas(AfterMove(v, m), e) = R
      BY <1>3, <1>4, <1>5, <1>8, <2>4
    <3> QED BY <1>1, <1>2, <3>1
  <2> QED BY <2>2, <2>3, <2>4
<1> QED BY <1>6, <1>7, <1>8 DEF Move

(* A decision names an expert, so its layer has been observed: there the   *)
(* placement is what is believed, and the decision fits it just as well.   *)
LEMMA FitsPlacement ==
    ASSUME Beliefs, Known(deployed, view), Layered(view), NEW m, Fits(m)
    PROVE  /\ LegalMove(view, m)
           /\ Instruction(deployed, m) = Instruction(view, m)
           /\ Known(AfterMove(deployed, m), AfterMove(view, m))
<1>1. PICK ty, s, t : /\ ty = m.type /\ s = m.source /\ t = m.target
                      /\ t \in Position /\ LayerOf(t) = layer
                      /\ s # -1 => s \in Position /\ LayerOf(s) = layer
                      /\ ty = "REMOVE" => s = -1
                      /\ ty # "REMOVE" => s # -1
                      /\ ty \in {"SWAP", "ADD", "REMOVE"}
  BY DEF Fits, Move, LegalMove
<1>2. \E q \in InLayer(layer) : deployed[q] # NoExpert
  <2>1. deployed[t] # NoExpert \/ (s # -1 /\ deployed[s] # NoExpert)
    BY <1>1 DEF Fits, LegalMove
  <2> QED BY <1>1, <2>1 DEF InLayer
<1>3. \A q \in InLayer(layer) : deployed[q] = view[q]
  <2>1. layer \in Layer
    BY DEF Beliefs, GreedyTypes
  <2> QED BY <1>2, <2>1 DEF Known
<1>4. t \in InLayer(layer) /\ (s # -1 => s \in InLayer(layer))
  BY <1>1 DEF InLayer
<1>5. deployed[t] = view[t] /\ (s # -1 => deployed[s] = view[s])
  BY <1>3, <1>4
<1>6. ASSUME NEW p \in InLayer(layer), view[p] # NoExpert
      PROVE  Replicas(deployed, view[p]) = Replicas(view, view[p])
  <2>1. ExpertLayer(view[p]) = layer
    BY <1>6 DEF Layered, InLayer
  <2>2. ASSUME NEW q \in Position, deployed[q] = view[p] PROVE view[q] = view[p]
    <3>1. LayerOf(q) \in Layer /\ q \in InLayer(LayerOf(q))
      BY LayerOfType DEF InLayer
    <3> QED BY <1>6, <2>2, <3>1 DEF Known
  <2>3. ASSUME NEW q \in Position, view[q] = view[p] PROVE deployed[q] = view[p]
    <3>1. LayerOf(q) = layer
      BY <1>6, <2>1, <2>3 DEF Layered
    <3> QED BY <1>3, <2>3, <3>1 DEF InLayer
  <2> QED BY <2>2, <2>3 DEF Replicas
<1>7. LegalMove(view, m)
  <2>1. CASE ty = "REMOVE"
    <3>1. view[t] # NoExpert /\ Redundant(deployed, view[t])
      BY <1>1, <1>5, <2>1 DEF Fits, LegalMove
    <3>2. Redundant(view, view[t])
      BY <1>4, <1>6, <3>1 DEF Redundant
    <3> QED BY <1>1, <2>1, <3>1, <3>2 DEF LegalMove
  <2>2. CASE ty # "REMOVE"
    <3>1. /\ view[s] # view[t] /\ s # -1
          /\ LayerOf(s) = LayerOf(t) /\ Owner(s) # Owner(t)
      BY <1>1, <1>5, <2>2 DEF Fits, LegalMove
    <3>2. ASSUME ty = "ADD"
          PROVE  /\ view[s] # NoExpert
                 /\ view[t] # NoExpert => Redundant(view, view[t])
                 /\ Cardinality(Replicas(view, view[s])) <= ExpertRedundantLimit
      <4>1. /\ view[s] # NoExpert
            /\ view[t] # NoExpert => Redundant(deployed, view[t])
            /\ Cardinality(Replicas(deployed, view[s])) <= ExpertRedundantLimit
        BY <1>1, <1>5, <3>1, <3>2 DEF Fits, LegalMove
      <4> QED BY <1>4, <1>6, <3>1, <4>1 DEF Redundant
    <3> QED BY <1>1, <2>2, <3>1, <3>2 DEF LegalMove
  <2> QED BY <2>1, <2>2
<1>8. Instruction(deployed, m) = Instruction(view, m)
  BY <1>1, <1>5 DEF Instruction
<1>9. Known(AfterMove(deployed, m), AfterMove(view, m))
  <2> SUFFICES ASSUME NEW l \in Layer
               PROVE  \/ \A p \in InLayer(l) : AfterMove(deployed, m)[p] = NoExpert
                      \/ \A p \in InLayer(l) : AfterMove(deployed, m)[p] = AfterMove(view, m)[p]
    BY DEF Known
  <2>1. \A p \in InLayer(l) : p \in Position /\ LayerOf(p) = l
    BY DEF InLayer
  <2>2. CASE l = layer
    <3>1. \A p \in InLayer(l) : AfterMove(deployed, m)[p] = AfterMove(view, m)[p]
      BY <1>1, <1>3, <1>5, <2>1, <2>2 DEF AfterMove
    <3> QED BY <3>1
  <2>3. CASE l # layer
    <3>1. \A p \in InLayer(l) : /\ AfterMove(deployed, m)[p] = deployed[p]
                                /\ AfterMove(view, m)[p] = view[p]
      BY <1>1, <2>1, <2>3 DEF AfterMove
    <3> QED BY <3>1 DEF Known
  <2> QED BY <2>2, <2>3
<1> QED BY <1>7, <1>8, <1>9

-----------------------------------------------------------------------------
(* The inductive invariant.                                                *)

PhaseInv ==
    /\ phase \in {"observe", "remove", "swap_add", "done"}
    /\ phase # "remove" => highest = -1

(* The list is in order so far, and a removal may still follow.            *)
ListInv ==
    list # <<>> =>
        LET last == list[Len(list)]
        IN  \/ LayerOf(last.target_position) < layer
            \/ /\ LayerOf(last.target_position) = layer
               /\ phase # "observe"
               /\ phase = "remove" => last.type = "REMOVE"

(* The ranks cannot all be above best: it is their mean, rounded off, and  *)
(* the load of the layer never grows.                                      *)
SearchInv ==
    phase = "remove" =>
        /\ SumFunctionOnSet(loads, InLayer(layer)) < WorldSize * (best + 1)
        /\ \A r \in excluded : RankLoads(loads)[r] > best
        /\ highest \notin excluded

GreedyInv ==
    /\ Beliefs /\ BelievesPlacement
    /\ Layered(view) /\ InBounds(view)
    /\ PhaseInv /\ ListInv /\ SearchInv

(* The types of what a decision does not touch.                            *)
Cursor ==
    /\ view \in [Position -> Owners]
    /\ layer \in Layer /\ excluded \subseteq Rank
    /\ highest \in Rank \cup {-1} /\ position \in Nat /\ best \in Nat
    /\ list \in Seq(Listed)

LEMMA BeliefsNext ==
    ASSUME Agreeing(deployed', loads', shares'), Cursor'
    PROVE  Beliefs'
<1>1. \A e \in Expert : shares'[e] \in [{p \in Position : deployed'[p] = e} -> Nat]
  BY DEF Agreeing
<1>2. \A e \in Expert : DOMAIN shares'[e] = {p \in Position : deployed'[p] = e}
  BY <1>1
<1>3. GreedyTypes'
  BY <1>1, <1>2 DEF GreedyTypes, Agreeing, Cursor, At
<1>4. BeliefsAgree'
  BY <1>2 DEF BeliefsAgree, Agreeing, At
<1> QED BY <1>3, <1>4 DEF Beliefs

LEMMA CursorNow == ASSUME GreedyInv PROVE Cursor
BY DEF GreedyInv, Beliefs, GreedyTypes, Cursor

(* What carrying a decision comes to.                                      *)
LEMMA Carried ==
    ASSUME GreedyInv, NEW m, Fits(m), Carry(m), layer' = layer,
           phase \in {"remove", "swap_add"}, m.type = "REMOVE" <=> phase = "remove"
    PROVE  /\ LegalMove(view, m) /\ InListOrder(list, m)
           /\ list' = Append(list, Instruction(view, m)) /\ view' = AfterMove(view, m)
           /\ Agreeing(deployed', loads', shares') /\ BelievesPlacement'
           /\ view' \in [Position -> Owners] /\ Layered(view') /\ InBounds(view')
           /\ list' \in Seq(Listed) /\ Len(list') = Len(list) + 1
           /\ list' # <<>> /\ LayerOf(list'[Len(list')].target_position) = layer
           /\ list'[Len(list')].type = m.type
           /\ SumFunction(loads') <= SumFunction(loads)
<1>1. /\ Beliefs /\ Known(deployed, view) /\ Layered(view) /\ InBounds(view)
      /\ view \in [Position -> Owners] /\ list \in Seq(Listed) /\ m \in Move
      /\ deployed \in [Position -> Owners]
  BY DEF GreedyInv, BelievesPlacement, Known, Beliefs, GreedyTypes, Fits
<1>2. Believe(m) /\ list' = Append(list, Instruction(deployed, m)) /\ view' = AfterMove(view, m)
  BY DEF Carry
<1>3. /\ LegalMove(view, m) /\ Instruction(deployed, m) = Instruction(view, m)
      /\ Known(AfterMove(deployed, m), AfterMove(view, m))
  BY <1>1, FitsPlacement
<1>4. /\ Agreeing(deployed', loads', shares') /\ deployed' = AfterMove(deployed, m)
      /\ SumFunction(loads') <= SumFunction(loads)
  BY <1>1, <1>2, FitsAgrees
<1>5. BelievesPlacement'
  <2>1. Known(deployed', view')
    BY <1>2, <1>3, <1>4
  <2> QED BY <2>1 DEF Known, BelievesPlacement, InLayer
<1>6. view' \in [Position -> Owners] /\ Layered(view') /\ InBounds(view')
  BY <1>1, <1>2, <1>3, MoveKeepsLayers, MoveKeepsBounds
<1>7. PICK i : i = Instruction(view, m)
  OBVIOUS
<1>8. /\ i \in Listed /\ i.target_position = m.target /\ i.type = m.type
  <2>1. /\ m.type \in {"SWAP", "ADD", "REMOVE"}
        /\ m.source \in Position \cup {-1} /\ m.target \in Position
    BY <1>1 DEF Move
  <2>2. Holder(m.source) \in Rank \cup {-1} /\ Holder(m.target) \in Rank
    BY <2>1, OwnerType, Geometry DEF Holder
  <2>3. view[m.target] \in Owners /\ (m.source # -1 => view[m.source] \in Owners)
    BY <1>1, <2>1
  <2> QED BY <1>7, <2>1, <2>2, <2>3 DEF Instruction, Listed, Owners
<1>9. list' = Append(list, i)
  BY <1>2, <1>3, <1>7
<1>10. /\ list' \in Seq(Listed) /\ Len(list') = Len(list) + 1 /\ list'[Len(list')] = i
       /\ list' # <<>>
  <2>1. PICK q \in Seq(Listed) : q = list
    BY <1>1
  <2>2. Append(q, i) \in Seq(Listed) /\ Len(Append(q, i)) = Len(q) + 1 /\ Append(q, i)[Len(q) + 1] = i
    BY <1>8, <2>1
  <2>3. Append(q, i) # <<>>
    BY <2>2
  <2> QED BY <1>9, <2>1, <2>2, <2>3
<1>11. LayerOf(m.target) = layer
  BY DEF Fits
<1>12. InListOrder(list, m)
  BY <1>11 DEF GreedyInv, ListInv, InListOrder
<1> QED BY <1>3, <1>4, <1>5, <1>6, <1>7, <1>8, <1>9, <1>10, <1>11, <1>12, <1>2

(* The highest of some ranks is one of them.                               *)
LEMMA HighestExists ==
    ASSUME NEW S \in SUBSET Rank, S # {}, NEW v \in [Rank -> Nat]
    PROVE  Min({r \in S : \A s \in S : v[s] <= v[r]}) \in S
<1> DEFINE Top(T) == {r \in T : \A s \in T : v[s] <= v[r]}
           Good == {T \in SUBSET S : T = {} \/ Top(T) # {}}
<1>1. IsFiniteSet(S) /\ S \subseteq Nat
  <2>1. S \subseteq Nat
    BY GeometryAssumption DEF Rank
  <2> QED BY <2>1, Geometry, FS_Subset
<1>2. ASSUME NEW T \in SUBSET S, NEW x \in S \ T, T \in Good PROVE T \cup {x} \in Good
  <2>1. v[x] \in Nat /\ \A s \in T : v[s] \in Nat
    OBVIOUS
  <2>2. CASE T = {}
    <3>1. x \in Top(T \cup {x})
      BY <2>1, <2>2
    <3> QED BY <3>1
  <2>3. CASE T # {}
    <3>1. PICK r \in T : \A s \in T : v[s] <= v[r]
      BY <1>2, <2>3
    <3>2. CASE v[x] <= v[r]
      <4>1. r \in Top(T \cup {x})
        BY <3>1, <3>2
      <4> QED BY <4>1
    <3>3. CASE ~(v[x] <= v[r])
      <4>1. \A s \in T : v[s] <= v[x]
        BY <2>1, <3>1, <3>3
      <4>2. x \in Top(T \cup {x})
        BY <2>1, <4>1
      <4> QED BY <4>2
    <3> QED BY <3>2, <3>3
  <2> QED BY <2>2, <2>3
<1>3. S \in Good
  <2>1. {} \in Good
    OBVIOUS
  <2> HIDE DEF Good
  <2> QED BY <1>1, <1>2, <2>1, FiniteInduction
<1>4. Top(S) # {} /\ Top(S) \in SUBSET Nat
  BY <1>1, <1>3
<1> HIDE DEF Top
<1>5. \E x \in Top(S) : \A y \in Top(S) : x <= y
  BY <1>4, LeastOfNaturals
<1>6. Min(Top(S)) \in Top(S)
  BY <1>5 DEF Min
<1> QED BY <1>6 DEF Top

LEMMA RankLoadsAre ==
    ASSUME NEW ld \in [Position -> Nat]
    PROVE  /\ RankLoads(ld) \in [Rank -> Nat]
           /\ \A r \in Rank : RankLoads(ld)[r] = SumFunctionOnSet(ld, OfRank(r))
           /\ IsFiniteSet(InLayer(layer)) /\ \A r \in Rank : IsFiniteSet(OfRank(r))
<1>1. IsFiniteSet(InLayer(layer)) /\ \A r \in Rank : IsFiniteSet(OfRank(r))
  BY Geometry, FS_Subset DEF InLayer, OfRank
<1>2. ASSUME NEW r \in Rank PROVE SumFunctionOnSet(ld, OfRank(r)) \in Nat
  <2>1. \A q \in OfRank(r) : ld[q] \in Nat
    BY DEF OfRank, InLayer
  <2> QED BY <1>1, <2>1, SumNat
<1> QED BY <1>1, <1>2 DEF RankLoads

LEMMA RanksHoldLayer ==
    ASSUME NEW ld \in [Position -> Nat]
    PROVE  SumFunctionOnSet(RankLoads(ld), Rank) = SumFunctionOnSet(ld, InLayer(layer))
<1>1. PICK S, K, h, own : /\ S = InLayer(layer) /\ K = Rank /\ h = RankLoads(ld)
                          /\ own = [p \in S |-> Owner(p)]
  OBVIOUS
<1>2. IsFiniteSet(S) /\ IsFiniteSet(K)
  BY <1>1, RankLoadsAre, Geometry
<1>3. own \in [S -> K]
  BY <1>1, OwnerType DEF InLayer
<1>4. \A x \in S : ld[x] \in Int
  BY <1>1 DEF InLayer
<1>5. \A k \in K : h[k] = SumFunctionOnSet(ld, GroupOf(S, own, k))
  <2> TAKE k \in K
  <2>1. GroupOf(S, own, k) = OfRank(k)
    BY <1>1 DEF OfRank, GroupOf
  <2>2. h[k] = SumFunctionOnSet(ld, OfRank(k))
    BY <1>1, RankLoadsAre
  <2> QED BY <2>1, <2>2
<1>6. SumFunctionOnSet(h, K) = SumFunctionOnSet(ld, S)
  BY <1>2, <1>3, <1>4, <1>5, SumOfGroups
<1> QED BY <1>1, <1>6

-----------------------------------------------------------------------------
(* The steps.                                                              *)

LEMMA InvInit ==
    ASSUME PatternsSound, Init
    PROVE  GreedyInv
<1>1. view \in Placements /\ view \in [Position -> Owners]
  BY GreedyAssumption DEF Init, Owners
<1>2. deployed = [p \in Position |-> NoExpert] /\ loads = [p \in Position |-> 0]
      /\ shares = [e \in Expert |-> <<>>]
  BY DEF Init
<1>3. \A e \in Expert : At(e) = {} /\ shares[e] = <<>>
  BY <1>2 DEF At
<1>4. GreedyTypes
  <2>1. 0 \in Layer
    BY GeometryAssumption DEF Layer
  <2>2. deployed \in [Position -> Owners] /\ loads \in [Position -> Nat]
    BY <1>2 DEF Owners
  <2>3. \A e \in Expert : shares[e] \in [At(e) -> Nat]
    <3>1. <<>> \in [1 .. Len(<<>>) -> Nat] /\ DOMAIN <<>> = 1 .. Len(<<>>)
      BY EmptySeq, LenProperties
    <3> QED BY <1>3, <3>1 DEF At
  <2>4. list \in Seq(Listed)
    BY DEF Init
  <2> QED BY <1>1, <1>2, <2>1, <2>2, <2>3, <2>4 DEF Init, GreedyTypes
<1>5. BeliefsAgree
  <2>1. \A e \in Expert : e # NoExpert
    BY Geometry
  <2> QED BY <1>2, <1>3, <2>1 DEF BeliefsAgree
<1>6. BelievesPlacement
  BY <1>2 DEF BelievesPlacement, InLayer
<1> QED BY <1>1, <1>4, <1>5, <1>6 DEF GreedyInv, Beliefs, PhaseInv, ListInv, SearchInv, Init, PatternsSound

(* What is observed joins what is believed: in a layer that is believed to *)
(* hold nothing or what view tells, no expert had a share elsewhere.       *)
LEMMA BlendAgrees ==
    ASSUME GreedyInv, Blend
    PROVE  Agreeing(deployed', loads', shares') /\ Known(deployed', view)
<1>1. PICK new \in [{p \in InLayer(layer) : view[p] # NoExpert} -> Loads] :
        /\ shares' = [e \in Expert |->
              [p \in At(e) \cup {q \in DOMAIN new : view[q] = e} |->
                  IF p \in DOMAIN new /\ view[p] = e THEN new[p] ELSE shares[e][p]]]
        /\ deployed' = [p \in Position |-> IF p \in DOMAIN new THEN view[p] ELSE deployed[p]]
        /\ loads'    = [p \in Position |-> IF p \in DOMAIN new THEN new[p] ELSE loads[p]]
  BY DEF Blend
<1>2. PICK D : D = DOMAIN new /\ D = {p \in InLayer(layer) : view[p] # NoExpert}
               /\ D \subseteq Position /\ \A p \in D : new[p] \in Nat
  BY GreedyAssumption DEF InLayer
<1>3. /\ Beliefs /\ Known(deployed, view) /\ view \in [Position -> Owners] /\ layer \in Layer
  BY DEF GreedyInv, Beliefs, GreedyTypes, BelievesPlacement, Known
<1>4. /\ deployed \in [Position -> Owners] /\ loads \in [Position -> Nat]
      /\ \A p \in Position : loads[p] = IF deployed[p] = NoExpert THEN 0 ELSE shares[deployed[p]][p]
      /\ \A x \in Expert : x # NoExpert /\ DOMAIN shares[x] = At(x)
  BY <1>3, AgreeingNow, Geometry DEF Agreeing, At
<1>5. \A p \in D : view[p] \in Expert /\ (deployed[p] = NoExpert \/ deployed[p] = view[p])
  BY <1>2, <1>3 DEF Known, InLayer, Owners
<1>6. \A p \in Position : /\ deployed'[p] = IF p \in D THEN view[p] ELSE deployed[p]
                         /\ loads'[p] = IF p \in D THEN new[p] ELSE loads[p]
  BY <1>1, <1>2
<1>7. deployed' \in [Position -> Owners] /\ loads' \in [Position -> Nat] /\ DOMAIN shares' = Expert
  <2>1. \A p \in Position : deployed'[p] \in Owners /\ loads'[p] \in Nat
    BY <1>2, <1>3, <1>4, <1>6
  <2> QED BY <1>1, <2>1
<1>8. ASSUME NEW x \in Expert
      PROVE  /\ shares'[x] \in [{p \in Position : deployed'[p] = x} -> Nat]
             /\ \A p \in Position : deployed'[p] = x => shares'[x][p] = loads'[p]
  <2>1. PICK A : A = At(x) /\ A = {p \in Position : deployed[p] = x}
                 /\ \A p \in A : shares[x][p] = loads[p] /\ loads[p] \in Nat
    BY <1>3, AtType
  <2>2. PICK B : B = A \cup {q \in D : view[q] = x}
    OBVIOUS
  <2>3. shares'[x] = [p \in B |-> IF p \in D /\ view[p] = x THEN new[p] ELSE shares[x][p]]
    BY <1>1, <1>2, <2>1, <2>2
  <2>4. {p \in Position : deployed'[p] = x} = B
    BY <1>2, <1>4, <1>5, <1>6, <2>1, <2>2
  <2>5. \A p \in B : shares'[x][p] = loads'[p] /\ loads'[p] \in Nat
    <3> SUFFICES ASSUME NEW p \in B PROVE shares'[x][p] = loads'[p] /\ loads'[p] \in Nat
      OBVIOUS
    <3>1. CASE p \in D
      <4>1. view[p] = x /\ p \in Position
        BY <1>2, <1>4, <1>5, <2>1, <2>2, <3>1
      <4> QED BY <1>2, <1>6, <2>3, <3>1, <4>1
    <3>2. CASE p \notin D
      <4>1. p \in A /\ p \in Position
        BY <2>1, <2>2, <3>2
      <4> QED BY <1>6, <2>1, <2>3, <3>2, <4>1
    <3> QED BY <3>1, <3>2
  <2>6. shares'[x] \in [B -> Nat]
    BY <2>3, <2>5
  <2> QED BY <2>4, <2>5, <2>6
<1>9. ASSUME NEW p \in Position
      PROVE  loads'[p] = IF deployed'[p] = NoExpert THEN 0 ELSE shares'[deployed'[p]][p]
  <2>1. CASE deployed'[p] = NoExpert
    BY <1>4, <1>5, <1>6, <2>1
  <2>2. CASE deployed'[p] # NoExpert
    <3>1. deployed'[p] \in Expert
      BY <1>7, <2>2 DEF Owners
    <3> QED BY <1>8, <2>2, <3>1
  <2> QED BY <2>1, <2>2
<1>10. Known(deployed', view)
  <2> SUFFICES ASSUME NEW l \in Layer
               PROVE  \/ \A p \in InLayer(l) : deployed'[p] = NoExpert
                      \/ \A p \in InLayer(l) : deployed'[p] = view[p]
    BY DEF Known
  <2>1. CASE l = layer
    <3>1. \A p \in InLayer(l) : p \in Position /\ (p \notin D <=> view[p] = NoExpert)
      BY <1>2, <2>1 DEF InLayer
    <3>2. \A p \in InLayer(l) : p \notin D => deployed[p] = NoExpert
      BY <1>3, <3>1 DEF Known
    <3> QED BY <1>6, <3>1, <3>2
  <2>2. CASE l # layer
    <3>1. \A p \in InLayer(l) : p \in Position /\ p \notin D
      BY <1>2, <2>2 DEF InLayer
    <3> QED BY <1>3, <1>6, <3>1 DEF Known
  <2> QED BY <2>1, <2>2
<1> QED BY <1>7, <1>8, <1>9, <1>10 DEF Agreeing

LEMMA BestIsMean ==
    ASSUME NEW x \in Nat, NEW k \in Nat \ {0}
    PROVE  x \div k \in Nat /\ x < k * (x \div k + 1)
<1> DEFINE q == x \div k
           r == x % k
<1>1. q \in Int /\ r \in 0 .. k - 1 /\ x = k * q + r
  OBVIOUS
<1>2. q \in Nat
  BY QuotientType
<1> HIDE DEF q, r
<1>3. k * (q + 1) = k * q + k
  BY <1>1
<1>4. x < k * (q + 1)
  BY <1>1, <1>3
<1> QED BY <1>2, <1>4 DEF q

LEMMA ObserveStep ==
    ASSUME GreedyInv, Observe
    PROVE  GreedyInv'
<1>1. /\ phase = "observe" /\ phase' = "remove" /\ excluded' = {} /\ best' = BestEP(loads')
      /\ Blend \/ Ignore
      /\ UNCHANGED <<view, list, layer, highest, position>>
  BY DEF Observe
<1>2. Agreeing(deployed', loads', shares') /\ Known(deployed', view)
  <2>1. CASE Blend
    BY <2>1, BlendAgrees
  <2>2. CASE Ignore
    <3>1. deployed' = deployed /\ loads' = loads /\ shares' = shares
      BY <2>2 DEF Ignore, belief
    <3>2. Agreeing(deployed, loads, shares) /\ Known(deployed, view)
      BY AgreeingNow DEF GreedyInv, BelievesPlacement, Known
    <3> QED BY <3>1, <3>2
  <2> QED BY <1>1, <2>1, <2>2
<1>3. PICK x, S : x = SumFunctionOnSet(loads', S) /\ S = InLayer(layer) /\ x \in Nat
  <2>1. loads' \in [Position -> Nat]
    BY <1>2 DEF Agreeing
  <2>2. IsFiniteSet(InLayer(layer)) /\ \A q \in InLayer(layer) : loads'[q] \in Nat
    BY <2>1, Geometry, FS_Subset DEF InLayer
  <2>3. SumFunctionOnSet(loads', InLayer(layer)) \in Nat
    BY <2>2, SumNat
  <2> QED BY <2>3
<1>4. best' = x \div WorldSize /\ best' \in Nat /\ x < WorldSize * (best' + 1)
  <2>1. BestEP(loads') = x \div WorldSize
    BY <1>3 DEF BestEP
  <2> QED BY <1>1, <1>3, <2>1, BestIsMean, GeometryAssumption
<1>5. Cursor'
  BY <1>1, <1>4, CursorNow DEF Cursor
<1>6. Beliefs'
  BY <1>2, <1>5, BeliefsNext
<1>7. BelievesPlacement'
  BY <1>1, <1>2 DEF Known, BelievesPlacement, InLayer
<1>8. Layered(view') /\ InBounds(view')
  BY <1>1 DEF GreedyInv
<1>9. PhaseInv' /\ ListInv'
  BY <1>1 DEF GreedyInv, PhaseInv, ListInv
<1>10. SearchInv'
  <2>1. SumFunctionOnSet(loads', InLayer(layer)') = x
    BY <1>1, <1>3 DEF InLayer
  <2>2. highest' \notin excluded' /\ \A r \in excluded' : RankLoads(loads)'[r] > best'
    BY <1>1
  <2> QED BY <1>4, <2>1, <2>2 DEF SearchInv
<1> QED BY <1>6, <1>7, <1>8, <1>9, <1>10 DEF GreedyInv, Layered, InBounds

LEMMA BeliefsStay ==
    ASSUME GreedyInv, UNCHANGED <<view, belief>>, Cursor'
    PROVE  Beliefs' /\ BelievesPlacement' /\ Layered(view') /\ InBounds(view')
<1>1. view' = view /\ deployed' = deployed /\ loads' = loads /\ shares' = shares
  BY DEF belief
<1>2. Agreeing(deployed', loads', shares')
  BY <1>1, AgreeingNow DEF GreedyInv
<1>3. Beliefs'
  BY <1>2, BeliefsNext
<1>4. BelievesPlacement'
  BY <1>1 DEF GreedyInv, BelievesPlacement, InLayer
<1> QED BY <1>1, <1>3, <1>4 DEF GreedyInv

LEMMA LoadsStay ==
    ASSUME loads' = loads, layer' = layer
    PROVE  /\ RankLoads(loads)' = RankLoads(loads)
           /\ SumFunctionOnSet(loads, InLayer(layer))' = SumFunctionOnSet(loads, InLayer(layer))
BY DEF RankLoads, OfRank, InLayer

(* With every rank excluded, each is above the mean.                       *)
LEMMA SomeRankIsLeft ==
    ASSUME GreedyInv, phase = "remove"
    PROVE  excluded # Rank
<1> SUFFICES ASSUME excluded = Rank PROVE FALSE
  OBVIOUS
<1>1. PICK ld, K, h, x, b : /\ ld = loads /\ K = Rank /\ h = RankLoads(ld) /\ b = best
                            /\ x = SumFunctionOnSet(ld, InLayer(layer))
  OBVIOUS
<1>2. ld \in [Position -> Nat] /\ b \in Nat
  BY <1>1 DEF GreedyInv, Beliefs, GreedyTypes
<1>3. SumFunctionOnSet(h, K) = x
  BY <1>1, <1>2, RanksHoldLayer
<1>4. x < WorldSize * (b + 1) /\ \A r \in K : h[r] > b /\ h[r] \in Nat
  BY <1>1, <1>2, RankLoadsAre DEF GreedyInv, SearchInv
<1>5. IsFiniteSet(K) /\ Cardinality(K) = WorldSize /\ WorldSize \in Nat
  BY <1>1, Geometry, GeometryAssumption
<1>6. PICK g : g = [r \in K |-> b + 1]
  OBVIOUS
<1>7. \A r \in K : g[r] \in Int /\ h[r] \in Int /\ g[r] <= h[r]
  BY <1>2, <1>4, <1>6
<1>8. SumFunctionOnSet(g, K) = (b + 1) * Cardinality(K)
  <2>1. PICK c : c = b + 1 /\ c \in Int /\ \A r \in K : g[r] = c
    BY <1>2, <1>6
  <2>2. SumFunctionOnSet(g, K) = c * Cardinality(K)
    BY <1>5, <2>1, SumConstant
  <2> QED BY <2>1, <2>2
<1>9. SumFunctionOnSet(g, K) <= SumFunctionOnSet(h, K)
  BY <1>5, <1>7, SumMonotone
<1>10. x \in Int
  <2>1. SumFunctionOnSet(h, K) \in Int
    BY <1>5, <1>7, SumInt
  <2> QED BY <1>3, <2>1
<1>11. WorldSize * (b + 1) <= x
  BY <1>2, <1>3, <1>5, <1>8, <1>9
<1>12. WorldSize * (b + 1) \in Int
  BY <1>2, <1>5
<1> QED BY <1>4, <1>10, <1>11, <1>12

LEMMA PickRankStep ==
    ASSUME GreedyInv, PickRank
    PROVE  GreedyInv'
<1>1. /\ phase = "remove" /\ highest = -1 /\ excluded # Rank
      /\ UNCHANGED <<view, list, belief, layer, best, excluded>>
  BY SomeRankIsLeft DEF PickRank, cursor
<1>2. PICK h : h = HighestRank(Rank \ excluded)
  OBVIOUS
<1>3. h \in Rank \ excluded
  <2>1. loads \in [Position -> Nat] /\ excluded \subseteq Rank
    BY DEF GreedyInv, Beliefs, GreedyTypes
  <2>2. PICK S, v : S = Rank \ excluded /\ v = RankLoads(loads)
    OBVIOUS
  <2>3. S \in SUBSET Rank /\ S # {} /\ v \in [Rank -> Nat]
    BY <1>1, <2>1, <2>2, RankLoadsAre
  <2>4. Min({r \in S : \A s \in S : v[s] <= v[r]}) \in S
    BY <2>3, HighestExists
  <2> QED BY <1>2, <2>2, <2>4 DEF HighestRank
<1>4. \/ phase' = "swap_add" /\ highest' = -1 /\ position' = position
      \/ phase' = "remove" /\ highest' = h /\ position' = 0
  BY <1>1, <1>2 DEF PickRank, cursor
<1>5. Cursor'
  BY <1>1, <1>3, <1>4, CursorNow DEF Cursor
<1>6. Beliefs' /\ BelievesPlacement' /\ Layered(view') /\ InBounds(view')
  BY <1>1, <1>5, BeliefsStay
<1>7. PhaseInv'
  BY <1>4 DEF PhaseInv
<1>8. ListInv'
  BY <1>1, <1>4 DEF GreedyInv, ListInv
<1>9. SearchInv'
  <2>1. /\ RankLoads(loads)' = RankLoads(loads)
        /\ SumFunctionOnSet(loads, InLayer(layer))' = SumFunctionOnSet(loads, InLayer(layer))
    BY <1>1, LoadsStay DEF belief
  <2> QED BY <1>1, <1>3, <1>4, <2>1 DEF GreedyInv, SearchInv
<1> QED BY <1>6, <1>7, <1>8, <1>9 DEF GreedyInv, Layered, InBounds

LEMMA KeepReplicaStep ==
    ASSUME GreedyInv, KeepReplica
    PROVE  GreedyInv'
<1>1. /\ position' = position + 1
      /\ UNCHANGED <<view, list, belief, phase, layer, best, excluded, highest>>
  BY DEF KeepReplica
<1>2. Cursor'
  BY <1>1, CursorNow DEF Cursor
<1>3. Beliefs' /\ BelievesPlacement' /\ Layered(view') /\ InBounds(view')
  BY <1>1, <1>2, BeliefsStay
<1>4. PhaseInv' /\ ListInv'
  BY <1>1 DEF GreedyInv, PhaseInv, ListInv
<1>5. SearchInv'
  BY <1>1, LoadsStay DEF belief, GreedyInv, SearchInv
<1> QED BY <1>3, <1>4, <1>5 DEF GreedyInv, Layered, InBounds

LEMMA LeaveRankStep ==
    ASSUME GreedyInv, LeaveRank
    PROVE  GreedyInv'
<1>1. /\ highest' = -1 /\ highest # -1
      /\ excluded' = IF RankLoads(loads)[highest] > best THEN excluded \cup {highest} ELSE excluded
      /\ UNCHANGED <<view, list, belief, phase, layer, best, position>>
  BY DEF LeaveRank
<1>2. Cursor'
  BY <1>1, CursorNow DEF Cursor
<1>3. Beliefs' /\ BelievesPlacement' /\ Layered(view') /\ InBounds(view')
  BY <1>1, <1>2, BeliefsStay
<1>4. PhaseInv' /\ ListInv'
  BY <1>1 DEF GreedyInv, PhaseInv, ListInv
<1>5. SearchInv'
  <2>1. -1 \notin excluded'
    BY <1>2, Geometry DEF Cursor
  <2> QED BY <1>1, <2>1, LoadsStay DEF belief, GreedyInv, SearchInv
<1> QED BY <1>3, <1>4, <1>5 DEF GreedyInv, Layered, InBounds

(* The replicas of an expert that are believed in are in one layer.        *)
LEMMA AtInLayer ==
    ASSUME GreedyInv, NEW e \in Expert, NEW t \in At(e), LayerOf(t) = layer
    PROVE  At(e) \subseteq InLayer(layer)
<1>1. At(e) = {p \in Position : deployed[p] = e} /\ e # NoExpert
  BY AtType, Geometry DEF GreedyInv
<1>2. ASSUME NEW p \in At(e) PROVE view[p] = e /\ ExpertLayer(e) = LayerOf(p)
  <2>1. p \in Position /\ deployed[p] = e
    BY <1>1
  <2>2. LayerOf(p) \in Layer /\ p \in InLayer(LayerOf(p))
    BY <2>1, LayerOfType DEF InLayer
  <2>3. view[p] = e
    BY <1>1, <2>1, <2>2 DEF GreedyInv, BelievesPlacement
  <2> QED BY <1>1, <2>1, <2>3 DEF GreedyInv, Layered
<1> QED BY <1>1, <1>2 DEF InLayer

LEMMA RemoveReplicaStep ==
    ASSUME GreedyInv, RemoveReplica
    PROVE  GreedyInv'
<1>1. PICK t, m : t = Here /\ m = [type |-> "REMOVE", source |-> -1, target |-> t]
  OBVIOUS
<1>2. /\ Carry(m) /\ position' = position + 1 /\ phase = "remove" /\ m.type = "REMOVE"
      /\ UNCHANGED <<phase, layer, best, excluded, highest>>
  BY <1>1 DEF RemoveReplica, Visiting
<1>3. Fits(m) /\ t \in OfRank(highest) /\ t \in Position /\ LayerOf(t) = layer /\ Owner(t) = highest
  <2>1. Beliefs /\ Visiting /\ Removable
    BY DEF GreedyInv, RemoveReplica
  <2> QED BY <1>1, <2>1, RemovalFits DEF OfRank, InLayer
<1>4. PICK e \in Expert : deployed[t] = e /\ Spare(e)
  BY <1>1, <1>3 DEF RemoveReplica, Removable, GreedyInv, Beliefs, GreedyTypes, Owners
<1>5. /\ Agreeing(deployed', loads', shares') /\ BelievesPlacement'
      /\ view' \in [Position -> Owners] /\ Layered(view') /\ InBounds(view')
      /\ list' \in Seq(Listed) /\ LayerOf(list'[Len(list')].target_position) = layer
      /\ list'[Len(list')].type = m.type
  BY <1>2, <1>3, Carried
<1>6. Cursor'
  BY <1>2, <1>5, CursorNow DEF Cursor
<1>7. Beliefs'
  BY <1>5, <1>6, BeliefsNext
<1>8. PhaseInv'
  BY <1>2 DEF GreedyInv, PhaseInv
<1>9. ListInv'
  BY <1>2, <1>5 DEF ListInv
<1>10. Beliefs /\ Believe([type |-> "REMOVE", source |-> -1, target |-> t])
  BY <1>1, <1>2 DEF Carry, GreedyInv
<1> DEFINE U == At(e) \ {t}
           c == loads[t] \div Cardinality(U)
<1>11. /\ c \in Nat
       /\ loads' = [q \in Position |-> IF q = t THEN 0
                                       ELSE IF q \in U THEN loads[q] + c ELSE loads[q]]
  BY <1>3, <1>4, <1>10, RemoveBelieves
<1> HIDE DEF U, c
<1>12. t \in At(e) /\ loads \in [Position -> Nat] /\ loads' \in [Position -> Nat]
  BY <1>3, <1>4, <1>5, <1>10, AtType DEF Agreeing, Beliefs, GreedyTypes
<1>13. SearchInv'
  <2>1. SumFunctionOnSet(loads', InLayer(layer)) <= SumFunctionOnSet(loads, InLayer(layer))
    <3>1. PICK S : S = InLayer(layer) /\ S \in SUBSET Position /\ At(e) \subseteq S
      BY <1>3, <1>12, AtInLayer DEF InLayer
    <3>2. SumFunctionOnSet(loads', S) <= SumFunctionOnSet(loads, S)
      BY <1>3, <1>4, <1>10, <3>1, RemoveIsNoMore
    <3> QED BY <3>1, <3>2
  <2>2. SumFunctionOnSet(loads, InLayer(layer)) \in Int /\ SumFunctionOnSet(loads', InLayer(layer)) \in Int
    <3>1. IsFiniteSet(InLayer(layer)) /\ \A q \in InLayer(layer) : loads[q] \in Int /\ loads'[q] \in Int
      BY <1>12, Geometry, FS_Subset DEF InLayer
    <3> QED BY <3>1, SumInt
  <2>3. ASSUME NEW r \in excluded
        PROVE  SumFunctionOnSet(loads', OfRank(r)) > best
    <3>1. r \in Rank /\ r # highest
      BY <1>2 DEF GreedyInv, SearchInv, Beliefs, GreedyTypes
    <3>2. RankLoads(loads)[r] > best /\ RankLoads(loads)[r] = SumFunctionOnSet(loads, OfRank(r))
      BY <1>2, <1>12, <3>1, RankLoadsAre DEF GreedyInv, SearchInv
    <3>3. PICK S, l, n : S = OfRank(r) /\ l = loads /\ n = loads'
      OBVIOUS
    <3>4. \A q \in S : q \in Position /\ q # t
      BY <1>3, <3>1, <3>3 DEF OfRank, InLayer
    <3>5. \A q \in S : l[q] \in Int /\ n[q] \in Int /\ l[q] <= n[q]
      <4> SUFFICES ASSUME NEW q \in S PROVE l[q] \in Int /\ n[q] \in Int /\ l[q] <= n[q]
        OBVIOUS
      <4>1. l[q] \in Nat /\ q # t /\ q \in Position
        BY <1>12, <3>3, <3>4
      <4>2. n[q] = IF q \in U THEN l[q] + c ELSE l[q]
        BY <1>11, <3>3, <4>1
      <4> QED BY <1>11, <4>1, <4>2
    <3>6. IsFiniteSet(S)
      BY <1>12, <3>1, <3>3, RankLoadsAre
    <3>7. SumFunctionOnSet(l, S) <= SumFunctionOnSet(n, S)
      BY <3>5, <3>6, SumMonotone
    <3>8. SumFunctionOnSet(l, S) \in Int /\ SumFunctionOnSet(n, S) \in Int
      BY <3>5, <3>6, SumInt
    <3>9. best \in Int
      BY <1>10 DEF Beliefs, GreedyTypes
    <3> QED BY <3>2, <3>3, <3>7, <3>8, <3>9
  <2>4. InLayer(layer)' = InLayer(layer) /\ \A r : OfRank(r)' = OfRank(r)
    BY <1>2 DEF InLayer, OfRank
  <2>5. \A r \in excluded' : RankLoads(loads)'[r] > best'
    <3>1. \A r \in excluded : r \in Rank
      BY <1>10 DEF Beliefs, GreedyTypes
    <3>2. RankLoads(loads)' = [r \in Rank |-> SumFunctionOnSet(loads', OfRank(r))]
      BY <2>4 DEF RankLoads
    <3> QED BY <1>2, <2>3, <3>1, <3>2
  <2>6. SumFunctionOnSet(loads', InLayer(layer)') < WorldSize * (best' + 1)
    <3>1. PICK w : w = WorldSize * (best + 1) /\ w \in Int
      BY <1>10, GeometryAssumption DEF Beliefs, GreedyTypes
    <3>2. SumFunctionOnSet(loads, InLayer(layer)) < w
      BY <1>2, <3>1 DEF GreedyInv, SearchInv
    <3>3. SumFunctionOnSet(loads', InLayer(layer)) < w
      BY <2>1, <2>2, <3>1, <3>2
    <3> QED BY <1>2, <2>4, <3>1, <3>3
  <2> QED BY <1>2, <2>5, <2>6 DEF GreedyInv, SearchInv
<1> QED BY <1>5, <1>7, <1>8, <1>9, <1>13 DEF GreedyInv, Layered, InBounds

LEMMA SwapOrAddStep ==
    ASSUME GreedyInv, SwapOrAdd
    PROVE  GreedyInv'
<1>1. /\ phase = "swap_add"
      /\ UNCHANGED <<phase, layer, best, excluded, highest, position>>
  BY DEF SwapOrAdd, cursor
<1>2. CASE UNCHANGED <<view, list, belief>>
  <2>1. Cursor'
    BY <1>1, <1>2, CursorNow DEF Cursor
  <2>2. Beliefs' /\ BelievesPlacement' /\ Layered(view') /\ InBounds(view')
    BY <1>2, <2>1, BeliefsStay
  <2>3. PhaseInv' /\ ListInv' /\ SearchInv'
    BY <1>1, <1>2 DEF GreedyInv, PhaseInv, ListInv, SearchInv
  <2> QED BY <2>2, <2>3 DEF GreedyInv, Layered, InBounds
<1>3. ASSUME NEW m \in Chosen, Carry(m) PROVE GreedyInv'
  <2>1. Fits(m) /\ m.type # "REMOVE"
    BY <1>3, ChosenFits DEF GreedyInv
  <2>2. /\ Agreeing(deployed', loads', shares') /\ BelievesPlacement'
        /\ view' \in [Position -> Owners] /\ Layered(view') /\ InBounds(view')
        /\ list' \in Seq(Listed) /\ LayerOf(list'[Len(list')].target_position) = layer
    BY <1>1, <1>3, <2>1, Carried
  <2>3. Cursor'
    BY <1>1, <2>2, CursorNow DEF Cursor
  <2>4. Beliefs'
    BY <2>2, <2>3, BeliefsNext
  <2>5. PhaseInv' /\ ListInv' /\ SearchInv'
    BY <1>1, <2>2 DEF GreedyInv, PhaseInv, ListInv, SearchInv
  <2> QED BY <2>2, <2>4, <2>5 DEF GreedyInv, Layered, InBounds
<1> QED BY <1>2, <1>3 DEF SwapOrAdd, belief

LEMMA EndLayerStep ==
    ASSUME GreedyInv, EndLayer
    PROVE  GreedyInv'
<1>1. /\ phase = "swap_add" /\ UNCHANGED <<view, list, belief, best, excluded, highest, position>>
      /\ \/ layer + 1 < NumLayers /\ layer' = layer + 1 /\ phase' = "observe"
         \/ phase' = "done" /\ layer' = layer
  BY DEF EndLayer, cursor
<1>2. layer \in 0 .. NumLayers - 1 /\ layer' \in Layer
  BY <1>1, GeometryAssumption DEF GreedyInv, Beliefs, GreedyTypes, Layer
<1>3. Cursor'
  BY <1>1, <1>2, CursorNow DEF Cursor
<1>4. Beliefs' /\ BelievesPlacement' /\ Layered(view') /\ InBounds(view')
  BY <1>1, <1>3, BeliefsStay
<1>5. PhaseInv' /\ SearchInv'
  BY <1>1 DEF GreedyInv, PhaseInv, SearchInv
<1>6. ListInv'
  <2> SUFFICES ASSUME list # <<>>
               PROVE  \/ LayerOf(list[Len(list)].target_position) < layer'
                      \/ /\ LayerOf(list[Len(list)].target_position) = layer'
                         /\ phase' # "observe" /\ (phase' = "remove" => list[Len(list)].type = "REMOVE")
    BY <1>1 DEF ListInv
  <2>1. PICK l, k : l = LayerOf(list[Len(list)].target_position) /\ k = layer
    OBVIOUS
  <2>2. l < k \/ l = k
    BY <2>1 DEF GreedyInv, ListInv
  <2>3. l \in Int
    <3>1. PICK q \in Seq(Listed) : q = list
      BY DEF GreedyInv, Beliefs, GreedyTypes
    <3>2. Len(q) \in 1 .. Len(q)
      BY <3>1
    <3>3. q[Len(q)] \in Listed
      BY <3>1, <3>2
    <3>4. q[Len(q)].target_position \in Position
      BY <3>3 DEF Listed
    <3>5. l \in Layer
      BY <2>1, <3>1, <3>4, LayerOfType
    <3> QED BY <3>5, Geometry
  <2>4. CASE layer' = layer + 1
    <3>1. l < layer'
      BY <1>2, <2>1, <2>2, <2>3, <2>4
    <3> QED BY <2>1, <3>1
  <2>5. CASE phase' = "done" /\ layer' = layer
    BY <2>1, <2>2, <2>5
  <2> QED BY <1>1, <2>4, <2>5
<1> QED BY <1>4, <1>5, <1>6 DEF GreedyInv, Layered, InBounds

LEMMA NextRoundStep ==
    ASSUME GreedyInv, NextRound
    PROVE  GreedyInv'
<1>1. /\ phase = "done" /\ phase' = "observe" /\ layer' = 0 /\ list' = <<>>
      /\ UNCHANGED <<view, belief, best, excluded, highest, position>>
  BY DEF NextRound, cursor
<1>2. Cursor'
  <2>1. 0 \in Layer
    BY GeometryAssumption DEF Layer
  <2>2. list' \in Seq(Listed)
    BY <1>1
  <2> QED BY <1>1, <2>1, <2>2, CursorNow DEF Cursor
<1>3. Beliefs' /\ BelievesPlacement' /\ Layered(view') /\ InBounds(view')
  BY <1>1, <1>2, BeliefsStay
<1>4. PhaseInv' /\ ListInv' /\ SearchInv'
  BY <1>1 DEF GreedyInv, PhaseInv, ListInv, SearchInv
<1> QED BY <1>3, <1>4 DEF GreedyInv, Layered, InBounds

LEMMA InvNext ==
    GreedyInv /\ [Next]_vars => GreedyInv'
<1> SUFFICES ASSUME GreedyInv, [Next]_vars PROVE GreedyInv'
  OBVIOUS
<1>1. CASE UNCHANGED vars
  <2>1. UNCHANGED <<view, list, belief, phase, layer, best, excluded, highest, position>>
    BY <1>1 DEF vars, cursor
  <2>2. Cursor'
    BY <2>1, CursorNow DEF Cursor
  <2>3. Beliefs' /\ BelievesPlacement' /\ Layered(view') /\ InBounds(view')
    BY <2>1, <2>2, BeliefsStay
  <2>4. PhaseInv' /\ ListInv' /\ SearchInv'
    BY <2>1, LoadsStay DEF belief, GreedyInv, PhaseInv, ListInv, SearchInv
  <2> QED BY <2>3, <2>4 DEF GreedyInv, Layered, InBounds
<1> QED BY <1>1, ObserveStep, PickRankStep, RemoveReplicaStep, KeepReplicaStep, LeaveRankStep,
           SwapOrAddStep, EndLayerStep, NextRoundStep DEF Next

-----------------------------------------------------------------------------
(* The theorems.                                                           *)

LEMMA InvAlways ==
    ASSUME PatternsSound
    PROVE  Spec => []GreedyInv
<1>1. Init => GreedyInv
  BY InvInit
<1> QED BY <1>1, InvNext, PTL DEF Spec

(* The two sides of what is believed tell the same after every step of     *)
(* update().                                                               *)
THEOREM BeliefsStayInStep ==
    ASSUME PatternsSound
    PROVE  Spec => []BeliefsAgree
<1>1. GreedyInv => BeliefsAgree
  BY DEF GreedyInv, Beliefs
<1> QED BY <1>1, InvAlways, PTL

(* Across layers, rounds and skipped observations, a layer is believed to  *)
(* hold nothing or just what the workers will have there.                  *)
THEOREM BeliefIsThePlacement ==
    ASSUME PatternsSound
    PROVE  Spec => []BelievesPlacement
<1>1. GreedyInv => BelievesPlacement
  BY DEF GreedyInv
<1> QED BY <1>1, InvAlways, PTL

(* No list of instructions leaves an expert without a replica or with too  *)
(* many of them.                                                           *)
THEOREM ReplicasStayInBounds ==
    ASSUME PatternsSound
    PROVE  Spec => []ReplicasInBounds
<1>1. GreedyInv => ReplicasInBounds
  BY DEF GreedyInv, InBounds, ReplicasInBounds
<1> QED BY <1>1, InvAlways, PTL

(* generate_remove_instructions_per_layer always finds a highest rank: the *)
(* ranks that it has excluded are above the mean, so not all of them are.  *)
THEOREM SomeRankRemains ==
    ASSUME PatternsSound
    PROVE  Spec => []NeverExhausted
<1>1. GreedyInv => NeverExhausted
  BY DEF GreedyInv, PhaseInv, NeverExhausted
<1> QED BY <1>1, InvAlways, PTL

(* What an action that decides something adds to the list, and to the load.*)
LEMMA StepDecides ==
    ASSUME GreedyInv, [Next]_vars
    PROVE  \/ /\ list' = list \/ list' = <<>>
              /\ phase # "observe" => loads' = loads
           \/ \E m : /\ LegalMove(view, m) /\ InListOrder(list, m) /\ m \in Move
                     /\ list' = Append(list, Instruction(view, m)) /\ Len(list') = Len(list) + 1
                     /\ view' = AfterMove(view, m)
                     /\ SumFunction(loads') <= SumFunction(loads)
<1>1. CASE RemoveReplica
  <2>1. PICK m : m = [type |-> "REMOVE", source |-> -1, target |-> Here]
    OBVIOUS
  <2>2. Fits(m)
    <3>1. Beliefs /\ Visiting /\ Removable
      BY <1>1 DEF GreedyInv, RemoveReplica
    <3> QED BY <2>1, <3>1, RemovalFits
  <2>3. Carry(m) /\ layer' = layer /\ phase = "remove" /\ m.type = "REMOVE" /\ m \in Move
    BY <1>1, <2>1, <2>2 DEF RemoveReplica, Visiting, Fits
  <2>4. /\ LegalMove(view, m) /\ InListOrder(list, m)
        /\ list' = Append(list, Instruction(view, m)) /\ Len(list') = Len(list) + 1
        /\ view' = AfterMove(view, m) /\ SumFunction(loads') <= SumFunction(loads)
    BY <2>2, <2>3, Carried
  <2> QED BY <2>3, <2>4
<1>2. CASE SwapOrAdd
  <2>1. CASE UNCHANGED <<view, list, belief>>
    BY <2>1 DEF belief
  <2>2. ASSUME NEW m \in Chosen, Carry(m)
        PROVE  /\ LegalMove(view, m) /\ InListOrder(list, m) /\ m \in Move
               /\ list' = Append(list, Instruction(view, m)) /\ Len(list') = Len(list) + 1
               /\ view' = AfterMove(view, m) /\ SumFunction(loads') <= SumFunction(loads)
    <3>1. Fits(m) /\ m.type # "REMOVE" /\ layer' = layer /\ phase = "swap_add" /\ m \in Move
      BY <1>2, <2>2, ChosenFits DEF GreedyInv, SwapOrAdd, Fits
    <3> QED BY <2>2, <3>1, Carried
  <2> QED BY <1>2, <2>1, <2>2 DEF SwapOrAdd, belief
<1>3. CASE Observe \/ PickRank \/ KeepReplica \/ LeaveRank \/ EndLayer \/ NextRound \/ UNCHANGED vars
  BY <1>3 DEF Observe, PickRank, KeepReplica, LeaveRank, EndLayer, NextRound, vars, belief
<1> QED BY <1>1, <1>2, <1>3 DEF Next

(* The workers only get moves that are legal on the placement the list has *)
(* reached, naming the experts that are there, in the order of layers.     *)
THEOREM DecisionsStayLegal ==
    ASSUME PatternsSound
    PROVE  Spec => DecisionsAreLegal
<1> DEFINE i == list'[Len(list')]
           m == [type |-> i.type, source |-> i.source_position, target |-> i.target_position]
           Legal == /\ LegalMove(view, m)
                    /\ InListOrder(list, m)
                    /\ list' = Append(list, Instruction(view, m))
                    /\ view' = AfterMove(view, m)
<1>1. ASSUME GreedyInv, [Next]_vars, Len(list') > Len(list) PROVE Legal
  <2>1. PICK q \in Seq(Listed) : q = list
    BY <1>1 DEF GreedyInv, Beliefs, GreedyTypes
  <2>2. list' # list /\ list' # <<>>
    BY <1>1, <2>1
  <2>3. PICK n : /\ LegalMove(view, n) /\ InListOrder(list, n) /\ n \in Move
                 /\ list' = Append(list, Instruction(view, n)) /\ Len(list') = Len(list) + 1
                 /\ view' = AfterMove(view, n)
    BY <1>1, <2>2, StepDecides
  <2>4. i = Instruction(view, n)
    <3>1. PICK x : x = Instruction(view, n)
      OBVIOUS
    <3>2. Append(q, x)[Len(q) + 1] = x
      BY <2>1
    <3> QED BY <2>1, <2>3, <3>1, <3>2
  <2>5. m = n
    <3>1. i.type = n.type /\ i.source_position = n.source /\ i.target_position = n.target
      BY <2>4 DEF Instruction
    <3>2. n = [type |-> n.type, source |-> n.source, target |-> n.target]
      BY <2>3 DEF Move
    <3> HIDE DEF i
    <3> QED BY <3>1, <3>2
  <2> HIDE DEF m
  <2> QED BY <2>3, <2>5
<1>2. GreedyInv /\ [Next]_vars => [Len(list') > Len(list) => Legal]_vars
  BY <1>1
<1> QED BY <1>2, InvAlways, PTL DEF Spec, DecisionsAreLegal

(* Shares are rounded off: no decision makes load appear.                  *)
THEOREM NoLoadAppears ==
    ASSUME PatternsSound
    PROVE  Spec => LoadNeverGrows
<1>1. ASSUME GreedyInv, [Next]_vars, phase # "observe"
      PROVE  SumFunction(loads') <= SumFunction(loads)
  <2>1. SumFunction(loads) \in Int
    <3>1. PICK l \in [Position -> Nat] : l = loads
      BY <1>1 DEF GreedyInv, Beliefs, GreedyTypes
    <3>2. SumFunctionOnSet(l, Position) \in Nat
      BY <3>1, Geometry, SumNat
    <3> QED BY <3>1, <3>2 DEF SumFunction
  <2>2. loads' = loads \/ SumFunction(loads') <= SumFunction(loads)
    BY <1>1, StepDecides
  <2> QED BY <2>1, <2>2
<1>2. GreedyInv /\ [Next]_vars =>
          [phase # "observe" => SumFunction(loads') <= SumFunction(loads)]_vars
  BY <1>1
<1> QED BY <1>2, InvAlways, PTL DEF Spec, LoadNeverGrows
=============================================================================
