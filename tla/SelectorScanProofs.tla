-------------------------- MODULE SelectorScanProofs --------------------------
(***************************************************************************)
(* Proof that the pass of update_selector_layer computes what              *)
(* ExpertSelector!SelectPosition says (ScanMeetsItsRule).  The invariant   *)
(* says of each expert what the pass has found among the positions it has  *)
(* looked at: the candidates are exactly those, in ascending order, and    *)
(* the selector is what the rule would choose among them.                  *)
(***************************************************************************)
EXTENDS SelectorScan, FiniteLemmas, SequenceTheorems

LEMMA Geometry ==
    /\ Deploy \in Nat \ {0}
    /\ Position = 0 .. Deploy - 1
    /\ IsFiniteSet(Position) /\ Position \subseteq Nat
    /\ NoExpert \notin Expert /\ Rank \subseteq Nat
<1>1. Deploy \in Nat \ {0}
  BY GeometryAssumption DEF Deploy
<1>2. NumLayers * Deploy - 1 = Deploy - 1
  BY <1>1, OneLayerAssumption
<1>3. Position = 0 .. Deploy - 1
  BY <1>2 DEF Position
<1>4. IsFiniteSet(Position)
  BY <1>1, <1>3, FS_Interval
<1>5. NoExpert \notin Expert
  BY DEF NoExpert, Expert
<1> QED BY <1>1, <1>3, <1>4, <1>5 DEF Rank

-----------------------------------------------------------------------------
(* A sequence that lists a set in ascending order.                         *)
Enumerates(s, S) ==
    /\ s \in Seq(Nat) /\ Len(s) = Cardinality(S)
    /\ \A i \in 1 .. Len(s) : s[i] \in S /\ Cardinality(Below(S, s[i])) = i - 1

LEMMA EnumeratesNone == Enumerates(<<>>, {})
BY EmptySeq, FS_EmptySet DEF Enumerates

LEMMA EnumeratesNext ==
    ASSUME NEW S \in SUBSET Nat, IsFiniteSet(S), NEW s, Enumerates(s, S),
           NEW p \in Nat, \A q \in S : q < p
    PROVE  Enumerates(Append(s, p), S \cup {p})
<1> DEFINE t == Append(s, p)
           T == S \cup {p}
<1>1. s \in Seq(Nat) /\ Len(s) = Cardinality(S) /\ Len(s) \in Nat
  BY LenProperties DEF Enumerates
<1>2. /\ t \in Seq(Nat) /\ Len(t) = Len(s) + 1 /\ t[Len(s) + 1] = p
      /\ \A i \in 1 .. Len(s) : t[i] = s[i]
  BY <1>1, AppendProperties
<1>3. p \notin S /\ Cardinality(T) = Cardinality(S) + 1
  <2>1. p \notin S
    BY p \in Int
  <2> QED BY <2>1, FS_AddElement
<1>4. ASSUME NEW i \in 1 .. Len(t) PROVE t[i] \in T /\ Cardinality(Below(T, t[i])) = i - 1
  <2>1. CASE i = Len(s) + 1
    <3>1. \A q \in T : q < p <=> q \in S
      BY <1>3
    <3>2. Below(T, p) = S
      BY <3>1 DEF Below
    <3>3. t[i] = p /\ i - 1 = Len(s)
      BY <1>1, <1>2, <2>1
    <3> QED BY <1>1, <3>2, <3>3
  <2>2. CASE i # Len(s) + 1
    <3>1. i \in 1 .. Len(s)
      BY <1>1, <1>2, <2>2
    <3>2. t[i] = s[i] /\ s[i] \in S /\ Cardinality(Below(S, s[i])) = i - 1
      BY <1>2, <3>1 DEF Enumerates
    <3>3. ~(p < s[i])
      <4>1. PICK q \in S : q = s[i]
        BY <3>2
      <4>2. q \in Int /\ p \in Int /\ q < p
        OBVIOUS
      <4> QED BY <4>1, <4>2
    <3>4. Below(T, s[i]) = Below(S, s[i])
      BY <3>3 DEF Below
    <3> QED BY <3>2, <3>4
  <2> QED BY <2>1, <2>2
<1> HIDE DEF t, T
<1>5. Enumerates(t, T)
  BY <1>1, <1>2, <1>3, <1>4 DEF Enumerates
<1> QED BY <1>5 DEF t, T

LEMMA NthIs ==
    ASSUME NEW S \in SUBSET Nat, IsFiniteSet(S), NEW k, NEW p \in S, Cardinality(Below(S, p)) = k
    PROVE  Nth(S, k) = p
<1> DEFINE q == Nth(S, k)
<1>1. \A x \in S : {y \in S : y < x} = Below(S, x)
  BY DEF Below
<1>2. q \in S /\ Cardinality(Below(S, q)) = k
  BY <1>1 DEF Nth
<1> QED BY <1>2, NoPlaceTwice

(* candidates[rank_ % candidates.size()] is the share of the rank.         *)
LEMMA PickIsShare ==
    ASSUME NEW S \in SUBSET Nat, IsFiniteSet(S), S # {}, NEW s, Enumerates(s, S), rank \in Nat
    PROVE  Pick(s) = Share(S, rank) /\ Pick(s) \in S
<1>1. Len(s) = Cardinality(S) /\ Len(s) \in Nat \ {0}
  BY FS_CardinalityType, FS_EmptySet DEF Enumerates
<1>2. rank % Len(s) \in 0 .. Len(s) - 1
  BY <1>1
<1>3. PICK k \in 0 .. Len(s) - 1 : k = rank % Len(s)
  BY <1>2
<1>4. k + 1 \in 1 .. Len(s) /\ (k + 1) - 1 = k
  BY <1>1
<1>5. s[k + 1] \in S /\ Cardinality(Below(S, s[k + 1])) = k
  BY <1>4 DEF Enumerates
<1>6. Nth(S, k) = s[k + 1]
  <2>1. PICK p \in S : p = s[k + 1]
    BY <1>5
  <2>2. Cardinality(Below(S, p)) = k
    BY <1>5, <2>1
  <2> QED BY <2>1, <2>2, NthIs
<1> QED BY <1>1, <1>3, <1>5, <1>6 DEF Pick, Share

LEMMA NthOfLeast ==
    ASSUME NEW S \in SUBSET Nat, IsFiniteSet(S), NEW p \in S, \A q \in S : p <= q
    PROVE  Nth(S, 0) = p
<1>1. \A q \in S : ~(q < p)
  <2>1. p \in Int /\ \A q \in S : q \in Int
    OBVIOUS
  <2> QED BY <2>1
<1>2. Below(S, p) = {}
  BY <1>1 DEF Below
<1> QED BY <1>2, FS_EmptySet, NthIs

-----------------------------------------------------------------------------
(* What the pass has seen of an expert: its replicas before pos, those on  *)
(* the rank itself and those on its host.                                  *)
Seen(e)   == {q \in Position : mapping[q] = e /\ q < pos}
OnRank(e) == {q \in Seen(e) : Owner(q) = rank}
OnHost(e) == {q \in Seen(e) : HostOf(Owner(q)) = HostOf(rank)}

ScanTypes ==
    /\ mapping \in [Position -> Expert \cup {NoExpert}]
    /\ rank \in Rank /\ pos \in 0 .. Deploy
    /\ finish \in [Expert -> 0 .. 2] /\ selector \in [Expert -> Nat]
    /\ near \in [Expert -> Seq(Nat)] /\ far \in [Expert -> Seq(Nat)]

TookOnly(e) == Seen(e) # {} => selector[e] \in Seen(e)

TookLocal(e) ==
    OnRank(e) # {} =>
        /\ finish[e] = 2 /\ selector[e] \in OnRank(e)
        /\ \A q \in OnRank(e) : selector[e] <= q

TookNear(e) ==
    OnRank(e) = {} =>
        /\ Enumerates(near[e], OnHost(e))
        /\ OnHost(e) # {} => finish[e] = 1 /\ selector[e] = Share(OnHost(e), rank)

TookFar(e) ==
    OnHost(e) = {} =>
        /\ finish[e] = 0 /\ Enumerates(far[e], Seen(e))
        /\ Seen(e) # {} => selector[e] = Share(Seen(e), rank)

Took(e) ==
    /\ Count[e] = 1 => TookOnly(e)
    /\ Count[e] # 1 => TookLocal(e) /\ TookNear(e) /\ TookFar(e)

ScanInv == ScanTypes /\ \A e \in Expert : Took(e)

LEMMA SeenTypes ==
    ASSUME ScanTypes, NEW e
    PROVE  /\ Seen(e) \in SUBSET Nat /\ IsFiniteSet(Seen(e)) /\ \A q \in Seen(e) : q < pos
           /\ OnHost(e) \in SUBSET Seen(e) /\ IsFiniteSet(OnHost(e))
           /\ OnRank(e) \in SUBSET OnHost(e) /\ IsFiniteSet(OnRank(e))
<1>1. Seen(e) \in SUBSET Position /\ \A q \in Seen(e) : q < pos
  BY DEF Seen
<1>2. OnHost(e) \in SUBSET Seen(e) /\ OnRank(e) \in SUBSET OnHost(e)
  BY DEF OnHost, OnRank
<1> QED BY <1>1, <1>2, Geometry, FS_Subset

LEMMA HereType ==
    ASSUME ScanTypes, Advance
    PROVE  pos \in Position /\ pos \in Nat /\ Here \in Expert \cup {NoExpert}
<1>1. pos \in Position /\ pos \in Nat
  BY Geometry DEF ScanTypes, Advance
<1> QED BY <1>1 DEF ScanTypes, Here

LEMMA SeenNext ==
    ASSUME ScanTypes, Advance, NEW e
    PROVE  /\ Seen(e)' = IF e = Here THEN Seen(e) \cup {pos} ELSE Seen(e)
           /\ OnRank(e)' = IF e = Here /\ Owner(pos) = rank
                           THEN OnRank(e) \cup {pos} ELSE OnRank(e)
           /\ OnHost(e)' = IF e = Here /\ HostOf(Owner(pos)) = HostOf(rank)
                           THEN OnHost(e) \cup {pos} ELSE OnHost(e)
           /\ Count' = Count
<1>1. pos \in Position /\ pos \in Nat /\ pos' = pos + 1 /\ mapping' = mapping /\ rank' = rank
  BY HereType DEF Advance
<1>2. \A q \in Position : q < pos' <=> q < pos \/ q = pos
  <2>1. \A q \in Position : q \in Int
    BY Geometry
  <2> QED BY <1>1, <2>1
<1>3. Seen(e)' = {q \in Position : mapping[q] = e /\ (q < pos \/ q = pos)}
  BY <1>1, <1>2 DEF Seen
<1>4. Seen(e)' = IF e = Here THEN Seen(e) \cup {pos} ELSE Seen(e)
  BY <1>1, <1>3 DEF Seen, Here
<1> QED BY <1>1, <1>4 DEF OnRank, OnHost, Count, Replicas

(* An expert whose row a step leaves alone.                                *)
LEMMA OthersTook ==
    ASSUME ScanInv, Advance, NEW e \in Expert, e # Here,
           finish'[e] = finish[e], near'[e] = near[e], far'[e] = far[e], selector'[e] = selector[e]
    PROVE  Took(e)'
<1>1. /\ Seen(e)' = Seen(e) /\ OnRank(e)' = OnRank(e) /\ OnHost(e)' = OnHost(e)
      /\ Count' = Count /\ rank' = rank
  BY SeenNext DEF ScanInv, Advance
<1> QED BY <1>1 DEF ScanInv, Took, TookOnly, TookLocal, TookNear, TookFar

LEMMA PassTook ==
    ASSUME ScanInv, Pass
    PROVE  ScanInv'
<1>1. ScanTypes /\ Advance /\ UNCHANGED <<finish, near, far, selector, mapping, rank>>
  BY DEF ScanInv, Pass, Advance
<1>2. ScanTypes'
  BY <1>1, Geometry DEF ScanTypes, Advance
<1>3. ASSUME NEW e \in Expert, e # Here PROVE Took(e)'
  BY <1>1, <1>3, OthersTook
<1>4. ASSUME NEW e \in Expert, e = Here PROVE Took(e)'
  <2>1. Count[e] # 1 /\ finish[e] = 2
    BY <1>4, Geometry DEF Pass
  <2>2. OnRank(e) # {}
    BY <2>1 DEF ScanInv, Took, TookNear, TookFar
  <2>3. selector[e] \in OnRank(e) /\ \A q \in OnRank(e) : selector[e] <= q
    BY <2>1, <2>2 DEF ScanInv, Took, TookLocal
  <2>4. Count' = Count /\ OnRank(e) \subseteq OnRank(e)' /\ OnRank(e)' \subseteq OnRank(e) \cup {pos}
        /\ OnHost(e) \subseteq OnHost(e)'
    BY <1>1, SeenNext
  <2>5. selector[e] < pos /\ selector[e] \in Nat /\ pos \in Nat
    BY <1>1, <2>3, SeenTypes, HereType
  <2>6. selector[e] <= pos
    BY <2>5
  <2>7. TookLocal(e)'
    BY <1>1, <2>1, <2>3, <2>4, <2>6 DEF TookLocal
  <2>8. OnRank(e)' # {} /\ OnHost(e)' # {}
    BY <1>1, <2>2, <2>4, SeenTypes
  <2> QED BY <2>1, <2>4, <2>7, <2>8 DEF Took, TookNear, TookFar
<1> QED BY <1>2, <1>3, <1>4 DEF ScanInv
LEMMA TakeOnlyTook ==
    ASSUME ScanInv, TakeOnly
    PROVE  ScanInv'
<1>1. /\ ScanTypes /\ Advance /\ UNCHANGED <<near, far, mapping, rank>>
      /\ Here \in Expert /\ Count[Here] = 1 /\ pos \in Nat
      /\ selector' = [selector EXCEPT ![Here] = pos] /\ finish' = [finish EXCEPT ![Here] = 1]
  BY HereType DEF ScanInv, TakeOnly, Advance
<1>2. ScanTypes'
  BY <1>1, Geometry DEF ScanTypes, Advance
<1>3. ASSUME NEW e \in Expert, e # Here PROVE Took(e)'
  <2>1. finish'[e] = finish[e] /\ selector'[e] = selector[e]
    BY <1>1, <1>3 DEF ScanTypes
  <2> QED BY <1>1, <1>3, <2>1, OthersTook
<1>4. ASSUME NEW e \in Expert, e = Here PROVE Took(e)'
  <2>1. Count' = Count /\ pos \in Seen(e)'
    BY <1>1, <1>4, SeenNext
  <2>2. selector'[e] = pos
    BY <1>1, <1>4 DEF ScanTypes
  <2> QED BY <1>1, <1>4, <2>1, <2>2 DEF Took, TookOnly
<1> QED BY <1>2, <1>3, <1>4 DEF ScanInv

(* What the pass goes on looking for, the rank has not.                    *)
LEMMA Seeking ==
    ASSUME ScanInv, Seek
    PROVE  /\ ScanTypes /\ Advance /\ mapping' = mapping /\ rank' = rank
           /\ Here \in Expert /\ Count[Here] # 1 /\ Count' = Count
           /\ pos \in Nat /\ rank \in Nat
           /\ OnRank(Here) = {} /\ TookNear(Here) /\ TookFar(Here)
<1>1. /\ ScanTypes /\ Advance /\ mapping' = mapping /\ rank' = rank
      /\ Here \in Expert /\ Count[Here] # 1 /\ finish[Here] # 2 /\ pos \in Nat
  BY HereType DEF ScanInv, Seek, Advance
<1>2. Took(Here)
  BY <1>1 DEF ScanInv
<1>3. OnRank(Here) = {} /\ TookNear(Here) /\ TookFar(Here)
  BY <1>1, <1>2 DEF Took, TookLocal
<1> QED BY <1>1, <1>3, SeenNext, Geometry DEF ScanTypes

LEMMA TakeLocalTook ==
    ASSUME ScanInv, TakeLocal
    PROVE  ScanInv'
<1>1. /\ ScanTypes /\ Advance /\ UNCHANGED <<near, far, mapping, rank>> /\ Count' = Count
      /\ Here \in Expert /\ Count[Here] # 1 /\ OnRank(Here) = {} /\ pos \in Nat
      /\ Owner(pos) = rank
      /\ selector' = [selector EXCEPT ![Here] = pos] /\ finish' = [finish EXCEPT ![Here] = 2]
  BY Seeking DEF TakeLocal
<1>2. ScanTypes'
  BY <1>1, Geometry DEF ScanTypes, Advance
<1>3. ASSUME NEW e \in Expert, e # Here PROVE Took(e)'
  <2>1. finish'[e] = finish[e] /\ selector'[e] = selector[e]
    BY <1>1, <1>3 DEF ScanTypes
  <2> QED BY <1>1, <1>3, <2>1, OthersTook
<1>4. ASSUME NEW e \in Expert, e = Here PROVE Took(e)'
  <2>1. OnRank(e)' = {pos}
    BY <1>1, <1>4, SeenNext
  <2>2. OnHost(e)' # {}
    BY <2>1 DEF OnRank, OnHost
  <2>3. selector'[e] = pos /\ finish'[e] = 2
    BY <1>1, <1>4 DEF ScanTypes
  <2>4. TookLocal(e)'
    <3>1. \A q \in OnRank(e)' : pos <= q
      BY <1>1, <2>1
    <3> QED BY <2>1, <2>3, <3>1 DEF TookLocal
  <2> QED BY <1>1, <1>4, <2>1, <2>2, <2>4 DEF Took, TookNear, TookFar
<1> QED BY <1>2, <1>3, <1>4 DEF ScanInv

(* A candidate joins those that are listed already.                        *)
LEMMA CandidateJoins ==
    ASSUME NEW S \in SUBSET Nat, IsFiniteSet(S), NEW p \in Nat, \A q \in S : q < p,
           NEW s, Enumerates(s, S), rank \in Nat
    PROVE  /\ Enumerates(Append(s, p), S \cup {p})
           /\ Append(s, p) \in Seq(Nat)
           /\ Pick(Append(s, p)) = Share(S \cup {p}, rank)
           /\ Pick(Append(s, p)) \in Nat
<1>1. PICK T \in SUBSET Nat : T = S \cup {p} /\ T # {}
  OBVIOUS
<1>2. PICK t : t = Append(s, p) /\ Enumerates(t, T)
  BY <1>1, EnumeratesNext
<1>3. IsFiniteSet(T) /\ t \in Seq(Nat)
  BY <1>1, <1>2, FS_AddElement DEF Enumerates
<1>4. Pick(t) = Share(T, rank) /\ Pick(t) \in T
  BY <1>1, <1>2, <1>3, PickIsShare
<1> QED BY <1>1, <1>2, <1>3, <1>4

LEMMA JoinsNear ==
    ASSUME ScanTypes, Advance, NEW e, NEW s, Enumerates(s, OnHost(e)), rank \in Nat
    PROVE  /\ Enumerates(Append(s, pos), OnHost(e) \cup {pos})
           /\ Append(s, pos) \in Seq(Nat)
           /\ Pick(Append(s, pos)) = Share(OnHost(e) \cup {pos}, rank)
           /\ Pick(Append(s, pos)) \in Nat
<1>1. PICK S \in SUBSET Nat : S = OnHost(e) /\ IsFiniteSet(S) /\ \A q \in S : q < pos
  <2>1. OnHost(e) \subseteq Nat /\ IsFiniteSet(OnHost(e)) /\ \A q \in OnHost(e) : q < pos
    BY SeenTypes
  <2> QED BY <2>1
<1> QED BY <1>1, HereType, CandidateJoins

LEMMA JoinsFar ==
    ASSUME ScanTypes, Advance, NEW e, NEW s, Enumerates(s, Seen(e)), rank \in Nat
    PROVE  /\ Enumerates(Append(s, pos), Seen(e) \cup {pos})
           /\ Append(s, pos) \in Seq(Nat)
           /\ Pick(Append(s, pos)) = Share(Seen(e) \cup {pos}, rank)
           /\ Pick(Append(s, pos)) \in Nat
<1>1. PICK S \in SUBSET Nat : S = Seen(e) /\ IsFiniteSet(S) /\ \A q \in S : q < pos
  BY SeenTypes
<1> QED BY <1>1, HereType, CandidateJoins

LEMMA TakeNearTook ==
    ASSUME ScanInv, TakeNear
    PROVE  ScanInv'
<1> DEFINE grown == Append(near[Here], pos)
<1>1. /\ ScanTypes /\ Advance /\ UNCHANGED <<far, mapping, rank>> /\ Count' = Count
      /\ Here \in Expert /\ Count[Here] # 1 /\ OnRank(Here) = {} /\ pos \in Nat /\ rank \in Nat
      /\ TookNear(Here)
  BY Seeking DEF TakeNear
<1>2. /\ Owner(pos) # rank /\ HostOf(Owner(pos)) = HostOf(rank)
      /\ near' = [near EXCEPT ![Here] = grown]
      /\ selector' = [selector EXCEPT ![Here] = Pick(near'[Here])]
      /\ finish' = [finish EXCEPT ![Here] = 1]
  BY DEF TakeNear
<1>3. near'[Here] = grown /\ Enumerates(near[Here], OnHost(Here))
  BY <1>1, <1>2 DEF ScanTypes, TookNear
<1>4. /\ Enumerates(grown, OnHost(Here) \cup {pos}) /\ grown \in Seq(Nat)
      /\ Pick(grown) = Share(OnHost(Here) \cup {pos}, rank) /\ Pick(grown) \in Nat
  BY <1>1, <1>3, JoinsNear
<1> HIDE DEF grown
<1>5. selector' = [selector EXCEPT ![Here] = Pick(grown)]
  BY <1>2, <1>3
<1>6. ScanTypes'
  BY <1>1, <1>2, <1>4, <1>5, Geometry DEF ScanTypes, Advance
<1>7. ASSUME NEW e \in Expert, e # Here PROVE Took(e)'
  <2>1. finish'[e] = finish[e] /\ selector'[e] = selector[e] /\ near'[e] = near[e]
    BY <1>1, <1>2, <1>5, <1>7 DEF ScanTypes
  <2> QED BY <1>1, <1>7, <2>1, OthersTook
<1>8. ASSUME NEW e \in Expert, e = Here PROVE Took(e)'
  <2>1. OnRank(e)' = {} /\ OnHost(e)' = OnHost(e) \cup {pos}
    BY <1>1, <1>2, <1>8, SeenNext
  <2>2. selector'[e] = Pick(grown) /\ finish'[e] = 1 /\ near'[e] = grown
    BY <1>1, <1>2, <1>5, <1>8 DEF ScanTypes
  <2>3. TookNear(e)'
    BY <1>1, <1>4, <1>8, <2>1, <2>2 DEF TookNear
  <2> QED BY <1>1, <1>8, <2>1, <2>3 DEF Took, TookLocal, TookFar
<1> QED BY <1>6, <1>7, <1>8 DEF ScanInv

LEMMA TakeFarTook ==
    ASSUME ScanInv, TakeFar
    PROVE  ScanInv'
<1> DEFINE grown == Append(far[Here], pos)
<1>1. /\ ScanTypes /\ Advance /\ UNCHANGED <<mapping, rank>> /\ Count' = Count
      /\ Here \in Expert /\ Count[Here] # 1 /\ OnRank(Here) = {} /\ pos \in Nat /\ rank \in Nat
      /\ TookNear(Here) /\ TookFar(Here)
  BY Seeking DEF TakeFar
<1>2. /\ HostOf(Owner(pos)) # HostOf(rank) /\ UNCHANGED <<finish, near>>
      /\ IF finish[Here] < 1
         THEN /\ far'      = [far EXCEPT ![Here] = Append(@, pos)]
              /\ selector' = [selector EXCEPT ![Here] = Pick(far'[Here])]
         ELSE UNCHANGED <<far, selector>>
  BY DEF TakeFar
<1>3. Owner(pos) # rank
  BY <1>2
<1>4. CASE OnHost(Here) = {}
  <2>1. finish[Here] = 0 /\ Enumerates(far[Here], Seen(Here))
    BY <1>1, <1>4 DEF TookFar
  <2>2. /\ far' = [far EXCEPT ![Here] = grown]
        /\ selector' = [selector EXCEPT ![Here] = Pick(far'[Here])]
    BY <1>2, <2>1
  <2>3. far'[Here] = grown
    BY <1>1, <2>2 DEF ScanTypes
  <2>4. /\ Enumerates(grown, Seen(Here) \cup {pos}) /\ grown \in Seq(Nat)
        /\ Pick(grown) = Share(Seen(Here) \cup {pos}, rank) /\ Pick(grown) \in Nat
    BY <1>1, <2>1, JoinsFar
  <2> HIDE DEF grown
  <2>5. selector' = [selector EXCEPT ![Here] = Pick(grown)]
    BY <2>2, <2>3
  <2>6. ScanTypes'
    BY <1>1, <1>2, <2>2, <2>4, <2>5, Geometry DEF ScanTypes, Advance
  <2>7. ASSUME NEW e \in Expert, e # Here PROVE Took(e)'
    <3>1. far'[e] = far[e] /\ selector'[e] = selector[e]
      BY <1>1, <2>2, <2>5, <2>7 DEF ScanTypes
    <3> QED BY <1>1, <1>2, <2>7, <3>1, OthersTook
  <2>8. ASSUME NEW e \in Expert, e = Here PROVE Took(e)'
    <3>1. OnRank(e)' = {} /\ OnHost(e)' = {} /\ Seen(e)' = Seen(e) \cup {pos}
      BY <1>1, <1>2, <1>3, <1>4, <2>8, SeenNext
    <3>2. selector'[e] = Pick(grown) /\ far'[e] = grown /\ finish'[e] = 0 /\ near'[e] = near[e]
      BY <1>1, <1>2, <2>1, <2>2, <2>5, <2>8 DEF ScanTypes
    <3>3. TookFar(e)'
      BY <1>1, <2>4, <2>8, <3>1, <3>2 DEF TookFar
    <3>4. TookNear(e)'
      BY <1>1, <1>4, <2>8, <3>1, <3>2 DEF TookNear
    <3> QED BY <1>1, <2>8, <3>1, <3>3, <3>4 DEF Took, TookLocal
  <2> QED BY <2>6, <2>7, <2>8 DEF ScanInv
<1>5. CASE OnHost(Here) # {}
  <2>1. finish[Here] = 1
    BY <1>1, <1>5 DEF TookNear
  <2>2. UNCHANGED <<far, selector, finish, near>>
    BY <1>2, <2>1
  <2>3. ScanTypes'
    BY <1>1, <2>2, Geometry DEF ScanTypes, Advance
  <2>4. ASSUME NEW e \in Expert, e # Here PROVE Took(e)'
    BY <1>1, <2>2, <2>4, OthersTook
  <2>5. ASSUME NEW e \in Expert, e = Here PROVE Took(e)'
    <3>1. OnRank(e)' = {} /\ OnHost(e)' = OnHost(e)
      BY <1>1, <1>2, <1>3, <2>5, SeenNext
    <3>2. TookNear(e)'
      BY <1>1, <2>2, <2>5, <3>1 DEF TookNear
    <3> QED BY <1>1, <1>5, <2>5, <3>1, <3>2 DEF Took, TookLocal, TookFar
  <2> QED BY <2>3, <2>4, <2>5 DEF ScanInv
<1> QED BY <1>4, <1>5

(* At the end the pass has seen every replica.                             *)
LEMMA InvSelects == ScanInv => ScanSelects
<1> SUFFICES ASSUME ScanInv, pos = Deploy, NEW e \in Expert, Replicas(mapping, e) # {}
             PROVE  selector[e] = SelectPosition(rank, mapping, Count, e, selector[e])
  BY DEF ScanSelects
<1> DEFINE all   == Replicas(mapping, e)
           local == {p \in all : Owner(p) = rank}
           host  == {p \in all : HostOf(Owner(p)) = HostOf(rank)}
<1>1. ScanTypes /\ Took(e)
  BY DEF ScanInv
<1>2. Seen(e) = all
  <2>1. \A q \in Position : q < pos
    BY Geometry
  <2> QED BY <2>1 DEF Seen, Replicas
<1>3. OnRank(e) = local /\ OnHost(e) = host
  BY <1>2 DEF OnRank, OnHost
<1>4. all # {} /\ all \in SUBSET Nat /\ IsFiniteSet(all)
  BY <1>1, <1>2, SeenTypes
<1>5. CASE Count[e] = 1
  <2>1. Cardinality(all) = 1
    BY <1>5 DEF Count
  <2>2. selector[e] \in all
    BY <1>1, <1>2, <1>4, <1>5 DEF Took, TookOnly
  <2>3. PICK p : all = {p}
    BY <1>4, <2>1, FS_Singleton
  <2>4. p \in Nat /\ p <= p
    BY <1>4, <2>3
  <2>5. (CHOOSE q \in all : \A x \in all : x <= q) = p
    BY <2>3, <2>4
  <2> HIDE DEF all
  <2> QED BY <1>4, <1>5, <2>2, <2>3, <2>5 DEF SelectPosition, all
<1>6. CASE Count[e] # 1 /\ local # {}
  <2>1. selector[e] \in local /\ \A q \in local : selector[e] <= q
    BY <1>1, <1>3, <1>6 DEF Took, TookLocal
  <2>2. local \in SUBSET Nat /\ IsFiniteSet(local)
    BY <1>1, <1>3, <1>4, SeenTypes
  <2>3. Nth(local, 0) = selector[e]
    <3> HIDE DEF local
    <3> QED BY <2>1, <2>2, NthOfLeast
  <2> QED BY <1>4, <1>6, <2>3 DEF SelectPosition
<1>7. CASE Count[e] # 1 /\ local = {} /\ host # {}
  <2>1. selector[e] = Share(host, rank)
    BY <1>1, <1>3, <1>7 DEF Took, TookNear
  <2> QED BY <1>4, <1>7, <2>1 DEF SelectPosition
<1>8. CASE Count[e] # 1 /\ local = {} /\ host = {}
  <2>1. selector[e] = Share(all, rank)
    BY <1>1, <1>2, <1>3, <1>4, <1>8 DEF Took, TookFar
  <2> QED BY <1>4, <1>8, <2>1 DEF SelectPosition
<1> QED BY <1>5, <1>6, <1>7, <1>8

(* update_selector_layer computes what SelectPosition says in closed form: *)
(* for any number of ranks, hosts, experts and positions, and wherever the *)
(* replicas lie, the pass ends with the only replica, else the first on    *)
(* the rank, else the rank's share of those on its host, else of all.      *)
THEOREM ScanMeetsItsRule == Spec => []ScanSelects
<1>1. Init => ScanInv
  <2> SUFFICES ASSUME Init PROVE ScanInv
    OBVIOUS
  <2>1. ScanTypes
    BY Geometry, EmptySeq DEF Init, ScanTypes
  <2>2. ASSUME NEW e \in Expert PROVE Took(e)
    <3>1. \A q \in Position : ~(q < pos)
      BY Geometry DEF Init
    <3>2. Seen(e) = {} /\ OnRank(e) = {} /\ OnHost(e) = {}
      BY <3>1 DEF Seen, OnRank, OnHost
    <3>3. near[e] = <<>> /\ far[e] = <<>> /\ finish[e] = 0
      BY DEF Init
    <3> QED BY <3>2, <3>3, EnumeratesNone DEF Took, TookOnly, TookLocal, TookNear, TookFar
  <2> QED BY <2>1, <2>2 DEF ScanInv
<1>2. ScanInv /\ [Next]_vars => ScanInv'
  <2> SUFFICES ASSUME ScanInv, [Next]_vars PROVE ScanInv'
    OBVIOUS
  <2>1. CASE UNCHANGED vars
    <3>1. \A e : Seen(e)' = Seen(e) /\ OnRank(e)' = OnRank(e) /\ OnHost(e)' = OnHost(e)
      BY <2>1 DEF vars, Seen, OnRank, OnHost
    <3>2. Count' = Count
      BY <2>1 DEF vars, Count, Replicas
    <3>3. ScanTypes'
      BY <2>1 DEF vars, ScanTypes, ScanInv
    <3>4. ASSUME NEW e \in Expert PROVE Took(e)'
      BY <2>1, <3>1, <3>2 DEF vars, ScanInv, Took, TookOnly, TookLocal, TookNear, TookFar
    <3> QED BY <3>3, <3>4 DEF ScanInv
  <2> QED BY <2>1, PassTook, TakeOnlyTook, TakeLocalTook, TakeNearTook, TakeFarTook DEF Next
<1>3. ScanInv => ScanSelects
  BY InvSelects
<1> QED BY <1>1, <1>2, <1>3, PTL DEF Spec
=============================================================================
