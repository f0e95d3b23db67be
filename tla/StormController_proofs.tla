----------------------- MODULE StormController_proofs -----------------------
(***************************************************************************)
(* Proofs about the storm controller, for every limit and every clock: the *)
(* rate it guarantees, and that it implements module RateLimit.            *)
(***************************************************************************)
EXTENDS StormController, FiniteSetTheorems, SequenceTheorems, TLAPS

\* The history is in order and not from the future.
Ordered ==
    /\ \A i \in 1..Len(flooded) : flooded[i] <= now
    /\ \A i, j \in 1..Len(flooded) : i <= j => flooded[i] <= flooded[j]

\* The timestamps kept are the last ones of the history.
Kept ==
    /\ Len(broadcasts) <= Len(flooded)
    /\ Len(broadcasts) < max => Len(broadcasts) = Len(flooded)
    /\ \A k \in 1..Len(broadcasts) :
          broadcasts[k] = flooded[Len(flooded) - Len(broadcasts) + k]

Inv == StormTypeOK /\ Ordered /\ Kept /\ WithinLimit

-----------------------------------------------------------------------------
\* What one call that floods does to the invariant, whichever branch it takes.
LEMMA FloodStep ==
  ASSUME Inv, flood,
         broadcasts' \in Seq(0..MaxTime), Len(broadcasts') <= max,
         Len(broadcasts') < max => Len(broadcasts') = Len(flooded) + 1,
         Len(broadcasts') <= Len(broadcasts) + 1,
         \A k \in 1..Len(broadcasts') :
            broadcasts'[k] = bcasts[Len(broadcasts) + 1 - Len(broadcasts') + k],
         Len(flooded) >= max => now - flooded[Len(flooded) - max + 1] > Second
  PROVE  Inv'
<1> DEFINE n == Len(flooded)
           m == Len(broadcasts)
           k == Len(broadcasts')
<1>1. flooded' = Append(flooded, now) /\ now' = now /\ answer' = "flooded"
  BY DEF flood
<1>2. /\ n \in Nat /\ m \in Nat /\ k \in Nat /\ now \in Int /\ max \in Int
      /\ \A i \in 1..n : flooded[i] \in Int
  <2>1. \A i \in 1..n : flooded[i] \in 0..MaxTime
    BY ElementOfSeq DEF Inv, StormTypeOK
  <2>2. \A i \in 1..n : flooded[i] \in Int
    BY <2>1, TimesNat
  <2>3. n \in Nat /\ m \in Nat /\ k \in Nat
    BY LenProperties DEF Inv, StormTypeOK
  <2>4. now \in Int /\ max \in Int
    BY MaxPos, TimesNat DEF Inv, StormTypeOK
  <2> QED BY <2>2, <2>3, <2>4
<1>3. /\ Len(flooded') = n + 1
      /\ flooded'[n + 1] = now
      /\ \A i \in 1..n : flooded'[i] = flooded[i]
      /\ flooded' \in Seq(0..MaxTime)
  BY <1>1 DEF Inv, StormTypeOK
<1>4. StormTypeOK'
  BY <1>1, <1>3 DEF Inv, StormTypeOK
<1> HIDE DEF n, m, k
<1>5. Ordered'
  <2>1. /\ \A i \in 1..n : flooded[i] <= now
        /\ \A i, j \in 1..n : i <= j => flooded[i] <= flooded[j]
    BY DEF Inv, Ordered, n
  <2>2. \A i \in 1..(n + 1) : flooded'[i] <= now'
    <3> TAKE i \in 1..(n + 1)
    <3>1. CASE i = n + 1
      BY <1>1, <1>2, <1>3, <3>1
    <3>2. CASE i \in 1..n
      BY <1>1, <1>3, <2>1, <3>2
    <3> QED BY <1>2, <3>1, <3>2
  <2>3. \A i, j \in 1..(n + 1) : i <= j => flooded'[i] <= flooded'[j]
    <3> SUFFICES ASSUME NEW i \in 1..(n + 1), NEW j \in 1..(n + 1), i <= j
                 PROVE  flooded'[i] <= flooded'[j]
      OBVIOUS
    <3>1. CASE j = n + 1
      BY <1>1, <1>3, <2>2, <3>1
    <3>2. CASE j \in 1..n
      <4>1. i \in 1..n
        BY <1>2, <3>2
      <4> QED BY <1>3, <2>1, <3>2, <4>1
    <3> QED BY <1>2, <3>1, <3>2
  <2> QED BY <1>3, <2>2, <2>3 DEF Ordered
<1>6. Kept'
  <2>1. /\ bcasts[m + 1] = now
        /\ \A i \in 1..m : bcasts[i] = broadcasts[i]
    BY DEF bcasts, Inv, StormTypeOK, m
  <2>2. /\ m <= n
        /\ \A i \in 1..m : broadcasts[i] = flooded[n - m + i]
    BY DEF Inv, Kept, m, n
  <2>3. /\ k <= m + 1
        /\ k < max => k = n + 1
        /\ \A i \in 1..k : broadcasts'[i] = bcasts[m + 1 - k + i]
    BY DEF k, m, n
  <2>4. \A i \in 1..k : broadcasts'[i] = flooded'[n + 1 - k + i]
    <3> TAKE i \in 1..k
    <3>1. CASE i = k
      <4>1. m + 1 - k + i = m + 1 /\ n + 1 - k + i = n + 1
        BY <1>2, <3>1
      <4> QED BY <1>3, <2>1, <2>3, <4>1
    <3>2. CASE i # k
      <4>1. m + 1 - k + i \in 1..m
        BY <1>2, <2>3, <3>2
      <4>2. n - m + (m + 1 - k + i) = n + 1 - k + i /\ n + 1 - k + i \in 1..n
        BY <1>2, <2>2, <2>3, <4>1
      <4>3. broadcasts'[i] = broadcasts[m + 1 - k + i]
        BY <2>1, <2>3, <4>1
      <4>4. broadcasts[m + 1 - k + i] = flooded[n + 1 - k + i]
        BY <2>2, <4>1, <4>2
      <4> QED BY <1>3, <4>2, <4>3, <4>4
    <3> QED BY <3>1, <3>2
  <2>5. k <= n + 1
    BY <1>2, <2>2, <2>3
  <2>6. k < max => k = Len(flooded')
    BY <1>3, <2>3
  <2>7. \A i \in 1..k : broadcasts'[i] = flooded'[Len(flooded') - k + i]
    BY <1>2, <1>3, <2>4
  <2> QED BY <1>3, <2>5, <2>6, <2>7 DEF Kept, k
<1>7. WithinLimit'
  <2> SUFFICES ASSUME NEW i \in 1..(n + 1), i + max <= n + 1
               PROVE  flooded'[i + max] - flooded'[i] > Second
    BY <1>3 DEF WithinLimit
  <2>1. i \in 1..n
    BY <1>2, MaxPos
  <2>2. CASE i + max = n + 1
    <3>1. i = n - max + 1 /\ n >= max
      BY <1>2, <2>1, <2>2
    <3> QED BY <1>3, <2>1, <2>2, <3>1 DEF n
  <2>3. CASE i + max <= n
    <3>1. i + max \in 1..n
      BY <1>2, <2>1, <2>3, MaxPos
    <3>2. flooded[i + max] - flooded[i] > Second
      BY <2>1, <2>3 DEF Inv, WithinLimit, n
    <3> QED BY <1>3, <2>1, <3>1, <3>2
  <2> QED BY <1>2, <2>2, <2>3
<1> QED BY <1>4, <1>5, <1>6, <1>7 DEF Inv

\* One step of the controller keeps the invariant.
LEMMA InvStep == Inv /\ [StormNext]_stormVars => Inv'
<1> SUFFICES ASSUME Inv, [StormNext]_stormVars PROVE Inv'
  OBVIOUS
<1> USE MaxPos, TimesNat
<1>0. /\ bcasts \in Seq(0..MaxTime) /\ l = Len(broadcasts) + 1 /\ l = Len(bcasts)
      /\ Len(broadcasts) \in Nat /\ Len(flooded) \in Nat
  BY DEF Inv, StormTypeOK, bcasts, l
<1>1. CASE BroadcastFirst
  <2>1. broadcasts' = bcasts /\ flood /\ Len(flooded) < max
    BY <1>0, <1>1 DEF BroadcastFirst, Inv, Kept
  <2>2. /\ Len(broadcasts') = Len(broadcasts) + 1
        /\ Len(broadcasts) = Len(flooded)
    BY <1>0, <1>1, <2>1 DEF BroadcastFirst, Inv, Kept
  <2>3. \A k \in 1..Len(broadcasts') :
           broadcasts'[k] = bcasts[Len(broadcasts) + 1 - Len(broadcasts') + k]
    BY <1>0, <2>1, <2>2
  <2>4. Len(broadcasts') <= max /\ ~(Len(flooded) >= max)
    BY <1>0, <1>1, <2>1, <2>2 DEF BroadcastFirst
  <2> QED BY <1>0, <2>1, <2>2, <2>3, <2>4, FloodStep
<1>2. CASE BroadcastShrink
  <2>1. Len(broadcasts) = max /\ l = max + 1
    BY <1>0, <1>2 DEF BroadcastShrink, Inv, StormTypeOK
  <2>2. broadcasts' = SubSeq(bcasts, 2, max + 1) /\ flood
    BY <1>2, <2>1 DEF BroadcastShrink
  <2>3. /\ broadcasts' \in Seq(0..MaxTime)
        /\ Len(broadcasts') = max
        /\ \A k \in 1..max : broadcasts'[k] = bcasts[k + 1]
    <3>1. Len(bcasts) = max + 1 /\ max \in Nat
      BY <1>0, <2>1
    <3>2. Len(broadcasts') = max + 1 - 2 + 1
      BY <1>0, <2>2, <3>1
    <3>3. \A k \in 1..max : broadcasts'[k] = bcasts[k + 1]
      BY <1>0, <2>2, <3>1
    <3>4. broadcasts' \in Seq(0..MaxTime)
      BY <1>0, <2>2, <3>1, SMTT(30)
    <3> QED BY <3>1, <3>2, <3>3, <3>4
  <2>4. now - flooded[Len(flooded) - max + 1] > Second
    BY <1>0, <1>2, <2>1 DEF BroadcastShrink, Inv, StormTypeOK, Kept, bcasts
  <2> QED BY <1>0, <2>1, <2>2, <2>3, <2>4, FloodStep
<1>3. CASE BroadcastDeny
  BY <1>3 DEF BroadcastDeny, Inv, StormTypeOK, Ordered, Kept, WithinLimit
<1>4. CASE Tick
  BY <1>4 DEF Tick, Inv, StormTypeOK, Ordered, Kept, WithinLimit
<1>5. CASE UNCHANGED stormVars
  BY <1>5 DEF stormVars, Inv, StormTypeOK, Ordered, Kept, WithinLimit
<1> QED BY <1>1, <1>2, <1>3, <1>4, <1>5 DEF StormNext

\* The invariant of the storm controller.
LEMMA Invariant == StormSpec => []Inv
<1>1. newStormController => Inv
  BY MaxPos, TimesNat DEF newStormController, Inv, StormTypeOK, Ordered, Kept, WithinLimit
<1> QED BY <1>1, InvStep, PTL DEF StormSpec

\* No more than max broadcasts are flooded in any second.
THEOREM WithinLimitThm == StormSpec => []WithinLimit
<1>1. Inv => WithinLimit
  BY DEF Inv
<1> QED BY <1>1, Invariant, PTL

-----------------------------------------------------------------------------
(* Refinement *)

\* A set of positions that is closed towards the end of 1..n has at least m
\* members exactly when it holds the m-th position from the end.
LEMMA SuffixCount ==
  ASSUME NEW n \in Nat, NEW m \in Nat \ {0}, NEW S \in SUBSET (1..n),
         \A i, j \in 1..n : i \in S /\ i <= j => j \in S
  PROVE  /\ IsFiniteSet(S) /\ Cardinality(S) \in Nat
         /\ n < m => Cardinality(S) < m
         /\ n >= m => (Cardinality(S) >= m <=> n - m + 1 \in S)
<1>1. IsFiniteSet(1..n) /\ Cardinality(1..n) = n
  BY FS_Interval
<1>2. IsFiniteSet(S) /\ Cardinality(S) \in Nat /\ Cardinality(S) <= n
  BY <1>1, FS_Subset, FS_CardinalityType
<1>3. ASSUME n >= m, n - m + 1 \in S PROVE Cardinality(S) >= m
  <2>1. (n - m + 1)..n \subseteq S
    BY <1>3
  <2>2. IsFiniteSet((n - m + 1)..n) /\ Cardinality((n - m + 1)..n) = m
    <3>1. n - m + 1 \in Int /\ n \in Int /\ ~(n - m + 1 > n)
      OBVIOUS
    <3>2. Cardinality((n - m + 1)..n) = n - (n - m + 1) + 1
      BY <3>1, FS_Interval
    <3> QED BY <3>1, <3>2, FS_Interval
  <2> QED BY <1>2, <2>1, <2>2, FS_Subset
<1>4. ASSUME n >= m, n - m + 1 \notin S PROVE Cardinality(S) < m
  <2>1. S \subseteq (n - m + 2)..n
    BY <1>4
  <2>2. IsFiniteSet((n - m + 2)..n) /\ Cardinality((n - m + 2)..n) = m - 1
    <3>1. n - m + 2 \in Int /\ n \in Int /\ n - m + 2 <= n + 1
      BY <1>4
    <3>2. CASE m = 1
      <4>1. (n - m + 2)..n = {}
        BY <3>2
      <4> QED BY <3>2, <4>1, FS_EmptySet
    <3>3. CASE m > 1
      <4>1. ~(n - m + 2 > n)
        BY <3>3
      <4>2. Cardinality((n - m + 2)..n) = n - (n - m + 2) + 1
        BY <3>1, <4>1, FS_Interval
      <4> QED BY <3>1, <4>2, FS_Interval
    <3> QED BY <3>2, <3>3
  <2>3. Cardinality(S) <= m - 1
    BY <2>1, <2>2, FS_Subset
  <2> QED BY <1>2, <2>3
<1> QED BY <1>2, <1>3, <1>4

\* The instance counts as this module does.
LEMMA SameCount == ASSUME NEW S PROVE RL!Cardinality(S) = Cardinality(S)
  BY DEF RL!Cardinality, Cardinality

\* The oldest timestamp kept tells whether fewer than max floods are recent.
LEMMA OldestDecides ==
  ASSUME Inv
  PROVE  Cardinality(RL!Recent) < max <=> l <= max \/ now - bcasts[1] > Second
<1> DEFINE n == Len(flooded)
<1> USE MaxPos, TimesNat
<1>1. RL!Recent \in SUBSET (1..n) /\ n \in Nat
  BY DEF RL!Recent, Inv, StormTypeOK
<1>2. \A i, j \in 1..n : i \in RL!Recent /\ i <= j => j \in RL!Recent
  <2>1. \A i, j \in 1..n : i <= j => flooded[i] <= flooded[j]
    BY DEF Inv, Ordered
  <2>2. \A i \in 1..n : flooded[i] \in 0..MaxTime
    BY ElementOfSeq DEF Inv, StormTypeOK
  <2>3. now \in Int /\ Second \in Int
    BY DEF Inv, StormTypeOK
  <2> HIDE DEF n
  <2>4. ASSUME NEW i \in 1..n, NEW j \in 1..n, i <= j, now - flooded[i] <= Second
        PROVE  now - flooded[j] <= Second
    BY <2>1, <2>2, <2>3, <2>4
  <2> QED BY <2>4 DEF RL!Recent, n
<1>3. /\ Cardinality(RL!Recent) \in Nat
      /\ n < max => Cardinality(RL!Recent) < max
      /\ n >= max => (Cardinality(RL!Recent) >= max <=> n - max + 1 \in RL!Recent)
  BY <1>1, <1>2, SuffixCount
<1>4. l = Len(broadcasts) + 1 /\ Len(broadcasts) \in Nat
  BY DEF Inv, StormTypeOK, l, bcasts
<1>5. CASE l <= max
  BY <1>1, <1>3, <1>4, <1>5 DEF Inv, Kept
<1>6. CASE l > max
  <2>1. Len(broadcasts) = max /\ n >= max
    BY <1>1, <1>4, <1>6 DEF Inv, StormTypeOK, Kept
  <2>2. bcasts[1] = flooded[n - max + 1] /\ n - max + 1 \in 1..n
    BY <1>1, <2>1 DEF Inv, StormTypeOK, Kept, bcasts
  <2>3. n - max + 1 \in RL!Recent <=> now - bcasts[1] <= Second
    BY <2>2 DEF RL!Recent
  <2>4. now \in Int /\ bcasts[1] \in Int
    BY <2>2 DEF Inv, StormTypeOK
  <2> QED BY <1>3, <1>4, <1>6, <2>1, <2>3, <2>4
<1> QED BY <1>4, <1>5, <1>6

\* The storm controller, which keeps max timestamps, implements the rate limit
\* that knows the whole history: the same broadcasts are flooded and denied.
THEOREM ImplementsThm == StormSpec => Implements
<1>1. newStormController => RL!Init
  BY DEF newStormController, RL!Init
<1>2. Inv /\ [StormNext]_stormVars => [RL!Next]_RL!vars
  <2> SUFFICES ASSUME Inv, [StormNext]_stormVars PROVE [RL!Next]_RL!vars
    OBVIOUS
  <2>0. /\ Cardinality(RL!Recent) < max <=> l <= max \/ now - bcasts[1] > Second
        /\ Cardinality(RL!Recent) \in Nat
    <3>1. RL!Recent \in SUBSET (1..Len(flooded)) /\ Len(flooded) \in Nat
      BY DEF RL!Recent, Inv, StormTypeOK
    <3>2. Cardinality(RL!Recent) \in Nat
      <4>1. IsFiniteSet(1..Len(flooded))
        BY <3>1, FS_Interval
      <4>2. IsFiniteSet(RL!Recent)
        BY <3>1, <4>1, FS_Subset
      <4> QED BY <4>2, FS_CardinalityType
    <3> QED BY <3>2, OldestDecides
  <2>1. CASE BroadcastFirst
    BY <2>0, <2>1, SameCount DEF BroadcastFirst, flood, RL!Next, RL!Allow
  <2>2. CASE BroadcastShrink
    BY <2>0, <2>2, SameCount DEF BroadcastShrink, flood, RL!Next, RL!Allow
  <2>3. CASE BroadcastDeny
    <3>1. ~(l <= max) /\ ~(now - bcasts[1] > Second)
      <4>1. l \in Nat /\ now \in Int /\ bcasts \in Seq(Int) /\ Len(bcasts) >= 1
        BY TimesNat DEF Inv, StormTypeOK, l, bcasts
      <4> QED BY <2>3, <4>1, MaxPos, TimesNat DEF BroadcastDeny
    <3>2. Cardinality(RL!Recent) >= max
      BY <2>0, <3>1, MaxPos
    <3> QED BY <2>3, <3>2, SameCount DEF BroadcastDeny, RL!Next, RL!Deny
  <2>4. CASE Tick
    BY <2>4 DEF Tick, RL!Next, RL!Tick
  <2>5. CASE UNCHANGED stormVars
    BY <2>5 DEF stormVars, RL!vars
  <2> QED BY <2>1, <2>2, <2>3, <2>4, <2>5 DEF StormNext
<1> QED BY <1>1, <1>2, Invariant, PTL DEF StormSpec, Implements, RL!Spec
=============================================================================
