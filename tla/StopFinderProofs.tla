-------------------------- MODULE StopFinderProofs --------------------------
(***************************************************************************)
(* Proofs, for any qualities and thresholds and replies of any length,     *)
(* that resolve and trips agree, that stop_only does not change a verdict  *)
(* and that the order of a reply does not.                                 *)
(***************************************************************************)
EXTENDS StopFinder, FiniteSetTheorems, WellFoundedInduction, TLAPS

\* Quality and name in one number.
Worth(loc) == 2 * loc.quality + (IF loc.literal THEN 1 ELSE 0)

\* A location is better when it is worth more.
LEMMA BetterIsWorthMore ==
  ASSUME NEW a \in Location, NEW b \in Location
  PROVE  /\ Worth(a) \in Nat
         /\ Better(a, b) <=> Worth(a) > Worth(b)
         /\ Worth(a) = Worth(b) <=> a.quality = b.quality /\ a.literal = b.literal
<1>1. a.quality \in Nat /\ b.quality \in Nat
  BY StopFinderAssumption DEF Location
<1>2. a.literal \in BOOLEAN /\ b.literal \in BOOLEAN
  BY DEF Location
<1>3. CASE a.literal /\ b.literal
  <2>1. Worth(a) = 2 * a.quality + 1 /\ Worth(b) = 2 * b.quality + 1 /\ a.literal = b.literal
    BY <1>2, <1>3 DEF Worth
  <2>2. Better(a, b) <=> a.quality > b.quality
    BY <1>3 DEF Better
  <2> QED
    BY <1>1, <2>1, <2>2
<1>4. CASE a.literal /\ ~b.literal
  <2>1. Worth(a) = 2 * a.quality + 1 /\ Worth(b) = 2 * b.quality + 0
    BY <1>4, Zenon DEF Worth
  <2>2. Better(a, b) <=> a.quality > b.quality \/ a.quality = b.quality
    BY <1>4 DEF Better
  <2>3. a.literal # b.literal
    BY <1>4, Zenon
  <2> QED
    BY <1>1, <2>1, <2>2, <2>3
<1>5. CASE ~a.literal /\ b.literal
  <2>1. Worth(a) = 2 * a.quality + 0 /\ Worth(b) = 2 * b.quality + 1
    BY <1>5, Zenon DEF Worth
  <2>2. Better(a, b) <=> a.quality > b.quality
    BY <1>5 DEF Better
  <2>3. a.literal # b.literal
    BY <1>5, Zenon
  <2> QED
    BY <1>1, <2>1, <2>2, <2>3
<1>6. CASE ~a.literal /\ ~b.literal
  <2>1. Worth(a) = 2 * a.quality /\ Worth(b) = 2 * b.quality /\ a.literal = b.literal
    BY <1>1, <1>2, <1>6 DEF Worth
  <2>2. Better(a, b) <=> a.quality > b.quality
    BY <1>6 DEF Better
  <2> QED
    BY <1>1, <2>1, <2>2
<1> QED
  BY <1>3, <1>4, <1>5, <1>6

\* The rank of a location in terms of worth and position.
LEMMA AheadByWorth ==
  ASSUME NEW r \in Seq(Location), NEW i \in DOMAIN r, NEW j \in DOMAIN r
  PROVE  /\ i \in Nat /\ Worth(r[i]) \in Nat
         /\ Ahead(r, i, j) <=>
              \/ Worth(r[i]) > Worth(r[j])
              \/ Worth(r[i]) = Worth(r[j]) /\ i < j
<1>1. r[i] \in Location /\ r[j] \in Location /\ i \in Nat /\ j \in Nat
  OBVIOUS
<1>2. Worth(r[i]) \in Nat /\ Worth(r[j]) \in Nat
  BY <1>1, BetterIsWorthMore
<1>3. /\ Better(r[i], r[j]) <=> Worth(r[i]) > Worth(r[j])
      /\ Better(r[j], r[i]) <=> Worth(r[j]) > Worth(r[i])
  BY <1>1, BetterIsWorthMore
<1> QED
  BY <1>1, <1>2, <1>3 DEF Ahead

\* The rank orders the positions of a reply.
LEMMA AheadIsAnOrder ==
  ASSUME NEW r \in Seq(Location), NEW i \in DOMAIN r, NEW j \in DOMAIN r, NEW k \in DOMAIN r
  PROVE  /\ ~Ahead(r, i, i)
         /\ i # j => Ahead(r, i, j) \/ Ahead(r, j, i)
         /\ Ahead(r, i, j) /\ Ahead(r, j, k) => Ahead(r, i, k)
<1> DEFINE w(x) == Worth(r[x])
<1>1. i \in Nat /\ j \in Nat /\ k \in Nat /\ w(i) \in Nat /\ w(j) \in Nat /\ w(k) \in Nat
  BY AheadByWorth
<1>2. /\ Ahead(r, i, i) <=> w(i) > w(i) \/ (w(i) = w(i) /\ i < i)
      /\ Ahead(r, i, j) <=> w(i) > w(j) \/ (w(i) = w(j) /\ i < j)
      /\ Ahead(r, j, i) <=> w(j) > w(i) \/ (w(j) = w(i) /\ j < i)
      /\ Ahead(r, j, k) <=> w(j) > w(k) \/ (w(j) = w(k) /\ j < k)
      /\ Ahead(r, i, k) <=> w(i) > w(k) \/ (w(i) = w(k) /\ i < k)
  BY AheadByWorth
<1> HIDE DEF w
<1> QED
  BY <1>1, <1>2

\* Some position is ahead of all the others: the one with the fewest ahead of
\* it.
LEMMA SomeoneLeads ==
  ASSUME NEW r \in Seq(Location), NEW S \in SUBSET DOMAIN r, S # {}
  PROVE  \E i \in S : \A j \in S \ {i} : Ahead(r, i, j)
<1> DEFINE before(i) == {j \in S : Ahead(r, j, i)}
           count(i) == Cardinality(before(i))
           counts == {count(i) : i \in S}
<1>1. IsFiniteSet(S)
  <2>1. S \subseteq 1..Len(r) /\ Len(r) \in Nat
    OBVIOUS
  <2> QED
    BY <2>1, FS_Interval, FS_Subset
<1>2. \A i \in S : IsFiniteSet(before(i)) /\ count(i) \in Nat
  BY <1>1, FS_Subset, FS_CardinalityType
<1>3. counts \subseteq Nat /\ counts # {}
  BY <1>2
<1>4. PICK least \in counts : \A c \in counts : ~(<<c, least>> \in OpToRel(<, Nat))
  <2> HIDE DEF counts
  <2> QED
    BY <1>3, NatLessThanWellFounded, WFMin
<1>5. PICK i \in S : least = count(i)
  BY <1>4
<1>6. \A j \in S : ~(count(j) < count(i))
  BY <1>2, <1>4, <1>5 DEF OpToRel
<1>7. ASSUME NEW j \in S, Ahead(r, j, i) PROVE FALSE
  <2>1. before(j) \subseteq before(i)
    BY <1>7, AheadIsAnOrder
  <2>2. j \in before(i) /\ j \notin before(j)
    BY <1>7, AheadIsAnOrder
  <2>3. before(j) # before(i)
    BY <2>2
  <2>4. count(j) < count(i)
    <3> HIDE DEF before
    <3> QED
      BY <1>2, <2>1, <2>3, FS_Subset
  <2> QED
    BY <1>6, <2>4
<1> QED
  BY <1>7, AheadIsAnOrder

\* The leader of some positions is one of them, ahead of the others, and the
\* only one.
LEMMA LeaderLeads ==
  ASSUME NEW r \in Seq(Location), NEW S \in SUBSET DOMAIN r, S # {}
  PROVE  /\ Leader(r, S) \in S
         /\ \A j \in S \ {Leader(r, S)} : Ahead(r, Leader(r, S), j)
         /\ \A i \in S : (\A j \in S \ {i} : Ahead(r, i, j)) => i = Leader(r, S)
<1>1. Leader(r, S) \in S /\ \A j \in S \ {Leader(r, S)} : Ahead(r, Leader(r, S), j)
  BY SomeoneLeads DEF Leader
<1>2. ASSUME NEW i \in S, \A j \in S \ {i} : Ahead(r, i, j), i # Leader(r, S)
      PROVE  FALSE
  <2>1. Ahead(r, i, Leader(r, S)) /\ Ahead(r, Leader(r, S), i)
    BY <1>1, <1>2
  <2> QED
    BY <1>1, <2>1, AheadIsAnOrder
<1> QED
  BY <1>1, <1>2

\* Nothing is no position.
LEMMA NothingIsNoPosition ==
  ASSUME NEW r \in Seq(Location)
  PROVE  Nothing \notin DOMAIN r
  BY DEF Nothing

-----------------------------------------------------------------------------
\* Whether a leader stands clear of the next, by a gap or by its name.
Clear(a, b, gap) == a.quality >= b.quality + gap \/ (a.literal /\ ~b.literal)

Stands(r, gap) ==
    /\ Stops(r) # {}
    /\ Stops(r) = {Best(r)} \/ Clear(r[Best(r)], r[Second(r, Stops(r))], gap)

\* Resolve judges the best stop by the next stop, whatever else it lists.
LEMMA VerdictIsOnStops ==
  ASSUME NEW r \in Seq(Location), NEW stopOnly \in BOOLEAN
  PROVE  /\ Rivals(r, RunnersUp(r, stopOnly)) = Stops(r) \ {Best(r)}
         /\ Resolve(r, stopOnly).best = Best(r)
         /\ Resolve(r, stopOnly).unambiguous =
              (Stands(r, UnambiguousDelta) /\ r[Best(r)].quality >= QualityMin)
<1>1. Rivals(r, RunnersUp(r, stopOnly)) = Stops(r) \ {Best(r)}
  BY DEF Rivals, RunnersUp, Stops
<1>2. Best(r) # Nothing <=> Stops(r) # {}
  <2>1. Stops(r) \in SUBSET DOMAIN r
    BY DEF Stops
  <2>2. Stops(r) # {} => Best(r) \in DOMAIN r
    BY <2>1, LeaderLeads DEF Best
  <2> QED
    BY <2>2, NothingIsNoPosition DEF Best, Leader
<1>3. Stops(r) # {} => (Stops(r) \ {Best(r)} = {} <=> Stops(r) = {Best(r)})
  OBVIOUS
<1>4. Unambiguous(r, RunnersUp(r, stopOnly)) <=>
        /\ r[Best(r)].quality >= QualityMin
        /\ \/ Stops(r) \ {Best(r)} = {}
           \/ Clear(r[Best(r)], r[Second(r, Stops(r))], UnambiguousDelta)
  BY <1>1, Zenon DEF Unambiguous, Clear, Second, Best
<1>5. /\ Resolve(r, stopOnly).best = Best(r)
      /\ Resolve(r, stopOnly).unambiguous =
           (Best(r) # Nothing /\ Unambiguous(r, RunnersUp(r, stopOnly)))
  BY DEF Resolve
<1> QED
  BY <1>1, <1>2, <1>3, <1>4, <1>5, Zenon DEF Stands

\* trips plans from the only stop, or from one that stands clear of the next.
LEMMA PickIsOfStops ==
  ASSUME NEW r \in Seq(Location)
  PROVE  LET picks == /\ Stands(r, ExactGap)
                      /\ Stops(r) = {Best(r)} \/ r[Best(r)].quality >= QualityMin
         IN  Picked(r) = IF picks THEN Best(r) ELSE Nothing
<1>1. Picked(r) = IF Stops(r) \subseteq {Best(r)} \/ ExactMatch(r, Stops(r)) THEN Best(r) ELSE Nothing
  BY DEF Picked, PickOf, Best
<1>2. CASE Stops(r) = {}
  <2>1. Best(r) = Nothing
    BY <1>2 DEF Best, Leader
  <2> QED
    BY <1>1, <2>1
<1>3. CASE Stops(r) # {}
  <2>1. Stops(r) \subseteq {Best(r)} <=> Stops(r) = {Best(r)}
    BY <1>3
  <2>2. ExactMatch(r, Stops(r)) <=>
          /\ r[Best(r)].quality >= QualityMin
          /\ Clear(r[Best(r)], r[Second(r, Stops(r))], ExactGap)
    BY Zenon DEF ExactMatch, Clear, Best
  <2> QED
    BY <1>1, <1>3, <2>1, <2>2, Zenon DEF Stands
<1> QED
  BY <1>2, <1>3

\* Several stops have a second.
LEMMA SecondIsAStop ==
  ASSUME NEW r \in Seq(Location), Stops(r) # {}, Stops(r) # {Best(r)}
  PROVE  /\ Best(r) \in Stops(r)
         /\ Second(r, Stops(r)) \in Stops(r) \ {Best(r)}
         /\ \A j \in Stops(r) \ {Best(r)} :
               j # Second(r, Stops(r)) => Ahead(r, Second(r, Stops(r)), j)
         /\ r[Best(r)] \in Location /\ r[Second(r, Stops(r))] \in Location
<1>1. Stops(r) \in SUBSET DOMAIN r
  BY DEF Stops
<1>2. Best(r) \in Stops(r)
  BY <1>1, LeaderLeads DEF Best
<1>3. Stops(r) \ {Best(r)} # {} /\ Stops(r) \ {Best(r)} \in SUBSET DOMAIN r
  BY <1>1, <1>2
<1>4. Second(r, Stops(r)) = Leader(r, Stops(r) \ {Best(r)})
  BY DEF Second, Best
<1>5. /\ Second(r, Stops(r)) \in Stops(r) \ {Best(r)}
      /\ \A j \in Stops(r) \ {Best(r)} :
            j # Second(r, Stops(r)) => Ahead(r, Second(r, Stops(r)), j)
  BY <1>3, <1>4, LeaderLeads
<1>6. \A i \in DOMAIN r : r[i] \in Location
  OBVIOUS
<1> QED
  BY <1>1, <1>2, <1>5, <1>6

\* A larger gap is a gap.
LEMMA ClearByLess ==
  ASSUME NEW a \in Location, NEW b \in Location, Clear(a, b, ExactGap)
  PROVE  Clear(a, b, UnambiguousDelta)
<1>1. a.quality \in Nat /\ b.quality \in Nat /\ ExactGap \in Nat /\ UnambiguousDelta \in Nat
      /\ UnambiguousDelta <= ExactGap
  BY StopFinderAssumption DEF Location
<1>2. a.quality >= b.quality + ExactGap => a.quality >= b.quality + UnambiguousDelta
  BY <1>1
<1> QED
  BY <1>2, Zenon DEF Clear

-----------------------------------------------------------------------------
\* Every reply is a sequence of locations no longer than the bound.
LEMMA RepliesAreLocations == Spec => []TypeOK
<1>1. Init => TypeOK
  BY StopFinderAssumption DEF Init, TypeOK
<1>2. TypeOK /\ [Next]_reply => TypeOK'
  BY StopFinderAssumption DEF TypeOK, Next, Locates
<1> QED
  BY <1>1, <1>2, PTL DEF Spec

\* What trips plans from silently is what resolve calls the best, and among
\* several stops unambiguous, when trips asks for at least the gap that
\* resolve asks for.
THEOREM ToolsAgreeOnAStop == Spec => []TripsAgreesWithResolve
<1>1. ASSUME TypeOK PROVE TripsAgreesWithResolve
  <2> reply \in Seq(Location)
    BY <1>1 DEF TypeOK
  <2> SUFFICES ASSUME Picked(reply) # Nothing, NEW stopOnly \in BOOLEAN
               PROVE  /\ Resolve(reply, stopOnly).best = Picked(reply)
                      /\ Stops(reply) # {Picked(reply)} => Resolve(reply, stopOnly).unambiguous
    BY DEF TripsAgreesWithResolve
  <2>1. /\ Picked(reply) = Best(reply) /\ Stands(reply, ExactGap)
        /\ Stops(reply) = {Best(reply)} \/ reply[Best(reply)].quality >= QualityMin
    BY PickIsOfStops
  <2>2. Resolve(reply, stopOnly).best = Picked(reply)
    BY <2>1, VerdictIsOnStops
  <2>3. ASSUME Stops(reply) # {Best(reply)}
        PROVE  Resolve(reply, stopOnly).unambiguous
    <3>1. Stands(reply, UnambiguousDelta)
      BY <2>1, <2>3, SecondIsAStop, ClearByLess DEF Stands
    <3> QED
      BY <2>1, <2>3, <3>1, VerdictIsOnStops
  <2> QED
    BY <2>1, <2>2, <2>3
<1> QED
  BY <1>1, RepliesAreLocations, PTL

\* The best stop and the verdict do not depend on stop_only.
THEOREM VerdictIgnoresStopOnly == Spec => []StopOnlyKeepsVerdict
<1>1. ASSUME TypeOK PROVE StopOnlyKeepsVerdict
  <2> reply \in Seq(Location)
    BY <1>1 DEF TypeOK
  <2>1. Rivals(reply, RunnersUp(reply, FALSE)) = Rivals(reply, RunnersUp(reply, TRUE))
    BY <1>1, VerdictIsOnStops
  <2>2. Unambiguous(reply, RunnersUp(reply, FALSE)) = Unambiguous(reply, RunnersUp(reply, TRUE))
    BY <2>1 DEF Unambiguous
  <2> QED
    BY <2>2 DEF StopOnlyKeepsVerdict, Resolve
<1> QED
  BY <1>1, RepliesAreLocations, PTL

-----------------------------------------------------------------------------
\* Changing two neighbours and changing them back.
LEMMA SwapIsItsInverse ==
  ASSUME NEW r \in Seq(Location), NEW k \in 1..(Len(r) - 1)
  PROVE  /\ \A i \in DOMAIN r : Swap(k, i) \in DOMAIN r /\ Swap(k, Swap(k, i)) = i
         /\ Swap(k, Nothing) = Nothing
         /\ Swapped(r, k) \in Seq(Location) /\ DOMAIN Swapped(r, k) = DOMAIN r
         /\ Len(Swapped(r, k)) = Len(r)
         /\ \A i \in DOMAIN r : Swapped(r, k)[i] = r[Swap(k, i)]
         /\ Swapped(Swapped(r, k), k) = r
<1>1. DOMAIN r = 1..Len(r) /\ Len(r) \in Nat
  OBVIOUS
<1>2. ASSUME NEW i \in DOMAIN r
      PROVE  Swap(k, i) \in DOMAIN r /\ Swap(k, Swap(k, i)) = i
  <2>1. i \in Nat /\ k \in Nat /\ k + 1 # k /\ k \in DOMAIN r /\ k + 1 \in DOMAIN r
    BY <1>1
  <2>2. CASE i = k
    BY <2>1, <2>2 DEF Swap
  <2>3. CASE i = k + 1
    BY <2>1, <2>3 DEF Swap
  <2>4. CASE i # k /\ i # k + 1
    BY <2>4 DEF Swap
  <2> QED
    BY <2>2, <2>3, <2>4
<1>3. Swap(k, Nothing) = Nothing
  BY <1>1 DEF Swap, Nothing
<1>4. DOMAIN Swapped(r, k) = DOMAIN r /\ \A i \in DOMAIN r : Swapped(r, k)[i] = r[Swap(k, i)]
  BY DEF Swapped
<1>5. Swapped(r, k) \in [1..Len(r) -> Location]
  BY <1>1, <1>2 DEF Swapped
<1>6. Swapped(r, k) \in Seq(Location) /\ Len(Swapped(r, k)) = Len(r)
  BY <1>1, <1>5
<1>7. Swapped(Swapped(r, k), k) = [i \in DOMAIN r |-> Swapped(r, k)[Swap(k, i)]]
  BY <1>4 DEF Swapped
<1>8. \A i \in DOMAIN r : Swapped(r, k)[Swap(k, i)] = r[i]
  BY <1>2, <1>4
<1>9. Swapped(Swapped(r, k), k) = [i \in DOMAIN r |-> r[i]]
  BY <1>7, <1>8
<1> QED
  BY <1>2, <1>3, <1>4, <1>6, <1>9

\* A stop changes its place and stays a stop.
LEMMA SwappedStops ==
  ASSUME NEW r \in Seq(Location), NEW k \in 1..(Len(r) - 1)
  PROVE  /\ \A i \in Stops(r) : Swap(k, i) \in Stops(Swapped(r, k))
         /\ \A i \in Stops(Swapped(r, k)) : Swap(k, i) \in Stops(r)
<1>1. /\ DOMAIN Swapped(r, k) = DOMAIN r
      /\ \A i \in DOMAIN r : /\ Swap(k, i) \in DOMAIN r /\ Swap(k, Swap(k, i)) = i
                             /\ Swapped(r, k)[i] = r[Swap(k, i)]
  BY SwapIsItsInverse
<1>2. ASSUME NEW i \in DOMAIN r PROVE IsStop(Swapped(r, k), i) <=> IsStop(r, Swap(k, i))
  BY <1>1 DEF IsStop
<1>3. ASSUME NEW i \in Stops(r) PROVE Swap(k, i) \in Stops(Swapped(r, k))
  BY <1>1, <1>2 DEF Stops
<1>4. ASSUME NEW i \in Stops(Swapped(r, k)) PROVE Swap(k, i) \in Stops(r)
  BY <1>1, <1>2 DEF Stops
<1> QED
  BY <1>3, <1>4

\* What stands clear of the next is worth more, not just listed before it.
LEMMA ClearIsWorthMore ==
  ASSUME NEW a \in Location, NEW b \in Location, NEW gap \in Nat, gap > 0,
         Clear(a, b, gap), Worth(a) >= Worth(b)
  PROVE  Worth(a) > Worth(b)
<1>1. Worth(a) \in Nat /\ Worth(b) \in Nat
  BY BetterIsWorthMore
<1>2. a.quality \in Nat /\ b.quality \in Nat
  BY StopFinderAssumption DEF Location
<1>3. CASE a.quality >= b.quality + gap
  <2>1. a.quality # b.quality
    BY <1>2, <1>3
  <2>2. Worth(a) # Worth(b)
    BY <2>1, BetterIsWorthMore
  <2> QED
    BY <1>1, <2>2
<1>4. CASE a.literal /\ ~b.literal
  <2>1. a.literal # b.literal
    BY <1>4, Zenon
  <2>2. Worth(a) # Worth(b)
    BY <2>1, BetterIsWorthMore
  <2> QED
    BY <1>1, <2>2
<1> QED
  BY <1>3, <1>4, Zenon DEF Clear

\* A stop that is worth more than all the others is the best.
LEMMA WorthiestIsBest ==
  ASSUME NEW r \in Seq(Location), NEW b \in Stops(r),
         \A j \in Stops(r) \ {b} : Worth(r[b]) > Worth(r[j])
  PROVE  Best(r) = b
<1>1. Stops(r) \in SUBSET DOMAIN r
  BY DEF Stops
<1>2. \A j \in Stops(r) \ {b} : Ahead(r, b, j)
  BY <1>1, AheadByWorth
<1> QED
  BY <1>1, <1>2, LeaderLeads DEF Best

\* The worth of the best and the second, among the stops.
LEMMA WorthOfTheFirstTwo ==
  ASSUME NEW r \in Seq(Location), Stops(r) # {}, Stops(r) # {Best(r)}
  PROVE  /\ Best(r) \in Stops(r) /\ Second(r, Stops(r)) \in Stops(r) \ {Best(r)}
         /\ Worth(r[Best(r)]) >= Worth(r[Second(r, Stops(r))])
         /\ \A j \in Stops(r) \ {Best(r)} : Worth(r[Second(r, Stops(r))]) >= Worth(r[j])
<1> DEFINE m == Second(r, Stops(r))
<1>1. Stops(r) \in SUBSET DOMAIN r
  BY DEF Stops
<1>2. /\ Best(r) \in Stops(r) /\ m \in Stops(r) \ {Best(r)}
      /\ \A j \in Stops(r) \ {Best(r)} : j # m => Ahead(r, m, j)
  BY SecondIsAStop
<1>3. \A j \in Stops(r) \ {Best(r)} : Ahead(r, Best(r), j)
  BY <1>1, LeaderLeads DEF Best
<1>4. \A i, j \in Stops(r) : Worth(r[i]) \in Nat /\ (Ahead(r, i, j) => Worth(r[i]) >= Worth(r[j]))
  BY <1>1, AheadByWorth
<1> HIDE DEF m
<1>5. Worth(r[Best(r)]) >= Worth(r[m])
  BY <1>2, <1>3, <1>4
<1>6. ASSUME NEW j \in Stops(r) \ {Best(r)} PROVE Worth(r[m]) >= Worth(r[j])
  <2>1. CASE j = m
    BY <1>2, <1>4, <2>1
  <2>2. CASE j # m
    BY <1>2, <1>4, <2>2
  <2> QED
    BY <2>1, <2>2
<1> QED
  BY <1>2, <1>5, <1>6 DEF m

\* A stop that stands clear of the others still does, and is the same one,
\* when two neighbours change places.
LEMMA StandingSurvives ==
  ASSUME NEW r \in Seq(Location), NEW k \in 1..(Len(r) - 1),
         NEW gap \in Nat, gap > 0, Stands(r, gap)
  PROVE  LET s == Swapped(r, k)
         IN  /\ Best(s) = Swap(k, Best(r))
             /\ s[Best(s)] = r[Best(r)]
             /\ Stands(s, gap)
             /\ Stops(s) = {Best(s)} <=> Stops(r) = {Best(r)}
<1> DEFINE s == Swapped(r, k)
           b == Best(r)
           m == Second(r, Stops(r))
           n == Second(s, Stops(s))
<1>1. /\ s \in Seq(Location) /\ DOMAIN s = DOMAIN r
      /\ \A i \in DOMAIN r : /\ Swap(k, i) \in DOMAIN r /\ Swap(k, Swap(k, i)) = i
                             /\ s[i] = r[Swap(k, i)]
  BY SwapIsItsInverse
<1>2. /\ \A i \in Stops(r) : Swap(k, i) \in Stops(s)
      /\ \A i \in Stops(s) : Swap(k, i) \in Stops(r)
  BY SwappedStops
<1>3. Stops(r) \in SUBSET DOMAIN r /\ Stops(s) \in SUBSET DOMAIN r
  BY <1>1 DEF Stops
<1>4. b \in Stops(r)
  BY <1>3, LeaderLeads DEF Stands, Best
<1>5. Swap(k, b) \in Stops(s) /\ s[Swap(k, b)] = r[b]
  BY <1>1, <1>2, <1>3, <1>4
<1>6. \A i \in Stops(s) \ {Swap(k, b)} : Swap(k, i) \in Stops(r) \ {b} /\ s[i] = r[Swap(k, i)]
  BY <1>1, <1>2, <1>3
<1>7. \A i \in Stops(r) \ {b} : Swap(k, i) \in Stops(s) \ {Swap(k, b)} /\ s[Swap(k, i)] = r[i]
  BY <1>1, <1>2, <1>3, <1>4
<1>8. \A i \in Stops(r) \cup Stops(s) : r[i] \in Location /\ s[i] \in Location
  BY <1>1, <1>3
<1>9. CASE Stops(r) = {b}
  <2>1. Stops(s) = {Swap(k, b)}
    BY <1>5, <1>6, <1>9
  <2>2. Best(s) = Swap(k, b)
    BY <1>1, <1>3, <2>1, LeaderLeads DEF Best
  <2> QED
    BY <1>5, <1>9, <2>1, <2>2 DEF Stands
<1>10. CASE Stops(r) # {b}
  <2>1. /\ m \in Stops(r) \ {b}
        /\ Worth(r[b]) >= Worth(r[m])
        /\ \A j \in Stops(r) \ {b} : Worth(r[m]) >= Worth(r[j])
    BY <1>4, <1>10, WorthOfTheFirstTwo
  <2>2. Clear(r[b], r[m], gap)
    BY <1>10 DEF Stands
  <2>3. Worth(r[b]) > Worth(r[m])
    BY <1>4, <1>8, <2>1, <2>2, ClearIsWorthMore
  <2>4. \A j \in Stops(r) : Worth(r[j]) \in Nat
    BY <1>8, BetterIsWorthMore
  <2>5. \A j \in Stops(r) \ {b} : Worth(r[b]) > Worth(r[j])
    <3> HIDE DEF b, m
    <3> QED
      BY <1>4, <2>1, <2>3, <2>4
  <2>6. \A i \in Stops(s) \ {Swap(k, b)} : Worth(s[Swap(k, b)]) > Worth(s[i])
    <3> HIDE DEF b, s
    <3> QED
      BY <1>5, <1>6, <2>5
  <2>7. Best(s) = Swap(k, b)
    BY <1>1, <1>5, <2>6, WorthiestIsBest
  <2>8. Swap(k, m) \in Stops(s) \ {Best(s)} /\ s[Swap(k, m)] = r[m]
    BY <1>7, <2>1, <2>7
  <2>9. n \in Stops(s) \ {Best(s)} /\ Worth(s[n]) >= Worth(s[Swap(k, m)])
    <3>1. Stops(s) # {} /\ Stops(s) # {Best(s)}
      BY <2>8
    <3> QED
      BY <1>1, <2>8, <3>1, WorthOfTheFirstTwo
  <2>10. Swap(k, n) \in Stops(r) \ {b} /\ s[n] = r[Swap(k, n)]
    BY <1>6, <2>7, <2>9
  <2>11. Worth(s[n]) = Worth(r[m])
    <3> HIDE DEF s, m, n, b
    <3> QED
      BY <2>1, <2>4, <2>8, <2>9, <2>10
  <2>12. s[n].quality = r[m].quality /\ s[n].literal = r[m].literal
    BY <1>8, <2>1, <2>9, <2>11, BetterIsWorthMore
  <2>13. Clear(s[Best(s)], s[n], gap)
    <3>1. s[Best(s)] = r[b]
      BY <1>5, <2>7
    <3> HIDE DEF s, m, n, b
    <3> QED
      BY <2>2, <2>12, <3>1, Zenon DEF Clear
  <2>14. Stops(s) # {} /\ Stops(s) # {Best(s)}
    BY <2>8
  <2> QED
    BY <1>5, <1>10, <2>7, <2>13, <2>14 DEF Stands
<1> QED
  BY <1>9, <1>10

\* It stands clear before the change when it does after it.
LEMMA StandingEitherWay ==
  ASSUME NEW r \in Seq(Location), NEW k \in 1..(Len(r) - 1), NEW gap \in Nat, gap > 0
  PROVE  Stands(Swapped(r, k), gap) <=> Stands(r, gap)
<1>1. Swapped(r, k) \in Seq(Location) /\ Len(Swapped(r, k)) = Len(r)
      /\ Swapped(Swapped(r, k), k) = r
  BY SwapIsItsInverse
<1>2. Stands(r, gap) => Stands(Swapped(r, k), gap)
  BY StandingSurvives
<1>3. Stands(Swapped(r, k), gap) => Stands(Swapped(Swapped(r, k), k), gap)
  BY <1>1, StandingSurvives
<1> QED
  BY <1>1, <1>2, <1>3

\* The order in which the upstream lists the locations changes neither a
\* verdict nor which stop it is of, nor what trips plans from.
THEOREM VerdictIgnoresOrder == Spec => []OrderDoesNotMatter
<1>1. ASSUME TypeOK PROVE OrderDoesNotMatter
  <2> reply \in Seq(Location)
    BY <1>1 DEF TypeOK
  <2>1. /\ UnambiguousDelta \in Nat /\ UnambiguousDelta > 0
        /\ ExactGap \in Nat /\ ExactGap > 0
    BY StopFinderAssumption
  <2> SUFFICES ASSUME NEW k \in 1..(Len(reply) - 1), NEW stopOnly \in BOOLEAN
               PROVE  LET swapped == Swapped(reply, k)
                          before == Resolve(reply, stopOnly)
                          after == Resolve(swapped, stopOnly)
                      IN  /\ after.unambiguous = before.unambiguous
                          /\ before.unambiguous => after.best = Swap(k, before.best)
                          /\ Picked(swapped) = Swap(k, Picked(reply))
    BY DEF OrderDoesNotMatter
  <2> DEFINE swapped == Swapped(reply, k)
             before == Resolve(reply, stopOnly)
             after == Resolve(swapped, stopOnly)
  <2>2. swapped \in Seq(Location) /\ Swap(k, Nothing) = Nothing
    BY SwapIsItsInverse
  <2>3. /\ before.best = Best(reply) /\ after.best = Best(swapped)
        /\ before.unambiguous =
             (Stands(reply, UnambiguousDelta) /\ reply[Best(reply)].quality >= QualityMin)
        /\ after.unambiguous =
             (Stands(swapped, UnambiguousDelta) /\ swapped[Best(swapped)].quality >= QualityMin)
    BY <2>2, VerdictIsOnStops
  <2>4. /\ Stands(swapped, UnambiguousDelta) <=> Stands(reply, UnambiguousDelta)
        /\ Stands(swapped, ExactGap) <=> Stands(reply, ExactGap)
    BY <2>1, StandingEitherWay
  <2>5. ASSUME Stands(reply, UnambiguousDelta) \/ Stands(reply, ExactGap)
        PROVE  /\ Best(swapped) = Swap(k, Best(reply))
               /\ swapped[Best(swapped)] = reply[Best(reply)]
               /\ Stops(swapped) = {Best(swapped)} <=> Stops(reply) = {Best(reply)}
    BY <2>1, <2>5, StandingSurvives
  <2>6. Picked(swapped) = Swap(k, Picked(reply))
    <3>1. /\ Picked(reply) =
               IF /\ Stands(reply, ExactGap)
                  /\ Stops(reply) = {Best(reply)} \/ reply[Best(reply)].quality >= QualityMin
               THEN Best(reply) ELSE Nothing
          /\ Picked(swapped) =
               IF /\ Stands(swapped, ExactGap)
                  /\ Stops(swapped) = {Best(swapped)} \/ swapped[Best(swapped)].quality >= QualityMin
               THEN Best(swapped) ELSE Nothing
      BY <2>2, PickIsOfStops
    <3> HIDE DEF swapped
    <3> QED
      BY <2>2, <2>4, <2>5, <3>1
  <2> HIDE DEF swapped, before, after
  <2>7. after.unambiguous = before.unambiguous
    BY <2>3, <2>4, <2>5, Zenon
  <2>8. before.unambiguous => after.best = Swap(k, before.best)
    BY <2>3, <2>5
  <2> QED
    BY <2>6, <2>7, <2>8 DEF swapped, before, after
<1> QED
  BY <1>1, RepliesAreLocations, PTL
=============================================================================
