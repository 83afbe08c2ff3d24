---------------------------- MODULE RepliesProofs ----------------------------
(***************************************************************************)
(* Proofs about the tools that are functions of one reply (Replies): the   *)
(* legs of a trip hide no notice and the deviations tool agrees with them, *)
(* for a reply of any length and any cap; the pages cut from the catalogs  *)
(* begin the lists they are cut from, and hold the nearest, for catalogs   *)
(* and limits of any size; and, put together, what the proofs about        *)
(* StopFinder and SiteIds say holds of every reply.                        *)
(***************************************************************************)
EXTENDS Replies, SiteIdsProofs, StopFinderProofs

MessagesOK == messages \in Seq(Entry)

\* Whatever is published is a list of notices.
LEMMA RepliesAreNotices == DeviationsSpec => []MessagesOK
<1>1. DeviationsInit => MessagesOK
  BY DEF DeviationsInit, MessagesOK
<1>2. MessagesOK /\ [DeviationsNext]_messages => MessagesOK'
  BY EntriesAssumption DEF MessagesOK, DeviationsNext, Publishes
<1> QED
  BY <1>1, <1>2, PTL DEF DeviationsSpec

\* The scope of a notice is a list of lines.
LEMMA ScopesAreLists == \A e \in Entry : e.scope \in Seq(ScopeLine)
<1> SUFFICES ASSUME NEW e \in Entry PROVE e.scope \in Seq(ScopeLine)
  OBVIOUS
<1>1. e.scope \in {s \in Seq(ScopeLine) : Len(s) <= MaxScope}
  BY Zenon DEF Entry
<1> QED
  BY <1>1

\* A reply names finitely many lines.
LEMMA PlacesAreFinite == MessagesOK => IsFiniteSet(Places)
<1> SUFFICES ASSUME MessagesOK PROVE IsFiniteSet(Places)
  OBVIOUS
<1>1. Len(messages) \in Nat /\ MaxScope \in Nat
  BY DeviationsAssumption DEF MessagesOK
<1>2. IsFiniteSet(1..Len(messages)) /\ IsFiniteSet(1..MaxScope)
  BY <1>1, FS_Interval
<1>3. IsFiniteSet((1..Len(messages)) \X (1..MaxScope))
  BY <1>2, FS_Product
<1> QED
  BY <1>3, FS_Subset DEF Places

\* What does not fit on a leg is more than the leg has room for.
LEMMA LeftOutIsMore ==
  ASSUME NEW S \in SUBSET Places, IsFiniteSet(S), NEW p \in S, p \notin FirstFew(S)
  PROVE  Cardinality(S) > MaxPerLeg
<1> DEFINE B == {q \in S : Before(q, p)}
<1>1. IsFiniteSet(B) /\ B \subseteq S
  BY FS_Subset
<1>2. Cardinality(B) \in Nat /\ Cardinality(S) \in Nat /\ MaxPerLeg \in Nat
  BY <1>1, FS_CardinalityType, DeviationsAssumption
<1>3. Cardinality(B) >= MaxPerLeg
  BY <1>2 DEF FirstFew
<1>4. p \notin B
  <2>1. p[1] \in Int /\ p[2] \in Int
    BY DEF Places
  <2> QED
    BY <2>1 DEF Before
<1>5. Cardinality(B \cup {p}) = Cardinality(B) + 1
  BY <1>1, <1>4, FS_AddElement
<1>6. Cardinality(B \cup {p}) <= Cardinality(S)
  BY <1>1, FS_Subset
<1> QED
  BY <1>2, <1>3, <1>5, <1>6

\* No leg hides a notice that concerns it without saying so (attachLegDeviations).
THEOREM NothingIsHidden == DeviationsSpec => []NoHiddenNotice
<1>1. MessagesOK => NoHiddenNotice
  <2> SUFFICES ASSUME MessagesOK, NEW leg \in Legs, NEW p \in Candidates(leg),
                      Active(messages[p[1]], leg.departure), p \notin Attached(leg).shown
               PROVE  Attached(leg).more
    BY DEF NoHiddenNotice
  <2> DEFINE S == ActiveAt(Candidates(leg), leg.departure)
  <2>1. S \subseteq Places /\ p \in S
    BY DEF ActiveAt, Candidates
  <2>2. IsFiniteSet(S)
    BY <2>1, PlacesAreFinite, FS_Subset
  <2>3. p \notin FirstFew(S)
    BY DEF Attached
  <2>4. Cardinality(S) > MaxPerLeg
    BY <2>1, <2>2, <2>3, LeftOutIsMore
  <2> QED
    BY <2>4 DEF Attached
<1> QED
  BY <1>1, RepliesAreNotices, PTL

\* What a leg shows the deviations tool lists under the leg's mode (keep).
THEOREM ToolsAgreeOnAMode == DeviationsSpec => []AttachedIsListed
<1>1. MessagesOK => AttachedIsListed
  <2> SUFFICES ASSUME MessagesOK, NEW leg \in Legs, NEW p \in Attached(leg).shown
               PROVE  /\ p[1] \in Verbose(Transport[leg.mode], TRUE)
                      /\ messages[p[1]].readable = "all" => p[1] \in Slim(Transport[leg.mode], TRUE)
    BY DEF AttachedIsListed
  <2> DEFINE e == messages[p[1]]
  <2>1. p \in Candidates(leg)
    BY DEF Attached, FirstFew, ActiveAt
  <2>2. /\ p[1] \in 1..Len(messages)
        /\ p[2] \in 1..MaxScope /\ p[2] <= Len(e.scope)
        /\ e.scope[p[2]] = [line |-> leg.line, mode |-> Transport[leg.mode]]
    BY <2>1 DEF Candidates, Places
  <2>3. p[1] \in DOMAIN messages /\ e \in Entry
    BY <2>2 DEF MessagesOK
  <2>4. p[2] \in DOMAIN e.scope
    BY <2>2, <2>3, ScopesAreLists, DeviationsAssumption
  <2>5. e.scope[p[2]].mode = Transport[leg.mode]
    BY <2>2
  <2>6. Keep(e, Transport[leg.mode], TRUE)
    BY <2>4, <2>5 DEF Keep
  <2> QED
    BY <2>3, <2>6 DEF Verbose, Slim
<1> QED
  BY <1>1, RepliesAreNotices, PTL

\* The two shapes differ in what cannot be read, and in nothing else
\* (filterRawDeviations).
THEOREM ShapesAgree == DeviationsSpec => []VerboseAgreesWithSlim
<1>1. VerboseAgreesWithSlim
  BY DEF VerboseAgreesWithSlim, Verbose, Slim
<1> QED
  BY <1>1, PTL

\* A facility is recognized by the group of any of its categories, in either
\* form (flattenCategories).
LEMMA FacilitiesAreRecognized ==
  ASSUME NEW e \in Entry, Uniform(e),
         NEW c \in DOMAIN e.categories, e.categories[c].group = "FACILITY"
  PROVE  Facility(e)
<1> DEFINE cat == e.categories[c]
<1>1. cat \in Category
  BY DEF Entry
<1>2. Word(cat.group) = <<"FACILITY">>
  BY DEF Word
<1>3. Word(Kind(cat)) \in Seq(STRING)
  <2>1. Kind(cat) \in STRING
    BY <1>1 DEF Kind, Category
  <2>2. <<>> \in Seq(STRING) /\ <<Kind(cat)>> \in Seq(STRING)
    BY <2>1
  <2> QED
    BY <2>2 DEF Word
<1>4. Label(cat)[1] = "FACILITY" /\ Label(cat) # <<>>
  BY <1>2, <1>3 DEF Label
<1>5. Label(cat) \in Categories(e)
  BY <1>4 DEF Categories
<1> QED
  BY <1>4, <1>5 DEF Facility

\* Facilities are listed when asked for, and only then (keep).
THEOREM FacilitiesOnRequest == DeviationsSpec => []FacilityIsOptIn
<1>1. MessagesOK => FacilityIsOptIn
  <2> SUFFICES ASSUME MessagesOK PROVE FacilityIsOptIn
    OBVIOUS
  <2>1. ASSUME NEW mode \in Modes, NEW i \in Slim(mode, FALSE)
        PROVE  i \in Slim(mode, TRUE)
    BY <2>1 DEF Slim, Keep
  <2>2. ASSUME NEW mode \in Modes, NEW i \in DOMAIN messages,
               messages[i].readable = "all", Uniform(messages[i]),
               NEW c \in DOMAIN messages[i].categories,
               messages[i].categories[c].group = "FACILITY"
        PROVE  i \notin Slim(mode, FALSE) /\ i \in Slim(mode, TRUE)
    <3>1. messages[i] \in Entry
      BY DEF MessagesOK
    <3>2. Facility(messages[i])
      BY <2>2, <3>1, FacilitiesAreRecognized
    <3> QED
      BY <2>2, <3>2 DEF Slim, Keep
  <2> QED
    BY <2>1, <2>2 DEF FacilityIsOptIn
<1> QED
  BY <1>1, RepliesAreNotices, PTL

-----------------------------------------------------------------------------
\* The passes of the loop that cuts a page.
Kept(kept, positions, passing, limit) ==
    /\ kept[0] = <<>>
    /\ \A k \in 1..Len(positions) :
          kept[k] = IF positions[k] \in passing /\ (limit > 0 => Len(kept[k - 1]) < limit)
                    THEN Append(kept[k - 1], positions[k])
                    ELSE kept[k - 1]

\* A page is what they have kept in the end.
LEMMA PagesAreLoops ==
  ASSUME NEW X, NEW positions \in Seq(X), NEW passing, NEW limit \in Nat
  PROVE  \E kept \in [0..Len(positions) -> Seq(X)] :
            /\ Kept(kept, positions, passing, limit)
            /\ Page(positions, passing, limit) = kept[Len(positions)]
<1> DEFINE n == Len(positions)
           next(k, q) == IF positions[k] \in passing /\ (limit > 0 => Len(q) < limit)
                         THEN Append(q, positions[k]) ELSE q
           F == [k \in 1..n |-> [q \in Seq(X) |-> next(k, q)]]
           step(r) == [k \in 0..n |-> IF k = 0 THEN <<>> ELSE next(k, r[k - 1])]
<1>1. n \in Nat
  OBVIOUS
<1>2. \A k \in 1..n, q \in Seq(X) : next(k, q) \in Seq(X)
  BY ElementOfSeq, AppendProperties
<1>3. F \in [1..n -> [Seq(X) -> Seq(X)]] /\ \A k \in 1..n, q \in Seq(X) : F[k][q] = next(k, q)
  <2> HIDE DEF next
  <2> QED
    BY <1>2
<1>4. PICK g \in [0..n -> Seq(X)] : Loop(g, n, <<>>, F)
  <2> DEFINE Lists == Seq(X)
             empty == <<>>
  <2>1. empty \in Lists /\ F \in [1..n -> [Lists -> Lists]]
    BY <1>3, EmptySeq
  <2> HIDE DEF F, n, Lists, empty
  <2>2. \E g \in [0..n -> Lists] : Loop(g, n, empty, F)
    BY <1>1, <2>1, LoopsRun
  <2> QED
    BY <2>2 DEF Lists, empty
<1> HIDE DEF F, next, n
<1>5. \A k \in 1..n : k - 1 \in 0..n /\ g[k - 1] \in Seq(X)
  BY <1>1
<1>6. g[0] = <<>> /\ \A k \in 1..n : g[k] = next(k, g[k - 1])
  BY <1>3, <1>4, <1>5 DEF Loop
<1>7. g = step(g)
  <2>1. \A k \in 0..n : k = 0 \/ k \in 1..n
    BY <1>1
  <2> QED
    BY <1>6, <2>1
<1>8. PICK r : r = (CHOOSE f : f = step(f))
  OBVIOUS
<1>9. r = step(r) /\ Page(positions, passing, limit) = r[n]
  BY <1>7, <1>8 DEF Page, n, next
<1>10. \A k \in 0..n : r[k] = IF k = 0 THEN <<>> ELSE next(k, r[k - 1])
  <2> DEFINE q == r
  <2>1. q = step(r)
    BY <1>9
  <2> HIDE DEF q
  <2>2. \A k \in 0..n : q[k] = IF k = 0 THEN <<>> ELSE next(k, r[k - 1])
    BY <2>1
  <2> QED
    BY <2>2 DEF q
<1>11. r[0] = <<>> /\ \A k \in 1..n : r[k] = next(k, r[k - 1])
  BY <1>1, <1>10
<1>12. \A k \in 0..n : r[k] = g[k]
  <2> DEFINE S == {k \in 0..n : r[k] = g[k]}
  <2>1. S \in SUBSET (0..n) /\ 0 \in S
    BY <1>1, <1>6, <1>11
  <2>2. \A k \in 1..n : k - 1 \in S => k \in S
    BY <1>1, <1>6, <1>11
  <2> HIDE DEF S
  <2>3. S = 0..n
    BY <1>1, <2>1, <2>2, LoopsKeep
  <2> QED
    BY <2>3 DEF S
<1>13. Kept(g, positions, passing, limit)
  BY <1>6 DEF Kept, n, next
<1>14. Page(positions, passing, limit) = g[n]
  BY <1>1, <1>9, <1>12
<1> QED
  BY <1>13, <1>14 DEF n

\* What an element more does to a list.
LEMMA Appended ==
  ASSUME NEW X, NEW q \in Seq(X), NEW x \in X
  PROVE  /\ Append(q, x) \in Seq(X) /\ Len(Append(q, x)) = Len(q) + 1
         /\ Len(q) \in Nat /\ Append(q, x)[Len(q) + 1] = x
         /\ \A i \in 1..Len(q) : Append(q, x)[i] = q[i]
BY AppendProperties

\* Without a limit a page lists what passes, once.
LEMMA PagesList ==
  ASSUME NEW X, NEW positions \in Seq(X), NEW passing,
         \A i, j \in 1..Len(positions) : positions[i] = positions[j] => i = j
  PROVE  LET page == Page(positions, passing, 0)
         IN /\ page \in Seq(X)
            /\ \A i \in 1..Len(page) : page[i] \in passing
                  /\ \E k \in 1..Len(positions) : positions[k] = page[i]
            /\ \A k \in 1..Len(positions) : positions[k] \in passing
                  => \E i \in 1..Len(page) : page[i] = positions[k]
            /\ \A i, j \in 1..Len(page) : page[i] = page[j] => i = j
<1> DEFINE n == Len(positions)
           Lists(q, k) ==
             /\ \A i \in 1..Len(q) : q[i] \in passing /\ \E m \in 1..k : positions[m] = q[i]
             /\ \A m \in 1..k : positions[m] \in passing => \E i \in 1..Len(q) : q[i] = positions[m]
             /\ \A i, j \in 1..Len(q) : q[i] = q[j] => i = j
<1>1. n \in Nat /\ 0 \in Nat
  OBVIOUS
<1>2. PICK kept \in [0..n -> Seq(X)] :
         /\ Kept(kept, positions, passing, 0)
         /\ Page(positions, passing, 0) = kept[n]
  BY <1>1, PagesAreLoops
<1> DEFINE S == {k \in 0..n : Lists(kept[k], k)}
<1>3. 0 \in S
  <2>1. kept[0] = <<>> /\ Len(<<>>) = 0
    BY <1>2 DEF Kept
  <2> QED
    BY <1>1, <2>1
<1>4. ASSUME NEW k \in 1..n, k - 1 \in S PROVE k \in S
  <2> DEFINE q == kept[k - 1]
             x == positions[k]
  <2>1. q \in Seq(X) /\ x \in X /\ Lists(q, k - 1) /\ k - 1 \in Nat
    <3>1. k - 1 \in 0..n /\ Lists(q, k - 1)
      BY <1>4
    <3>2. q \in Seq(X) /\ x \in X
      BY <3>1, ElementOfSeq
    <3> QED
      BY <3>1, <3>2
  <2>2. kept[k] = IF x \in passing THEN Append(q, x) ELSE q
    <3>1. ~(0 > 0)
      OBVIOUS
    <3> QED
      BY <1>2, <3>1, Zenon DEF Kept
  <2> HIDE DEF q, x
  <2>3. \A m \in 1..k : m = k \/ m \in 1..(k - 1)
    OBVIOUS
  <2>4. \A m \in 1..(k - 1) : m \in 1..k /\ m \in 1..n /\ m # k
    BY <1>1
  <2>5. CASE x \notin passing
    <3>1. Lists(q, k)
      BY <2>1, <2>3, <2>4, <2>5 DEF x
    <3>2. kept[k] = q
      BY <2>2, <2>5
    <3>3. Lists(kept[k], k)
      BY <3>1, <3>2, Zenon
    <3> QED
      BY <1>1, <3>3
  <2>6. CASE x \in passing
    <3> DEFINE a == Append(q, x)
    <3>1. /\ Len(a) = Len(q) + 1 /\ Len(q) \in Nat /\ a[Len(q) + 1] = x
          /\ \A i \in 1..Len(q) : a[i] = q[i]
      BY <2>1, Appended
    <3> HIDE DEF a
    <3>2. \A i \in 1..Len(a) : i = Len(q) + 1 \/ i \in 1..Len(q)
      BY <3>1
    <3>3. Len(q) + 1 \in 1..Len(a) /\ \A i \in 1..Len(q) : i \in 1..Len(a)
      BY <3>1
    <3>4. \A i \in 1..Len(q) : q[i] # x
      <4> SUFFICES ASSUME NEW i \in 1..Len(q), q[i] = x PROVE FALSE
        OBVIOUS
      <4>1. PICK m \in 1..(k - 1) : positions[m] = q[i]
        BY <2>1
      <4> QED
        BY <2>4, <4>1 DEF x
    <3>5. Lists(a, k)
      <4>1. ASSUME NEW i \in 1..Len(a) PROVE a[i] \in passing /\ \E m \in 1..k : positions[m] = a[i]
        <5>1. CASE i = Len(q) + 1
          <6>1. a[i] = x /\ k \in 1..k
            BY <3>1, <5>1
          <6> QED
            BY <2>6, <6>1 DEF x
        <5>2. CASE i \in 1..Len(q)
          <6>1. a[i] = q[i] /\ q[i] \in passing
            BY <2>1, <3>1, <5>2
          <6>2. PICK m \in 1..(k - 1) : positions[m] = q[i]
            BY <2>1, <5>2
          <6> QED
            BY <2>4, <6>1, <6>2
        <5> QED
          BY <3>2, <5>1, <5>2
      <4>2. ASSUME NEW m \in 1..k, positions[m] \in passing
            PROVE  \E i \in 1..Len(a) : a[i] = positions[m]
        BY <2>1, <2>3, <3>1, <3>3, <4>2 DEF x
      <4>3. ASSUME NEW i \in 1..Len(a), NEW j \in 1..Len(a), a[i] = a[j] PROVE i = j
        BY <2>1, <3>1, <3>2, <3>4, <4>3
      <4> QED
        BY <4>1, <4>2, <4>3
    <3>6. kept[k] = a
      BY <2>2, <2>6 DEF a
    <3>7. Lists(kept[k], k)
      BY <3>5, <3>6, Zenon
    <3> QED
      BY <1>1, <3>7
  <2> QED
    BY <2>5, <2>6
<1>5. S = 0..n
  <2>1. S \in SUBSET (0..n)
    OBVIOUS
  <2> HIDE DEF S, n
  <2> QED
    BY <1>1, <1>3, <1>4, <2>1, LoopsKeep
<1>6. Lists(kept[n], n)
  BY <1>1, <1>5
<1> QED
  BY <1>1, <1>2, <1>6

\* What begins a list.
LEMMA Beginnings ==
  ASSUME NEW X, NEW s \in Seq(X), NEW t \in Seq(X), Len(s) <= Len(t),
         \A i \in 1..Len(s) : s[i] = t[i]
  PROVE  IsPrefix(s, t)
BY DEF IsPrefix

\* A limit cuts the list short.
LEMMA PagesBegin ==
  ASSUME NEW X, NEW positions \in Seq(X), NEW passing, NEW limit \in Nat
  PROVE  IsPageOf(Page(positions, passing, limit), Page(positions, passing, 0), limit)
<1> DEFINE n == Len(positions)
           Begins(q, a) ==
             /\ Len(q) <= Len(a) /\ \A i \in 1..Len(q) : q[i] = a[i]
             /\ Len(q) = limit \/ (q = a /\ (limit = 0 \/ Len(a) < limit))
<1>1. n \in Nat /\ 0 \in Nat
  OBVIOUS
<1>2. PICK kept \in [0..n -> Seq(X)] :
         /\ Kept(kept, positions, passing, limit)
         /\ Page(positions, passing, limit) = kept[n]
  BY <1>1, PagesAreLoops
<1>3. PICK all \in [0..n -> Seq(X)] :
         /\ Kept(all, positions, passing, 0)
         /\ Page(positions, passing, 0) = all[n]
  BY <1>1, PagesAreLoops
<1> DEFINE S == {k \in 0..n : Begins(kept[k], all[k])}
<1>4. CASE limit = 0
  <2>1. Begins(all[n], all[n])
    BY <1>1, <1>4
  <2> QED
    BY <1>1, <1>3, <1>4, <2>1, Beginnings DEF IsPageOf
<1>5. CASE limit > 0
  <2>1. 0 \in S
    <3>1. kept[0] = <<>> /\ all[0] = <<>> /\ Len(<<>>) = 0
      BY <1>2, <1>3 DEF Kept
    <3> QED
      BY <1>1, <1>5, <3>1
  <2>2. ASSUME NEW k \in 1..n, k - 1 \in S PROVE k \in S
    <3> DEFINE q == kept[k - 1]
               a == all[k - 1]
               x == positions[k]
    <3>1. q \in Seq(X) /\ a \in Seq(X) /\ x \in X /\ Begins(q, a)
      BY <2>2
    <3>2. all[k] = IF x \in passing THEN Append(a, x) ELSE a
      <4>1. ~(0 > 0)
        OBVIOUS
      <4> QED
        BY <1>3, <4>1, Zenon DEF Kept
    <3>3. kept[k] = IF x \in passing /\ Len(q) < limit THEN Append(q, x) ELSE q
      BY <1>2, <1>5, Zenon DEF Kept
    <3> HIDE DEF q, a, x
    <3>4. /\ Len(Append(q, x)) = Len(q) + 1 /\ Len(Append(a, x)) = Len(a) + 1
          /\ Len(q) \in Nat /\ Len(a) \in Nat
          /\ \A i \in 1..Len(a) : Append(a, x)[i] = a[i]
      BY <3>1, Appended
    <3>5. CASE x \notin passing
      BY <3>1, <3>2, <3>3, <3>5
    <3>6. CASE x \in passing /\ Len(q) < limit
      <4>1. q = a
        BY <3>1, <3>6
      <4>2. Len(Append(a, x)) = limit \/ Len(Append(a, x)) < limit
        BY <3>4, <3>6, <4>1
      <4>3. Begins(Append(a, x), Append(a, x))
        <5> HIDE DEF S
        <5> QED
          BY <3>4, <4>2
      <4>4. kept[k] = Append(a, x) /\ all[k] = Append(a, x)
        BY <3>2, <3>3, <3>6, <4>1
      <4>5. Begins(kept[k], all[k])
        BY <4>3, <4>4, Zenon
      <4> QED
        BY <1>1, <4>5
    <3>7. CASE x \in passing /\ ~(Len(q) < limit)
      <4>1. Begins(q, Append(a, x))
        <5>1. Len(q) = limit
          BY <1>5, <3>1, <3>4, <3>7
        <5>2. Len(q) <= Len(Append(a, x))
          BY <3>1, <3>4
        <5>3. ASSUME NEW i \in 1..Len(q) PROVE q[i] = Append(a, x)[i]
          <6>1. i \in 1..Len(a)
            BY <3>1, <3>4
          <6> QED
            BY <3>1, <3>4, <6>1
        <5> QED
          BY <5>1, <5>2, <5>3
      <4>2. kept[k] = q /\ all[k] = Append(a, x)
        BY <3>2, <3>3, <3>7
      <4>3. Begins(kept[k], all[k])
        BY <4>1, <4>2, Zenon
      <4> QED
        BY <1>1, <4>3
    <3> QED
      BY <3>5, <3>6, <3>7
  <2>3. S = 0..n
    <3>1. S \in SUBSET (0..n)
      OBVIOUS
    <3> HIDE DEF S, n
    <3> QED
      BY <1>1, <2>1, <2>2, <3>1, LoopsKeep
  <2>4. Begins(kept[n], all[n]) /\ kept[n] \in Seq(X) /\ all[n] \in Seq(X)
    BY <1>1, <2>3
  <2> HIDE DEF n
  <2> QED
    BY <1>2, <1>3, <2>4, Beginnings DEF IsPageOf
<1> QED
  BY <1>4, <1>5

\* In a strict order of finitely many, every place is that of one.
LEMMA PlacesAreTaken ==
  ASSUME NEW n \in Nat, NEW R,
         \A i \in 1..n : <<i, i>> \notin R,
         \A i, j, k \in 1..n : <<i, j>> \in R /\ <<j, k>> \in R => <<i, k>> \in R,
         \A i, j \in 1..n : i # j => <<i, j>> \in R \/ <<j, i>> \in R
  PROVE  LET rank(i) == Cardinality({j \in 1..n : <<j, i>> \in R})
         IN /\ \A i \in 1..n : rank(i) \in Nat
            /\ \A i, j \in 1..n : <<i, j>> \in R => rank(i) < rank(j)
            /\ \A k \in 1..n : \E i \in 1..n : rank(i) = k - 1
<1> DEFINE below(i) == {j \in 1..n : <<j, i>> \in R}
           rank(i) == Cardinality(below(i))
           f == [i \in 1..n |-> rank(i)]
<1>1. IsFiniteSet(1..n) /\ Cardinality(1..n) = n
  BY FS_Interval
<1>2. IsFiniteSet(0..(n - 1)) /\ Cardinality(0..(n - 1)) = n
  BY FS_Interval
<1>3. ASSUME NEW i \in 1..n
      PROVE  IsFiniteSet(below(i)) /\ rank(i) \in Nat /\ rank(i) < n
  <2>1. below(i) \in SUBSET (1..n) /\ i \notin below(i)
    OBVIOUS
  <2>2. below(i) # 1..n
    BY <2>1
  <2> HIDE DEF below
  <2>3. IsFiniteSet(below(i)) /\ Cardinality(below(i)) <= n /\ Cardinality(below(i)) # n
    BY <1>1, <2>1, <2>2, FS_Subset
  <2> QED
    BY <2>3, FS_CardinalityType
<1>4. ASSUME NEW i \in 1..n, NEW j \in 1..n, <<i, j>> \in R PROVE rank(i) < rank(j)
  <2>1. below(i) \in SUBSET below(j) /\ i \in below(j) /\ i \notin below(i)
    BY <1>4
  <2>2. below(i) # below(j)
    BY <2>1
  <2>3. IsFiniteSet(below(j)) /\ rank(i) \in Nat /\ rank(j) \in Nat
    BY <1>3
  <2> HIDE DEF below
  <2> QED
    BY <2>1, <2>2, <2>3, FS_Subset
<1> HIDE DEF below
<1>5. f \in [1..n -> 0..(n - 1)]
  BY <1>3
<1>6. \A i, j \in 1..n : f[i] = f[j] => i = j
  <2> SUFFICES ASSUME NEW i \in 1..n, NEW j \in 1..n, f[i] = f[j], i # j PROVE FALSE
    OBVIOUS
  <2>1. rank(i) = rank(j) /\ rank(i) \in Nat
    BY <1>3
  <2>2. rank(i) < rank(j) \/ rank(j) < rank(i)
    BY <1>4
  <2> QED
    BY <2>1, <2>2
<1>7. f \in Surjection(1..n, 0..(n - 1))
  <2> HIDE DEF f
  <2>1. f \in Injection(1..n, 0..(n - 1))
    BY <1>5, <1>6 DEF Injection, IsInjective
  <2> QED
    BY <1>1, <1>2, <2>1, FS_Injection
<1>8. ASSUME NEW k \in 1..n PROVE \E i \in 1..n : rank(i) = k - 1
  <2>1. k - 1 \in 0..(n - 1)
    OBVIOUS
  <2>2. PICK i \in 1..n : f[i] = k - 1
    BY <1>7, <2>1 DEF Surjection
  <2> QED
    BY <2>2
<1> QED
  BY <1>3, <1>4, <1>8 DEF below

\* A stable sort by a weak order leaves the same elements, in that order.
LEMMA SortedLists ==
  ASSUME NEW X, NEW s \in Seq(X), NEW less,
         \A x \in X : <<x, x>> \notin less,
         \A x, y, z \in X : <<x, y>> \in less /\ <<y, z>> \in less => <<x, z>> \in less,
         \A x, y, z \in X : <<x, z>> \in less => <<x, y>> \in less \/ <<y, z>> \in less
  PROVE  \E p \in [1..Len(s) -> 1..Len(s)] :
            /\ Sorted(s, less) = [k \in 1..Len(s) |-> s[p[k]]]
            /\ \A i \in 1..Len(s) : \E k \in 1..Len(s) : p[k] = i
            /\ \A k, l \in 1..Len(s) : k < l => p[k] # p[l] /\ <<s[p[l]], s[p[k]]>> \notin less
<1> DEFINE n == Len(s)
           R == {q \in (1..n) \X (1..n) :
                   <<s[q[1]], s[q[2]]>> \in less \/ (q[1] < q[2] /\ <<s[q[2]], s[q[1]]>> \notin less)}
           rank(i) == Cardinality(Earlier(s, less, i))
           p == [k \in 1..n |-> CHOOSE i \in 1..n : rank(i) = k - 1]
<1>1. n \in Nat /\ DOMAIN s = 1..n /\ \A i \in 1..n : s[i] \in X
  OBVIOUS
<1>2. \A i, j \in 1..n : <<i, j>> \in R <=>
         <<s[i], s[j]>> \in less \/ (i < j /\ <<s[j], s[i]>> \notin less)
  OBVIOUS
<1>3. \A i \in 1..n : Earlier(s, less, i) = {j \in 1..n : <<j, i>> \in R}
  <2> HIDE DEF R, n
  <2> QED
    BY <1>1, <1>2 DEF Earlier
<1> HIDE DEF R, n
<1> DEFINE L(i, j) == <<s[i], s[j]>> \in less
<1>4. /\ \A i \in 1..n : ~L(i, i)
      /\ \A i, j, k \in 1..n : L(i, j) /\ L(j, k) => L(i, k)
      /\ \A i, j, k \in 1..n : L(i, k) => L(i, j) \/ L(j, k)
  BY <1>1, Zenon
<1>5. \A i, j \in 1..n : <<i, j>> \in R <=> L(i, j) \/ (i < j /\ ~L(j, i))
  BY <1>2
<1> HIDE DEF L
<1>6. ASSUME NEW i \in 1..n PROVE <<i, i>> \notin R
  <2>1. ~(i < i)
    OBVIOUS
  <2> QED
    BY <1>4, <1>5, <2>1, Zenon
<1>7. ASSUME NEW i \in 1..n, NEW j \in 1..n, i # j PROVE <<i, j>> \in R \/ <<j, i>> \in R
  <2>1. i < j \/ j < i
    BY <1>7
  <2> QED
    BY <1>5, <2>1, Zenon
<1>8. ASSUME NEW i \in 1..n, NEW j \in 1..n, NEW k \in 1..n, <<i, j>> \in R, <<j, k>> \in R
      PROVE  <<i, k>> \in R
  <2>1. ~L(j, i) /\ ~L(k, j)
    BY <1>8, <1>4, <1>5, Zenon
  <2>2. ~L(k, i)
    BY <1>4, <2>1, Zenon
  <2>3. CASE L(i, k)
    BY <1>5, <2>3, Zenon
  <2>4. CASE ~L(i, k)
    <3>1. ~L(i, j) /\ ~L(j, k)
      BY <1>4, <2>1, <2>4, Zenon
    <3>2. i < j /\ j < k
      BY <1>8, <1>5, <3>1, Zenon
    <3>3. i < k
      BY <3>2
    <3> QED
      BY <1>5, <2>2, <3>3, Zenon
  <2> QED
    BY <2>3, <2>4
<1>9. /\ \A i \in 1..n : rank(i) \in Nat
      /\ \A i, j \in 1..n : <<i, j>> \in R => rank(i) < rank(j)
      /\ \A k \in 1..n : \E i \in 1..n : rank(i) = k - 1
  <2> DEFINE place(i) == Cardinality({j \in 1..n : <<j, i>> \in R})
  <2>1. \A i \in 1..n : rank(i) = place(i)
    BY <1>3
  <2>2. /\ \A i \in 1..n : place(i) \in Nat
        /\ \A i, j \in 1..n : <<i, j>> \in R => place(i) < place(j)
        /\ \A k \in 1..n : \E i \in 1..n : place(i) = k - 1
    BY <1>1, <1>6, <1>7, <1>8, PlacesAreTaken
  <2> HIDE DEF place, rank
  <2> QED
    BY <2>1, <2>2
<1> HIDE DEF rank
<1>10. \A k \in 1..n : p[k] \in 1..n /\ rank(p[k]) = k - 1
  BY <1>9
<1>11. Sorted(s, less) = [k \in 1..n |-> s[p[k]]]
  BY <1>1 DEF Sorted, rank
<1>12. p \in [1..n -> 1..n]
  BY <1>10 DEF p
<1> HIDE DEF p
<1>13. ASSUME NEW k \in 1..n, NEW l \in 1..n, k < l
       PROVE  p[k] # p[l] /\ <<s[p[l]], s[p[k]]>> \notin less
  <2>1. p[k] \in 1..n /\ p[l] \in 1..n /\ rank(p[k]) = k - 1 /\ rank(p[l]) = l - 1
    BY <1>10
  <2>2. ~(rank(p[l]) < rank(p[k])) /\ rank(p[l]) # rank(p[k])
    BY <1>1, <1>13, <2>1
  <2>3. <<p[l], p[k]>> \notin R
    BY <1>9, <2>1, <2>2
  <2> QED
    BY <1>2, <2>1, <2>2, <2>3
<1>14. ASSUME NEW i \in 1..n PROVE \E k \in 1..n : p[k] = i
  <2>1. IsFiniteSet(1..n) /\ p \in Injection(1..n, 1..n)
    <3>1. \A k, l \in 1..n : p[k] = p[l] => k = l
      <4>1. \A k, l \in 1..n : k < l \/ l < k \/ k = l
        OBVIOUS
      <4> QED
        BY <1>13, <4>1
    <3>2. IsFiniteSet(1..n) /\ DOMAIN p = 1..n
      BY <1>1, <1>12, FS_Interval
    <3> QED
      BY <1>1, <1>12, <3>1, <3>2, Zenon DEF Injection, IsInjective
  <2>2. p \in Surjection(1..n, 1..n)
    BY <2>1, FS_Injection
  <2> QED
    BY <2>2 DEF Surjection
<1> QED
  BY <1>11, <1>13, <1>14, <1>12 DEF n

\* The catalogs are lists of rows.
CatalogsOK ==
  /\ DOMAIN lines = Groups
  /\ \A g \in Groups : lines[g] = NoArray \/ lines[g] \in Seq(Line)
  /\ sites \in Seq(Site)

\* A stop is left out of a page of the nearest for one that is no farther
\* (nearestStops).
LEMMA PagesHoldTheNearest ==
  ASSUME CatalogsOK, NEW radius \in Nat, NEW limit \in Nat
  PROVE  LET page == Nearest(radius, limit)
             left == Eligible(radius) \ ToSet(page)
         IN /\ ToSet(page) \subseteq Eligible(radius)
            /\ \A i, j \in DOMAIN page : i < j => page[i] # page[j]
            /\ \A i \in ToSet(page), j \in left : sites[i].distance < sites[j].distance + 10
            /\ left # {} => Len(page) = limit
<1> DEFINE X == DOMAIN sites
           places == [i \in X |-> i]
           W == Within(radius)
           n == Len(W)
           D(i) == Rounded(sites[i].distance)
           S == Sorted(W, Nearer)
<1>1. \A i \in X : sites[i].distance \in Nat
  <2> SUFFICES ASSUME NEW i \in X PROVE sites[i].distance \in Nat
    OBVIOUS
  <2>1. sites[i] \in Site
    <3> DEFINE T == Site
    <3>1. sites \in Seq(T)
      BY DEF CatalogsOK
    <3> HIDE DEF T
    <3>2. sites[i] \in T
      BY <3>1
    <3> QED
      BY <3>2 DEF T
  <2>2. sites[i].distance \in Distances
    BY <2>1, Zenon DEF Site
  <2> QED
    BY <2>2, CatalogsAssumption
<1>2. places \in Seq(X) /\ Len(places) \in Nat /\ DOMAIN places = X
      /\ \A i \in X : places[i] = i
  <2>1. PICK N \in Nat : X = 1..N
    BY DEF CatalogsOK
  <2> HIDE DEF X
  <2>2. places \in [1..N -> X]
    BY <2>1
  <2>3. places \in Seq(X) /\ Len(places) = N
    BY <2>2
  <2> QED
    BY <2>1, <2>3
<1>3. /\ W \in Seq(X) /\ n \in Nat /\ DOMAIN W = 1..n
      /\ \A i \in 1..n : W[i] \in Eligible(radius)
      /\ \A x \in Eligible(radius) : \E i \in 1..n : W[i] = x
      /\ \A i, j \in 1..n : W[i] = W[j] => i = j
  <2> DEFINE w == Page(places, Eligible(radius), 0)
  <2>1. DOMAIN places = 1..Len(places)
    BY <1>2
  <2>2. Eligible(radius) \subseteq X
    BY DEF Eligible
  <2> HIDE DEF X, places
  <2>3. /\ w \in Seq(X)
        /\ \A i \in 1..Len(w) : w[i] \in Eligible(radius)
        /\ \A k \in 1..Len(places) : places[k] \in Eligible(radius)
              => \E i \in 1..Len(w) : w[i] = places[k]
        /\ \A i, j \in 1..Len(w) : w[i] = w[j] => i = j
    <3>1. \A i, j \in 1..Len(places) : places[i] = places[j] => i = j
      BY <1>2, <2>1
    <3> QED
      BY <1>2, <3>1, PagesList
  <2> HIDE DEF w
  <2>4. w \in Seq(X) /\ Len(w) \in Nat /\ DOMAIN w = 1..Len(w)
    BY <2>3
  <2>5. \A x \in Eligible(radius) : \E i \in 1..Len(w) : w[i] = x
    BY <1>2, <2>1, <2>2, <2>3
  <2>6. W = w
    BY DEF Within, w, places, X
  <2> QED
    BY <2>3, <2>4, <2>5, <2>6 DEF n
<1> HIDE DEF W, places, n
<1>4. \A i \in X : D(i) \in Nat
  BY <1>1 DEF Rounded
<1>5. \A i, j \in X : <<i, j>> \in Nearer <=> D(i) < D(j)
  BY DEF Nearer
<1> HIDE DEF D
<1>6. PICK p \in [1..n -> 1..n] :
         /\ S = [k \in 1..n |-> W[p[k]]]
         /\ \A i \in 1..n : \E k \in 1..n : p[k] = i
         /\ \A k, l \in 1..n : k < l => p[k] # p[l] /\ <<W[p[l]], W[p[k]]>> \notin Nearer
  <2>1. /\ \A x \in X : <<x, x>> \notin Nearer
        /\ \A x, y, z \in X : <<x, y>> \in Nearer /\ <<y, z>> \in Nearer => <<x, z>> \in Nearer
        /\ \A x, y, z \in X : <<x, z>> \in Nearer => <<x, y>> \in Nearer \/ <<y, z>> \in Nearer
    BY <1>4, <1>5
  <2> HIDE DEF S, X
  <2> QED
    BY <1>3, <2>1, SortedLists DEF S, n
<1>7. /\ S \in Seq(X) /\ Len(S) = n /\ DOMAIN S = 1..n
      /\ \A k \in 1..n : S[k] \in Eligible(radius) /\ S[k] \in X
      /\ \A x \in Eligible(radius) : \E k \in 1..n : S[k] = x
      /\ \A k, l \in 1..n : k < l => S[k] # S[l] /\ ~(D(S[l]) < D(S[k]))
  <2>1. \A k \in 1..n : p[k] \in 1..n /\ W[p[k]] \in X /\ S[k] = W[p[k]]
    BY <1>3, <1>6
  <2>2. S \in [1..n -> X]
    BY <1>6, <2>1
  <2> HIDE DEF S, X
  <2>3. S \in Seq(X) /\ Len(S) = n /\ DOMAIN S = 1..n
    BY <1>3, <2>2
  <2>4. \A k \in 1..n : S[k] \in Eligible(radius) /\ S[k] \in X
    BY <1>3, <2>1
  <2>5. ASSUME NEW x \in Eligible(radius) PROVE \E k \in 1..n : S[k] = x
    <3>1. PICK i \in 1..n : W[i] = x
      BY <1>3
    <3>2. PICK k \in 1..n : p[k] = i
      BY <1>6
    <3> QED
      BY <2>1, <3>1, <3>2
  <2>6. ASSUME NEW k \in 1..n, NEW l \in 1..n, k < l
        PROVE  S[k] # S[l] /\ ~(D(S[l]) < D(S[k]))
    <3>1. p[k] # p[l] /\ <<W[p[l]], W[p[k]]>> \notin Nearer
      BY <1>6, <2>6
    <3> QED
      BY <1>3, <1>5, <2>1, <3>1
  <2> QED
    BY <2>3, <2>4, <2>5, <2>6
<1> HIDE DEF S
<1> DEFINE page == Cut(S, limit)
<1>8. PICK m \in Nat :
         /\ Len(page) = m /\ DOMAIN page = 1..m /\ m <= n
         /\ \A k \in 1..m : page[k] = S[k]
         /\ m = n \/ m = limit
  <2>1. CASE limit > 0 /\ n > limit
    <3>1. page = SubSeq(S, 1, limit)
      BY <1>7, <2>1 DEF Cut
    <3>2. /\ Len(page) = limit /\ DOMAIN page = 1..limit
          /\ \A k \in 1..limit : page[k] = S[k]
      BY <1>7, <2>1, <3>1
    <3> QED
      BY <1>3, <2>1, <3>2
  <2>2. CASE ~(limit > 0 /\ n > limit)
    <3>1. page = S
      BY <1>7, <2>2 DEF Cut
    <3>2. Len(page) = n /\ DOMAIN page = 1..n
      BY <1>7, <3>1, Zenon
    <3>3. \A k \in 1..n : page[k] = S[k]
      BY <3>1, Zenon
    <3> HIDE DEF page
    <3> QED
      BY <1>3, <3>2, <3>3
  <2> QED
    BY <2>1, <2>2
<1>9. page = Nearest(radius, limit)
  BY DEF Nearest, S, W
<1> HIDE DEF page
<1>10. \A k \in 1..m : k \in 1..n
  BY <1>3, <1>8
<1>11. ToSet(page) \subseteq Eligible(radius)
  BY <1>7, <1>8, <1>10 DEF ToSet
<1>12. \A i, j \in DOMAIN page : i < j => page[i] # page[j]
  BY <1>7, <1>8, <1>10
<1>13. ASSUME NEW x \in Eligible(radius) \ ToSet(page)
       PROVE  \E l \in 1..n : S[l] = x /\ m < l
  <2>1. PICK l \in 1..n : S[l] = x
    BY <1>7
  <2>2. l \notin 1..m
    BY <1>8, <2>1 DEF ToSet
  <2>3. m < l
    BY <1>3, <2>2
  <2> QED
    BY <2>1, <2>3
<1>14. ASSUME NEW x \in Eligible(radius) \ ToSet(page) PROVE Len(page) = limit
  <2>1. PICK l \in 1..n : m < l
    BY <1>13
  <2>2. m # n
    BY <1>3, <2>1
  <2> QED
    BY <1>8, <2>2
<1>15. ASSUME NEW i \in ToSet(page), NEW x \in Eligible(radius) \ ToSet(page)
       PROVE  sites[i].distance < sites[x].distance + 10
  <2>1. PICK k \in 1..m : page[k] = i
    BY <1>8 DEF ToSet
  <2>2. PICK l \in 1..n : S[l] = x /\ m < l
    BY <1>13
  <2>3. k \in 1..n /\ k < l /\ S[k] = i
    BY <1>3, <1>8, <1>10, <2>1, <2>2
  <2>4. ~(D(x) < D(i)) /\ i \in X /\ x \in X
    BY <1>7, <2>2, <2>3
  <2>5. PICK a \in Nat, b \in Nat : a = sites[i].distance /\ b = sites[x].distance
    BY <1>1, <2>4
  <2>6. ~((b + 5) \div 10 < (a + 5) \div 10)
    BY <2>4, <2>5 DEF D, Rounded
  <2>7. a < b + 10
    BY <2>6
  <2> QED
    BY <2>5, <2>7
<1> QED
  BY <1>9, <1>11, <1>12, <1>14, <1>15

\* Of two ascending lists the one begins the other when it lists no more.
LEMMA AscendingBegins ==
  ASSUME NEW s \in Seq(Nat), NEW t \in Seq(Nat),
         \A i, j \in 1..Len(s) : i < j => s[i] < s[j],
         \A i, j \in 1..Len(t) : i < j => t[i] < t[j],
         \A i \in 1..Len(s) : \E j \in 1..Len(t) : t[j] = s[i],
         \A j \in 1..Len(t) : \E i \in 1..Len(s) : s[i] = t[j]
  PROVE  Len(s) <= Len(t) /\ \A k \in 1..Len(s) : s[k] = t[k]
<1>1. PICK m \in Nat, n \in Nat : m = Len(s) /\ n = Len(t)
  OBVIOUS
<1>2. (\A i \in 1..m : s[i] \in Nat) /\ (\A j \in 1..n : t[j] \in Nat)
  BY <1>1, ElementOfSeq, Zenon
<1>3. /\ \A i, j \in 1..m : i = j \/ i < j => s[i] <= s[j]
      /\ \A i, j \in 1..n : i = j \/ i < j => t[i] <= t[j]
  <2>1. /\ \A i, j \in 1..m : i < j => s[i] < s[j]
        /\ \A i, j \in 1..n : i < j => t[i] < t[j]
    BY <1>1, Zenon
  <2> QED
    BY <1>2, <2>1
<1> DEFINE Wrong == {k \in 1..m : ~(k <= n /\ s[k] = t[k])}
<1>4. Wrong = {}
  <2> SUFFICES ASSUME Wrong # {} PROVE FALSE
    OBVIOUS
  <2>1. Wrong \in SUBSET Nat
    BY <1>1
  <2>2. PICK k \in Wrong : \A c \in Wrong : k <= c
    <3> HIDE DEF Wrong
    <3> QED
      BY <2>1, LeastNumber
  <2>3. k \in 1..m /\ ~(k <= n /\ s[k] = t[k])
    OBVIOUS
  <2>4. ASSUME NEW c \in 1..m, c < k PROVE c \in 1..n /\ s[c] = t[c]
    <3>1. ~(k <= c)
      BY <2>3, <2>4
    <3>2. c <= n /\ s[c] = t[c]
      BY <2>2, <3>1
    <3> QED
      BY <1>1, <3>2
  <2>5. PICK j \in 1..n : t[j] = s[k]
    BY <1>1, <2>3
  <2>6. ~(j < k)
    <3> SUFFICES ASSUME j < k PROVE FALSE
      OBVIOUS
    <3>1. j \in 1..m
      BY <1>1, <2>3
    <3>2. s[j] = t[j] /\ s[j] < s[k] /\ s[k] \in Nat
      BY <1>1, <1>2, <2>3, <2>4, <3>1
    <3> QED
      BY <2>5, <3>2
  <2>7. k \in 1..n /\ t[k] <= t[j]
    <3>1. k \in 1..n
      BY <1>1, <2>3, <2>5, <2>6
    <3>2. k = j \/ k < j
      BY <2>6, <3>1
    <3> QED
      BY <1>3, <3>1, <3>2
  <2>8. PICK i \in 1..m : s[i] = t[k]
    BY <1>1, <2>7
  <2>9. ~(i < k)
    <3> SUFFICES ASSUME i < k PROVE FALSE
      OBVIOUS
    <3>1. i \in 1..n /\ s[i] = t[i]
      BY <2>4
    <3>2. t[i] < t[k] /\ t[k] \in Nat
      BY <1>1, <1>2, <2>7, <3>1
    <3> QED
      BY <2>8, <3>1, <3>2
  <2>10. s[k] <= s[i]
    <3>1. k = i \/ k < i
      BY <2>3, <2>9
    <3> QED
      BY <1>3, <2>3, <3>1
  <2>11. s[k] \in Nat /\ t[k] \in Nat
    BY <1>2, <2>3, <2>7
  <2>12. s[k] = t[k]
    BY <2>5, <2>7, <2>8, <2>10, <2>11
  <2> QED
    BY <2>3, <2>7, <2>12
<1>5. \A k \in 1..m : k <= n /\ s[k] = t[k]
  BY <1>4
<1>6. m <= n
  <2>1. m = 0 \/ m \in 1..m
    BY <1>1
  <2> QED
    BY <1>1, <1>5, <2>1
<1> QED
  BY <1>1, <1>5, <1>6

\* A set of numbers is listed in ascending order in one way.
LEMMA OneAscendingList ==
  ASSUME NEW s \in Seq(Nat), NEW t \in Seq(Nat),
         \A i, j \in 1..Len(s) : i < j => s[i] < s[j],
         \A i, j \in 1..Len(t) : i < j => t[i] < t[j],
         \A i \in 1..Len(s) : \E j \in 1..Len(t) : t[j] = s[i],
         \A j \in 1..Len(t) : \E i \in 1..Len(s) : s[i] = t[j]
  PROVE  s = t
<1>1. Len(s) <= Len(t) /\ \A k \in 1..Len(s) : s[k] = t[k]
  BY AscendingBegins
<1>2. Len(t) <= Len(s)
  BY AscendingBegins
<1>3. Len(s) \in Nat /\ Len(t) \in Nat
  OBVIOUS
<1> QED
  BY <1>1, <1>2, <1>3, SeqEqual

\* The keys are the groups asked for, in their order (selectGroupKeys).
LEMMA KeysAscend ==
  ASSUME CatalogsAssumption, NEW order \in Orders, NEW asked
  PROVE  LET keys == Keys(order, asked)
         IN /\ keys \in Seq(Groups)
            /\ \A i \in 1..Len(keys) : keys[i] \in Groups \cap asked
            /\ \A g \in Groups \cap asked : \E i \in 1..Len(keys) : keys[i] = g
            /\ \A i, j \in 1..Len(keys) : i < j => keys[i] < keys[j]
<1> DEFINE s == Page(order, asked, 0)
           n == Len(s)
           keys == Keys(order, asked)
           less == {p \in Groups \X Groups : p[1] < p[2]}
<1>1. order \in Seq(Groups) /\ Len(order) \in Nat /\ DOMAIN order = 1..Len(order)
  <2>1. PICK m \in Nat : m = Cardinality(Groups)
    BY FS_CardinalityType DEF CatalogsAssumption
  <2>2. order \in [1..m -> Groups]
    BY <2>1 DEF Orders
  <2> QED
    BY <2>2
<1>2. /\ \A g \in Groups : \E i \in 1..Len(order) : order[i] = g
      /\ \A i, j \in 1..Len(order) : order[i] = order[j] => i = j
  <2>1. ToSet(order) = Groups /\ \A i, j \in DOMAIN order : order[i] = order[j] => i = j
    BY DEF Orders
  <2> QED
    BY <1>1, <2>1 DEF ToSet
<1>3. /\ s \in Seq(Groups) /\ n \in Nat /\ DOMAIN s = 1..n
      /\ \A i \in 1..n : s[i] \in Groups \cap asked
      /\ \A g \in Groups \cap asked : \E i \in 1..n : s[i] = g
      /\ \A i, j \in 1..n : s[i] = s[j] => i = j
  <2>1. /\ s \in Seq(Groups)
        /\ \A i \in 1..Len(s) : s[i] \in asked
        /\ \A k \in 1..Len(order) : order[k] \in asked => \E i \in 1..Len(s) : s[i] = order[k]
        /\ \A i, j \in 1..Len(s) : s[i] = s[j] => i = j
    BY <1>1, <1>2, PagesList
  <2> HIDE DEF s
  <2>2. n \in Nat /\ DOMAIN s = 1..n /\ \A i \in 1..n : s[i] \in Groups
    BY <2>1
  <2>3. \A g \in Groups \cap asked : \E i \in 1..n : s[i] = g
    BY <1>2, <2>1
  <2> QED
    BY <2>1, <2>2, <2>3
<1> HIDE DEF s, n
<1>4. \A x, y \in Groups : x \in Nat /\ y \in Nat /\ (<<x, y>> \in less <=> x < y)
  BY DEF CatalogsAssumption
<1>5. keys = Sorted(s, less)
  BY DEF Keys, s
<1>6. PICK p \in [1..n -> 1..n] :
        /\ Sorted(s, less) = [k \in 1..n |-> s[p[k]]]
        /\ \A i \in 1..n : \E k \in 1..n : p[k] = i
        /\ \A k, l \in 1..n : k < l => p[k] # p[l] /\ <<s[p[l]], s[p[k]]>> \notin less
  <2> HIDE DEF less
  <2>1. /\ \A x \in Groups : <<x, x>> \notin less
        /\ \A x, y, z \in Groups : <<x, y>> \in less /\ <<y, z>> \in less => <<x, z>> \in less
        /\ \A x, y, z \in Groups : <<x, z>> \in less => <<x, y>> \in less \/ <<y, z>> \in less
    BY <1>4
  <2> QED
    BY <1>3, <2>1, SortedLists DEF n
<1> HIDE DEF less, keys
<1>7. \A k \in 1..n : p[k] \in 1..n /\ s[p[k]] \in Groups \cap asked /\ keys[k] = s[p[k]]
  BY <1>3, <1>5, <1>6
<1>8. keys \in Seq(Groups) /\ Len(keys) = n
  <2>1. keys \in [1..n -> Groups]
    BY <1>5, <1>6, <1>7
  <2> QED
    BY <1>3, <2>1
<1>9. \A g \in Groups \cap asked : \E k \in 1..n : keys[k] = g
  <2> SUFFICES ASSUME NEW g \in Groups \cap asked PROVE \E k \in 1..n : keys[k] = g
    OBVIOUS
  <2>1. PICK i \in 1..n : s[i] = g
    BY <1>3
  <2>2. PICK k \in 1..n : p[k] = i
    BY <1>6
  <2> QED
    BY <1>7, <2>1, <2>2
<1>10. ASSUME NEW k \in 1..n, NEW l \in 1..n, k < l PROVE keys[k] < keys[l]
  <2>1. p[k] # p[l] /\ <<s[p[l]], s[p[k]]>> \notin less
    BY <1>6, <1>10
  <2>2. s[p[k]] # s[p[l]]
    BY <1>3, <1>7, <2>1
  <2>3. ~(keys[l] < keys[k]) /\ keys[l] # keys[k] /\ keys[k] \in Nat /\ keys[l] \in Nat
    BY <1>4, <1>7, <2>1, <2>2
  <2> QED
    BY <2>3
<1> QED
  BY <1>7, <1>8, <1>9, <1>10 DEF keys

\* However the map of groups is walked, the keys are the same.
LEMMA KeysDoNotDepend ==
  ASSUME CatalogsAssumption, NEW order \in Orders, NEW other \in Orders, NEW asked
  PROVE  Keys(order, asked) = Keys(other, asked)
<1> DEFINE s == Keys(order, asked)
           t == Keys(other, asked)
<1>1. /\ s \in Seq(Groups)
      /\ \A i \in 1..Len(s) : s[i] \in Groups \cap asked
      /\ \A g \in Groups \cap asked : \E i \in 1..Len(s) : s[i] = g
      /\ \A i, j \in 1..Len(s) : i < j => s[i] < s[j]
  BY KeysAscend
<1>2. /\ t \in Seq(Groups)
      /\ \A i \in 1..Len(t) : t[i] \in Groups \cap asked
      /\ \A g \in Groups \cap asked : \E i \in 1..Len(t) : t[i] = g
      /\ \A i, j \in 1..Len(t) : i < j => t[i] < t[j]
  BY KeysAscend
<1> HIDE DEF s, t
<1>3. s \in Seq(Nat) /\ t \in Seq(Nat)
  <2> DEFINE N == Nat
  <2>1. Groups \subseteq N
    BY DEF CatalogsAssumption
  <2> HIDE DEF N
  <2>2. s \in Seq(N) /\ t \in Seq(N)
    BY <1>1, <1>2, <2>1, SeqMonotonic, Zenon
  <2> QED
    BY <2>2 DEF N
<1>4. s = t
  BY <1>1, <1>2, <1>3, OneAscendingList
<1> QED
  BY <1>4 DEF s, t

\* The positions of the lines of some groups are a list.
LEMMA PositionsAreAList ==
  ASSUME CatalogsOK, NEW keys \in Seq(Groups)
  PROVE  Positions(keys) \in Seq(Groups \X Nat)
<1> DEFINE n == Len(keys)
           X == Groups \X Nat
           next(k, q) == q \o Rows(keys[k])
           F == [k \in 1..n |-> [q \in Seq(X) |-> next(k, q)]]
           step(r) == [k \in 0..n |-> IF k = 0 THEN <<>> ELSE next(k, r[k - 1])]
<1>1. n \in Nat /\ \A k \in 1..n : keys[k] \in Groups
  BY ElementOfSeq
<1>2. \A k \in 1..n, q \in Seq(X) : next(k, q) \in Seq(X)
  <2> SUFFICES ASSUME NEW k \in 1..n, NEW q \in Seq(X) PROVE q \o Rows(keys[k]) \in Seq(X)
    OBVIOUS
  <2>1. PICK g \in Groups : g = keys[k]
    BY <1>1
  <2>2. Rows(g) \in Seq(X)
    <3>1. CASE lines[g] = NoArray
      BY <3>1 DEF Rows
    <3>2. CASE lines[g] # NoArray
      <4>1. PICK m \in Nat : DOMAIN lines[g] = 1..m
        BY <3>2 DEF CatalogsOK
      <4>2. Rows(g) = [i \in 1..m |-> <<g, i>>]
        BY <3>2, <4>1 DEF Rows
      <4>3. \A i \in 1..m : <<g, i>> \in X
        OBVIOUS
      <4>4. Rows(g) \in [1..m -> X]
        <5> HIDE DEF X
        <5> QED
          BY <4>2, <4>3
      <4> HIDE DEF X
      <4> QED
        BY <4>4
    <3> QED
      BY <3>1, <3>2
  <2> HIDE DEF X
  <2> QED
    BY <2>1, <2>2, ConcatProperties
<1>3. F \in [1..n -> [Seq(X) -> Seq(X)]] /\ \A k \in 1..n, q \in Seq(X) : F[k][q] = next(k, q)
  <2> HIDE DEF next, X
  <2> QED
    BY <1>2
<1>4. PICK g \in [0..n -> Seq(X)] : Loop(g, n, <<>>, F)
  <2> DEFINE Lists == Seq(X)
             empty == <<>>
  <2>1. empty \in Lists /\ F \in [1..n -> [Lists -> Lists]]
    BY <1>3, EmptySeq
  <2> HIDE DEF F, n, Lists, empty
  <2>2. \E g \in [0..n -> Lists] : Loop(g, n, empty, F)
    BY <1>1, <2>1, LoopsRun
  <2> QED
    BY <2>2 DEF Lists, empty
<1> HIDE DEF F, next, n, X
<1>5. \A k \in 1..n : k - 1 \in 0..n /\ g[k - 1] \in Seq(X)
  BY <1>1
<1>6. g[0] = <<>> /\ \A k \in 1..n : g[k] = next(k, g[k - 1])
  BY <1>3, <1>4, <1>5 DEF Loop
<1>7. g = step(g)
  <2>1. \A k \in 0..n : k = 0 \/ k \in 1..n
    BY <1>1
  <2> QED
    BY <1>6, <2>1
<1>8. PICK r : r = (CHOOSE f : f = step(f))
  OBVIOUS
<1>9. r = step(r) /\ Positions(keys) = r[n]
  BY <1>7, <1>8 DEF Positions, n, next
<1>10. \A k \in 0..n : r[k] = IF k = 0 THEN <<>> ELSE next(k, r[k - 1])
  <2> DEFINE q == r
  <2>1. q = step(r)
    BY <1>9
  <2> HIDE DEF q
  <2>2. \A k \in 0..n : q[k] = IF k = 0 THEN <<>> ELSE next(k, r[k - 1])
    BY <2>1
  <2> QED
    BY <2>2 DEF q
<1>11. r[0] = <<>> /\ \A k \in 1..n : r[k] = next(k, r[k - 1])
  BY <1>1, <1>10
<1>12. \A k \in 0..n : r[k] = g[k]
  <2> DEFINE S == {k \in 0..n : r[k] = g[k]}
  <2>1. S \in SUBSET (0..n) /\ 0 \in S
    BY <1>1, <1>6, <1>11
  <2>2. \A k \in 1..n : k - 1 \in S => k \in S
    BY <1>1, <1>6, <1>11
  <2> HIDE DEF S
  <2>3. S = 0..n
    BY <1>1, <2>1, <2>2, LoopsKeep
  <2> QED
    BY <2>3 DEF S
<1>13. r[n] \in Seq(X)
  BY <1>1, <1>12
<1> QED
  BY <1>9, <1>13 DEF X

\* A limit cuts the pages of lines and of names short, and nothing else
\* moves a row (flattenAndFilterLines, filterByName).
LEMMA PagesAreCut ==
  ASSUME CatalogsOK, CatalogsAssumption
  PROVE  PagesArePrefixes
<1>1. ASSUME NEW limit \in Limits, NEW filtered \in BOOLEAN
      PROVE  IsPageOf(NamesPage(filtered, limit), NamesPage(filtered, 0), limit)
  <2> DEFINE places == [i \in DOMAIN sites |-> i]
             passing == {i \in DOMAIN sites : filtered => sites[i].readable /\ sites[i].passes}
  <2>1. places \in Seq(Nat)
    <3>1. PICK N \in Nat : DOMAIN sites = 1..N
      BY DEF CatalogsOK
    <3>2. places \in [1..N -> Nat]
      BY <3>1
    <3> HIDE DEF places
    <3> QED
      BY <3>2
  <2>2. limit \in Nat
    BY DEF CatalogsAssumption
  <2>3. /\ NamesPage(filtered, limit) = Page(places, passing, limit)
        /\ NamesPage(filtered, 0) = Page(places, passing, 0)
    BY DEF NamesPage
  <2> HIDE DEF places, passing
  <2>4. IsPageOf(Page(places, passing, limit), Page(places, passing, 0), limit)
    BY <2>1, <2>2, PagesBegin
  <2> QED
    BY <2>3, <2>4
<1>2. ASSUME NEW limit \in Limits, NEW filtered \in BOOLEAN, NEW asked,
             NEW order \in Orders, NEW other \in Orders
      PROVE  IsPageOf(LinesPage(order, asked, filtered, limit),
                      LinesPage(other, asked, filtered, 0), limit)
  <2> DEFINE positions == Positions(Keys(order, asked))
             passing == {p \in ToSet(positions) : LineMatches(p, filtered)}
  <2>1. positions \in Seq(Groups \X Nat)
    <3>1. Keys(order, asked) \in Seq(Groups)
      BY KeysAscend
    <3> QED
      BY <3>1, PositionsAreAList
  <2>2. limit \in Nat
    BY DEF CatalogsAssumption
  <2>3. Keys(other, asked) = Keys(order, asked)
    BY KeysDoNotDepend
  <2>4. /\ LinesPage(order, asked, filtered, limit) = Page(positions, passing, limit)
        /\ LinesPage(other, asked, filtered, 0) = Page(positions, passing, 0)
    BY <2>3 DEF LinesPage
  <2> HIDE DEF positions, passing
  <2>5. IsPageOf(Page(positions, passing, limit), Page(positions, passing, 0), limit)
    BY <2>1, <2>2, PagesBegin
  <2> QED
    BY <2>4, <2>5
<1> QED
  BY <1>1, <1>2 DEF PagesArePrefixes

\* The nearest are on the page (nearestStops).
LEMMA NearestAreShown ==
  ASSUME CatalogsOK, CatalogsAssumption
  PROVE  NearestAreNearest
<1> SUFFICES ASSUME NEW radius \in Distances, NEW limit \in Limits
             PROVE  LET page == Nearest(radius, limit)
                        left == Eligible(radius) \ ToSet(page)
                    IN /\ ToSet(page) \subseteq Eligible(radius)
                       /\ \A i, j \in DOMAIN page : i < j => page[i] # page[j]
                       /\ \A i \in ToSet(page), j \in left :
                             sites[i].distance < sites[j].distance + 10
                       /\ left # {} => Len(page) = limit
  BY DEF NearestAreNearest
<1>1. radius \in Nat /\ limit \in Nat
  BY DEF CatalogsAssumption
<1> QED
  BY <1>1, PagesHoldTheNearest

-----------------------------------------------------------------------------
\* What the decoders can make of the replies and of the id.
RepliesOK == TypeOK /\ MessagesOK /\ SiteOK /\ CatalogsOK

\* The number asked about is one of those considered, or none.
LEMMA SitesAreNumbers ==
  /\ SiteInit => SiteOK
  /\ \A n \in SiteNumbers : IsAsked(n) => SiteOK'
<1>1. 0 \in Nat /\ 0 < 10^5
  BY Powers
<1> QED
  BY <1>1, SiteIdsAssumption DEF SiteInit, SiteOK, IsAsked

\* Whatever the catalogs list, they list rows.
LEMMA CatalogsAreRows ==
  /\ CatalogsInit => CatalogsOK
  /\ CatalogsOK => \A g \in Groups :
        (BreaksGroup(g) \/ \E row \in Line : ListsLine(g, row)) => CatalogsOK'
  /\ CatalogsOK => \A row \in Site : ListsSite(row) => CatalogsOK'
<1>1. CatalogsInit => CatalogsOK
  BY DEF CatalogsInit, CatalogsOK
<1>2. ASSUME CatalogsOK, NEW g \in Groups, BreaksGroup(g) PROVE CatalogsOK'
  BY <1>2 DEF BreaksGroup, CatalogsOK
<1>3. ASSUME CatalogsOK, NEW g \in Groups, NEW row \in Line, ListsLine(g, row) PROVE CatalogsOK'
  <2> DEFINE Rowed == Seq(Line)
  <2>1. lines[g] \in Rowed /\ lines' = [lines EXCEPT ![g] = Append(lines[g], row)] /\ sites' = sites
    BY <1>3 DEF ListsLine, CatalogsOK
  <2>2. Append(lines[g], row) \in Rowed
    BY <2>1, AppendProperties
  <2>3. /\ DOMAIN lines' = Groups
        /\ \A h \in Groups : lines'[h] = IF h = g THEN Append(lines[g], row) ELSE lines[h]
    <3>1. DOMAIN lines = Groups
      BY <1>3 DEF CatalogsOK
    <3> DEFINE longer == Append(lines[g], row)
    <3>2. lines' = [lines EXCEPT ![g] = longer]
      BY <2>1
    <3> HIDE DEF longer
    <3>3. \A h \in Groups : lines'[h] = IF h = g THEN longer ELSE lines[h]
      BY <3>1, <3>2
    <3> QED
      BY <3>1, <3>2, <3>3 DEF longer
  <2> HIDE DEF Rowed
  <2>4. \A h \in Groups : lines'[h] = NoArray \/ lines'[h] \in Rowed
    <3>1. \A h \in Groups : lines[h] = NoArray \/ lines[h] \in Rowed
      BY <1>3, Zenon DEF CatalogsOK, Rowed
    <3> QED
      BY <2>2, <2>3, <3>1
  <2> QED
    BY <1>3, <2>1, <2>3, <2>4, Zenon DEF CatalogsOK, Rowed
<1>4. ASSUME CatalogsOK, NEW row \in Site, ListsSite(row) PROVE CatalogsOK'
  <2> DEFINE T == Site
  <2>1. sites \in Seq(T) /\ row \in T /\ sites' = Append(sites, row) /\ lines' = lines
    BY <1>4 DEF ListsSite, CatalogsOK
  <2> HIDE DEF T
  <2>2. sites' \in Seq(T)
    BY <2>1, AppendProperties
  <2> QED
    BY <1>4, <2>1, <2>2, Zenon DEF CatalogsOK, T
<1> QED
  BY <1>1, <1>2, <1>3, <1>4

\* Replies, notices, ids and catalogs stay what the decoders can make of them
\* (the inductive invariant of RepliesSpec).
LEMMA RepliesAreOfTheirTypes == RepliesSpec => []RepliesOK
<1>1. RepliesInit => RepliesOK
  <2>1. Init => TypeOK
    BY StopFinderAssumption DEF Init, TypeOK
  <2>2. DeviationsInit => MessagesOK
    BY DEF DeviationsInit, MessagesOK
  <2> QED
    BY <2>1, <2>2, SitesAreNumbers, CatalogsAreRows DEF RepliesInit, RepliesOK
<1>2. RepliesOK /\ [RepliesNext]_replies => RepliesOK'
  <2> SUFFICES ASSUME RepliesOK, [RepliesNext]_replies PROVE RepliesOK'
    OBVIOUS
  <2>1. /\ UNCHANGED reply => TypeOK'
        /\ UNCHANGED messages => MessagesOK'
        /\ UNCHANGED site => SiteOK'
        /\ UNCHANGED <<lines, sites>> => CatalogsOK'
    BY DEF RepliesOK, TypeOK, MessagesOK, SiteOK, CatalogsOK
  <2>2. CASE Next /\ UNCHANGED <<messages, site, lines, sites>>
    <3>1. PICK loc \in Location : Locates(loc)
      BY <2>2 DEF Next
    <3>2. reply \in Seq(Location) /\ Len(reply) < MaxLocations /\ reply' = Append(reply, loc)
      BY <3>1 DEF RepliesOK, TypeOK, Locates
    <3>3. TypeOK'
      <4> DEFINE T == Location
      <4>1. reply \in Seq(T) /\ loc \in T
        BY <3>1, <3>2
      <4> HIDE DEF T
      <4>2. reply' \in Seq(T) /\ Len(reply') = Len(reply) + 1 /\ Len(reply) \in Nat
        BY <3>2, <4>1, AppendProperties
      <4>3. Len(reply') <= MaxLocations
        BY <3>2, <4>2, StopFinderAssumption
      <4> QED
        BY <4>2, <4>3, Zenon DEF TypeOK, T
    <3> QED
      BY <2>1, <2>2, <3>3 DEF RepliesOK
  <2>3. CASE DeviationsNext /\ UNCHANGED <<reply, site, lines, sites>>
    <3>1. MessagesOK'
      BY <2>3, EntriesAssumption DEF RepliesOK, MessagesOK, DeviationsNext, Publishes
    <3> QED
      BY <2>1, <2>3, <3>1 DEF RepliesOK
  <2>4. CASE (\E n \in SiteNumbers : IsAsked(n)) /\ UNCHANGED <<reply, messages, lines, sites>>
    BY <2>1, <2>4, SitesAreNumbers DEF RepliesOK
  <2>5. CASE /\ \E g \in Groups : BreaksGroup(g) \/ \E row \in Line : ListsLine(g, row)
             /\ UNCHANGED <<reply, messages, site>>
    BY <2>1, <2>5, CatalogsAreRows DEF RepliesOK
  <2>6. CASE (\E row \in Site : ListsSite(row)) /\ UNCHANGED <<reply, messages, site>>
    BY <2>1, <2>6, CatalogsAreRows DEF RepliesOK
  <2>7. CASE UNCHANGED replies
    BY <2>1, <2>7 DEF replies, RepliesOK
  <2> QED
    BY <2>2, <2>3, <2>4, <2>5, <2>6, <2>7 DEF RepliesNext
<1> QED
  BY <1>1, <1>2, PTL DEF RepliesSpec

\* Put together, the replies are still those of the stop finder and those of
\* the deviations, so that what holds of each alone holds of them here.
THEOREM PartsKeepToThemselves == RepliesSpec => Spec /\ DeviationsSpec
<1>1. RepliesInit => Init /\ DeviationsInit
  BY DEF RepliesInit
<1>2. [RepliesNext]_replies => [Next]_reply /\ [DeviationsNext]_messages
  BY DEF RepliesNext, replies
<1> QED
  BY <1>1, <1>2, PTL DEF RepliesSpec, Spec, DeviationsSpec

\* Every spelling of a site is that site to every tool, and the numbers that
\* a double loses are refused (normalizeSiteID, coerceSiteIDArg, siteIDToGID).
THEOREM SpellingsAreOneSite == RepliesSpec => []SpellingsAgree
<1>1. RepliesOK => SpellingsAgree
  BY SitesAgree DEF RepliesOK
<1> QED
  BY <1>1, RepliesAreOfTheirTypes, PTL

\* The number of a stop area is never echoed as a site's
\* (resolvedFromStopEvent, siteIDFromStopFinderEntry).
THEOREM EchoesNameSites == RepliesSpec => []EchoNamesSitesOnly
<1>1. RepliesOK => EchoNamesSitesOnly
  BY EchoesAreSites DEF RepliesOK
<1> QED
  BY <1>1, RepliesAreOfTheirTypes, PTL

\* A page of lines or of names is the beginning of the whole list, whatever
\* order the groups are met in (flattenAndFilterLines, filterByName).
THEOREM PagesBeginTheList == RepliesSpec => []PagesArePrefixes
<1>1. RepliesOK => PagesArePrefixes
  BY PagesAreCut, CatalogsAssumption DEF RepliesOK
<1> QED
  BY <1>1, RepliesAreOfTheirTypes, PTL

\* A page of stops holds the nearest of those in the radius (nearestStops).
THEOREM NearestFillThePage == RepliesSpec => []NearestAreNearest
<1>1. RepliesOK => NearestAreNearest
  BY NearestAreShown, CatalogsAssumption DEF RepliesOK
<1> QED
  BY <1>1, RepliesAreOfTheirTypes, PTL
=============================================================================
