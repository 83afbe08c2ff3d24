---------------------------- MODULE SiteIdsProofs ----------------------------
(***************************************************************************)
(* Proofs, for every number that could be a site's, that all its spellings *)
(* are that site to every tool and that no other number is passed off as   *)
(* one.  The first part is about loops: the digits of an id are read, and  *)
(* the rows of a page collected, one by one.                               *)
(***************************************************************************)
EXTENDS SiteIds, SequenceTheorems, WellFoundedInduction, TLAPS

\* A set of numbers has a least.
LEMMA LeastNumber ==
  ASSUME NEW S \in SUBSET Nat, S # {}
  PROVE  \E least \in S : \A c \in S : least <= c
<1>1. PICK least \in S : \A c \in S : ~(<<c, least>> \in OpToRel(<, Nat))
  BY NatLessThanWellFounded, WFMin
<1>2. \A c \in S : ~(c < least)
  BY <1>1 DEF OpToRel
<1> QED
  BY <1>2

\* A loop over 1..n, of a state that starts as x0 and that pass k maps by F[k].
Loop(g, n, x0, F) == g[0] = x0 /\ \A k \in 1..n : g[k] = F[k][g[k - 1]]

\* Its states exist.
LEMMA LoopsRun ==
  ASSUME NEW X, NEW x0 \in X, NEW n \in Nat, NEW F \in [1..n -> [X -> X]]
  PROVE  \E g \in [0..n -> X] : Loop(g, n, x0, F)
<1> DEFINE Upto(m) == \E g \in [0..m -> X] : Loop(g, m, x0, F)
           Stuck == {m \in 0..n : ~Upto(m)}
<1> SUFFICES ASSUME ~Upto(n) PROVE FALSE
  OBVIOUS
<1>1. PICK least \in Stuck : \A c \in Stuck : least <= c
  <2>1. n \in Stuck /\ Stuck \in SUBSET Nat
    OBVIOUS
  <2> HIDE DEF Stuck
  <2> QED
    BY <2>1, LeastNumber
<1>2. least \in 0..n /\ ~Upto(least)
  OBVIOUS
<1>3. least # 0
  <2>1. Upto(0)
    <3> DEFINE g == [k \in 0..0 |-> x0]
    <3>1. g \in [0..0 -> X] /\ Loop(g, 0, x0, F)
      BY DEF Loop
    <3> HIDE DEF g
    <3> QED
      BY <3>1
  <2> QED
    BY <2>1, <1>2
<1>4. least - 1 \in 0..n /\ least - 1 < least /\ least \in 1..n
  BY <1>2, <1>3
<1>5. Upto(least - 1)
  <2>1. least - 1 \notin Stuck
    <3> HIDE DEF Stuck
    <3> QED
      BY <1>1, <1>4
  <2> QED
    BY <2>1, <1>4
<1>6. PICK g \in [0..(least - 1) -> X] : Loop(g, least - 1, x0, F)
  BY <1>5
<1> HIDE DEF Upto, Stuck
<1> DEFINE y == F[least][g[least - 1]]
           h == [k \in 0..least |-> IF k = least THEN y ELSE g[k]]
<1>7. g[least - 1] \in X /\ y \in X
  BY <1>4
<1>8. h \in [0..least -> X] /\ h[0] = x0
  <2> HIDE DEF y
  <2> QED
    BY <1>4, <1>6, <1>7 DEF Loop
<1>9. \A k \in 0..(least - 1) : h[k] = g[k]
  BY <1>4
<1>10. h[least] = y
  BY <1>4
<1> HIDE DEF h
<1>11. ASSUME NEW k \in 1..least PROVE h[k] = F[k][h[k - 1]]
  <2>1. h[k - 1] = g[k - 1]
    BY <1>4, <1>9
  <2>2. CASE k = least
    BY <1>10, <2>1, <2>2
  <2>3. CASE k # least
    BY <1>4, <1>6, <1>9, <2>1, <2>3 DEF Loop
  <2> QED
    BY <2>2, <2>3
<1>12. Upto(least)
  BY <1>8, <1>11 DEF Upto, Loop
<1> QED
  BY <1>2, <1>12

\* A loop keeps to what its passes map to itself.
LEMMA LoopsKeep ==
  ASSUME NEW n \in Nat, NEW S \in SUBSET (0..n), 0 \in S, \A k \in 1..n : k - 1 \in S => k \in S
  PROVE  S = 0..n
<1> DEFINE Rest == (0..n) \ S
<1> SUFFICES ASSUME Rest # {} PROVE FALSE
  OBVIOUS
<1>1. Rest \in SUBSET Nat
  OBVIOUS
<1>2. PICK least \in Rest : \A c \in Rest : least <= c
  <2> HIDE DEF Rest
  <2> QED
    BY <1>1, LeastNumber
<1>3. least \in 1..n /\ least - 1 \in 0..n /\ ~(least <= least - 1)
  OBVIOUS
<1>4. least - 1 \in S
  BY <1>2, <1>3
<1> QED
  BY <1>3, <1>4

-----------------------------------------------------------------------------
\* The value of digits is read one by one (tailToInt).
LEMMA ValueReads ==
  ASSUME NEW n \in Nat, NEW s \in [1..n -> Nat]
  PROVE  \E r : /\ r[0] = 0 /\ \A k \in 1..n : r[k] = 10 * r[k - 1] + s[k]
                /\ Value(s) = r[n]
<1> DEFINE F == [k \in 1..n |-> [x \in Nat |-> 10 * x + s[k]]]
           step(r) == [i \in 0..n |-> IF i = 0 THEN 0 ELSE 10 * r[i - 1] + s[i]]
<1>1. F \in [1..n -> [Nat -> Nat]]
  OBVIOUS
<1>2. \A k \in 1..n, x \in Nat : F[k][x] = 10 * x + s[k]
  OBVIOUS
<1>3. PICK g \in [0..n -> Nat] : Loop(g, n, 0, F)
  <2> HIDE DEF F
  <2> QED
    BY <1>1, LoopsRun
<1> HIDE DEF F
<1>4. \A k \in 1..n : k - 1 \in 0..n /\ g[k - 1] \in Nat
  OBVIOUS
<1>5. \A k \in 1..n : g[k] = 10 * g[k - 1] + s[k]
  BY <1>2, <1>3, <1>4 DEF Loop
<1>6. g = step(g)
  BY <1>3, <1>5 DEF Loop
<1>7. PICK r : r = (CHOOSE f : f = step(f))
  OBVIOUS
<1>8. r = step(r) /\ Value(s) = r[n]
  <2>1. Len(s) = n
    OBVIOUS
  <2> QED
    BY <1>6, <1>7, <2>1 DEF Value
<1>9. \A i \in 0..n : r[i] = IF i = 0 THEN 0 ELSE 10 * r[i - 1] + s[i]
  <2> DEFINE q == r
  <2>1. q = step(r)
    BY <1>8
  <2> HIDE DEF q
  <2>2. \A i \in 0..n : q[i] = IF i = 0 THEN 0 ELSE 10 * r[i - 1] + s[i]
    BY <2>1
  <2> QED
    BY <2>2 DEF q
<1>10. r[0] = 0 /\ \A k \in 1..n : r[k] = 10 * r[k - 1] + s[k]
  BY <1>9
<1> QED
  BY <1>8, <1>10

\* The decimal places.
LEMMA Powers ==
  /\ 10^0 = 1 /\ 10^1 = 10 /\ 10^2 = 100 /\ 10^3 = 1000
  /\ 10^4 = 10000 /\ 10^5 = 100000 /\ 10^6 = 1000000
OBVIOUS

\* A number is ten times what goes before its last digit, and that digit.
LEMMA LastDigit ==
  ASSUME NEW n \in Nat
  PROVE  n = 10 * (n \div 10) + (n % 10) /\ n % 10 \in 0..9 /\ n \div 10 \in Nat
<1>1. n % 10 \in 0..9
  OBVIOUS
<1>2. n = 10 * (n \div 10) + (n % 10)
  OBVIOUS
<1>3. n \div 10 \in Nat
  OBVIOUS
<1> QED
  BY <1>1, <1>2, <1>3

\* A number without its last digits, and the digit that goes next.
LEMMA DigitsGoOneByOne ==
  ASSUME NEW n \in Nat, NEW j \in 0..5
  PROVE  /\ n \div 10^j \in Nat /\ n \div 10^(j + 1) \in Nat
         /\ n \div 10^j = 10 * (n \div 10^(j + 1)) + ((n \div 10^j) % 10)
<1>1. /\ (n \div 10) \div 10 = n \div 100 /\ (n \div 100) \div 10 = n \div 1000
      /\ (n \div 1000) \div 10 = n \div 10000 /\ (n \div 10000) \div 10 = n \div 100000
      /\ (n \div 100000) \div 10 = n \div 1000000
  OBVIOUS
<1>2. /\ n \div 10 \in Nat /\ n \div 100 \in Nat /\ n \div 1000 \in Nat
      /\ n \div 10000 \in Nat /\ n \div 100000 \in Nat /\ n \div 1000000 \in Nat
  OBVIOUS
<1>3. n \div 10^j \in Nat /\ n \div 10^(j + 1) = (n \div 10^j) \div 10
  <2>1. CASE j = 0
    BY <1>2, <2>1, Powers
  <2>2. CASE j = 1
    BY <1>1, <1>2, <2>2, Powers
  <2>3. CASE j = 2
    BY <1>1, <1>2, <2>3, Powers
  <2>4. CASE j = 3
    BY <1>1, <1>2, <2>4, Powers
  <2>5. CASE j = 4
    BY <1>1, <1>2, <2>5, Powers
  <2>6. CASE j = 5
    BY <1>1, <1>2, <2>6, Powers
  <2> QED
    BY <2>1, <2>2, <2>3, <2>4, <2>5, <2>6
<1> QED
  BY <1>3, LastDigit

\* A numeral is a list of digits.
LEMMA NumeralsAreDigits ==
  ASSUME NEW n \in Nat, NEW w \in Nat, w >= 1, w <= 6
  PROVE  Numeral(n, w) \in [1..w -> Nat]
<1>1. ASSUME NEW i \in 1..w PROVE (n \div 10^(w - i)) % 10 \in Nat
  <2>1. w - i \in 0..5
    OBVIOUS
  <2>2. n \div 10^(w - i) \in Nat
    BY <2>1, DigitsGoOneByOne
  <2> QED
    BY <2>2, LastDigit
<1> QED
  BY <1>1 DEF Numeral

\* Written wide enough, it is read as the number it was written for.
LEMMA NumeralsAreRead ==
  ASSUME NEW n \in Nat, NEW w \in Nat, w >= 1, w <= 6, n < 10^w
  PROVE  Value(Numeral(n, w)) = n
<1> DEFINE s == Numeral(n, w)
           D == [j \in 0..6 |-> n \div 10^j]
<1>1. s \in [1..w -> Nat]
  BY NumeralsAreDigits
<1>2. \A k \in 1..w : s[k] = D[w - k] % 10
  BY DEF Numeral
<1>3. ASSUME NEW j \in 0..5 PROVE D[j] = 10 * D[j + 1] + (D[j] % 10)
  <2>1. D[j] = n \div 10^j /\ D[j + 1] = n \div 10^(j + 1)
    OBVIOUS
  <2> QED
    BY <2>1, DigitsGoOneByOne
<1>4. D \in [0..6 -> Nat]
  <2>1. 10^6 # 0 /\ \A j \in 0..5 : n \div 10^j \in Nat
    BY Powers, DigitsGoOneByOne
  <2>2. n \div 10^6 \in Nat
    BY Powers
  <2>3. \A j \in 0..6 : j = 6 \/ j \in 0..5
    OBVIOUS
  <2> QED
    BY <2>1, <2>2, <2>3
<1>5. D[0] = n
  BY Powers
<1>6. D[w] = 0
  <2>1. w \in {1, 2, 3, 4, 5, 6}
    OBVIOUS
  <2>2. \A m \in {1, 2, 3, 4, 5, 6} : n < 10^m => n \div 10^m = 0
    BY Powers
  <2> QED
    BY <2>1, <2>2
<1> HIDE DEF s, D
<1>7. PICK r : /\ r[0] = 0 /\ \A k \in 1..w : r[k] = 10 * r[k - 1] + s[k]
               /\ Value(s) = r[w]
  BY <1>1, ValueReads
<1>8. ASSUME NEW k \in 1..w, r[k - 1] = D[w - (k - 1)] PROVE r[k] = D[w - k]
  <2>1. w - k \in 0..5 /\ w - (k - 1) = (w - k) + 1
    OBVIOUS
  <2>2. D[w - k] = 10 * D[(w - k) + 1] + (D[w - k] % 10)
    BY <1>3, <2>1
  <2>3. D[w - k] \in Nat
    <3>1. w - k \in 0..6
      BY <2>1
    <3> QED
      BY <1>4, <3>1
  <2>4. s[k] = D[w - k] % 10 /\ r[k - 1] = D[(w - k) + 1]
    BY <1>2, <1>8, <2>1
  <2>5. r[k] = 10 * r[k - 1] + s[k]
    BY <1>7
  <2> QED
    BY <2>2, <2>4, <2>5, <2>3
<1>9. r[0] = D[w - 0]
  BY <1>6, <1>7
<1>10. r[w] = D[w - w]
  <2>1. r[1] = D[w - 1]
    BY <1>8, <1>9
  <2>2. w >= 2 => r[2] = D[w - 2]
    BY <1>8, <2>1
  <2>3. w >= 3 => r[3] = D[w - 3]
    BY <1>8, <2>2
  <2>4. w >= 4 => r[4] = D[w - 4]
    BY <1>8, <2>3
  <2>5. w >= 5 => r[5] = D[w - 5]
    BY <1>8, <2>4
  <2>6. w >= 6 => r[6] = D[w - 6]
    BY <1>8, <2>5
  <2> QED
    BY <2>1, <2>2, <2>3, <2>4, <2>5, <2>6
<1> QED
  BY <1>5, <1>7, <1>10 DEF s

\* The parts of an id that is put together of two.
LEMMA PartsOfAnId ==
  ASSUME NEW h \in Seq(Nat), NEW t \in Seq(Nat), Len(h) > 0, Len(t) > 0
  PROVE  /\ h \o t \in Seq(Nat) /\ Len(h \o t) = Len(h) + Len(t)
         /\ SubSeq(h \o t, 1, Len(h)) = h /\ IsPrefix(h, h \o t)
         /\ SubSeq(h \o t, Len(h) + 1, Len(h) + Len(t)) = t
         /\ \A i \in 1..Len(h) : (h \o t)[i] = h[i]
<1>1. /\ Len(h \o t) = Len(h) + Len(t) /\ h \o t \in Seq(Nat)
      /\ \A i \in 1..Len(h) : (h \o t)[i] = h[i]
  BY ConcatProperties
<1>2. SubSeq(h \o t, Len(h) + 1, Len(h) + Len(t)) = t
  <2>1. /\ Len(h) + 1 \in (Len(h) + 1)..(Len(h) + Len(t))
        /\ Len(h) + Len(t) \in (Len(h) + 1)..(Len(h) + Len(t))
    OBVIOUS
  <2>2. SubSeq(h \o t, Len(h) + 1, Len(h) + Len(t))
          = SubSeq(t, (Len(h) + 1) - Len(h), (Len(h) + Len(t)) - Len(h))
    BY <2>1, SubSeqOfConcat2
  <2>3. (Len(h) + 1) - Len(h) = 1 /\ (Len(h) + Len(t)) - Len(h) = Len(t)
    OBVIOUS
  <2> QED
    BY <2>2, <2>3, SubSeqFull
<1>3. SubSeq(h, 1, Len(h)) = h
  BY SubSeqFull
<1>4. SubSeq(h \o t, 1, Len(h)) = SubSeq(h, 1, Len(h))
  BY SubSeqOfConcat1
<1>5. IsPrefix(h, h \o t)
  BY <1>1, <1>4 DEF IsPrefix
<1> QED
  BY <1>1, <1>2, <1>3, <1>4, <1>5

\* A numeral is a sequence of digits that stands for the number.
LEMMA NumeralsInIds ==
  ASSUME NEW n \in Nat, NEW w \in Nat, w >= 1, w <= 6, n < 10^w
  PROVE  Numeral(n, w) \in Seq(Nat) /\ Len(Numeral(n, w)) = w /\ Value(Numeral(n, w)) = n
<1>1. Numeral(n, w) \in [1..w -> Nat]
  BY NumeralsAreDigits
<1> QED
  BY <1>1, NumeralsAreRead

\* A stop id, 180 and five digits, is read as the site (siteIDTo180, extractShort).
LEMMA StopIdsAreSites ==
  ASSUME NEW n \in Nat, n < 10^5
  PROVE  Extract(StopId(n)) = n /\ Len(StopId(n)) = 8
<1> DEFINE h == <<1, 8, 0>>
           t == Numeral(n, 5)
<1>1. t \in Seq(Nat) /\ Len(t) = 5 /\ Value(t) = n
  <2>1. 5 \in Nat /\ 5 >= 1 /\ 5 <= 6
    OBVIOUS
  <2> QED
    BY <2>1, NumeralsInIds, Zenon
<1>2. h \in Seq(Nat) /\ Len(h) = 3
  OBVIOUS
<1> HIDE DEF h, t
<1>3. /\ Len(h \o t) = Len(h) + Len(t) /\ IsPrefix(h, h \o t)
      /\ SubSeq(h \o t, Len(h) + 1, Len(h) + Len(t)) = t
  <2>1. Len(h) > 0 /\ Len(t) > 0
    BY <1>1, <1>2
  <2> QED
    BY <1>1, <1>2, <2>1, PartsOfAnId, Zenon
<1>4. Len(h \o t) = 8 /\ Tail5(h \o t) = t
  <2>1. Len(h \o t) - 4 = Len(h) + 1 /\ Len(h \o t) = 8
    BY <1>1, <1>2, <1>3
  <2>2. Tail5(h \o t) = SubSeq(h \o t, Len(h) + 1, Len(h) + Len(t))
    BY <1>3, <2>1, Zenon DEF Tail5
  <2> QED
    BY <1>3, <2>1, <2>2
<1>5. StopId(n) = h \o t
  BY DEF StopId, h, t
<1> QED
  BY <1>1, <1>3, <1>4, <1>5 DEF Extract, h

\* So are nine digits, whatever the first four are (extractShort).
LEMMA NineDigitsAreSites ==
  ASSUME NEW n \in Nat, n < 10^5, NEW h \in Seq(0..9), Len(h) = 4
  PROVE  Extract(h \o Numeral(n, 5)) = n /\ Len(h \o Numeral(n, 5)) = 9
<1> DEFINE t == Numeral(n, 5)
<1>1. t \in Seq(Nat) /\ Len(t) = 5 /\ Value(t) = n
  <2>1. 5 \in Nat /\ 5 >= 1 /\ 5 <= 6
    OBVIOUS
  <2> QED
    BY <2>1, NumeralsInIds, Zenon
<1>2. h \in Seq(Nat)
  OBVIOUS
<1> HIDE DEF t
<1>3. Len(h \o t) = Len(h) + Len(t) /\ SubSeq(h \o t, Len(h) + 1, Len(h) + Len(t)) = t
  <2>1. Len(h) > 0 /\ Len(t) > 0
    BY <1>1, <1>2
  <2> QED
    BY <1>1, <1>2, <2>1, PartsOfAnId, Zenon
<1>4. Len(h \o t) = 9 /\ Tail5(h \o t) = t
  <2>1. Len(h \o t) - 4 = Len(h) + 1 /\ Len(h \o t) = 9
    BY <1>1, <1>2, <1>3
  <2>2. Tail5(h \o t) = SubSeq(h \o t, Len(h) + 1, Len(h) + Len(t))
    BY <1>3, <2>1, Zenon DEF Tail5
  <2> QED
    BY <1>3, <2>1, <2>2
<1>5. Extract(h \o t) = n
  BY <1>1, <1>4 DEF Extract
<1> QED
  BY <1>4, <1>5 DEF t

\* A GID is its head, a variant and a site.
LEMMA GidsAreSites ==
  ASSUME NEW n \in Nat, n < 10^5, NEW front \in Seq(Nat), Len(front) = 9,
         NEW variant \in Nat
  PROVE  LET gid == front \o <<variant>> \o Numeral(n, 6)
         IN /\ gid \in Seq(Nat) /\ Len(gid) = 16
            /\ \A i \in 1..Len(front) : gid[i] = front[i]
            /\ IsPrefix(gidPrefix, gid) <=> front = gidPrefix
            /\ front = gidPrefix => Extract(gid) = n
<1> DEFINE v == <<variant>>
           t == Numeral(n, 6)
           hv == front \o v
           gid == hv \o t
<1>1. t \in Seq(Nat) /\ Len(t) = 6 /\ Value(t) = n
  <2>1. n < 10^6
    BY Powers
  <2>2. 6 \in Nat /\ 6 >= 1 /\ 6 <= 6
    OBVIOUS
  <2> QED
    BY <2>1, <2>2, NumeralsInIds, Zenon
<1>2. v \in Seq(Nat) /\ Len(v) = 1
  OBVIOUS
<1>3. gidPrefix \in Seq(Nat) /\ Len(gidPrefix) = 9
  BY DEF gidPrefix
<1> HIDE DEF v, t, hv
<1>4. /\ hv \in Seq(Nat) /\ Len(hv) = Len(front) + Len(v)
      /\ SubSeq(hv, 1, Len(front)) = front /\ \A i \in 1..Len(front) : hv[i] = front[i]
  <2>1. Len(front) > 0 /\ Len(v) > 0
    BY <1>2
  <2> QED
    BY <1>2, <2>1, PartsOfAnId, Zenon DEF hv
<1> HIDE DEF hv
<1>5. Len(hv) = 10
  BY <1>2, <1>4
<1>6. /\ gid \in Seq(Nat) /\ Len(gid) = Len(hv) + Len(t)
      /\ SubSeq(gid, Len(hv) + 1, Len(hv) + Len(t)) = t
      /\ \A i \in 1..Len(hv) : gid[i] = hv[i]
  <2>1. Len(hv) > 0 /\ Len(t) > 0
    BY <1>1, <1>5
  <2> QED
    BY <1>1, <1>4, <2>1, PartsOfAnId, Zenon
<1>7. SubSeq(gid, 1, Len(front)) = SubSeq(hv, 1, Len(front))
  <2>1. 1 \in 1..Len(hv) /\ Len(front) \in 1..Len(hv)
    BY <1>5
  <2> QED
    BY <1>1, <1>4, <2>1, SubSeqOfConcat1
<1> HIDE DEF gid
<1>8. Len(gid) = 16 /\ SubSeq(gid, 11, 16) = t /\ SubSeq(gid, 1, 9) = front
  <2>1. Len(gid) = 16 /\ Len(hv) + 1 = 11 /\ Len(hv) + Len(t) = 16
    BY <1>1, <1>5, <1>6
  <2> QED
    BY <1>4, <1>6, <1>7, <2>1, Zenon
<1>9. \A i \in 1..Len(front) : gid[i] = front[i]
  <2>1. \A i \in 1..Len(front) : i \in 1..Len(hv)
    BY <1>5
  <2> QED
    BY <1>4, <1>6, <2>1, Zenon
<1>10. IsPrefix(gidPrefix, gid) <=> front = gidPrefix
  <2>1. SubSeq(gidPrefix, 1, 9) = gidPrefix
    BY <1>3, SubSeqFull
  <2>2. 9 <= 16
    OBVIOUS
  <2> QED
    BY <1>3, <1>8, <2>1, <2>2, Zenon DEF IsPrefix
<1>11. front = gidPrefix => Extract(gid) = n
  <2>1. 16 \notin {3, 4} /\ 16 # 8 /\ 16 # 9
    OBVIOUS
  <2> QED
    BY <1>1, <1>8, <1>10, <2>1, Zenon DEF Extract
<1> QED
  BY <1>6, <1>8, <1>9, <1>10, <1>11 DEF gid, hv, v, t

\* The id that is asked about is of a number of at most five digits.
SiteOK == site \in Nat /\ site < 10^5

\* The short id is written without a leading zero.
LEMMA ShortIdsAreSites ==
  ASSUME NEW n \in Nat, n < 10^5
  PROVE  /\ Len(Short(n)) \in Nat /\ Len(Short(n)) < 16
         /\ n >= 100 /\ n <= 9999 => Extract(Short(n)) = n
         /\ n < 100 \/ n > 9999 => Extract(Short(n)) = NoSite
<1> DEFINE Fits(w) == n < 10^w /\ (w = 1 \/ n >= 10^(w - 1))
           w == CHOOSE x \in 1..5 : Fits(x)
           s == Numeral(n, w)
<1>1. \E x \in 1..5 : Fits(x)
  <2>1. CASE n < 10
    BY <2>1, Powers
  <2>2. CASE n >= 10 /\ n < 100
    BY <2>2, Powers
  <2>3. CASE n >= 100 /\ n < 1000
    BY <2>3, Powers
  <2>4. CASE n >= 1000 /\ n < 10000
    BY <2>4, Powers
  <2>5. CASE n >= 10000
    BY <2>5, Powers
  <2> QED
    BY <2>1, <2>2, <2>3, <2>4, <2>5
<1>2. PICK x \in 1..5 : x = w /\ Fits(x)
  BY <1>1
<1>3. x \in Nat /\ x >= 1 /\ x <= 6
  OBVIOUS
<1>4. Short(n) = Numeral(n, x)
  BY <1>2 DEF Short
<1>5. Len(Numeral(n, x)) = x /\ Value(Numeral(n, x)) = n
  BY <1>2, <1>3, NumeralsInIds
<1>6. x \in {3, 4} <=> n >= 100 /\ n <= 9999
  <2>1. n < 10^x /\ (x = 1 \/ n >= 10^(x - 1))
    BY <1>2
  <2> HIDE DEF Fits, w
  <2>2. CASE x = 1
    BY <2>1, <2>2, Powers
  <2>3. CASE x \in {2, 3, 4, 5}
    <3>1. n >= 10^(x - 1)
      BY <2>1, <2>3
    <3>2. CASE x = 2
      BY <2>1, <3>2, Powers
    <3>3. CASE x = 3
      <4>1. x - 1 = 2
        BY <3>3
      <4> QED
        BY <2>1, <3>1, <3>3, <4>1, Powers
    <3>4. CASE x = 4
      <4>1. x - 1 = 3
        BY <3>4
      <4> QED
        BY <2>1, <3>1, <3>4, <4>1, Powers
    <3>5. CASE x = 5
      <4>1. x - 1 = 4
        BY <3>5
      <4> QED
        BY <3>1, <3>5, <4>1, Powers
    <3> QED
      BY <2>3, <3>2, <3>3, <3>4, <3>5
  <2> QED
    BY <2>2, <2>3
<1>7. x # 8 /\ x # 9 /\ x # 16 /\ x < 16
  OBVIOUS
<1>8. x \in {3, 4} => Extract(Numeral(n, x)) = n
  BY <1>5, Zenon DEF Extract
<1>9. x \notin {3, 4} => Extract(Numeral(n, x)) = NoSite
  BY <1>5, <1>7, Zenon DEF Extract
<1>10. n >= 100 /\ n <= 9999 <=> ~(n < 100 \/ n > 9999)
  OBVIOUS
<1> QED
  BY <1>3, <1>4, <1>5, <1>6, <1>7, <1>8, <1>9, <1>10

\* What is read as the site is taken for it where it is one.
LEMMA ReadIsMeant ==
  ASSUME SiteOK, NEW s, Extract(s) = site \/ (Extract(s) = NoSite /\ ~(site >= 100 /\ site <= 9999))
  PROVE  Normalized(s) = Meant
BY SiteIdsAssumption DEF SiteOK, Normalized, Meant, NoSite

\* Every spelling is read as the site, and is shorter than a GID.
LEMMA SpellingsAreSites ==
  ASSUME SiteOK, NEW s \in Spellings
  PROVE  Normalized(s) = Meant /\ Len(s) \in Nat /\ Len(s) < 16
<1>1. CASE s = Short(site)
  <2>1. Len(s) \in Nat /\ Len(s) < 16
    BY <1>1, ShortIdsAreSites DEF SiteOK
  <2>2. site >= 100 /\ site <= 9999 => Extract(s) = site
    BY <1>1, ShortIdsAreSites DEF SiteOK
  <2>3. ~(site >= 100 /\ site <= 9999) => Extract(s) = NoSite
    BY <1>1, ShortIdsAreSites DEF SiteOK
  <2> QED
    BY <2>1, <2>2, <2>3, ReadIsMeant
<1>2. CASE s = StopId(site)
  <2>1. Extract(s) = site /\ Len(s) = 8
    BY <1>2, StopIdsAreSites DEF SiteOK
  <2> QED
    BY <2>1, ReadIsMeant
<1>3. CASE site < 10^4 /\ s = Numeral(site, 4)
  <2>1. 4 \in Nat /\ 4 >= 1 /\ 4 <= 6
    OBVIOUS
  <2>2. Len(s) = 4 /\ Value(s) = site
    BY <1>3, <2>1, NumeralsInIds, Zenon DEF SiteOK
  <2>3. Extract(s) = site
    BY <2>2, Zenon DEF Extract
  <2> QED
    BY <2>2, <2>3, ReadIsMeant
<1>4. ASSUME NEW front \in Heads, s = front \o Numeral(site, 5)
      PROVE  Normalized(s) = Meant /\ Len(s) = 9
  <2>1. Extract(s) = site /\ Len(s) = 9
    <3>1. front \in Seq(0..9) /\ Len(front) = 4
      BY SiteIdsAssumption
    <3> QED
      BY <1>4, <3>1, NineDigitsAreSites, Zenon DEF SiteOK
  <2> QED
    BY <2>1, ReadIsMeant
<1>5. \/ s = Short(site) \/ s = StopId(site)
      \/ site < 10^4 /\ s = Numeral(site, 4)
      \/ \E front \in Heads : s = front \o Numeral(site, 5)
  BY Zenon DEF Spellings
<1>6. 9 \in Nat /\ 9 < 16
  OBVIOUS
<1> QED
  BY <1>1, <1>2, <1>3, <1>4, <1>5, <1>6, Zenon

\* A GID of any variant is read as the site, and is no safe number.
LEMMA GidsAreRead ==
  ASSUME SiteOK, NEW s \in Gids
  PROVE  /\ Normalized(s) = Meant /\ IsPrefix(gidPrefix, s)
         /\ Normalized(Coerced(s)) = NoSite
<1>1. PICK variant \in 0..9 : s = gidPrefix \o <<variant>> \o Numeral(site, 6)
  BY DEF Gids
<1>2. variant \in Nat /\ gidPrefix \in Seq(Nat) /\ Len(gidPrefix) = 9
  BY DEF gidPrefix
<1>3. /\ s \in Seq(Nat) /\ Len(s) = 16
      /\ \A i \in 1..Len(gidPrefix) : s[i] = gidPrefix[i]
      /\ IsPrefix(gidPrefix, s) /\ Extract(s) = site
  BY <1>1, <1>2, GidsAreSites, Zenon DEF SiteOK
<1>4. s[1] = 9 /\ s[2] = 0 /\ s[3] = 9
  <2>1. 1 \in 1..Len(gidPrefix) /\ 2 \in 1..Len(gidPrefix) /\ 3 \in 1..Len(gidPrefix)
    BY <1>2
  <2>2. gidPrefix[1] = 9 /\ gidPrefix[2] = 0 /\ gidPrefix[3] = 9
    BY DEF gidPrefix
  <2> QED
    BY <1>3, <2>1, <2>2
<1>5. Len(MaxSafe) = 16 /\ MaxSafe[1] = 9 /\ MaxSafe[2] = 0 /\ MaxSafe[3] = 0
  BY DEF MaxSafe
<1>6. Exceeds(s, MaxSafe)
  <2>1. 3 \in DOMAIN s /\ s[3] > MaxSafe[3]
    BY <1>3, <1>4, <1>5
  <2>2. \A j \in 1..(3 - 1) : s[j] = MaxSafe[j]
    <3>1. \A j \in 1..(3 - 1) : j = 1 \/ j = 2
      OBVIOUS
    <3> QED
      BY <1>4, <1>5, <3>1
  <2> QED
    BY <1>3, <1>5, <2>1, <2>2, Zenon DEF Exceeds
<1>7. Coerced(s) = <<>>
  BY <1>6 DEF Coerced
<1>8. Extract(<<>>) = NoSite
  <2>1. Len(<<>>) = 0 /\ 0 \notin {3, 4} /\ 0 # 8 /\ 0 # 9 /\ 0 # 16
    OBVIOUS
  <2> QED
    BY <2>1, Zenon DEF Extract
<1>9. Normalized(<<>>) = NoSite
  BY <1>8, Zenon DEF Normalized
<1> QED
  BY <1>3, <1>7, <1>9, ReadIsMeant

\* Seven digits are a zero and six digits.
LEMMA SevenDigits ==
  ASSUME SiteOK
  PROVE  /\ Numeral(site, 7) = <<0>> \o Numeral(site, 6)
         /\ Numeral(site, 7) \in Seq(Nat) /\ Len(Numeral(site, 7)) = 7
<1> DEFINE t == Numeral(site, 6)
           z == <<0>>
           s == Numeral(site, 7)
<1>1. t \in Seq(Nat) /\ Len(t) = 6
  <2>1. site < 10^6 /\ 6 \in Nat /\ 6 >= 1 /\ 6 <= 6
    BY Powers DEF SiteOK
  <2> QED
    BY <2>1, NumeralsInIds, Zenon DEF SiteOK
<1>2. z \in Seq(Nat) /\ Len(z) = 1 /\ z[1] = 0
  OBVIOUS
<1>3. (site \div 10^(7 - 1)) % 10 = 0
  BY Powers DEF SiteOK
<1>4. PICK w \in Nat : w = 7
  OBVIOUS
<1>5. s = [i \in 1..w |-> (site \div 10^(w - i)) % 10]
  BY <1>4, Zenon DEF Numeral
<1>6. PICK u \in Nat : u = 6
  OBVIOUS
<1>7. t = [i \in 1..u |-> (site \div 10^(u - i)) % 10]
  BY <1>6, Zenon DEF Numeral
<1>8. s[1] = 0
  BY <1>3, <1>4, <1>5
<1>9. ASSUME NEW i \in 1..w, i # 1 PROVE s[i] = t[i - 1]
  <2>1. i - 1 \in 1..u /\ u - (i - 1) = w - i
    BY <1>4, <1>6, <1>9
  <2>2. t[i - 1] = (site \div 10^(u - (i - 1))) % 10
    BY <1>7, <2>1
  <2> QED
    BY <1>5, <2>1, <2>2
<1>10. DOMAIN s = 1..w
  BY <1>5
<1> HIDE DEF s, t, z
<1>11. /\ z \o t \in Seq(Nat) /\ Len(z \o t) = Len(z) + Len(t)
       /\ \A i \in 1..(Len(z) + Len(t)) : (z \o t)[i] = IF i <= Len(z) THEN z[i] ELSE t[i - Len(z)]
  BY <1>1, <1>2, ConcatProperties, Zenon
<1>12. Len(z) + Len(t) = w
  BY <1>1, <1>2, <1>4
<1>13. z \o t \in [1..w -> Nat]
  <2>1. PICK q : q = z \o t
    OBVIOUS
  <2>2. q \in Seq(Nat) /\ Len(q) = w
    BY <1>11, <1>12, <2>1, Zenon
  <2>3. q \in [1..w -> Nat]
    BY <2>2
  <2> QED
    BY <2>1, <2>3, Zenon
<1>14. ASSUME NEW i \in 1..w PROVE (z \o t)[i] = s[i]
  <2>1. CASE i = 1
    BY <1>2, <1>8, <1>11, <1>12, <2>1
  <2>2. CASE i # 1
    <3>1. ~(i <= Len(z)) /\ i - Len(z) = i - 1
      BY <1>2, <2>2
    <3>2. (z \o t)[i] = t[i - 1]
      BY <1>11, <1>12, <3>1
    <3> QED
      BY <1>9, <2>2, <3>2
  <2> QED
    BY <2>1, <2>2
<1>15. s = z \o t
  BY <1>5, <1>10, <1>13, <1>14 DEF s
<1>16. s \in Seq(Nat) /\ Len(s) = 7
  BY <1>4, <1>11, <1>12, <1>15
<1> QED
  BY <1>15, <1>16 DEF s, t, z

\* What siteIDToGID prints is the GID of variant 0.
LEMMA GidsArePrinted ==
  ASSUME SiteOK
  PROVE  Gid(site) \in Gids
<1> DEFINE t == Numeral(site, 6)
<1>1. t \in Seq(Nat)
  <2>1. site < 10^6 /\ 6 \in Nat /\ 6 >= 1 /\ 6 <= 6
    BY Powers DEF SiteOK
  <2> QED
    BY <2>1, NumeralsInIds, Zenon DEF SiteOK
<1>2. gidPrefix \in Seq(Nat) /\ <<0>> \in Seq(Nat)
  BY DEF gidPrefix
<1>3. gidPrefix \o (<<0>> \o t) = (gidPrefix \o <<0>>) \o t
  <2>1. PICK z : z = <<0>>
    OBVIOUS
  <2>2. z \in Seq(Nat)
    BY <1>2, <2>1
  <2>3. (gidPrefix \o z) \o t = gidPrefix \o (z \o t)
    <3> HIDE DEF t
    <3>1. \A x, y, u \in Seq(Nat) : (x \o y) \o u = x \o (y \o u)
      BY ConcatAssociative
    <3> QED
      BY <1>1, <1>2, <2>2, <3>1, Zenon
  <2> QED
    BY <2>1, <2>3, Zenon
<1>4. 0 \in 0..9
  OBVIOUS
<1> QED
  BY <1>3, <1>4, SevenDigits, Zenon DEF Gid, Gids

\* A number of fewer digits is a smaller one.
LEMMA ShorterIsSafe ==
  ASSUME NEW s, NEW t, NEW i \in Nat, NEW j \in Nat, Len(s) = i, Len(t) = j, i < j
  PROVE  ~Exceeds(s, t)
<1>1. ~(i > j) /\ i # j
  OBVIOUS
<1> QED
  BY <1>1, Zenon DEF Exceeds

\* Every spelling of a site is that site to every tool.
LEMMA SitesAgree == SiteOK => SpellingsAgree
<1> SUFFICES ASSUME SiteOK PROVE SpellingsAgree
  OBVIOUS
<1>1. ASSUME NEW s \in Spellings PROVE Coerced(s) = s
  <2>1. Len(s) \in Nat /\ Len(s) < 16
    BY SpellingsAreSites
  <2>2. Len(MaxSafe) = 16
    BY DEF MaxSafe
  <2> QED
    BY <2>1, <2>2, ShorterIsSafe DEF Coerced
<1>2. \A s \in Spellings \cup Gids : Normalized(s) = Meant
  BY SpellingsAreSites, GidsAreRead
<1>3. \A s \in Spellings : Normalized(Coerced(s)) = Meant
  BY <1>1, SpellingsAreSites
<1>4. \A s \in Gids : Normalized(Coerced(s)) = NoSite
  BY GidsAreRead
<1>5. {Gid(site), StopId(site)} \subseteq Spellings \cup Gids
  BY GidsArePrinted, Zenon DEF Spellings
<1> QED
  BY <1>2, <1>3, <1>4, <1>5, Zenon DEF SpellingsAgree

\* What is no GID of a site echoes none.
LEMMA AreasEchoNoSite ==
  ASSUME SiteOK, NEW id \in AreaGids \cup {StopId(site), <<>>}
  PROVE  ~IsPrefix(gidPrefix, id)
<1>1. Len(gidPrefix) = 9 /\ gidPrefix[3] = 9
  BY DEF gidPrefix
<1>2. CASE id = StopId(site)
  <2>1. Len(id) = 8
    BY <1>2, StopIdsAreSites DEF SiteOK
  <2> QED
    BY <1>1, <2>1 DEF IsPrefix
<1>3. CASE id = <<>>
  BY <1>1, <1>3 DEF IsPrefix
<1>4. CASE id \in AreaGids
  <2>1. PICK digit \in {1, 2} : id = <<9, 0, 2, digit, 0, 0, 1, 0, 0>> \o Numeral(site, 7)
    BY <1>4 DEF AreaGids
  <2> DEFINE h == <<9, 0, 2, digit, 0, 0, 1, 0, 0>>
             t == Numeral(site, 7)
  <2>2. h \in Seq(Nat) /\ Len(h) = 9 /\ h[3] = 2
    OBVIOUS
  <2>3. t \in Seq(Nat) /\ Len(t) = 7 /\ Len(t) > 0 /\ Len(h) > 0 /\ 3 \in 1..Len(h)
    BY <2>2, SevenDigits
  <2> HIDE DEF h, t
  <2>4. SubSeq(h \o t, 1, Len(h)) = h
    BY <2>2, <2>3, PartsOfAnId, Zenon
  <2>5. id = h \o t
    BY <2>1, Zenon DEF h, t
  <2>6. gidPrefix \in Seq(Nat)
    BY DEF gidPrefix
  <2>7. SubSeq(gidPrefix, 1, Len(gidPrefix)) = gidPrefix
    BY <2>6, SubSeqFull
  <2>8. h # gidPrefix
    BY <1>1, <2>2
  <2> QED
    BY <1>1, <2>2, <2>4, <2>5, <2>7, <2>8, Zenon DEF IsPrefix
<1> QED
  BY <1>2, <1>3, <1>4

\* A trip echoes a site only where the planner named one.
LEMMA EchoesAreSites == SiteOK => EchoNamesSitesOnly
<1> SUFFICES ASSUME SiteOK PROVE EchoNamesSitesOnly
  OBVIOUS
<1>1. ASSUME NEW id, NEW event \in EventsAt(id) PROVE ResolvedId(event) = id
  BY DEF EventsAt, ResolvedId
<1>2. ASSUME NEW gid \in Gids, NEW event \in EventsAt(gid)
      PROVE  Echo(event) = Meant /\ (Meant # NoSite => EntrySite(gid, StopId(site)) = Meant)
  BY <1>1, GidsAreRead DEF Echo, EntrySite
<1>3. ASSUME NEW id \in AreaGids \cup {StopId(site), <<>>}, NEW event \in EventsAt(id)
      PROVE  Echo(event) = NoSite
  BY <1>1, AreasEchoNoSite DEF Echo
<1> QED
  BY <1>2, <1>3, Zenon DEF EchoNamesSitesOnly
=============================================================================
