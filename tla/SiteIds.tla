------------------------------ MODULE SiteIds ------------------------------
(***************************************************************************)
(* The spellings of a site (tools/site_id.go): the short id, the 8-digit   *)
(* stop id, the 9-digit form and the 16-digit GID, as strings and as JSON  *)
(* numbers, and what the stop finder (siteIDFromStopFinderEntry) and the   *)
(* echo of trips (resolvedFromStopEvent) make of them.  A spelling is the  *)
(* sequence of its digits; what is no plain number is <<>>.                *)
(***************************************************************************)
EXTENDS Naturals, SequencesExt

CONSTANTS
    SiteNumbers,          \* the sites considered: any number up to five digits
    minSiteID, maxSiteID,
    Heads                 \* first halves of 9-digit forms

ASSUME SiteIdsAssumption ==
    /\ \A n \in SiteNumbers : n \in Nat /\ n < 10^5
    /\ minSiteID \in Nat /\ maxSiteID \in Nat
    /\ minSiteID >= 100 /\ maxSiteID <= 9999    \* sites have three or four digits
    /\ \A head \in Heads : head \in Seq(0..9) /\ Len(head) = 4

VARIABLE site    \* the site, or stop area, that an id is of

SiteInit == site = 0

IsAsked(n) == site' = n

-----------------------------------------------------------------------------
NoSite == 0   \* an error in the code: out of range, or no number

\* The last digits of n, and n as it is written.
Numeral(n, width) == [i \in 1..width |-> (n \div 10^(width - i)) % 10]
Short(n) == Numeral(n, CHOOSE w \in 1..5 : n < 10^w /\ (w = 1 \/ n >= 10^(w - 1)))

\* tailToInt
Value(digits) ==
    LET read[i \in 0..Len(digits)] == IF i = 0 THEN 0 ELSE 10 * read[i - 1] + digits[i]
    IN read[Len(digits)]
Tail5(s) == SubSeq(s, Len(s) - 4, Len(s))

gidPrefix == <<9, 0, 9, 1, 0, 0, 1, 0, 0>>
Gid(n) == gidPrefix \o Numeral(n, 7)          \* siteIDToGID
StopId(n) == <<1, 8, 0>> \o Numeral(n, 5)     \* siteIDTo180

\* extractShort; mutant: the variant digit is taken for one of the site's.
ExtractWithVariant(s) ==
    IF Len(s) \in {3, 4} THEN Value(s)
    ELSE IF Len(s) = 9 \/ (Len(s) = 8 /\ IsPrefix(<<1, 8, 0>>, s)) THEN Value(Tail5(s))
    ELSE IF Len(s) = 16 /\ IsPrefix(gidPrefix, s) THEN Value(SubSeq(s, 10, 16))
    ELSE NoSite
Extract(s) ==
    IF Len(s) \in {3, 4} THEN Value(s)
    ELSE IF Len(s) = 9 \/ (Len(s) = 8 /\ IsPrefix(<<1, 8, 0>>, s)) THEN Value(Tail5(s))
    ELSE IF Len(s) = 16 /\ IsPrefix(gidPrefix, s) THEN Value(SubSeq(s, 11, 16))
    ELSE NoSite

\* normalizeSiteID
Normalized(s) == IF Extract(s) \in minSiteID..maxSiteID THEN Extract(s) ELSE NoSite

\* coerceSiteIDArg, of a number: 2^53 is the last that a double keeps apart.
MaxSafe == <<9, 0, 0, 7, 1, 9, 9, 2, 5, 4, 7, 4, 0, 9, 9, 2>>
Exceeds(s, t) ==
    \/ Len(s) > Len(t)
    \/ /\ Len(s) = Len(t)
       /\ \E i \in DOMAIN s : s[i] > t[i] /\ \A j \in 1..(i - 1) : s[j] = t[j]
Coerced(s) == IF Exceeds(s, MaxSafe) THEN <<>> ELSE s

\* siteIDFromStopFinderEntry
EntrySite(gid, stopId) == IF Normalized(gid) # NoSite THEN Normalized(gid) ELSE Normalized(stopId)

\* resolvedFromStopEvent: the stop that a platform belongs to stands for it.
ResolvedId(event) == IF event.ofStop THEN event.parent ELSE event.id
\* mutant: any id that can be normalized is a site's
EchoAnyId(event) == Normalized(ResolvedId(event))
Echo(event) ==
    IF IsPrefix(gidPrefix, ResolvedId(event)) THEN Normalized(ResolvedId(event)) ELSE NoSite

-----------------------------------------------------------------------------
Meant == IF site \in minSiteID..maxSiteID THEN site ELSE NoSite

Gids == {gidPrefix \o <<variant>> \o Numeral(site, 6) : variant \in 0..9}
Spellings ==
    {Short(site), StopId(site)}
        \cup (IF site < 10^4 THEN {Numeral(site, 4)} ELSE {})
        \cup {head \o Numeral(site, 5) : head \in Heads}

\* All spellings of a site are one site to every tool, as strings and as
\* numbers, whichever variant its GID is of; the numbers that do not survive
\* as a double are refused and never read as another site; and what the tools
\* print is read back as what they meant.
SpellingsAgree ==
    /\ \A s \in Spellings \cup Gids : Normalized(s) = Meant
    /\ \A s \in Spellings : s[1] # 0 => Normalized(Coerced(s)) = Meant
    /\ \A s \in Gids : Normalized(Coerced(s)) = NoSite
    /\ {Gid(site), StopId(site)} \subseteq Spellings \cup Gids

AreaGids == {<<9, 0, 2, digit, 0, 0, 1, 0, 0>> \o Numeral(site, 7) : digit \in {1, 2}}

Others == AreaGids \cup {Gid(site), <<>>}
EventsAt(id) ==
    {[id |-> id, parent |-> other, ofStop |-> FALSE] : other \in Others}
        \cup {[id |-> other, parent |-> id, ofStop |-> TRUE] : other \in Others}

\* The numbers of stop areas and those of sites overlap.  A trip echoes a site
\* only where the planner named one, of the platform's stop if it has one: the
\* number in the GID of a stop area, or in the stop id that goes with it, is
\* never passed off as a site's; and the stop finder calls the same location
\* the same site.
EchoNamesSitesOnly ==
    /\ \A gid \in Gids : \A event \in EventsAt(gid) :
          Echo(event) = Meant /\ (Meant # NoSite => EntrySite(gid, StopId(site)) = Meant)
    /\ \A id \in AreaGids \cup {StopId(site), <<>>} : \A event \in EventsAt(id) :
          Echo(event) = NoSite
=============================================================================
