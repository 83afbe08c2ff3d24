----------------------------- MODULE StopFinder -----------------------------
(***************************************************************************)
(* What the tools conclude from a /v2/stop-finder reply:                   *)
(* buildResolveResponse (tools/stop_finder_transform.go) for the resolve   *)
(* tool, resolveSide (tools/journeyplanner.go) for a side of a trip that   *)
(* the planner calls ambiguous.  Both are functions of the reply, so the   *)
(* only step is the upstream's: it puts one more location into its reply,  *)
(* in whatever order it likes.                                             *)
(*                                                                         *)
(* A location is its type, its matchQuality and whether its name is the    *)
(* query itself (nameMatchesQuery); it is identified by its position in    *)
(* the reply.                                                              *)
(***************************************************************************)
EXTENDS Naturals, Sequences, FiniteSets

CONSTANTS
    Qualities,       \* the matchQuality values upstream gives
    QualityMin,      \* of an exact hit, for resolve and for trips
    ExactGap,        \* exactMatchQualityGap
    UnambiguousDelta,   \* resolveUnambiguousDeltaMin
    ResolveCap,      \* resolveCandidateCap
    MaxLocations     \* bound on the length of a reply

\* trips is not content with less of a gap than resolve.
ASSUME StopFinderAssumption ==
    /\ Qualities \subseteq Nat
    /\ {QualityMin, ExactGap, UnambiguousDelta, ResolveCap, MaxLocations} \subseteq Nat
    /\ UnambiguousDelta > 0 /\ UnambiguousDelta <= ExactGap

VARIABLE reply

Location == [type : {"stop", "poi"}, quality : Qualities, literal : BOOLEAN]

TypeOK == reply \in Seq(Location) /\ Len(reply) <= MaxLocations

Init == reply = <<>>

Locates(loc) ==
    /\ Len(reply) < MaxLocations
    /\ reply' = Append(reply, loc)

Next == \E loc \in Location : Locates(loc)

Spec == Init /\ [][Next]_reply

-----------------------------------------------------------------------------
\* rankByQuality: a stable sort of the positions in r, from the best to the
\* worst.
Better(a, b) ==
    \/ a.quality > b.quality
    \/ a.quality = b.quality /\ a.literal /\ ~b.literal

Ahead(r, i, j) == Better(r[i], r[j]) \/ (~Better(r[j], r[i]) /\ i < j)

Nothing == 0
Leader(r, positions) ==
    IF positions = {} THEN Nothing
    ELSE CHOOSE i \in positions : \A j \in positions \ {i} : Ahead(r, i, j)
Second(r, positions) == Leader(r, positions \ {Leader(r, positions)})

IsStop(r, i) == r[i].type = "stop"

Stops(r) == {i \in DOMAIN r : IsStop(r, i)}

Capped(r, positions) ==
    {i \in positions : Cardinality({j \in positions : Ahead(r, j, i)}) < ResolveCap}

-----------------------------------------------------------------------------
\* buildResolveResponse.
Best(r) == Leader(r, Stops(r))

RunnersUp(r, stopOnly) ==
    {i \in DOMAIN r : i # Best(r) /\ (stopOnly => IsStop(r, i))}

Rivals(r, candidates) == {i \in candidates : IsStop(r, i)}

\* isUnambiguousResolve: only the strongest rival that is a stop counts;
\* mutant: judged on the payload
UnambiguousAsShown(r, candidates) ==
    LET best == r[Best(r)]
        rivals == Rivals(r, Capped(r, candidates))
        rival == r[Leader(r, rivals)]
    IN /\ best.quality >= QualityMin
       /\ \/ rivals = {}
          \/ best.quality >= rival.quality + UnambiguousDelta
          \/ best.literal /\ ~rival.literal
Unambiguous(r, candidates) ==
    LET best == r[Best(r)]
        rivals == Rivals(r, candidates)
        rival == r[Leader(r, rivals)]
    IN /\ best.quality >= QualityMin
       /\ \/ rivals = {}
          \/ best.quality >= rival.quality + UnambiguousDelta
          \/ best.literal /\ ~rival.literal

Resolve(r, stopOnly) ==
    [best |-> Best(r),
     unambiguous |-> Best(r) # Nothing /\ Unambiguous(r, RunnersUp(r, stopOnly)),
     candidates |-> Capped(r, RunnersUp(r, stopOnly))]

-----------------------------------------------------------------------------
\* pickExactMatch, of two locations or more; mutant: a literal name wins
\* whatever the rival's name is.
ExactMatchByName(r, candidates) ==
    LET best == r[Leader(r, candidates)]
        second == r[Second(r, candidates)]
    IN /\ best.quality >= QualityMin
       /\ best.quality >= second.quality + ExactGap \/ best.literal
ExactMatch(r, candidates) ==
    LET best == r[Leader(r, candidates)]
        second == r[Second(r, candidates)]
    IN /\ best.quality >= QualityMin
       /\ \/ best.quality >= second.quality + ExactGap
          \/ best.literal /\ ~second.literal

\* resolveSide, from the candidates that are stops; mutant: from all of them.
PickOf(r, candidates) ==
    IF candidates \subseteq {Leader(r, candidates)} \/ ExactMatch(r, candidates)
    THEN Leader(r, candidates) ELSE Nothing
PickedOfAll(r) == PickOf(r, DOMAIN r)
Picked(r) == PickOf(r, Stops(r))

-----------------------------------------------------------------------------
\* The two tools agree: the stop trips silently plans from is the one resolve
\* calls the best, and where it chose among several stops resolve calls that
\* best unambiguous.  Their thresholds differ, and one judges all candidates,
\* the other the stops only.
TripsAgreesWithResolve ==
    Picked(reply) # Nothing =>
        \A stopOnly \in BOOLEAN :
            LET answer == Resolve(reply, stopOnly)
            IN /\ answer.best = Picked(reply)
               /\ Stops(reply) # {Picked(reply)} => answer.unambiguous

\* stop_only chooses what is listed, not what is best: the best stop and the
\* verdict on it do not depend on it, however many places that are no stops
\* rank between two stops and push the rival out of the capped list.
StopOnlyKeepsVerdict ==
    LET all == Resolve(reply, FALSE)
        stops == Resolve(reply, TRUE)
    IN all.best = stops.best /\ all.unambiguous = stops.unambiguous

\* Upstream does not sort its reply, so a verdict cannot hang on its order:
\* when two neighbours change places, resolve still calls the best stop
\* unambiguous or not, and a stop that is unambiguous, or that trips plans
\* from, is still the same one.
Swap(k, i) == IF i = k THEN k + 1 ELSE IF i = k + 1 THEN k ELSE i
Swapped(r, k) == [i \in DOMAIN r |-> r[Swap(k, i)]]
OrderDoesNotMatter ==
    \A k \in 1..(Len(reply) - 1), stopOnly \in BOOLEAN :
        LET swapped == Swapped(reply, k)
            before == Resolve(reply, stopOnly)
            after == Resolve(swapped, stopOnly)
        IN /\ after.unambiguous = before.unambiguous
           /\ before.unambiguous => after.best = Swap(k, before.best)
           /\ Picked(swapped) = Swap(k, Picked(reply))

\* What the README says of best.unambiguous: no other stop comes within the
\* delta, or no other stop is named exactly as the query.
UnambiguousAsDocumented ==
    LET others == {i \in DOMAIN reply : IsStop(reply, i) /\ i # Best(reply)}
    IN Resolve(reply, TRUE).unambiguous =>
        \/ \A i \in others : reply[Best(reply)].quality >= reply[i].quality + UnambiguousDelta
        \/ reply[Best(reply)].literal /\ \A i \in others : ~reply[i].literal
=============================================================================
