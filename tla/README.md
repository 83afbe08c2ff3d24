# Verification of sl-mcp-server

TLA+ specifications of `sl-mcp-server`, an MCP server that answers questions
about public transport in Stockholm by calling SL's web APIs. The source is in
`src/`; every definition that models code is mapped to its lines in
`PROJECT.json`. TLC checks the specifications on small instances; TLAPS proves
the safety properties of every part for all instances.

## The system

A tool call arrives over HTTP, gets a deadline, and turns into one to four GET
requests to SL, some at the same time:

    HTTP listener -> mcp-go -> withTimeout -> tool handler -+-> fetchJSONRaw -> cachingClient -> retryingClient -> http.Client -> SL
                                                            +-> prefetch goroutine (/v1/messages) -> the same clients
                                                            +-> stop-finder goroutines (trips)    -> the same clients

All tool calls share one `cachingClient`; nothing else is shared and nothing
is persisted, so a restart begins from an empty cache.

### Inventory

| component | state it keeps | operations | what is hard | what makes it correct | module |
|---|---|---|---|---|---|
| response cache, `slclient/cache.go` | the map of entries under a mutex; per entry a channel and the fields written before it is closed | `Do`, `lookup`, `fill`, `forget` | callers that miss, wait, fail, expire and give up in any order; fields read without the mutex | one fetch at a time per URL, no stale and no kept failure, private cancellation, every call returns | `ResponseCache` |
| retrying client, `slclient/retry.go`, over `slclient/client.go` | attempt number, wait, the body of the last response | `Do`, `retryAfter`, `sleepCtx` | the deadline in an attempt, in a wait or between; 64-bit durations | no leaked body, deadline kept, only the promised retries | `RetryingClient` |
| tool-call deadline, `server.go` | a context per call | `withTimeout` | calls that share a fetch, of which one owns it; a prefetch that may outlive its handler | a call takes its deadline or one fetch, no call is blamed for another's end | `ToolCalls` |
| trips, `tools/journeyplanner.go`, `tools/trips_transform.go` | one call: parameters, candidates, prefetch channel | plan, disambiguate, retry, enrich | three goroutines, two plans, partial failure of every hop | never plans from a place the caller did not mean, never hides an outage | `Trips` |
| stop finder and resolve, `tools/stop_finder_transform.go`, `tools/name_match.go`, `pickExactMatch` | none | rank, judge, cap, pick | two independent judgements of one reply, thresholds, a cap | the two tools agree, the order of the reply does not matter | `StopFinder` |
| departures, `tools/departures_transform.go`, `tools/transport.go` | one call: the board and the messages | filter, identify the site, derive the notices, cut the page | the order filter - identity - limit, two sources of notices | notices are of this site, do not depend on the page, shrink with the filter | `Departures` |
| transport helpers, `tools/transport.go` | the buffered channel of `prefetch` | `fetchJSONRaw`, `prefetch` | an abandoned prefetch | its goroutine ends | in `ToolCalls`, `Trips`, `Departures` |
| leg deviations, `tools/trips_transform.go` | none | index, time filter, cap of three | the cap after the time filter, missing times | a notice in force is shown or counted | `Deviations` |
| deviations tool, `tools/deviations*.go` | none | facility and mode filters, two shapes | two decoders of one reply, categories in several forms | the shape does not choose the content, the two tools agree on a mode | `Deviations` |
| site ids, `tools/site_id.go` | none | four spellings to one and back | variant digit, leading zeros, ranges, numbers beyond a double | all spellings of a site agree, no stop area is taken for a site | `SiteIds` |
| lines, sites, stop points, nearest stops, `tools/lines_transform.go`, `tools/sites_transform.go`, `tools/nearest_stops.go` | none | one fetch, filters, order, limit | the order of a Go map, a cap before a sort, rows that do not decode | a page is the beginning of the whole list, the nearest are the nearest | `Catalogs` |
| transport authorities, system info | none | one fetch | - | - | not modelled |
| HTTP listener and shutdown, `main.go` | sessions and streams, inside mcp-go | serve, shut down in 5 s | open streams at shutdown | shutdown ends | not modelled |
| logging | none | format | - | - | not modelled |

The hazards of this code, each at its line and with the properties that watch
it, are listed in `PROJECT.json`.

## Modules

| module | what it is |
|---|---|
| `ResponseCache` | the cache: every goroutine inside `cachingClient.Do`, step by step |
| `SharedFetch` | what the cache promises, without entries, channels or mutex |
| `ResponseCacheProps` | the properties of the cache, its refinement of `SharedFetch`, its inductive invariant |
| `ResponseCacheProofs` | the inductive invariant and the safety properties of the cache, and that it implements `SharedFetch`, proved |
| `RetryingClient` | one request through `retryingClient.Do` and the `http.Client` |
| `RetryingClientProofs` | its safety properties, proved |
| `ToolCalls` | tool calls that run at once, over `SharedFetch` |
| `ToolCallsProofs` | its safety properties, proved |
| `Trips` | one call of `trips` with its goroutines |
| `TripsProofs` | its safety properties, proved |
| `Departures` | one call of `departures` |
| `DeparturesProofs` | its properties, proved |
| `StopFinder` | what `resolve` and `trips` conclude from a stop-finder reply |
| `StopFinderProofs` | that they agree and that order and cap do not matter, proved |
| `Deviations` | what `trips` and `deviations` make of a reply of `/v1/messages` |
| `SiteIds` | the spellings of a site id and the echo of a trip's ends |
| `SiteIdsProofs` | that every number is read as it was written and no other number is, proved |
| `Catalogs` | the pages of lines, sites, stop points, the nearest stops |
| `Replies` | the four modules that are functions of one reply, composed |
| `RepliesProofs` | the properties of `Deviations`, of `Catalogs` and of the composition, proved |
| `MC...` | finite instances: the sets, the symmetry, the values of functions |

An operator whose comment says *mutant* is a plausible mistake in the operator
next to it; it is used by no specification and only serves to show that the
properties notice the mistake.

### ResponseCache

One caller is one goroutine inside `Do`. A critical section of `mu` is one
step: `Share` and `Miss` are `lookup` with its two results, `Forget` is
`forget`. Between them `fill` is a sequence of steps of the owner:
`FetchReturns` (the inner `Do`, `ReadAll` and the assignment of the fields),
`Stamp` or `Forget`, and `Close` (the deferred `close(e.ready)`). `Return` and
`GiveUp` are the two branches of the `select`, which may take either when both
are ready. The owner meets the `select` only after `fill`: it cannot give up
before its fetch ends. `Bypass` is a path without a rule.

`cacheEntry` objects live on a heap of `Entries`. The garbage collector is
modelled: an entry that neither the map nor a caller references is blank and
may be allocated again (`Swept`, `Fresh`), which keeps the state space finite
without a bound on the number of fetches. A reply is its outcome, the URL it
answers and `at`, the time it was published; `asked` is when a caller looked
the cache up. The two are history and no action reads them. `Forget` keeps the
code's test that the entry is still the live one; the inductive invariant shows
that the test never fails, since an entry in flight is never replaced.

`SharedFetch` has, for each URL, at most one fetch and at most one kept
success, which is answered until its TTL is over (`Live`): the URL is not
fetched again before, and the reply not served after. The time counts from the
clock reading of `Stamp`, which may lie before `Close`, so `Succeed` takes it as
an argument; under the refinement it is `expires - Ttl`. Under the refinement a URL is being fetched while its entry is mapped
and not ready. `Close` after a success is the abstract `Succeed`. A failure is
dropped before it is published, so the abstract `Fail` is `Forget`, not
`Close`: from then on the waiters are owed the failure and a new caller starts
a new fetch. `Stamp`, `FetchReturns` and `Close` after a failure are stutters.

Left out: the method (no tool sends anything but GET), panics of the inner
client, the copying of headers and bodies.

### RetryingClient

Time is `elapsed`, in ticks of a quarter of a second; a wait is a signed word
of the range `HalfRange` to either side, 2^9 here as it is 2^63 in `time.Duration`. `InnerDo` is one attempt:
a response or transport error within the client's timeout, that timeout, or
the end of the tool call's context. A `detached` request is one that fills the
cache, on `context.WithoutCancel`. `ReturnOutcome`, `PrepareRetry` are the
branches of the loop; `NoWait`, `Wait` and `WaitCut` are `sleepCtx`, which
looks at the context only when the wait is positive.

### ToolCalls

Several tool calls need the same listed URL at the same time. The cache below
them is `SharedFetch`, the abstract specification that `ResponseCache` is
proved to implement: every cache step of a call is a step of that module, so
the entries and channels need not be gone through again. On top of it a call
has the stage of its handler. A *prefetching* call (`departures`, `trips`) lets
a goroutine ask for the URL while its handler makes hops of its own
(`HopEnds`), and then waits on the channel without looking at its context; a
*direct* call asks in the handler. `owner` and `since` say whose request
started the fetch under way and when, `taken` when the reply a call was given
was obtained; they are history, but that the owner waits for its fetch to the
end (`TurnedAway`) is the code's `fill` before `select`.

Time passes (`Tick`) only when every goroutine waits for the upstream, and
neither past the end of a hop that is on the call's context nor past
`FetchBound` of a fetch, which is what `RetryingClient!DetachedBound` promises.
The deferred `cancel` of `withTimeout` is the second disjunct of `CtxOver`: the
context of a call ends when its handler returns, while its prefetch may still
be on its way to the cache.

### Trips

The handler, the prefetch goroutine and up to two stop-finder goroutines. Each
step of the handler is the whole code between two hops: `Start` validates the
arguments and starts the prefetch, `Planned` runs the guard against points of
interest, the detection of ambiguity and either ends, answers or starts the
stop-finders; `Disambiguate` is what follows `wg.Wait()`; `RetryPlanned` is the
second plan; `Receive` blocks on the channel. `Expire` is the tool call's
deadline: after it no hop of the handler succeeds, but the prefetch may, when
its request is the one that fills the cache. A plan is abstracted to journeys
or none and, per side, whether it ends at a place that is no stop or is
called ambiguous. The guard against drift is applied to the journeys
that `firstLegEndpoints` inspects, so `NoSilentDrift` speaks of the ends of
those, not of every journey of the plan. Candidates are counted: none, one or several stops, other
places or not, exact match or not; which candidate counts as what is the
subject of `StopFinder`.

### StopFinder

`resolve` and `trips` are functions of a stop-finder reply, so the only step
adds a location to the reply: every reply up to the bound is a state. A
location has a type, a quality and whether it carries the queried name, and is
identified by its position. The stable sort is the order `Ahead` of positions,
by quality, name and place in the reply; the head of a sorted list is the
`Leader` of a set of positions, its cap the positions with fewer than the cap
ahead of them. `pickExactMatch` sorts a list that is already ranked, which
changes nothing.

### Departures

The board and the prefetched messages arrive in either order; `Answer` is
`trimDepartures` and the warning. A row is the line, the stop and the direction
it names, and is known by its position. A filter is a direction and the set of
lines that its line prefix and its mode let through, so that it may keep some
rows of a line and drop others. `NoticesAreOfThisSite` reads the lines of a
notice off the board and the filter together: a notice that names lines alone
is of a line that calls here and that was asked about.
Deviations are judged one by one, so a list holds at most one. The publish
window is a flag.

### Deviations

`Attached` is what `trips` puts on a leg (`indexDeviations`,
`activeDeviations`, `attachLegDeviations`), `Slim` and `Verbose` are what the
`deviations` tool lists. A notice is its line scope, its publish window, its
categories in the forms the upstream has used, and which of the decoders can
read it. The properties ask for every leg that can ask about the notices of
the reply. Words that the code compares without regard to case are equal or
not.

### SiteIds

A spelling is the sequence of its digits. `Extract` is the `switch` on the
length; `Coerced` is what a JSON number loses, since a double keeps integers
apart up to 2^53 only; `Echo` is what `trips` prints of the place the planner
resolved an end to. `EntrySite` is `siteIDFromStopFinderEntry`;
`EchoNamesSitesOnly` compares it with `Echo` for locations that have a site's
GID. For one with the GID of a stop area the code falls back to the 18xx
stopId; no sample of a stop-finder reply has such a location, and the property
does not speak of it.

### Catalogs

Lines come in groups whose order is that of a Go map, which the model takes as
an argument (`order`); a group may be something other than a list. Distances
are given, in tenths of a metre, because the code sorts by the rounded metre
and filters by the exact distance. Pages are lists of positions. `Page` is the
loop that all the lists share; `Sorted` is a stable sort by what it promises:
the k-th place is that of the one element with k - 1 before it, where the
element listed first goes before an equal one.

### Replies

The four modules above that are functions of one reply, in one specification.
No tool reads two of these replies, so one is made up while the others are
empty.

## Runs

| run | checks | instance |
|---|---|---|
| `cache_safety` | the inductive invariant, coalescing, freshness, dropped failures, private cancellation, immutability after publication, refinement of `SharedFetch` | 3 callers of one listed URL, clock 0..2, TTL 2 |
| `cache_liveness` | replies are not mixed up between queries of one path; every call returns; a waiter honours its deadline although the upstream is stuck | 2 callers, 2 URLs of one listed path and an unlisted one, clock 0..1, TTL 1 |
| `retry` | bodies, deadline, bound on detached requests, Retry-After, no hopeless retry | 3 attempts, latencies around 0, the half and the whole timeout |
| `tool_deadline` | finding: a detached request outlasts the tool call | 2 attempts, as `main.go` |
| `retry_after_overflow` | finding: a huge Retry-After is retried at once | 2 attempts, a value beyond the word |
| `trips` | six properties of one call, two of them liveness | no parameters: all arguments, replies and failures |
| `trips_retry_ambiguity` | finding: a retry that is newly ambiguous is answered with the raw reply | the same |
| `tool_calls` | how late a call can be and which one, what a missing snapshot is blamed on, how old a snapshot is, that every call is answered | 2 calls of either kind, TTL and deadline 2, fetch bound 3, clock 0..8 |
| `replies` | agreement of `trips` and `resolve`, independence of `stop_only` and of the order of the reply; notices hidden from a leg, agreement of `trips` and `deviations`, of the two shapes, facilities; spellings and echoes of a site; pages and nearest stops | 4 locations, qualities at the thresholds, cap 2; 3 of 13 kinds of notices; sites at the edges of the range; 2 groups, 2 rows |
| `unambiguous_twin` | finding: the verdict looks at the strongest rival only | 3 locations |
| `departures` | notices against the page, the filter and the site | 2 rows, 2 lines, 1 stop, 1 direction |
| `departures_fallback` | finding: an undecodable snapshot falls back silently | the same |

### Why the bounds are enough

- *Cache.* Three callers are an owner, a waiter and a late caller that finds
  the entry in flight, kept, expired or gone. One more entry than callers lets
  a kept entry exist beside one per caller; `Miss` is never refused for lack of
  memory. Entries of different URLs share only the mutex; what can go wrong
  between URLs, a wrong key, needs two of them and two callers. The clock is
  read at a lookup and at a stamp; with a TTL of two and two ticks a reply is
  served when fresh, when older than the call that gets it, and no more once
  expired. Only the callers are symmetric, and the
  liveness run uses no symmetry.
- *Retry.* The durations are the real ones (15 s, 30 s, 2 s, 250 ms) in
  quarter seconds. The latencies are the immediate ones and those within a
  tick of the half and the whole timeout. The word of 10 bits
  holds 127 seconds, above every other duration as 64 bits are; the passing
  run stays within it (the header values are at most 127), the overflow run
  does not. Three attempts check the loop beyond the two of `main.go`.
- *Trips.* Nothing is bounded: a call is finite. Candidates beyond two behave
  as two, since only the first two are compared.
- *Tool calls.* The deadline is shorter than a fetch may take, as in the
  deployment, so that a call can be late; the clock leaves room for two calls
  of a caller after each other and for a reply to be kept and expire between
  them. Two calls are the owner and one that shares; three were checked for
  the safety properties as well, which are proved for any number.
- *Replies.* Two stops, and two more places that separate them in the list
  stand between them in rank; the cap is 2 so that four locations exceed it
  and the qualities are one at each side of the differences 50 and 100. With a
  cap of one notice per leg three notices are one shown, one that is cut and
  one that does not concern the leg; the kinds differ in everything the two
  tools look at. The site numbers are all of the valid range's edges and those
  where a digit is lost or gained. The distances lie on both sides of a
  rounding and of the radius.
- *Departures.* Two rows: one that passes a filter or the page and one that
  does not; a deviation in each source is judged by itself. A row that names no
  stop or no direction is of another one than a notice names or a filter asks
  for.

`CHECK_DEADLOCK FALSE` stands where the system really stops: a request, a call
or a reply that is complete, the clock at its bound. The cache never does.

### Fairness

- `StuckUpstreamSpec` (cache): a goroutine that can run without the upstream
  does so - the Go scheduler is fair to runnable goroutines. It says nothing of
  fetches, so `WaiterHonoursDeadline` holds with a fetch that never ends.
  `EveryCallReturns` assumes in addition that each fetch ends, which the
  15 s timeout of `http.Client` in `client.go` and the bounded number of
  attempts give.
- `Trips!Spec`: the handler, the prefetch and each stop-finder goroutine make
  progress; their hops end for the same reason. `Expire` is not fair: a call
  need not run out of time.

- `ToolCalls!Spec`: a request that can take its next step in the cache does, so
  does a handler, and each fetch ends, for the reasons above. Calls begin when
  they like.

### Findings

Five runs end in a counterexample to what a comment or the documentation says;
`PROJECT.json` quotes the lines.

1. *The deadline of a tool call is not kept by the call that fills the cache.*
   `fill` detaches the fetch from the caller's context and the caller waits
   for `fill` itself, so two attempts of 15 s and the wait between them are
   not cut at 30 s. `DetachedBound` is the bound that does hold.
2. *A Retry-After too large for a duration is retried at once*, not returned.
3. *A retry that is ambiguous on the other side* is answered with the broker's
   raw reply and without the collected warnings.
4. *`unambiguous` compares with the strongest rival only*: another stop of the
   queried name can hide behind it.
5. *An undecodable `/v1/messages` snapshot* makes `departures` fall back to
   the upstream's list without the warning.

## Proofs

`ResponseCacheProofs` proves, for any sets of callers, URLs and entries, any
rules, and a clock without bound in all but name (`MaxTime` is any natural
number), from `CacheAssumption` alone (`NoEntry` is not an entry, there is a
URL, TTLs are natural numbers):

| theorem | states |
|---|---|
| `TypeCorrect` | `Spec => []TypeOK` |
| `Invariant` | `Spec => []IInv` |
| `SingleFetch` | `Spec => []OneFetchPerUrl` |
| `Freshness` | `Spec => []AnswersAreCurrent` |
| `FailuresAreDropped` | `Spec => []FailuresNotKept` |
| `PrivateCancellation` | `Spec => []CancelIsPrivate` |
| `RightReply` | `Spec => []KeyIntegrity` |
| `PublicationIsFinal` | `Spec => PublishedEntriesImmutable` |

None of the properties is inductive. That failures are not kept, say, rests on
`forget` finding its entry still mapped, which rests on nobody replacing an
entry in flight, which rests on an entry that is not ready having an owner who
is still inside `fill`. `IInv` has these facts as its parts:

- `References`: who holds an entry, and that two URLs never share one;
- `Ownership`: an entry that is not ready has exactly one owner, who fetches
  the URL under which it is mapped and for which others wait;
- `Mapping`: the owner's entry stays mapped until it is forgotten, and what
  each later step of `fill` finds in it;
- `Publication`: what is ready and mapped is a success that expires in time,
  and what is ready and held is right for whoever holds it;
- `Answered`: what a call that has returned was given.

The proof of `IInv /\ [Next]_vars => IInv'` has a lemma per action and in it a
step per part. `Return`, `GiveUp` and the direct answers share one lemma about
`Answers`. Reclaiming entries disturbs no part because every part speaks only
of entries that are mapped or held.

`Refinement`, `Spec => ImplementsSharedFetch`, has a lemma per action from the
same invariant. The two delicate steps are
those that settle a fetch. At `Forget` the callers who wait for the URL and are
owed nothing yet must be exactly those who hold the forgotten entry; at `Close`
of a success there may still be callers who hold an older, failed entry of the
same URL whose owner has forgotten but not yet closed it, and these are owed
the failure, not the success.

`RetryingClientProofs` proves, for any limits, any width of a duration and
from `RetryAssumption` alone (the limits are natural numbers, there is an
attempt, no latency exceeds the client's timeout):

| theorem | states |
|---|---|
| `RetryInvariant` | `Spec => []RetryInv` |
| `NoBodyLeaks` | `Spec => []BodiesAccountedFor` |
| `InTimeForTheCall` | `Spec => []DeadlineHonoured` |
| `DetachedIsBounded` | `Spec => []DetachedBound` |
| `OnlyWorthwhileRetries` | `Spec => NoHopelessRetry` |
| `WishesAreKept` | `HeadersFit => (Spec => RetryAfterHonoured)` |
| `FittingWishesAreCapped` | `HeadersFit => (Spec => LongRetryAfterReturned)` |
| `RetriesAreFinite` | `Spec => [](RoundsLeft \in Nat) /\ [][RoundsLeft' < RoundsLeft]_vars` |

`RetryInv` says which body is open at each point of the loop (`Bodies`), why
another attempt will be made (`WorthIt`) and that the rounds so far took at
most an attempt and a longest wait each (`Budget`). The bound holds although a
Retry-After may wrap: the cap is applied to the wrapped value, which is the
value waited for. That the server's wish is honoured (`RetryAfterHonoured`)
needs `HeadersFit`, that no Retry-After exceeds a duration; without it the
property is false. `LongRetryAfterReturned` is refuted by the run
`retry_after_overflow` and true under the same `HeadersFit`
(`FittingWishesAreCapped`): a header that does not fit is the only exception to
what the comment on `maxRetryAfterWait` says. `RetriesAreFinite` counts the
attempts, judgements and waits that are left, at most three for each attempt.

`ToolCallsProofs` proves, for any number of calls, any deadline, TTL and bound
on a fetch, from `ToolCallAssumption`:

| theorem | states |
|---|---|
| `CallsAreSafe` | `Spec => []CallInv` |
| `CallsAreBounded` | `Spec => []CallBound` |
| `OneCallFillsTheCache` | `Spec => []LateCallsFillTheCache` |
| `WarningsHaveAReason` | `Spec => []WarningsAreGrounded` |
| `SnapshotsAreRecent` | `Spec => SnapshotBound` |
| `CallsUseTheCache` | `Spec => Cache!Spec` |

A call is late only because it owns the fetch under way, so `CallInv` says that
an unsettled owner's fetch started when the call began (`OneOwner`), that a
request reaches the cache before time passes (`OnTime`), and how old a reply
can be when it is handed out (`Recent`); `Coherent` ties the stage of the
handler to the state of its request. `CallsUseTheCache` closes the gap between
the two levels: what the calls do to the cache they share is a behaviour of
`SharedFetch`, which `Refinement` shows the response cache to implement.

`TripsProofs` proves the four invariants of `trips` from `TripsInv`. Its parts
follow the handler: until the stop-finders have answered nothing is chosen
(`Choosing`); what is planned with is what the caller meant (`Planning`); the
messages are being fetched exactly when they will be waited for, and the wait
is for a plan that has passed the guard (`Prefetching`); what a result was made
of no longer changes (`Ending`). `AcceptedPlan` is shared by the first plan and
the retry, `Refusal` by all the errors. Two more theorems are the half of
`HandlerReturns` and `PrefetchEnds` that needs no fairness:
`NoLonelyWait`, the handler waits only for goroutines that run or have an answer
for it, and `CallsAreFinite`, every step of a call lowers `StepsLeft`, a natural
number: what is left of the handler, the stop-finders, the messages and the
call's time.

`DeparturesProofs` proves, for any lines, stops, directions, limits and boards, the three
properties of the run `departures`. An answer is `Trimmed` of a board and a
snapshot that no longer change (`AnswersAreSettled`); the rest is monotonicity:
a narrower filter keeps fewer rows, fewer rows are of fewer stops and lines,
and fewer notices concern them. A row that cannot be read passes every filter
and names no line, so the lines of the rows that pass are lines that were asked
for (`LinesPassTheFilter`).

`StopFinderProofs` proves, for any qualities, caps and thresholds of which
`resolve`'s is positive and `trips`' is no smaller (`StopFinderAssumption`):

| theorem | states |
|---|---|
| `ToolsAgreeOnAStop` | `Spec => []TripsAgreesWithResolve` |
| `VerdictIgnoresStopOnly` | `Spec => []StopOnlyKeepsVerdict` |
| `VerdictIgnoresOrder` | `Spec => []OrderDoesNotMatter` |

`Ahead` is a strict total order on positions, so that each nonempty set of them
has exactly one leader, found by well-foundedness of the number of positions
ahead. The leader of the stops is the best of `resolve`, the leader of the other
stops its rival, whatever else is listed. Swapping two neighbours maps leaders
to leaders of equal worth, which is enough because a delta of at least one
keeps the verdict from hanging on a tie.

`RepliesProofs` proves, for any set of notices, any cap and any bound on a
scope, the four properties of `Deviations`:

| theorem | states |
|---|---|
| `NothingIsHidden` | `DeviationsSpec => []NoHiddenNotice` |
| `ToolsAgreeOnAMode` | `DeviationsSpec => []AttachedIsListed` |
| `ShapesAgree` | `DeviationsSpec => []VerboseAgreesWithSlim` |
| `FacilitiesOnRequest` | `DeviationsSpec => []FacilityIsOptIn` |

and, of the composition the run checks, for any catalog, any limits and every
number of up to five digits that could be a site's:

| theorem | states |
|---|---|
| `PartsKeepToThemselves` | `RepliesSpec => Spec /\ DeviationsSpec` |
| `SpellingsAreOneSite` | `RepliesSpec => []SpellingsAgree` |
| `EchoesNameSites` | `RepliesSpec => []EchoNamesSitesOnly` |
| `PagesBeginTheList` | `RepliesSpec => []PagesArePrefixes` |
| `NearestFillThePage` | `RepliesSpec => []NearestAreNearest` |

By `PartsKeepToThemselves` the theorems about the stop finder and the deviations
hold of the composition as well. The other properties are functions of one
state, so the type of the replies (the lemma `RepliesAreOfTheirTypes`) is all
that is needed of the steps; what is hard is in the functions. `Value`,
`Page` and `Positions` are loops, defined as recursive functions. The function
is a choice of one that satisfies its equation, so it must first be shown that
there is one: `LoopsRun` (`SiteIdsProofs`), by the least pass that could not be
made. `LoopsKeep` then carries a fact from pass to pass. That a numeral is read
as its number (`NumeralsAreRead`) follows as each digit read undoes one
division by ten. A page with a limit is at every pass the beginning of the page
without (`PagesBegin`). `PlacesAreTaken` shows that in a strict order of finitely
many things each rank is taken, so that `Sorted` is a permutation
(`SortedLists`), and `OneAscendingList` that a set of numbers has one ascending
list, which is why the order of a Go map does not show. The assumptions are
those of `SiteIdsAssumption` (`minSiteID` and `maxSiteID` lie between 100 and
9999) and of `CatalogsAssumption` (there are finitely many groups of lines).

Only model-checked: liveness, whose fairness and `ENABLED` are out of the
prover's reach (`EveryCallReturns`, `WaiterHonoursDeadline`, `HandlerReturns`,
`PrefetchEnds`, `CallsAreAnswered`), and what the runs that expect a violation
refute.

## What could follow

- Which of the modes `SHIP` and `FERRY` the messages use for a ferry decides
  whether `trips` finds its notices (`trips_transform.go:422`); the repository
  has samples of lines of mode `FERRY` only, none of such a message.
- The order of signal, stream closing and running calls at shutdown, if the
  parts of mcp-go it depends on were specified.

## Not modelled

- Wording and layout of replies: the slim shapes, `localizeTime` and the
  summary of a journey, error payloads, logs.
- Transport authorities and system info: one fetch, returned as it is.
- The HTTP listener and shutdown: `main.go` has a table of routes and two calls
  into net/http and mcp-go, whose sessions and streams are what is hard about
  it.
- The great-circle distance and `validateCoordinates`: floating point, which
  TLA+ has no notion of; `Catalogs` takes distances as given.
- Matching of names (case, diacritics) and of line prefixes: a flag and a set.
- The words of a broker message: which side it is about
  and whether a successful plan makes it stale (`filterStaleBrokerMessages`).
- The size of bodies: the limit of `fetchJSONRaw`, the lack of one in the cache.
- Panics and mcp-go's recovery of them, which the goroutines of the prefetch and
  of the stop-finders run outside of (`transport.go:140`, `journeyplanner.go:586`):
  a panic there ends the process. mcp-go's sessions and streams.
- Which stops the planner knows by a GID: `siteIDToGID` writes variant 0, so a
  stop whose own GID has another variant digit is asked for under the canonical
  one (`site_id.go:136`).
- Locations of a stop-finder reply that carry the GID of a stop area, whose 18xx
  stopId `siteIDFromStopFinderEntry` (`stop_finder_transform.go:210`) would read
  as a site's while `trips` does not (`trips_transform.go:600-606`).
- Memory: the map of the cache drops an entry only on a failure or when the
  same URL is asked again.
