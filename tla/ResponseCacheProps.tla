------------------------- MODULE ResponseCacheProps -------------------------
(***************************************************************************)
(* What makes ResponseCache correct: its safety and liveness properties,   *)
(* the refinement of SharedFetch, and the inductive invariant behind them. *)
(***************************************************************************)
EXTENDS ResponseCache

\* Two fetches of one cacheable URL are never under way at once, whatever
\* expires, fails or is replaced meanwhile: concurrent misses are coalesced.
OneFetchPerUrl ==
    \A c, d \in Callers :
        pc[c] = "fetch" /\ pc[d] = "fetch" /\ url[c] = url[d] => c = d

\* A call gets a reply that was published no earlier than the call, or a 2xx
\* reply published less than its TTL before the call: a failure
\* is never replayed to a later caller, however late its waiters wake up.
AnswersAreCurrent ==
    \A c \in Callers : pc[c] = "returned" =>
        \/ asked[c] <= got[c].at
        \/ /\ got[c].kind = "ok"
           /\ Cacheable(url[c])
           /\ asked[c] < got[c].at + Ttl(url[c])

\* An entry that is complete and still in the map holds a 2xx reply: errors
\* and other statuses reach the waiters but are dropped before they wake.
FailuresNotKept ==
    \A u \in Urls : entries[u] # NoEntry =>
        (InFlight(entries[u]) \/ heap[entries[u]].result.kind = "ok")

\* A caller sees a cancellation only when its own context has ended: the
\* owner's cancellation does not fail those who wait for its fetch.
CancelIsPrivate ==
    \A c \in Callers :
        pc[c] = "returned" /\ got[c].kind = "cancelled" => ctxDone[c]

\* The reply a caller gets is the reply to the URL it asked for, also when
\* two URLs differ in their query only.
KeyIntegrity ==
    \A c \in Callers : pc[c] = "returned" => got[c].url = url[c]

\* The fields of an entry are read without the mutex, so once its channel is
\* closed they never change while anyone can still reach it.
PublishedStays ==
    \A e \in Entries : heap[e].ready /\ ~Garbage(e) /\ ~Garbage(e)' => heap'[e] = heap[e]
PublishedEntriesImmutable == [][PublishedStays]_vars

\* Every call returns, provided each fetch ends.
EveryCallReturns ==
    (\A c \in Callers : WF_vars(FetchEnds(c))) =>
    \A c \in Callers : pc[c] \notin {"idle", "returned"} ~> pc[c] = "returned"

\* A caller that waits for another's fetch honours its own context even if
\* that fetch never ends.
WaiterHonoursDeadline ==
    \A c \in Callers : pc[c] = "await" /\ ctxDone[c] ~> pc[c] = "returned"

-----------------------------------------------------------------------------
\* ResponseCache implements SharedFetch.  A URL is being fetched while its
\* entry is mapped and not ready; Close of a success is the abstract Succeed,
\* and Forget of a failure, which comes before Close, is the abstract Fail.
Owns(c) == pc[c] \in {"fetch", "forget", "stamp", "close"}
Holds(c) == Owns(c) \/ pc[c] = "await"
Mapped(u) == entries[u] # NoEntry

FetchingUrls == {u \in Urls : Mapped(u) /\ InFlight(entries[u])}
KeptUrls == {u \in Urls : Mapped(u) /\ ~InFlight(entries[u])}
Kept == [u \in KeptUrls |-> heap[entries[u]].expires - Ttl(u)]
Phase == [c \in Callers |-> IF Holds(c) THEN "waiting" ELSE pc[c]]

\* The outcome is out once its entry is ready, or forgotten and so a failure.
Settled(c) == Holds(c) /\ (~InFlight(entry[c]) \/ entries[url[c]] # entry[c])
Due == [c \in Callers |-> IF Settled(c) THEN heap[entry[c]].result.kind ELSE "none"]
Given == [c \in Callers |-> got[c].kind]

Shared == INSTANCE SharedFetch WITH
    fetching <- FetchingUrls, kept <- Kept, state <- Phase, want <- url, due <- Due, out <- Given

\* The cache keeps the promises of SharedFetch, step by step.
ImplementsSharedFetch == Shared!Spec

-----------------------------------------------------------------------------
\* The inductive invariant, by named parts.

\* A caller references an entry exactly while it fills or waits, and only
\* cacheable URLs have entries.
References ==
    /\ \A c \in Callers :
        /\ Holds(c) => entry[c] \in Entries /\ Cacheable(url[c])
        /\ ~Holds(c) => entry[c] = NoEntry
    /\ \A u \in Urls : Mapped(u) => Cacheable(u)
    /\ \A u, v \in Urls : Mapped(u) /\ entries[u] = entries[v] => u = v

\* An entry that is not ready has exactly one owner, who fetches its URL.
Ownership ==
    /\ \A c \in Callers : Owns(c) => InFlight(entry[c])
    /\ \A c, d \in Callers : Owns(c) /\ Owns(d) /\ entry[c] = entry[d] => c = d
    /\ \A u \in Urls : Mapped(u) /\ InFlight(entries[u]) =>
        \E c \in Callers : Owns(c) /\ entry[c] = entries[u] /\ url[c] = u
    /\ \A c \in Callers : Holds(c) /\ InFlight(entry[c]) =>
        \E d \in Callers : Owns(d) /\ entry[d] = entry[c] /\ url[d] = url[c]

\* The entry stays mapped until its outcome is known to be a failure.
Mapping ==
    \A c \in Callers :
        /\ pc[c] \in {"fetch", "forget", "stamp"} => entries[url[c]] = entry[c]
        /\ pc[c] = "forget" => heap[entry[c]].result.kind \in {"status", "error"}
        /\ pc[c] = "stamp" => heap[entry[c]].result.kind = "ok"
        /\ pc[c] \in {"forget", "stamp", "close"} => heap[entry[c]].result.url = url[c]
        /\ pc[c] = "close" =>
            /\ heap[entry[c]].result.kind \in Outcomes
            /\ IF heap[entry[c]].result.kind = "ok"
               THEN /\ entries[url[c]] = entry[c]
                    /\ heap[entry[c]].expires \in Ttl(url[c])..(now + Ttl(url[c]))
               ELSE \A u \in Urls : entries[u] # entry[c]

\* A reply for u that a call made at time t may be given.
CurrentFor(reply, u, t) ==
    \/ t <= reply.at
    \/ reply.kind = "ok" /\ Cacheable(u) /\ t < reply.at + Ttl(u)

\* What is published is right for whoever can still see it.
Publication ==
    /\ \A u \in Urls : Mapped(u) /\ ~InFlight(entries[u]) =>
        LET e == heap[entries[u]]
        IN e.result.kind = "ok" /\ e.result.url = u /\ e.expires \in Ttl(u)..(e.result.at + Ttl(u))
    /\ \A c \in Callers : Holds(c) /\ ~InFlight(entry[c]) =>
        LET r == heap[entry[c]].result
        IN r.kind \in Outcomes /\ r.url = url[c] /\ CurrentFor(r, url[c], asked[c])

Answered ==
    \A c \in Callers :
        /\ asked[c] <= now
        /\ pc[c] = "direct" => ~Cacheable(url[c])
        /\ pc[c] = "returned" =>
            /\ got[c].url = url[c]
            /\ got[c].kind = "cancelled" => ctxDone[c]
            /\ CurrentFor(got[c], url[c], asked[c])

\* Everything the proofs of the safety properties rest on: who owns an entry,
\* how long it stays mapped and what is in it once it is published.
IInv == TypeOK /\ References /\ Ownership /\ Mapping /\ Publication /\ Answered
=============================================================================
