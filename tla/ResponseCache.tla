--------------------------- MODULE ResponseCache ---------------------------
(***************************************************************************)
(* The coalescing response cache of slclient/cache.go.                     *)
(*                                                                         *)
(* Every goroutine that calls cachingClient.Do is a member of Callers; a   *)
(* caller runs one call after another.  cacheEntry objects live on a heap  *)
(* of Entries: one that nobody references any more is reclaimed, blank, and   *)
(* may be allocated again.  `now' is the clock the cache reads.  The client below *)
(* (retry and net/http) is external: it answers when it likes, with a 2xx  *)
(* ("ok"), another status ("status") or an error ("error").                *)
(*                                                                         *)
(* asked and the `at' of a reply are history: when a call looked the cache *)
(* up, and when the reply became visible to the callers.                   *)
(***************************************************************************)
EXTENDS Naturals

CONSTANTS
    Callers,   \* goroutines inside Do
    Urls,      \* the request URLs, as String() renders them
    PathOf,    \* the path of each URL, without its query
    ttls,      \* the TTL of each listed path
    Entries,   \* the heap of cacheEntry objects
    NoEntry,   \* nil
    MaxTime    \* bound on the clock

ASSUME CacheAssumption ==
    /\ NoEntry \notin Entries
    /\ Urls # {}
    /\ MaxTime \in Nat
    /\ \A u \in Urls : PathOf[u] \in DOMAIN ttls => ttls[PathOf[u]] \in Nat

VARIABLES
    entries,   \* the map: URL -> entry or nil
    heap,      \* the contents of each entry
    pc, url, entry, ctxDone, asked, got,   \* per caller
    now

cacheVars == <<entries, heap>>
callVars == <<pc, url, entry, ctxDone, asked, got>>
vars == <<cacheVars, callVars, now>>

-----------------------------------------------------------------------------
Outcomes == {"ok", "status", "error"}
Reply == [kind : Outcomes \cup {"cancelled"}, url : Urls, at : Nat]
NoReply == [kind |-> "none"]

\* ready: the channel is closed.  result: status, header and body, or err.
\* expires: 0 stands for the zero time.Time.
CacheEntry == [ready : BOOLEAN, result : Reply \cup {NoReply}, expires : Nat]
Blank == [ready |-> FALSE, result |-> NoReply, expires |-> 0]

AnyUrl == CHOOSE u \in Urls : TRUE   \* of a caller that asks for nothing

Cacheable(u) == PathOf[u] \in DOMAIN ttls
Ttl(u) == ttls[PathOf[u]]
PathKey(u) == CHOOSE v \in Urls : PathOf[v] = PathOf[u]   \* mutant: keyed without the query
Key(u) == u

Steps == {"idle", "direct", "fetch", "forget", "stamp", "close", "await", "returned"}

TypeOK ==
    /\ entries \in [Urls -> Entries \cup {NoEntry}]
    /\ heap \in [Entries -> CacheEntry]
    /\ pc \in [Callers -> Steps]
    /\ url \in [Callers -> Urls]
    /\ entry \in [Callers -> Entries \cup {NoEntry}]
    /\ ctxDone \in [Callers -> BOOLEAN]
    /\ asked \in [Callers -> Nat]
    /\ got \in [Callers -> Reply \cup {NoReply}]
    /\ now \in Nat

Init ==
    /\ entries = [u \in Urls |-> NoEntry]
    /\ heap = [e \in Entries |-> Blank]
    /\ pc = [c \in Callers |-> "idle"]
    /\ url = [c \in Callers |-> AnyUrl]
    /\ entry = [c \in Callers |-> NoEntry]
    /\ ctxDone = [c \in Callers |-> FALSE]
    /\ asked = [c \in Callers |-> 0]
    /\ got = [c \in Callers |-> NoReply]
    /\ now = 0

-----------------------------------------------------------------------------
\* lookup, one critical section of mu.
InFlight(e) == ~heap[e].ready
\* mutants: an entry under way is not shared; an expired one still is
LiveWhenReady(u) == entries[Key(u)] # NoEntry /\ now < heap[entries[Key(u)]].expires
LiveForever(u) == entries[Key(u)] # NoEntry
Live(u) == LET e == entries[Key(u)]
           IN e # NoEntry /\ (InFlight(e) \/ now < heap[e].expires)

Garbage(e) == /\ \A u \in Urls : entries[u] # e
              /\ \A c \in Callers : entry[c] # e

\* A new cacheEntry: any blank one will do.
Fresh == CHOOSE e \in Entries : Garbage(e)

\* The heap once the entries outside `kept' are reclaimed.
Swept(kept) == [e \in Entries |-> IF e \in kept THEN heap[e] ELSE Blank]

Asks(c, u, step) ==
    /\ pc[c] = "idle"
    /\ pc' = [pc EXCEPT ![c] = step]
    /\ url' = [url EXCEPT ![c] = u]
    /\ asked' = [asked EXCEPT ![c] = now]

\* A path without a rule goes straight to the client below, on the caller's
\* own context.
Bypass(c, u) ==
    /\ ~Cacheable(u)
    /\ Asks(c, u, "direct")
    /\ UNCHANGED <<cacheVars, entry, ctxDone, got, now>>

Share(c, u) ==
    /\ Cacheable(u)
    /\ Live(u)
    /\ Asks(c, u, "await")
    /\ entry' = [entry EXCEPT ![c] = entries[Key(u)]]
    /\ UNCHANGED <<cacheVars, ctxDone, got, now>>

Miss(c, u) ==
    /\ Cacheable(u)
    /\ ~Live(u)
    /\ \E e \in Entries : Garbage(e)
    /\ Asks(c, u, "fetch")
    /\ entries' = [entries EXCEPT ![Key(u)] = Fresh]
    /\ heap' = Swept({entries[v] : v \in Urls \ {Key(u)}} \cup {entry[d] : d \in Callers})
    /\ entry' = [entry EXCEPT ![c] = Fresh]
    /\ UNCHANGED <<ctxDone, got, now>>

-----------------------------------------------------------------------------
\* fill, by the caller that owns the entry.

\* mutant: the fetch runs on the owner's own context
AttachedOutcomes(c) == Outcomes \cup (IF ctxDone[c] THEN {"cancelled"} ELSE {})
\* What the detached fetch may answer: the caller's own cancellation is not
\* among it.
FetchOutcomes(c) == Outcomes

AfterFetchUnchecked(kind) == IF kind = "error" THEN "forget" ELSE "stamp"   \* mutant: status not looked at
AfterFetch(kind) == IF kind = "ok" THEN "stamp" ELSE "forget"

\* mutant: the channel is closed as soon as the body is in
FetchReturnsAndCloses(c, kind) ==
    /\ pc[c] = "fetch"
    /\ heap' = [heap EXCEPT ![entry[c]].result = [kind |-> kind, url |-> url[c], at |-> now],
                            ![entry[c]].ready = TRUE]
    /\ pc' = [pc EXCEPT ![c] = AfterFetch(kind)]
    /\ UNCHANGED <<entries, url, entry, ctxDone, asked, got, now>>

FetchReturns(c, kind) ==
    /\ pc[c] = "fetch"
    /\ kind \in FetchOutcomes(c)
    /\ heap' = [heap EXCEPT ![entry[c]].result = [kind |-> kind, url |-> url[c], at |-> now]]
    /\ pc' = [pc EXCEPT ![c] = AfterFetch(kind)]
    /\ UNCHANGED <<entries, url, entry, ctxDone, asked, got, now>>

\* mutant: a failed entry is left in the map
ForgetNothing(c) ==
    /\ pc[c] = "forget"
    /\ pc' = [pc EXCEPT ![c] = "close"]
    /\ UNCHANGED <<cacheVars, url, entry, ctxDone, asked, got, now>>

Forget(c) ==
    /\ pc[c] = "forget"
    /\ entries' = IF entries[Key(url[c])] = entry[c]
                  THEN [entries EXCEPT ![Key(url[c])] = NoEntry]
                  ELSE entries
    /\ pc' = [pc EXCEPT ![c] = "close"]
    /\ UNCHANGED <<heap, url, entry, ctxDone, asked, got, now>>

Stamp(c) ==
    /\ pc[c] = "stamp"
    /\ heap' = [heap EXCEPT ![entry[c]].expires = now + Ttl(url[c])]
    /\ pc' = [pc EXCEPT ![c] = "close"]
    /\ UNCHANGED <<entries, url, entry, ctxDone, asked, got, now>>

\* mutant: the channel is closed on the success path only
CloseOnSuccess(c) ==
    /\ pc[c] = "close"
    /\ heap' = [heap EXCEPT ![entry[c]].ready = (heap[entry[c]].result.kind = "ok")]
    /\ pc' = [pc EXCEPT ![c] = "await"]
    /\ UNCHANGED <<entries, url, entry, ctxDone, asked, got, now>>

Close(c) ==
    /\ pc[c] = "close"
    /\ heap' = [heap EXCEPT ![entry[c]].ready = TRUE, ![entry[c]].result.at = now]
    /\ pc' = [pc EXCEPT ![c] = "await"]
    /\ UNCHANGED <<entries, url, entry, ctxDone, asked, got, now>>

-----------------------------------------------------------------------------
\* The select at the end of Do, and what the caller sees.  When the entry is
\* ready and the context is done, select takes either branch.
Answers(c, reply) ==
    /\ got' = [got EXCEPT ![c] = reply]
    /\ pc' = [pc EXCEPT ![c] = "returned"]
    /\ entry' = [entry EXCEPT ![c] = NoEntry]
    /\ heap' = Swept({entries[u] : u \in Urls} \cup {entry[d] : d \in Callers \ {c}})
    /\ UNCHANGED <<entries, url, ctxDone, asked, now>>

Cancelled(c) == [kind |-> "cancelled", url |-> url[c], at |-> now]

Return(c) ==
    /\ pc[c] = "await"
    /\ ~InFlight(entry[c])
    /\ Answers(c, heap[entry[c]].result)

NeverGiveUp(c) == pc[c] = "none" /\ UNCHANGED vars   \* mutant: waits for the channel only

GiveUp(c) ==
    /\ pc[c] = "await"
    /\ ctxDone[c]
    /\ Answers(c, Cancelled(c))

DirectReturn(c, kind) ==
    /\ pc[c] = "direct"
    /\ kind \in Outcomes
    /\ Answers(c, [kind |-> kind, url |-> url[c], at |-> now])

DirectGiveUp(c) ==
    /\ pc[c] = "direct"
    /\ ctxDone[c]
    /\ Answers(c, Cancelled(c))

\* The environment: a caller's context ends (its deadline, or a client that
\* goes away), its goroutine moves on to another call, the clock advances.
CtxEnds(c) ==
    /\ pc[c] \notin {"idle", "returned"}
    /\ ~ctxDone[c]
    /\ ctxDone' = [ctxDone EXCEPT ![c] = TRUE]
    /\ UNCHANGED <<cacheVars, pc, url, entry, asked, got, now>>

Consume(c) ==
    /\ pc[c] = "returned"
    /\ pc' = [pc EXCEPT ![c] = "idle"]
    /\ got' = [got EXCEPT ![c] = NoReply]
    /\ ctxDone' = [ctxDone EXCEPT ![c] = FALSE]
    /\ asked' = [asked EXCEPT ![c] = 0]
    /\ url' = [url EXCEPT ![c] = AnyUrl]
    /\ UNCHANGED <<cacheVars, entry, now>>

Tick ==
    /\ now < MaxTime
    /\ now' = now + 1
    /\ UNCHANGED <<cacheVars, callVars>>

CallerStep(c) ==
    \/ \E kind \in FetchOutcomes(c) : FetchReturns(c, kind)
    \/ Forget(c)
    \/ Stamp(c)
    \/ Close(c)
    \/ Return(c)
    \/ GiveUp(c)
    \/ \E kind \in Outcomes : DirectReturn(c, kind)
    \/ DirectGiveUp(c)

Next ==
    \/ \E c \in Callers, u \in Urls : Bypass(c, u) \/ Share(c, u) \/ Miss(c, u)
    \/ \E c \in Callers : CallerStep(c) \/ CtxEnds(c) \/ Consume(c)
    \/ Tick

Spec == Init /\ [][Next]_vars

\* What the scheduler and the http.Client timeout (slclient/client.go)
\* guarantee: a runnable goroutine runs, a fetch ends.
FetchEnds(c) ==
    \/ \E kind \in FetchOutcomes(c) : FetchReturns(c, kind)
    \/ \E kind \in Outcomes : DirectReturn(c, kind)
LocalStep(c) == Forget(c) \/ Stamp(c) \/ Close(c) \/ Return(c) \/ GiveUp(c) \/ DirectGiveUp(c)

StuckUpstreamSpec == Spec /\ \A c \in Callers : WF_vars(LocalStep(c))

=============================================================================
