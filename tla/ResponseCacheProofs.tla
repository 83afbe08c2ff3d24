------------------------ MODULE ResponseCacheProofs ------------------------
(***************************************************************************)
(* Proofs, for every set of callers, URLs, TTLs and entries, of the safety *)
(* properties of ResponseCacheProps and that the cache implements          *)
(* SharedFetch.  The argument is the inductive invariant IInv; each action *)
(* is taken in turn, and under it each part of the invariant.              *)
(***************************************************************************)
EXTENDS ResponseCacheProps, TLAPS

\* Urls is not empty, so the CHOOSE in Init picks one of them.
LEMMA AnyUrlIsUrl == AnyUrl \in Urls
  BY CacheAssumption DEF AnyUrl

\* The TTL of a listed path is a natural number.
LEMMA TtlIsNat == \A u \in Urls : Cacheable(u) => Ttl(u) \in Nat
  BY CacheAssumption DEF Cacheable, Ttl

\* new(cacheEntry) returns an object nobody references.
LEMMA FreshIsGarbage ==
  ASSUME \E e \in Entries : Garbage(e)
  PROVE  Fresh \in Entries /\ Garbage(Fresh)
  BY DEF Fresh

\* Reclaiming entries leaves a heap of well-formed entries.
LEMMA SweptType ==
  ASSUME heap \in [Entries -> CacheEntry], NEW kept
  PROVE  Swept(kept) \in [Entries -> CacheEntry]
  BY DEF Swept, CacheEntry, Blank, NoReply

\* The initial state is well-typed.
LEMMA TypeInit == Init => TypeOK
  BY AnyUrlIsUrl, CacheAssumption DEF Init, TypeOK, CacheEntry, Blank, NoReply, Steps

\* Every step keeps the state well-typed.
LEMMA TypeStep == IInv /\ [Next]_vars => TypeOK'
<1> SUFFICES ASSUME IInv, [Next]_vars PROVE TypeOK'
  OBVIOUS
<1> USE DEF IInv
<1>1. ASSUME NEW c \in Callers, NEW u \in Urls, Bypass(c, u) PROVE TypeOK'
  BY <1>1 DEF Bypass, Asks, TypeOK, Steps, cacheVars
<1>2. ASSUME NEW c \in Callers, NEW u \in Urls, Share(c, u) PROVE TypeOK'
  BY <1>2 DEF Share, Asks, TypeOK, Steps, cacheVars, Key
<1>3. ASSUME NEW c \in Callers, NEW u \in Urls, Miss(c, u) PROVE TypeOK'
  BY <1>3, FreshIsGarbage, SweptType DEF Miss, Asks, TypeOK, Steps, Key
<1>4. ASSUME NEW c \in Callers, NEW kind \in FetchOutcomes(c), FetchReturns(c, kind) PROVE TypeOK'
  <2>1. entry[c] \in Entries
    BY <1>4 DEF FetchReturns, References, Holds, Owns
  <2>2. heap' \in [Entries -> CacheEntry]
    BY <1>4, <2>1 DEF FetchReturns, TypeOK, CacheEntry, Reply, FetchOutcomes
  <2> QED
    BY <1>4, <2>2 DEF FetchReturns, TypeOK, Steps, AfterFetch
<1>5. ASSUME NEW c \in Callers, Forget(c) PROVE TypeOK'
  BY <1>5 DEF Forget, TypeOK, Steps, Key
<1>6. ASSUME NEW c \in Callers, Stamp(c) PROVE TypeOK'
  <2>1. entry[c] \in Entries /\ now + Ttl(url[c]) \in Nat
    BY <1>6, TtlIsNat DEF Stamp, References, Holds, Owns, TypeOK
  <2>2. heap' \in [Entries -> CacheEntry]
    BY <1>6, <2>1 DEF Stamp, TypeOK, CacheEntry
  <2> QED
    BY <1>6, <2>2 DEF Stamp, TypeOK, Steps
<1>7. ASSUME NEW c \in Callers, Close(c) PROVE TypeOK'
  <2>1. entry[c] \in Entries /\ heap[entry[c]].result \in Reply
    BY <1>7 DEF Close, References, Mapping, Holds, Owns, TypeOK, CacheEntry, NoReply, Outcomes
  <2>2. heap' \in [Entries -> CacheEntry]
    BY <1>7, <2>1 DEF Close, TypeOK, CacheEntry, Reply
  <2> QED
    BY <1>7, <2>2 DEF Close, TypeOK, Steps
<1>8. ASSUME NEW c \in Callers, Return(c) PROVE TypeOK'
  <2>1. heap[entry[c]].result \in Reply \cup {NoReply}
    BY <1>8 DEF Return, References, Holds, TypeOK, CacheEntry
  <2> QED
    BY <1>8, <2>1, SweptType DEF Return, Answers, TypeOK, Steps
<1>9. ASSUME NEW c \in Callers, NEW reply \in Reply, Answers(c, reply) PROVE TypeOK'
  BY <1>9, SweptType DEF Answers, TypeOK, Steps
<1>10. ASSUME NEW c \in Callers, GiveUp(c) \/ DirectGiveUp(c) PROVE TypeOK'
  <2>1. Cancelled(c) \in Reply
    BY DEF Cancelled, Reply, TypeOK
  <2> QED
    BY <1>9, <1>10, <2>1 DEF GiveUp, DirectGiveUp
<1>11. ASSUME NEW c \in Callers, NEW kind \in Outcomes, DirectReturn(c, kind) PROVE TypeOK'
  <2>1. [kind |-> kind, url |-> url[c], at |-> now] \in Reply
    BY DEF Reply, TypeOK
  <2> QED
    BY <1>9, <1>11, <2>1 DEF DirectReturn
<1>12. ASSUME NEW c \in Callers, CtxEnds(c) PROVE TypeOK'
  BY <1>12 DEF CtxEnds, TypeOK, cacheVars
<1>13. ASSUME NEW c \in Callers, Consume(c) PROVE TypeOK'
  BY <1>13, AnyUrlIsUrl DEF Consume, TypeOK, cacheVars, Steps
<1>14. CASE Tick
  BY <1>14 DEF Tick, TypeOK, cacheVars, callVars
<1>15. CASE UNCHANGED vars
  BY <1>15 DEF vars, TypeOK, cacheVars, callVars
<1> QED
  BY <1>1, <1>2, <1>3, <1>4, <1>5, <1>6, <1>7, <1>8, <1>10, <1>11, <1>12, <1>13, <1>14, <1>15
  DEF Next, CallerStep

\* lookup finds a live entry: the caller joins those who wait for it.
LEMMA ShareStep ==
  ASSUME IInv, TypeOK', NEW c \in Callers, NEW u \in Urls, Share(c, u)
  PROVE  References' /\ Ownership' /\ Mapping' /\ Publication' /\ Answered'
<1> USE DEF IInv, TypeOK, Share, Asks, cacheVars, Key, Live, Holds, Owns, Mapped, InFlight
<1>a. entry' = [entry EXCEPT ![c] = entries[u]] /\ entries[u] \in Entries /\ Mapped(u)
  OBVIOUS
<1>b. \A d \in Callers \ {c} : pc'[d] = pc[d] /\ url'[d] = url[d] /\ entry'[d] = entry[d] /\ asked'[d] = asked[d]
  OBVIOUS
<1>c. pc'[c] = "await" /\ url'[c] = u /\ entry'[c] = entries[u] /\ asked'[c] = now
  OBVIOUS
<1>d. entries' = entries /\ heap' = heap /\ now' = now /\ got' = got /\ ctxDone' = ctxDone
  OBVIOUS
<1>1. References'
  BY <1>a, <1>b, <1>c, <1>d DEF References, Ownership, Mapping, Publication, Answered, CurrentFor
<1>2. Ownership'
  BY <1>a, <1>b, <1>c, <1>d DEF References, Ownership, Mapping, Publication, Answered, CurrentFor
<1>3. Mapping'
  BY <1>a, <1>b, <1>c, <1>d DEF References, Ownership, Mapping, Publication, Answered, CurrentFor
<1>4. Publication'
  <2>1. ASSUME ~InFlight(entries[u])
        PROVE  /\ heap[entries[u]].result.kind = "ok" /\ heap[entries[u]].result.url = u
               /\ now < heap[entries[u]].result.at + Ttl(u)
    <3>1. heap[entries[u]].result \in Reply
      BY <1>a, <2>1 DEF Publication, CacheEntry, NoReply
    <3>2. now < heap[entries[u]].expires /\ heap[entries[u]].expires <= heap[entries[u]].result.at + Ttl(u)
      BY <1>a, <2>1 DEF Publication
    <3>3. heap[entries[u]].expires \in Nat /\ heap[entries[u]].result.at \in Nat /\ Ttl(u) \in Nat
      BY <1>a, <3>1, TtlIsNat DEF CacheEntry, Reply
    <3> QED
      BY <1>a, <2>1, <3>2, <3>3 DEF Publication
  <2> QED
    BY <1>a, <1>b, <1>c, <1>d, <2>1 DEF Publication, CurrentFor, Outcomes
<1>5. Answered'
  BY <1>a, <1>b, <1>c, <1>d DEF References, Ownership, Mapping, Publication, Answered, CurrentFor
<1> QED
  BY <1>1, <1>2, <1>3, <1>4, <1>5

\* lookup replaces a dead entry, or none, by a fresh one: the entry it takes
\* was garbage, so no other caller or URL refers to it.
LEMMA MissStep ==
  ASSUME IInv, TypeOK', NEW c \in Callers, NEW u \in Urls, Miss(c, u)
  PROVE  References' /\ Ownership' /\ Mapping' /\ Publication' /\ Answered'
<1> USE DEF IInv, TypeOK, Miss, Asks, Key, Holds, Owns, Mapped, InFlight
<1>a. Fresh \in Entries /\ Garbage(Fresh)
  BY FreshIsGarbage
<1>b. heap'[Fresh] = Blank
  BY <1>a DEF Swept, Garbage
<1>c. \A d \in Callers \ {c} : pc'[d] = pc[d] /\ url'[d] = url[d] /\ entry'[d] = entry[d] /\ asked'[d] = asked[d]
  OBVIOUS
<1>d. \A d \in Callers : entry[d] \in Entries => heap'[entry[d]] = heap[entry[d]]
  BY DEF Swept
<1>e. \A v \in Urls \ {u} : entries'[v] = entries[v] /\ (Mapped(v) => heap'[entries[v]] = heap[entries[v]])
  BY DEF Swept
<1>f. entries'[u] = Fresh /\ entry'[c] = Fresh /\ pc'[c] = "fetch" /\ url'[c] = u /\ asked'[c] = now
  OBVIOUS
<1>g. \A d \in Callers : entry[d] # Fresh
  BY <1>a DEF Garbage
<1>h. \A v \in Urls : entries[v] # Fresh
  BY <1>a DEF Garbage
<1>i. \A d \in Callers : Owns(d) /\ Mapped(u) => entry[d] # entries[u]
  <2> SUFFICES ASSUME NEW d \in Callers, Owns(d), Mapped(u), entry[d] = entries[u] PROVE FALSE
    OBVIOUS
  <2> QED
    BY DEF Live, Ownership
<1>j. \A d \in Callers \ {c} : Holds(d)' => entry'[d] \in Entries /\ entry[d] \in Entries
  BY <1>c DEF References
<1>1. References'
  BY <1>a, <1>b, <1>c, <1>d, <1>e, <1>f, <1>g, <1>h, <1>i, <1>j, CacheAssumption DEF References, Ownership, Mapping, Publication, Answered, CurrentFor, Blank
<1>2. Ownership'
  <2>1. \A d \in Callers : Owns(d)' => InFlight(entry[d])'
    BY <1>a, <1>b, <1>c, <1>d, <1>f, <1>j DEF Ownership, Blank
  <2>2. \A d, e \in Callers : Owns(d)' /\ Owns(e)' /\ entry'[d] = entry'[e] => d = e
    BY <1>c, <1>f, <1>g DEF Ownership
  <2>3. ASSUME NEW v \in Urls, Mapped(v)', InFlight(entries[v])'
        PROVE  \E d \in Callers : Owns(d)' /\ entry'[d] = entries'[v] /\ url'[d] = v
    <3>1. CASE v = u
      BY <1>f, <3>1
    <3>2. CASE v # u
      <4>1. Mapped(v) /\ InFlight(entries[v])
        BY <1>e, <2>3, <3>2
      <4>2. PICK d \in Callers : Owns(d) /\ entry[d] = entries[v] /\ url[d] = v
        BY <4>1 DEF Ownership
      <4> QED
        BY <1>c, <1>e, <3>2, <4>2
    <3> QED
      BY <3>1, <3>2
  <2>4. ASSUME NEW d \in Callers, Holds(d)', InFlight(entry[d])'
        PROVE  \E o \in Callers : Owns(o)' /\ entry'[o] = entry'[d] /\ url'[o] = url'[d]
    <3>1. CASE d = c
      BY <1>f, <3>1
    <3>2. CASE d # c
      <4>1. Holds(d) /\ InFlight(entry[d])
        BY <1>c, <1>d, <1>j, <2>4, <3>2
      <4>2. PICK o \in Callers : Owns(o) /\ entry[o] = entry[d] /\ url[o] = url[d]
        BY <4>1 DEF Ownership
      <4> QED
        BY <1>c, <3>2, <4>2
    <3> QED
      BY <3>1, <3>2
  <2> QED
    BY <2>1, <2>2, <2>3, <2>4 DEF Ownership
<1>3. Mapping'
  BY <1>a, <1>b, <1>c, <1>d, <1>e, <1>f, <1>g, <1>h, <1>i, <1>j, CacheAssumption DEF References, Ownership, Mapping, Publication, Answered, CurrentFor, Blank
<1>4. Publication'
  <2>1. \A v \in Urls : Mapped(v)' /\ ~InFlight(entries[v])' =>
          v # u /\ Mapped(v) /\ heap'[entries'[v]] = heap[entries[v]]
    BY <1>b, <1>e, <1>f DEF Blank
  <2>2. \A d \in Callers : Holds(d)' /\ ~InFlight(entry[d])' =>
          d # c /\ Holds(d) /\ heap'[entry'[d]] = heap[entry[d]]
    BY <1>b, <1>c, <1>d, <1>f, <1>j DEF Blank
  <2>3. Publication /\ \A d \in Callers : Holds(d)' /\ ~InFlight(entry[d])' => url'[d] = url[d] /\ asked'[d] = asked[d]
    BY <1>c, <2>2
  <2> QED
    BY ONLY <2>1, <2>2, <2>3 DEF Publication, CurrentFor, Mapped, InFlight
<1>5. Answered'
  BY <1>a, <1>b, <1>c, <1>d, <1>e, <1>f, <1>g, <1>h, <1>i, <1>j, CacheAssumption DEF References, Ownership, Mapping, Publication, Answered, CurrentFor, Blank
<1> QED
  BY <1>1, <1>2, <1>3, <1>4, <1>5

\* fill gets its outcome: only the entry of the owner changes, and nobody
\* can read it yet.
LEMMA FetchReturnsStep ==
  ASSUME IInv, TypeOK', NEW c \in Callers, NEW kind \in FetchOutcomes(c), FetchReturns(c, kind)
  PROVE  References' /\ Ownership' /\ Mapping' /\ Publication' /\ Answered'
<1> USE DEF IInv, TypeOK, FetchReturns, FetchOutcomes, Outcomes, AfterFetch, Holds, Owns, Mapped, InFlight
<1>a. entry[c] \in Entries /\ heap'[entry[c]].ready = heap[entry[c]].ready /\ heap'[entry[c]].expires = heap[entry[c]].expires
  BY DEF References, CacheEntry
<1>b. heap'[entry[c]].result = [kind |-> kind, url |-> url[c], at |-> now]
  BY <1>a DEF CacheEntry
<1>c. \A e \in Entries \ {entry[c]} : heap'[e] = heap[e]
  OBVIOUS
<1>d. \A d \in Callers \ {c} : pc'[d] = pc[d]
  OBVIOUS
<1>e. pc'[c] = IF kind = "ok" THEN "stamp" ELSE "forget"
  OBVIOUS
<1>1. References'
  BY <1>a, <1>b, <1>c, <1>d, <1>e DEF References, Ownership, Mapping, Publication, Answered, CurrentFor
<1>2. Ownership'
  BY <1>a, <1>b, <1>c, <1>d, <1>e DEF References, Ownership, Mapping, Publication, Answered, CurrentFor
<1>3. Mapping'
  BY <1>a, <1>b, <1>c, <1>d, <1>e DEF References, Ownership, Mapping, Publication, Answered, CurrentFor
<1>4. Publication'
  BY <1>a, <1>b, <1>c, <1>d, <1>e DEF References, Ownership, Mapping, Publication, Answered, CurrentFor
<1>5. Answered'
  BY <1>a, <1>b, <1>c, <1>d, <1>e DEF References, Ownership, Mapping, Publication, Answered, CurrentFor
<1> QED
  BY <1>1, <1>2, <1>3, <1>4, <1>5

\* forget removes the entry of a failure; the guard on the map entry holds
\* because the entry is mapped until then.
LEMMA ForgetStep ==
  ASSUME IInv, TypeOK', NEW c \in Callers, Forget(c)
  PROVE  References' /\ Ownership' /\ Mapping' /\ Publication' /\ Answered'
<1> USE DEF IInv, TypeOK, Forget, Key, Holds, Owns, Mapped, InFlight
<1>a. entries' = [entries EXCEPT ![url[c]] = NoEntry] /\ entry[c] \in Entries
  BY DEF Mapping, References
<1>b. \A d \in Callers \ {c} : pc'[d] = pc[d]
  OBVIOUS
<1>c. pc'[c] = "close" /\ entries'[url[c]] = NoEntry /\ \A v \in Urls \ {url[c]} : entries'[v] = entries[v]
  BY <1>a
<1>d. heap[entry[c]].result.kind \in {"status", "error"} /\ heap[entry[c]].result.url = url[c]
  BY DEF Mapping
<1>e. \A d \in Callers \ {c} : Owns(d) => entry[d] # entry[c]
  BY DEF Ownership
<1>f. entries[url[c]] = entry[c]
  BY DEF Mapping
<1>g. \A v \in Urls \ {url[c]} : entries[v] # entry[c]
  BY <1>a, <1>f, CacheAssumption DEF References
<1>1. References'
  BY <1>a, <1>b, <1>c, <1>d, <1>e, <1>f, <1>g, CacheAssumption DEF References, Ownership, Mapping, Publication, Answered, CurrentFor, Outcomes
<1>2. Ownership'
  BY <1>a, <1>b, <1>c, <1>d, <1>e, <1>f, <1>g, CacheAssumption DEF References, Ownership, Mapping, Publication, Answered, CurrentFor, Outcomes
<1>3. Mapping'
  BY <1>a, <1>b, <1>c, <1>d, <1>e, <1>f, <1>g, CacheAssumption DEF References, Ownership, Mapping, Publication, Answered, CurrentFor, Outcomes
<1>4. Publication'
  BY <1>a, <1>b, <1>c, <1>d, <1>e, <1>f, <1>g, CacheAssumption DEF References, Ownership, Mapping, Publication, Answered, CurrentFor, Outcomes
<1>5. Answered'
  BY <1>a, <1>b, <1>c, <1>d, <1>e, <1>f, <1>g, CacheAssumption DEF References, Ownership, Mapping, Publication, Answered, CurrentFor, Outcomes
<1> QED
  BY <1>1, <1>2, <1>3, <1>4, <1>5

\* fill stamps the expiry of a success, before anyone can read it.
LEMMA StampStep ==
  ASSUME IInv, TypeOK', NEW c \in Callers, Stamp(c)
  PROVE  References' /\ Ownership' /\ Mapping' /\ Publication' /\ Answered'
<1> USE DEF IInv, TypeOK, Stamp, Holds, Owns, Mapped, InFlight
<1>a. entry[c] \in Entries /\ Ttl(url[c]) \in Nat
  BY TtlIsNat DEF References
<1>b. /\ heap'[entry[c]].ready = heap[entry[c]].ready /\ heap'[entry[c]].result = heap[entry[c]].result
      /\ heap'[entry[c]].expires = now + Ttl(url[c])
  BY <1>a DEF CacheEntry
<1>c. \A e \in Entries \ {entry[c]} : heap'[e] = heap[e]
  OBVIOUS
<1>d. pc'[c] = "close" /\ \A d \in Callers \ {c} : pc'[d] = pc[d]
  OBVIOUS
<1>e. \A d \in Callers \ {c} : Owns(d) => entry[d] # entry[c]
  BY DEF Ownership
<1>1. References'
  BY <1>a, <1>b, <1>c, <1>d, <1>e DEF References, Ownership, Mapping, Publication, Answered, CurrentFor, Outcomes
<1>2. Ownership'
  BY <1>a, <1>b, <1>c, <1>d, <1>e DEF References, Ownership, Mapping, Publication, Answered, CurrentFor, Outcomes
<1>3. Mapping'
  BY <1>a, <1>b, <1>c, <1>d, <1>e DEF References, Ownership, Mapping, Publication, Answered, CurrentFor, Outcomes
<1>4. Publication'
  BY <1>a, <1>b, <1>c, <1>d, <1>e DEF References, Ownership, Mapping, Publication, Answered, CurrentFor, Outcomes
<1>5. Answered'
  BY <1>a, <1>b, <1>c, <1>d, <1>e DEF References, Ownership, Mapping, Publication, Answered, CurrentFor, Outcomes
<1> QED
  BY <1>1, <1>2, <1>3, <1>4, <1>5

\* A call returns with a reply that is right for it: it lets go of its entry,
\* which only it, or others that wait for the same, may still hold.
LEMMA AnswersStep ==
  ASSUME IInv, TypeOK', NEW c \in Callers, NEW reply, pc[c] \in {"await", "direct"}, Answers(c, reply),
         reply.url = url[c], reply.kind = "cancelled" => ctxDone[c], CurrentFor(reply, url[c], asked[c])
  PROVE  References' /\ Ownership' /\ Mapping' /\ Publication' /\ Answered'
<1> USE DEF IInv, TypeOK, Answers, Holds, Owns, Mapped, InFlight
<1>a. \A d \in Callers \ {c} : entry'[d] = entry[d] /\ pc'[d] = pc[d] /\ got'[d] = got[d]
  OBVIOUS
<1>b. pc'[c] = "returned" /\ entry'[c] = NoEntry /\ got'[c] = reply
  OBVIOUS
<1>c. \A d \in Callers \ {c} : entry[d] \in Entries => heap'[entry[d]] = heap[entry[d]]
  BY DEF Swept
<1>d. \A v \in Urls : entries[v] \in Entries => heap'[entries[v]] = heap[entries[v]]
  BY DEF Swept
<1>e. ~Owns(c) /\ ~Holds(c)'
  BY <1>b
<1>f. UNCHANGED <<entries, url, ctxDone, asked, now>>
  OBVIOUS
<1>g. \A d \in Callers : Holds(d)' => d # c /\ Holds(d) /\ entry[d] \in Entries /\ heap'[entry[d]] = heap[entry[d]]
  BY <1>a, <1>b, <1>c DEF References
<1>h. \A d \in Callers : Owns(d) <=> Owns(d)'
  BY <1>a, <1>b
<1>1. References'
  BY <1>a, <1>b, <1>c, <1>d, <1>e, <1>f DEF References, Ownership, Mapping, Publication, Answered, CurrentFor
<1>2. Ownership'
  <2>1. \A d \in Callers : Owns(d)' => InFlight(entry[d])'
    BY <1>a, <1>g DEF Ownership
  <2>2. \A d, e \in Callers : Owns(d)' /\ Owns(e)' /\ entry'[d] = entry'[e] => d = e
    BY <1>a, <1>e, <1>h DEF Ownership
  <2>3. ASSUME NEW u \in Urls, Mapped(u)', InFlight(entries[u])'
        PROVE  \E d \in Callers : Owns(d)' /\ entry'[d] = entries'[u] /\ url'[d] = u
    <3>1. Mapped(u) /\ InFlight(entries[u])
      BY <1>d, <1>f, <2>3
    <3>2. PICK d \in Callers : Owns(d) /\ entry[d] = entries[u] /\ url[d] = u
      BY <3>1 DEF Ownership
    <3> QED
      BY <1>a, <1>e, <1>f, <1>h, <3>2
  <2>4. ASSUME NEW d \in Callers, Holds(d)', InFlight(entry[d])'
        PROVE  \E o \in Callers : Owns(o)' /\ entry'[o] = entry'[d] /\ url'[o] = url'[d]
    <3>1. Holds(d) /\ InFlight(entry[d]) /\ d # c
      BY <1>a, <1>g, <2>4
    <3>2. PICK o \in Callers : Owns(o) /\ entry[o] = entry[d] /\ url[o] = url[d]
      BY <3>1 DEF Ownership
    <3> QED
      BY <1>a, <1>e, <1>f, <1>h, <3>1, <3>2
  <2> QED
    BY <2>1, <2>2, <2>3, <2>4 DEF Ownership
<1>3. Mapping'
  BY <1>a, <1>b, <1>c, <1>d, <1>e, <1>f DEF References, Ownership, Mapping, Publication, Answered, CurrentFor
<1>4. Publication'
  <2>1. \A u \in Urls : Mapped(u)' => Mapped(u) /\ heap'[entries'[u]] = heap[entries[u]]
    BY <1>d, <1>f
  <2>2. \A d \in Callers : Holds(d)' => Holds(d) /\ heap'[entry'[d]] = heap[entry[d]]
    BY <1>a, <1>g
  <2> QED
    BY <1>f, <2>1, <2>2 DEF Publication, CurrentFor
<1>5. Answered'
  BY <1>a, <1>b, <1>c, <1>d, <1>e, <1>f DEF References, Ownership, Mapping, Publication, Answered, CurrentFor
<1> QED
  BY <1>1, <1>2, <1>3, <1>4, <1>5

\* close publishes the entry to everyone who waits for it and to later calls.
LEMMA CloseStep ==
  ASSUME IInv, TypeOK', NEW c \in Callers, Close(c)
  PROVE  References' /\ Ownership' /\ Mapping' /\ Publication' /\ Answered'
<1> USE DEF IInv, TypeOK, Close, Holds, Owns, Mapped, InFlight
<1>a. entry[c] \in Entries /\ heap[entry[c]].result \in Reply
  BY DEF Mapping, References, CacheEntry, NoReply, Outcomes
<1>b. /\ heap'[entry[c]].ready = TRUE
      /\ heap'[entry[c]].expires = heap[entry[c]].expires
      /\ heap'[entry[c]].result.kind = heap[entry[c]].result.kind
      /\ heap'[entry[c]].result.url = url[c]
      /\ heap'[entry[c]].result.at = now
  BY <1>a DEF CacheEntry, Reply, Mapping
<1>c. \A e \in Entries \ {entry[c]} : heap'[e] = heap[e]
  OBVIOUS
<1>d. pc'[c] = "await" /\ \A d \in Callers \ {c} : pc'[d] = pc[d]
  OBVIOUS
<1>e. \A d \in Callers \ {c} : Owns(d) => entry[d] # entry[c]
  BY DEF Ownership
<1>f. heap[entry[c]].result.kind \in Outcomes /\ InFlight(entry[c])
  BY DEF Mapping, Ownership
<1>g. \A d \in Callers : Holds(d) /\ entry[d] = entry[c] => url[d] = url[c] /\ asked[d] <= now
  BY <1>e, <1>f DEF Ownership, Answered
<1>1. References'
  BY <1>a, <1>b, <1>c, <1>d, <1>e, <1>f, <1>g DEF References, Ownership, Mapping, Publication, Answered, CurrentFor
<1>2. Ownership'
  BY <1>a, <1>b, <1>c, <1>d, <1>e, <1>f, <1>g DEF References, Ownership, Mapping, Publication, Answered, CurrentFor
<1>3. Mapping'
  BY <1>a, <1>b, <1>c, <1>d, <1>e, <1>f, <1>g DEF References, Ownership, Mapping, Publication, Answered, CurrentFor
<1>4. Publication'
  <2>1. ASSUME NEW u \in Urls, Mapped(u)', ~InFlight(entries[u])'
        PROVE  /\ heap'[entries[u]].result.kind = "ok"
               /\ heap'[entries[u]].result.url = u
               /\ heap'[entries[u]].expires \in Ttl(u)..(heap'[entries[u]].result.at + Ttl(u))
    <3>1. CASE entries[u] = entry[c]
      BY <1>a, <1>b, <2>1, <3>1, CacheAssumption DEF Mapping, References
    <3>2. CASE entries[u] # entry[c]
      BY <1>c, <2>1, <3>2 DEF Publication
    <3> QED
      BY <3>1, <3>2
  <2>2. ASSUME NEW d \in Callers, Holds(d)', ~InFlight(entry[d])'
        PROVE  /\ heap'[entry[d]].result.kind \in Outcomes
               /\ heap'[entry[d]].result.url = url[d]
               /\ CurrentFor(heap'[entry[d]].result, url[d], asked[d])
    <3>1. Holds(d)
      BY <1>d, <2>2
    <3>2. CASE entry[d] = entry[c]
      BY <1>b, <1>f, <1>g, <3>1, <3>2 DEF CurrentFor
    <3>3. CASE entry[d] # entry[c]
      BY <1>c, <2>2, <3>1, <3>3 DEF Publication, References
    <3> QED
      BY <3>2, <3>3
  <2>3. UNCHANGED <<entries, entry, url, asked>>
    OBVIOUS
  <2>4. \A u \in Urls : Mapped(u)' /\ ~InFlight(entries[u])' =>
           /\ heap'[entries'[u]].result.kind = "ok"
           /\ heap'[entries'[u]].result.url = u
           /\ heap'[entries'[u]].expires \in Ttl(u)..(heap'[entries'[u]].result.at + Ttl(u))
    BY <2>1, <2>3
  <2>5. \A d \in Callers : Holds(d)' /\ ~InFlight(entry[d])' =>
           /\ heap'[entry'[d]].result.kind \in Outcomes
           /\ heap'[entry'[d]].result.url = url'[d]
           /\ CurrentFor(heap'[entry'[d]].result, url'[d], asked'[d])
    BY <2>2, <2>3
  <2> QED
    BY ONLY <2>4, <2>5 DEF Publication, CurrentFor
<1>5. Answered'
  BY <1>a, <1>b, <1>c, <1>d, <1>e, <1>f, <1>g DEF References, Ownership, Mapping, Publication, Answered, CurrentFor
<1> QED
  BY <1>1, <1>2, <1>3, <1>4, <1>5

\* A call of an unlisted path touches neither the map nor the heap.
LEMMA BypassStep ==
  ASSUME IInv, TypeOK', NEW c \in Callers, NEW u \in Urls, Bypass(c, u)
  PROVE  References' /\ Ownership' /\ Mapping' /\ Publication' /\ Answered'
<1> USE DEF IInv, TypeOK, Bypass, Asks, cacheVars, Holds, Owns, Mapped, InFlight
<1>1. References'
  BY DEF References, Ownership, Mapping, Publication, Answered, CurrentFor
<1>2. Ownership'
  BY DEF References, Ownership, Mapping, Publication, Answered, CurrentFor
<1>3. Mapping'
  BY DEF References, Ownership, Mapping, Publication, Answered, CurrentFor
<1>4. Publication'
  BY DEF References, Ownership, Mapping, Publication, Answered, CurrentFor
<1>5. Answered'
  BY DEF References, Ownership, Mapping, Publication, Answered, CurrentFor
<1> QED
  BY <1>1, <1>2, <1>3, <1>4, <1>5

\* A context that ends changes nothing but what its own call may be told.
LEMMA CtxEndsStep ==
  ASSUME IInv, TypeOK', NEW c \in Callers, CtxEnds(c)
  PROVE  References' /\ Ownership' /\ Mapping' /\ Publication' /\ Answered'
<1> USE DEF IInv, TypeOK, CtxEnds, cacheVars, Holds, Owns, Mapped, InFlight
<1>1. References'
  BY DEF References, Ownership, Mapping, Publication, Answered, CurrentFor
<1>2. Ownership'
  BY DEF References, Ownership, Mapping, Publication, Answered, CurrentFor
<1>3. Mapping'
  BY DEF References, Ownership, Mapping, Publication, Answered, CurrentFor
<1>4. Publication'
  BY DEF References, Ownership, Mapping, Publication, Answered, CurrentFor
<1>5. Answered'
  BY DEF References, Ownership, Mapping, Publication, Answered, CurrentFor
<1> QED
  BY <1>1, <1>2, <1>3, <1>4, <1>5

\* A goroutine moves on: its next call knows nothing of the last one.
LEMMA ConsumeStep ==
  ASSUME IInv, TypeOK', NEW c \in Callers, Consume(c)
  PROVE  References' /\ Ownership' /\ Mapping' /\ Publication' /\ Answered'
<1> USE DEF IInv, TypeOK, Consume, cacheVars, Holds, Owns, Mapped, InFlight
<1>1. References'
  BY DEF References, Ownership, Mapping, Publication, Answered, CurrentFor
<1>2. Ownership'
  BY DEF References, Ownership, Mapping, Publication, Answered, CurrentFor
<1>3. Mapping'
  BY DEF References, Ownership, Mapping, Publication, Answered, CurrentFor
<1>4. Publication'
  BY DEF References, Ownership, Mapping, Publication, Answered, CurrentFor
<1>5. Answered'
  BY DEF References, Ownership, Mapping, Publication, Answered, CurrentFor
<1> QED
  BY <1>1, <1>2, <1>3, <1>4, <1>5

\* What a direct call or a cancelled one is given satisfies AnswersStep.
LEMMA GivenNow ==
  ASSUME IInv, NEW c \in Callers, NEW kind, kind = "cancelled" => ctxDone[c]
  PROVE  LET reply == [kind |-> kind, url |-> url[c], at |-> now]
         IN /\ reply.url = url[c]
            /\ reply.kind = "cancelled" => ctxDone[c]
            /\ CurrentFor(reply, url[c], asked[c])
  BY DEF IInv, Answered, CurrentFor

\* A caller whose entry is ready is given a reply that is right for it.
LEMMA ReturnStep ==
  ASSUME IInv, TypeOK', NEW c \in Callers, Return(c)
  PROVE  References' /\ Ownership' /\ Mapping' /\ Publication' /\ Answered'
<1>1. /\ heap[entry[c]].result.url = url[c]
      /\ heap[entry[c]].result.kind # "cancelled"
      /\ CurrentFor(heap[entry[c]].result, url[c], asked[c])
  BY DEF Return, IInv, Publication, Holds, Outcomes
<1> QED
  BY <1>1, AnswersStep DEF Return

\* The initial state satisfies the invariant.
LEMMA InvariantInit == Init => IInv
<1> SUFFICES ASSUME Init PROVE IInv
  OBVIOUS
<1>1. TypeOK
  BY TypeInit
<1>2. /\ \A u \in Urls : ~Mapped(u)
      /\ \A c \in Callers : ~Holds(c) /\ ~Owns(c) /\ pc[c] = "idle" /\ entry[c] = NoEntry
      /\ \A c \in Callers : asked[c] = 0 /\ now = 0
  BY DEF Init, Mapped, Holds, Owns
<1> QED
  BY <1>1, <1>2 DEF IInv, References, Ownership, Mapping, Publication, Answered

\* Every step preserves it.
LEMMA InvariantStep == IInv /\ [Next]_vars => IInv'
<1> SUFFICES ASSUME IInv, [Next]_vars PROVE IInv'
  OBVIOUS
<1>0. TypeOK'
  BY TypeStep
<1> DEFINE Rest == References /\ Ownership /\ Mapping /\ Publication /\ Answered
<1>1. ASSUME NEW c \in Callers, NEW u \in Urls, Bypass(c, u) \/ Share(c, u) \/ Miss(c, u) PROVE Rest'
  BY <1>0, <1>1, BypassStep, ShareStep, MissStep
<1>2. ASSUME NEW c \in Callers, NEW kind \in FetchOutcomes(c), FetchReturns(c, kind) PROVE Rest'
  BY <1>0, <1>2, FetchReturnsStep
<1>3. ASSUME NEW c \in Callers, Forget(c) \/ Stamp(c) \/ Close(c) PROVE Rest'
  BY <1>0, <1>3, ForgetStep, StampStep, CloseStep
<1>4. ASSUME NEW c \in Callers, Return(c) PROVE Rest'
  BY <1>0, <1>4, ReturnStep
<1>5. ASSUME NEW c \in Callers, GiveUp(c) \/ DirectGiveUp(c) PROVE Rest'
  <2>1. ctxDone[c] /\ pc[c] \in {"await", "direct"} /\ Answers(c, [kind |-> "cancelled", url |-> url[c], at |-> now])
    BY <1>5 DEF GiveUp, DirectGiveUp, Cancelled
  <2> QED
    BY <1>0, <2>1, GivenNow, AnswersStep
<1>6. ASSUME NEW c \in Callers, NEW kind \in Outcomes, DirectReturn(c, kind) PROVE Rest'
  <2>1. kind # "cancelled" /\ pc[c] = "direct" /\ Answers(c, [kind |-> kind, url |-> url[c], at |-> now])
    BY <1>6 DEF DirectReturn, Outcomes
  <2> QED
    BY <1>0, <2>1, GivenNow, AnswersStep
<1>7. ASSUME NEW c \in Callers, CtxEnds(c) \/ Consume(c) PROVE Rest'
  BY <1>0, <1>7, CtxEndsStep, ConsumeStep
<1>8. ASSUME Tick PROVE Rest'
  <2>1. UNCHANGED <<entries, heap, pc, url, entry, ctxDone, asked, got>> /\ now' = now + 1
    BY <1>8 DEF Tick, cacheVars, callVars
  <2>2. \A u \in Urls : Cacheable(u) => Ttl(u) \in Nat
    BY TtlIsNat
  <2>3. References' /\ Ownership'
    BY <2>1 DEF IInv, References, Ownership, Holds, Owns, Mapped, InFlight
  <2>4. Mapping'
    <3>1. \A c \in Callers : pc[c] = "close" => Cacheable(url[c]) /\ heap[entry[c]].expires \in Nat
      BY DEF IInv, TypeOK, References, Holds, Owns, CacheEntry
    <3> QED
      BY <2>1, <2>2, <3>1 DEF IInv, TypeOK, Mapping
  <2>5. Publication' /\ Answered'
    BY <2>1 DEF IInv, TypeOK, Publication, Answered, CurrentFor, Holds, Owns, Mapped, InFlight
  <2> QED
    BY <2>3, <2>4, <2>5
<1>9. ASSUME UNCHANGED vars PROVE Rest'
  BY <1>9 DEF vars, cacheVars, callVars, IInv, References, Ownership, Mapping, Publication, Answered,
     CurrentFor, Holds, Owns, Mapped, InFlight
<1>10. Rest'
  BY <1>1, <1>2, <1>3, <1>4, <1>5, <1>6, <1>7, <1>8, <1>9 DEF Next, CallerStep
<1> QED
  BY <1>0, <1>10 DEF IInv

-----------------------------------------------------------------------------
\* The inductive invariant holds of every reachable state.
THEOREM Invariant == Spec => []IInv
  BY InvariantInit, InvariantStep, PTL DEF Spec

\* The state is well-typed: no caller ever dereferences nil.
THEOREM TypeCorrect == Spec => []TypeOK
<1>1. IInv => TypeOK
  BY DEF IInv
<1> QED
  BY <1>1, Invariant, PTL

\* Two owners of one URL would both hold the entry that is mapped for it.
THEOREM SingleFetch == Spec => []OneFetchPerUrl
<1>1. IInv => OneFetchPerUrl
  BY DEF IInv, OneFetchPerUrl, Ownership, Mapping, Owns
<1> QED
  BY <1>1, Invariant, PTL

\* No answer is older than the TTL of its path allows.
THEOREM Freshness == Spec => []AnswersAreCurrent
<1>1. IInv => AnswersAreCurrent
  BY DEF IInv, AnswersAreCurrent, Answered, CurrentFor
<1> QED
  BY <1>1, Invariant, PTL

\* Failures leave the map before anyone can look them up.
THEOREM FailuresAreDropped == Spec => []FailuresNotKept
<1>1. IInv => FailuresNotKept
  BY DEF IInv, FailuresNotKept, Publication, Mapped
<1> QED
  BY <1>1, Invariant, PTL

\* One caller's cancellation is never another caller's error.
THEOREM PrivateCancellation == Spec => []CancelIsPrivate
<1>1. IInv => CancelIsPrivate
  BY DEF IInv, CancelIsPrivate, Answered
<1> QED
  BY <1>1, Invariant, PTL

\* No caller gets the reply to another URL.
THEOREM RightReply == Spec => []KeyIntegrity
<1>1. IInv => KeyIntegrity
  BY DEF IInv, KeyIntegrity, Answered
<1> QED
  BY <1>1, Invariant, PTL

\* The fields of a published entry, which callers read without the mutex, never
\* change: only the owner writes them, and only before it closes the channel.
THEOREM PublicationIsFinal == Spec => PublishedEntriesImmutable
<1>1. ASSUME IInv, [Next]_vars PROVE PublishedStays
  <2> SUFFICES ASSUME NEW e \in Entries, heap[e].ready, ~Garbage(e), ~Garbage(e)'
               PROVE  heap'[e] = heap[e]
    BY DEF PublishedStays
  <2>1. ASSUME NEW c \in Callers, NEW u \in Urls, Bypass(c, u) \/ Share(c, u) PROVE heap'[e] = heap[e]
    BY <2>1 DEF Bypass, Share, cacheVars
  <2>2. ASSUME NEW c \in Callers, NEW u \in Urls, Miss(c, u) PROVE heap'[e] = heap[e]
    <3>1. e # Fresh
      BY <2>2, FreshIsGarbage DEF Miss
    <3>2. e \in {entries[v] : v \in Urls \ {Key(u)}} \cup {entry[d] : d \in Callers}
      BY <2>2, <3>1, <1>1 DEF Garbage, Miss, IInv, TypeOK
    <3> QED
      BY <2>2, <3>2 DEF Miss, Swept
  <2>3. ASSUME NEW c \in Callers, NEW kind, FetchReturns(c, kind) PROVE heap'[e] = heap[e]
    BY <1>1, <2>3 DEF FetchReturns, IInv, TypeOK, Ownership, Owns, InFlight
  <2>4. ASSUME NEW c \in Callers, Forget(c) \/ Stamp(c) \/ Close(c) PROVE heap'[e] = heap[e]
    BY <1>1, <2>4 DEF Forget, Stamp, Close, IInv, TypeOK, Ownership, Owns, InFlight
  <2>5. ASSUME NEW c \in Callers, NEW reply, Answers(c, reply) PROVE heap'[e] = heap[e]
    <3>1. e \in {entries[u] : u \in Urls} \cup {entry[d] : d \in Callers \ {c}}
      BY <2>5, <1>1, CacheAssumption DEF Garbage, Answers, IInv, TypeOK
    <3> QED
      BY <2>5, <3>1 DEF Answers, Swept
  <2>6. ASSUME NEW c \in Callers, CtxEnds(c) \/ Consume(c) PROVE heap'[e] = heap[e]
    BY <2>6 DEF CtxEnds, Consume, cacheVars
  <2> QED
    BY <1>1, <2>1, <2>2, <2>3, <2>4, <2>5, <2>6
    DEF Next, CallerStep, Return, GiveUp, DirectReturn, DirectGiveUp, Tick, vars, cacheVars
<1> QED
  BY <1>1, Invariant, PTL DEF PublishedEntriesImmutable, Spec

-----------------------------------------------------------------------------
\* The cache implements SharedFetch: initial states map to initial states and
\* every step maps to a step or a stutter.  The step that publishes a success
\* is Succeed; the step that forgets a failure, before it is published, is Fail.

\* An empty cache maps to the empty specification.
LEMMA InitRefines == Init => Shared!Init
<1> SUFFICES ASSUME Init PROVE Shared!Init
  OBVIOUS
<1> USE DEF Init
<1>1. FetchingUrls = {} /\ KeptUrls = {}
  BY DEF FetchingUrls, KeptUrls, Mapped
<1>2. Kept = [u \in {} |-> 0]
  BY <1>1 DEF Kept
<1>3. Phase = [c \in Callers |-> "idle"]
  BY DEF Phase, Holds, Owns
<1>4. Due = [c \in Callers |-> "none"]
  BY DEF Due, Settled, Holds, Owns
<1>5. Given = [c \in Callers |-> "none"]
  BY DEF Given, NoReply
<1> QED
  BY <1>1, <1>2, <1>3, <1>4, <1>5 DEF Shared!Init, AnyUrl, Shared!AnyUrl

\* A request for an unlisted path asks the upstream directly.
LEMMA BypassRefines ==
  ASSUME IInv, NEW c \in Callers, NEW u \in Urls, Bypass(c, u)
  PROVE  Shared!AskDirect(c, u)
<1> USE DEF IInv, TypeOK, Bypass, Asks, cacheVars, Holds, Owns, Mapped, InFlight
<1>1. FetchingUrls' = FetchingUrls /\ Kept' = Kept /\ Given' = Given
  BY DEF FetchingUrls, Kept, KeptUrls, Given
<1>2. Phase' = [Phase EXCEPT ![c] = "direct"] /\ Phase[c] = "idle"
  BY DEF Phase
<1>3. Due' = Due
  <2>1. \A d \in Callers : Settled(d)' = Settled(d)
    BY DEF Settled
  <2> QED
    BY <2>1 DEF Due
<1> QED
  BY <1>1, <1>2, <1>3 DEF Shared!AskDirect, Shared!Asks, Shared!Cacheable, Cacheable

\* What is kept is kept until its entry expires.
LEMMA KeptUntil ==
  ASSUME IInv, NEW u \in KeptUrls
  PROVE  Kept[u] \in Nat /\ Kept[u] + Ttl(u) = heap[entries[u]].expires
<1>1. heap[entries[u]].expires \in Nat /\ heap[entries[u]].expires >= Ttl(u)
  BY DEF IInv, TypeOK, Publication, KeptUrls, Mapped, InFlight, CacheEntry
<1>2. Ttl(u) \in Nat
  BY TtlIsNat DEF IInv, References, KeptUrls
<1> QED
  BY <1>1, <1>2 DEF Kept

\* lookup joins a fetch under way, or is served from what is kept.
LEMMA ShareRefines ==
  ASSUME IInv, NEW c \in Callers, NEW u \in Urls, Share(c, u)
  PROVE  Shared!AskFetch(c, u) \/ Shared!AskKept(c, u)
<1> USE DEF IInv, TypeOK, Share, Asks, cacheVars, Holds, Owns, Mapped, InFlight, Key, Live
<1>1. FetchingUrls' = FetchingUrls /\ KeptUrls' = KeptUrls /\ Kept' = Kept /\ Given' = Given
  BY DEF FetchingUrls, Kept, KeptUrls, Given
<1>2. Phase' = [Phase EXCEPT ![c] = "waiting"] /\ Phase[c] = "idle"
  BY DEF Phase
<1>3. \A d \in Callers \ {c} : Due'[d] = Due[d]
  BY DEF Due, Settled
<1>4. Shared!Asks(c, u, "waiting")
  BY <1>1, <1>2 DEF Shared!Asks
<1>5. CASE InFlight(entries[u])
  <2>1. u \in FetchingUrls /\ u \notin KeptUrls
    BY <1>5 DEF FetchingUrls, KeptUrls
  <2>2. Kept' = [v \in DOMAIN Kept \ {u} |-> Kept[v]]
    BY <1>1, <2>1 DEF Kept
  <2>3. Due' = Due
    <3>1. Due'[c] = "none" /\ Due[c] = "none"
      BY <1>5 DEF Due, Settled
    <3> QED
      BY <1>3, <3>1 DEF Due
  <2>4. ~Shared!Live(u)
    BY <2>1 DEF Shared!Live, Kept
  <2> QED
    BY <1>1, <1>4, <2>1, <2>2, <2>3, <2>4 DEF Shared!AskFetch, Shared!Cacheable, Cacheable
<1>6. CASE ~InFlight(entries[u])
  <2>1. u \in DOMAIN Kept
    BY <1>6 DEF Kept, KeptUrls
  <2>2. heap[entries[u]].result.kind = "ok"
    BY <1>6 DEF Publication
  <2>3. Shared!Live(u)
    <3>1. Kept[u] + Ttl(u) = heap[entries[u]].expires
      BY <2>1, KeptUntil DEF Kept
    <3> QED
      BY <1>6, <2>1, <3>1 DEF Shared!Live, Ttl
  <2>4. Due' = [Due EXCEPT ![c] = "ok"]
    <3>1. Due'[c] = "ok"
      BY <1>6, <2>2 DEF Due, Settled
    <3> QED
      BY <1>3, <3>1 DEF Due
  <2>5. UNCHANGED <<FetchingUrls, Kept>>
    BY <1>1
  <2> QED
    BY <1>4, <2>3, <2>4, <2>5 DEF Shared!AskKept
<1> QED
  BY <1>5, <1>6

\* lookup starts a fetch, and the expired reply is kept no longer.
LEMMA MissRefines ==
  ASSUME IInv, NEW c \in Callers, NEW u \in Urls, Miss(c, u)
  PROVE  Shared!AskFetch(c, u)
<1> USE DEF IInv, TypeOK, Miss, Asks, Holds, Owns, Mapped, InFlight, Key
<1>1. Fresh \in Entries /\ Garbage(Fresh)
  BY FreshIsGarbage
<1>2. heap'[Fresh] = Blank /\ entries' = [entries EXCEPT ![u] = Fresh]
  BY <1>1 DEF Swept, Garbage
<1>3. \A v \in Urls \ {u} : Mapped(v) => heap'[entries[v]] = heap[entries[v]]
  BY DEF Swept
<1>4. \A d \in Callers \ {c} : Holds(d) => entry[d] \in Entries /\ heap'[entry[d]] = heap[entry[d]]
  BY DEF Swept, References
<1>a. entries'[u] = Fresh /\ Fresh # NoEntry /\ heap'[Fresh].ready = FALSE
  BY <1>1, <1>2, CacheAssumption DEF Blank
<1>b. \A v \in Urls \ {u} : entries'[v] = entries[v]
  BY <1>2
<1>5. FetchingUrls' = FetchingUrls \cup {u}
  BY <1>a, <1>b, <1>3 DEF FetchingUrls
<1>6. KeptUrls' = KeptUrls \ {u}
  BY <1>a, <1>b, <1>3 DEF KeptUrls
<1>7. Kept' = [v \in DOMAIN Kept \ {u} |-> Kept[v]]
  BY <1>2, <1>3, <1>6 DEF Kept, KeptUrls
<1>8. Phase' = [Phase EXCEPT ![c] = "waiting"] /\ Phase[c] = "idle"
  BY DEF Phase
<1>9. Due' = Due
  <2>1. ASSUME NEW d \in Callers \ {c} PROVE Settled(d)' = Settled(d) /\ Due'[d] = Due[d]
    <3>1. CASE ~Holds(d)
      BY <3>1 DEF Settled, Due
    <3>2. CASE Holds(d) /\ ~InFlight(entry[d])
      BY <1>4, <3>2 DEF Settled, Due
    <3>3. CASE Holds(d) /\ InFlight(entry[d]) /\ url[d] # u
      BY <1>2, <1>4, <3>3 DEF Settled, Due
    <3>4. CASE Holds(d) /\ InFlight(entry[d]) /\ url[d] = u
      <4>1. entries[u] # entry[d]
        BY <1>4, <3>4, CacheAssumption DEF Live
      <4>2. entries'[u] # entry'[d]
        BY <1>1, <1>2, <3>4 DEF Garbage
      <4> QED
        BY <1>4, <3>4, <4>1, <4>2 DEF Settled, Due
    <3> QED
      BY <3>1, <3>2, <3>3, <3>4
  <2>2. Due'[c] = "none" /\ Due[c] = "none"
    BY <1>1, <1>2 DEF Due, Settled, Blank
  <2> QED
    BY <2>1, <2>2 DEF Due
<1>10. Given' = Given
  BY DEF Given
<1>11. ~Shared!Live(u)
  BY KeptUntil DEF Shared!Live, Kept, KeptUrls, Live, Ttl
<1> QED
  BY <1>5, <1>7, <1>8, <1>9, <1>10, <1>11 DEF Shared!AskFetch, Shared!Asks, Shared!Cacheable, Cacheable

\* Whoever holds the entry that c is filling asked for the URL that c asked for.
LEMMA SameUrl ==
  ASSUME IInv, NEW c \in Callers, NEW d \in Callers, Owns(c), Holds(d), entry[d] = entry[c]
  PROVE  url[d] = url[c]
  BY DEF IInv, Ownership, Holds

\* What the upstream answered is nobody's business before it is published.
LEMMA FetchReturnsRefines ==
  ASSUME IInv, NEW c \in Callers, NEW kind, FetchReturns(c, kind)
  PROVE  UNCHANGED <<FetchingUrls, Kept, Phase, Due, Given>>
<1> USE DEF IInv, TypeOK, FetchReturns, Holds, Owns, Mapped, InFlight
<1>1. entry[c] \in Entries /\ InFlight(entry[c]) /\ entries[url[c]] = entry[c]
  BY DEF References, Ownership, Mapping
<1>2. \A e \in Entries : heap'[e].ready = heap[e].ready /\ (e # entry[c] => heap'[e] = heap[e])
  BY DEF CacheEntry
<1>3. \A u \in Urls : Mapped(u) => entries[u] \in Entries
  OBVIOUS
<1>4. FetchingUrls' = FetchingUrls /\ KeptUrls' = KeptUrls
  BY <1>2, <1>3 DEF FetchingUrls, KeptUrls
<1>5. Kept' = Kept
  BY <1>1, <1>2, <1>3, <1>4 DEF Kept, KeptUrls
<1>6. Phase' = Phase
  BY DEF Phase, AfterFetch
<1>7. Due' = Due
  <2>1. \A d \in Callers : Holds(d)' = Holds(d)
    BY DEF AfterFetch
  <2>2. \A d \in Callers : Holds(d) => entry[d] \in Entries
    BY DEF References
  <2>3. ASSUME NEW d \in Callers PROVE Settled(d)' = Settled(d)
    BY <1>2, <2>1, <2>2 DEF Settled
  <2>4. ASSUME NEW d \in Callers, Settled(d) PROVE heap'[entry'[d]].result = heap[entry[d]].result
    BY <1>1, <1>2, <2>2, <2>4, SameUrl DEF Settled
  <2> QED
    BY <2>3, <2>4 DEF Due
<1>8. Given' = Given
  BY DEF Given
<1> QED
  BY <1>4, <1>5, <1>6, <1>7, <1>8

\* Setting the expiry shows in no answer before the entry is published.
LEMMA StampRefines ==
  ASSUME IInv, NEW c \in Callers, Stamp(c)
  PROVE  UNCHANGED <<FetchingUrls, Kept, Phase, Due, Given>>
<1> USE DEF IInv, TypeOK, Stamp, Holds, Owns, Mapped, InFlight
<1>1. entry[c] \in Entries /\ InFlight(entry[c])
  BY DEF References, Ownership
<1>2. /\ \A e \in Entries : heap'[e].ready = heap[e].ready /\ heap'[e].result = heap[e].result
      /\ \A e \in Entries \ {entry[c]} : heap'[e] = heap[e]
  BY DEF CacheEntry
<1>3. \A u \in Urls : Mapped(u) => entries[u] \in Entries
  OBVIOUS
<1>4. FetchingUrls' = FetchingUrls /\ KeptUrls' = KeptUrls
  BY <1>2, <1>3 DEF FetchingUrls, KeptUrls
<1>5. Kept' = Kept
  BY <1>1, <1>2, <1>3, <1>4 DEF Kept, KeptUrls
<1>6. Phase' = Phase
  BY DEF Phase
<1>7. Due' = Due
  <2>1. \A d \in Callers : Holds(d) => entry[d] \in Entries
    BY DEF References
  <2>2. ASSUME NEW d \in Callers PROVE Settled(d)' = Settled(d)
    BY <1>2, <2>1 DEF Settled
  <2>3. ASSUME NEW d \in Callers, Settled(d) PROVE heap'[entry'[d]].result = heap[entry[d]].result
    BY <1>2, <2>1, <2>3 DEF Settled
  <2> QED
    BY <2>2, <2>3 DEF Due
<1>8. Given' = Given
  BY DEF Given
<1> QED
  BY <1>4, <1>5, <1>6, <1>7, <1>8

\* A failure is settled when its entry is forgotten: those who wait are owed
\* it, and whoever comes next starts afresh.
LEMMA ForgetRefines ==
  ASSUME IInv, NEW c \in Callers, Forget(c)
  PROVE  Shared!Fail(url[c])
<1> DEFINE u == url[c]
<1> DEFINE kind == heap[entry[c]].result.kind
<1> USE DEF IInv, TypeOK, Forget, Holds, Owns, Mapped, InFlight, Key
<1>1. /\ entry[c] \in Entries /\ InFlight(entry[c]) /\ entries[u] = entry[c]
      /\ kind \in {"status", "error"}
  BY DEF References, Ownership, Mapping
<1>2. entries' = [entries EXCEPT ![u] = NoEntry] /\ heap' = heap /\ entry' = entry /\ url' = url
  BY <1>1
<1>3. u \in FetchingUrls /\ u \notin KeptUrls
  BY <1>1, CacheAssumption DEF FetchingUrls, KeptUrls
<1>4. FetchingUrls' = FetchingUrls \ {u} /\ KeptUrls' = KeptUrls
  BY <1>2, <1>3 DEF FetchingUrls, KeptUrls
<1>5. Kept' = Kept
  BY <1>2, <1>3, <1>4 DEF Kept, KeptUrls
<1>6. Phase' = Phase /\ Given' = Given
  BY DEF Phase, Given
<1>7. \A d \in Callers : Holds(d)' = Holds(d) /\ (Holds(d) => entry[d] \in Entries)
  BY DEF References
<1>8. Due' = [d \in Callers |-> IF Phase[d] = "waiting" /\ url[d] = u /\ Due[d] = "none"
                               THEN kind ELSE Due[d]]
  <2>1. ASSUME NEW d \in Callers, Holds(d), url[d] = u, entry[d] = entry[c]
        PROVE  Phase[d] = "waiting" /\ Due[d] = "none" /\ Due'[d] = kind
    BY <1>1, <1>2, <1>7, <2>1, CacheAssumption DEF Due, Settled, Phase
  <2>2. ASSUME NEW d \in Callers, Holds(d), url[d] = u, entry[d] # entry[c]
        PROVE  Due[d] # "none" /\ Due'[d] = Due[d]
    <3>1. ~InFlight(entry[d]) => heap[entry[d]].result.kind \in Outcomes
      BY <2>2 DEF Publication
    <3>2. InFlight(entry[d]) => heap[entry[d]].result.kind \in Outcomes
      <4>1. ASSUME InFlight(entry[d])
            PROVE  \E f \in Callers : Owns(f) /\ entry[f] = entry[d] /\ url[f] = u
        BY <2>2, <4>1 DEF Ownership
      <4> QED
        BY <1>1, <2>2, <4>1 DEF Mapping
    <3>3. Settled(d) /\ Settled(d)'
      BY <1>1, <1>2, <1>7, <2>2, CacheAssumption DEF Settled
    <3> QED
      BY <1>2, <3>1, <3>2, <3>3 DEF Due, Outcomes
  <2>3. ASSUME NEW d \in Callers, Holds(d), url[d] # u PROVE Due'[d] = Due[d]
    BY <1>2, <1>7, <2>3 DEF Due, Settled
  <2>4. ASSUME NEW d \in Callers, ~Holds(d) PROVE Phase[d] # "waiting" /\ Due'[d] = Due[d]
    BY <1>7, <2>4 DEF Due, Settled, Phase, Steps
  <2>5. ASSUME NEW d \in Callers
        PROVE  Due'[d] = IF Phase[d] = "waiting" /\ url[d] = u /\ Due[d] = "none"
                         THEN kind ELSE Due[d]
    BY <2>1, <2>2, <2>3, <2>4
  <2> QED
    BY <2>5 DEF Due
<1>9. Shared!Owed(u, kind)
  BY <1>3, <1>4, <1>6, <1>8 DEF Shared!Owed
<1> QED
  BY <1>1, <1>5, <1>9 DEF Shared!Fail

\* Closing the channel of a success keeps it from now on; that of a failure
\* changes nothing that was not settled.
LEMMA CloseRefines ==
  ASSUME IInv, NEW c \in Callers, Close(c)
  PROVE  (\E since \in 0..now : Shared!Succeed(url[c], since)) \/ UNCHANGED <<FetchingUrls, Kept, Phase, Due, Given>>
<1> DEFINE u == url[c]
<1> USE DEF IInv, TypeOK, Close, Holds, Owns, Mapped, InFlight
<1>1. /\ entry[c] \in Entries /\ InFlight(entry[c])
      /\ heap[entry[c]].result.kind \in Outcomes /\ heap[entry[c]].result \in Reply
  BY DEF References, Ownership, Mapping, CacheEntry, NoReply, Outcomes
<1>2. /\ entries' = entries /\ entry' = entry /\ url' = url /\ now' = now
      /\ heap'[entry[c]].ready = TRUE /\ heap'[entry[c]].result.at = now
      /\ heap'[entry[c]].result.kind = heap[entry[c]].result.kind
      /\ \A e \in Entries \ {entry[c]} : heap'[e] = heap[e]
  BY <1>1 DEF CacheEntry, Reply
<1>3. Phase' = Phase /\ Given' = Given
  BY DEF Phase, Given
<1>4. \A d \in Callers : Holds(d)' = Holds(d) /\ (Holds(d) => entry[d] \in Entries)
  BY DEF References
<1>5. \A d \in Callers : Holds(d) /\ entry[d] = entry[c] => url[d] = u
  BY SameUrl
<1>6. CASE heap[entry[c]].result.kind = "ok"
  <2>1. entries[u] = entry[c] /\ \A v \in Urls \ {u} : Mapped(v) => entries[v] \in Entries \ {entry[c]}
    BY <1>1, <1>6, CacheAssumption DEF Mapping, References
  <2>2. FetchingUrls' = FetchingUrls \ {u} /\ u \in FetchingUrls
    BY <1>1, <1>2, <2>1, CacheAssumption DEF FetchingUrls
  <2>3. KeptUrls' = KeptUrls \cup {u}
    BY <1>1, <1>2, <2>1, CacheAssumption DEF KeptUrls
  <2> DEFINE since == heap[entry[c]].expires - Ttl(u)
  <2>a. since \in 0..now
    <3>1. heap[entry[c]].expires \in Ttl(u)..(now + Ttl(u)) /\ Ttl(u) \in Nat
      BY <1>6, TtlIsNat DEF Mapping, References
    <3> QED
      BY <3>1
  <2>b. heap'[entry[c]].expires = heap[entry[c]].expires
    BY <1>1 DEF CacheEntry
  <2>4. Kept' = [v \in DOMAIN Kept \cup {u} |-> IF v = u THEN since ELSE Kept[v]]
    BY <1>2, <2>1, <2>3, <2>b DEF Kept, KeptUrls, Ttl
  <2>5. ASSUME NEW d \in Callers
        PROVE  Due'[d] = IF Phase[d] = "waiting" /\ url[d] = u /\ Due[d] = "none"
                         THEN "ok" ELSE Due[d]
    <3>1. CASE ~Holds(d)
      BY <1>4, <3>1 DEF Due, Settled, Phase, Steps
    <3>2. CASE Holds(d) /\ entry[d] = entry[c]
      BY <1>1, <1>2, <1>4, <1>5, <1>6, <2>1, <3>2 DEF Due, Settled, Phase
    <3>3. CASE Holds(d) /\ entry[d] # entry[c]
      <4>1. Due'[d] = Due[d]
        BY <1>2, <1>4, <3>3 DEF Due, Settled
      <4>2. url[d] = u => Due[d] # "none"
        <5>1. url[d] = u => Settled(d)
          BY <2>1, <3>3 DEF Settled
        <5>2. ASSUME url[d] = u, InFlight(entry[d]) PROVE heap[entry[d]].result.kind \in Outcomes
          <6>1. PICK f \in Callers : Owns(f) /\ entry[f] = entry[d] /\ url[f] = u
            BY <3>3, <5>2 DEF Ownership
          <6> QED
            BY <2>1, <3>3, <6>1 DEF Mapping
        <5>3. ASSUME url[d] = u, ~InFlight(entry[d]) PROVE heap[entry[d]].result.kind \in Outcomes
          BY <3>3, <5>3 DEF Publication
        <5> QED
          BY <5>1, <5>2, <5>3 DEF Due, Outcomes
      <4> QED
        BY <4>1, <4>2
    <3> QED
      BY <3>1, <3>2, <3>3
  <2>6. Due' = [d \in Callers |-> IF Phase[d] = "waiting" /\ url[d] = u /\ Due[d] = "none"
                                 THEN "ok" ELSE Due[d]]
    BY <2>5 DEF Due
  <2> QED
    BY <1>2, <1>3, <2>a, <2>2, <2>4, <2>6 DEF Shared!Succeed, Shared!Owed
<1>7. CASE heap[entry[c]].result.kind # "ok"
  <2>1. \A v \in Urls : Mapped(v) => entries[v] \in Entries \ {entry[c]}
    BY <1>7 DEF Mapping
  <2>2. FetchingUrls' = FetchingUrls /\ KeptUrls' = KeptUrls /\ Kept' = Kept
    BY <1>2, <2>1 DEF FetchingUrls, KeptUrls, Kept
  <2>3. ASSUME NEW d \in Callers PROVE Due'[d] = Due[d]
    BY <1>1, <1>2, <1>4, <1>7 DEF Due, Settled, Mapping
  <2>4. Due' = Due
    BY <2>3 DEF Due
  <2> QED
    BY <1>3, <2>2, <2>4
<1> QED
  BY <1>6, <1>7

\* An answer shows in the caller's own phase only; the entries that are
\* reclaimed with it were nobody's.
LEMMA AnswersRefine ==
  ASSUME IInv, NEW c \in Callers, NEW reply, pc[c] \in {"await", "direct"}, Answers(c, reply)
  PROVE  Shared!Answer(c, reply.kind) /\ Phase[c] = (IF pc[c] = "await" THEN "waiting" ELSE "direct")
<1> USE DEF IInv, TypeOK, Answers, Holds, Owns, Mapped, InFlight
<1>1. \A u \in Urls : Mapped(u) => heap'[entries[u]] = heap[entries[u]]
  BY DEF Swept
<1>2. \A d \in Callers \ {c} : Holds(d) => entry[d] \in Entries /\ heap'[entry[d]] = heap[entry[d]]
  BY DEF Swept, References
<1>3. FetchingUrls' = FetchingUrls /\ KeptUrls' = KeptUrls
  BY <1>1 DEF FetchingUrls, KeptUrls
<1>4. Kept' = Kept
  BY <1>1, <1>3 DEF Kept, KeptUrls
<1>5. Phase' = [Phase EXCEPT ![c] = "returned"]
  BY DEF Phase
<1>6. Due' = [Due EXCEPT ![c] = "none"]
  <2>1. Due'[c] = "none"
    BY DEF Due, Settled
  <2>2. \A d \in Callers \ {c} : Due'[d] = Due[d]
    BY <1>2 DEF Due, Settled
  <2> QED
    BY <2>1, <2>2 DEF Due
<1>7. Given' = [Given EXCEPT ![c] = reply.kind]
  BY DEF Given
<1>8. Phase[c] = (IF pc[c] = "await" THEN "waiting" ELSE "direct")
  BY DEF Phase
<1> QED
  BY <1>3, <1>4, <1>5, <1>6, <1>7, <1>8 DEF Shared!Answer

\* The two branches of the select, and the two ends of a request that bypasses
\* the cache.
LEMMA ReturnsRefine ==
  ASSUME IInv, NEW c \in Callers,
         Return(c) \/ GiveUp(c) \/ DirectGiveUp(c) \/ \E kind \in Outcomes : DirectReturn(c, kind)
  PROVE  Shared!Deliver(c) \/ Shared!GiveUp(c)
<1>1. CASE Return(c)
  <2>1. heap[entry[c]].result.kind \in Outcomes /\ Due[c] = heap[entry[c]].result.kind
    BY <1>1 DEF Return, IInv, Publication, Due, Settled, Holds
  <2>2. Shared!Answer(c, Due[c]) /\ Phase[c] = "waiting"
    BY <1>1, <2>1, AnswersRefine DEF Return
  <2> QED
    BY <2>1, <2>2 DEF Shared!Deliver, Outcomes
<1>2. CASE GiveUp(c) \/ DirectGiveUp(c)
  <2>1. pc[c] \in {"await", "direct"} /\ ctxDone[c] /\ Answers(c, Cancelled(c))
    BY <1>2 DEF GiveUp, DirectGiveUp
  <2>2. Shared!Answer(c, "cancelled") /\ Phase[c] \in {"waiting", "direct"}
    BY <2>1, AnswersRefine DEF Cancelled
  <2> QED
    BY <2>1, <2>2 DEF Shared!GiveUp
<1>3. ASSUME NEW kind \in Outcomes, DirectReturn(c, kind) PROVE Shared!Deliver(c)
  <2>1. Shared!Answer(c, kind) /\ Phase[c] = "direct"
    BY <1>3, AnswersRefine DEF DirectReturn
  <2> QED
    BY <2>1 DEF Shared!Deliver, Outcomes
<1> QED
  BY <1>1, <1>2, <1>3

\* The end of a context and the next call are the same in both specifications.
LEMMA CallerTurnRefines ==
  ASSUME IInv, NEW c \in Callers, CtxEnds(c) \/ Consume(c)
  PROVE  Shared!CtxEnds(c) \/ Shared!Consume(c)
<1> USE DEF IInv, TypeOK, Holds, Owns, Mapped, InFlight, cacheVars, callVars
<1>1. UNCHANGED cacheVars => UNCHANGED <<FetchingUrls, Kept>>
  BY DEF FetchingUrls, KeptUrls, Kept
<1>2. UNCHANGED <<cacheVars, pc, url, entry>> => UNCHANGED <<Phase, Due>>
  BY DEF Phase, Due, Settled
<1>3. CASE CtxEnds(c)
  <2>1. Phase[c] \in {"waiting", "direct"}
    BY <1>3 DEF CtxEnds, Phase, Steps
  <2>2. Given' = Given
    BY <1>3 DEF CtxEnds, Given
  <2> QED
    BY <1>1, <1>2, <1>3, <2>1, <2>2 DEF CtxEnds, Shared!CtxEnds
<1>4. CASE Consume(c)
  <2>1. Phase[c] = "returned" /\ Phase' = [Phase EXCEPT ![c] = "idle"]
    BY <1>4 DEF Consume, Phase
  <2>2. Given' = [Given EXCEPT ![c] = "none"]
    BY <1>4 DEF Consume, Given, NoReply
  <2>3. \A d \in Callers : Settled(d)' = Settled(d)
    BY <1>4 DEF Consume, Settled
  <2>4. Due' = Due
    BY <1>4, <2>3 DEF Consume, Due
  <2> QED
    BY <1>1, <1>4, <2>1, <2>2, <2>4 DEF Consume, Shared!Consume, AnyUrl, Shared!AnyUrl
<1> QED
  BY <1>3, <1>4

\* Every step of the cache is a step of SharedFetch or leaves it alone.
LEMMA StepRefines == IInv /\ [Next]_vars => [Shared!Next]_Shared!vars
<1> SUFFICES ASSUME IInv, [Next]_vars PROVE [Shared!Next]_Shared!vars
  OBVIOUS
<1> USE DEF Shared!Next, Shared!vars
<1>1. ASSUME NEW c \in Callers, NEW u \in Urls, Bypass(c, u) \/ Share(c, u) \/ Miss(c, u)
      PROVE  Shared!Next
  BY <1>1, BypassRefines, ShareRefines, MissRefines
<1>2. ASSUME NEW c \in Callers, \E kind \in FetchOutcomes(c) : FetchReturns(c, kind)
      PROVE  UNCHANGED Shared!vars
  BY <1>2, FetchReturnsRefines DEF FetchReturns
<1>3. ASSUME NEW c \in Callers, Stamp(c) PROVE UNCHANGED Shared!vars
  BY <1>3, StampRefines DEF Stamp
<1>4. ASSUME NEW c \in Callers, Forget(c) PROVE Shared!Next
  <2>1. url[c] \in Urls /\ Shared!Fail(url[c])
    BY <1>4, ForgetRefines DEF IInv, TypeOK
  <2> QED
    BY <2>1
<1>5. ASSUME NEW c \in Callers, Close(c) PROVE Shared!Next \/ UNCHANGED Shared!vars
  <2>1. url[c] \in Urls
    BY DEF IInv, TypeOK
  <2> QED
    BY <1>5, <2>1, CloseRefines DEF Close
<1>6. ASSUME NEW c \in Callers,
             Return(c) \/ GiveUp(c) \/ DirectGiveUp(c) \/ \E kind \in Outcomes : DirectReturn(c, kind)
      PROVE  Shared!Next
  BY <1>6, ReturnsRefine
<1>7. ASSUME NEW c \in Callers, CtxEnds(c) \/ Consume(c)
      PROVE  Shared!Next
  BY <1>7, CallerTurnRefines
<1>8. CASE Tick
  <2>1. UNCHANGED <<cacheVars, callVars>> => UNCHANGED <<FetchingUrls, Kept, Phase, url, Due, Given, ctxDone>>
    BY DEF cacheVars, callVars, FetchingUrls, KeptUrls, Kept, Phase, Due, Settled, Given,
       Holds, Owns, Mapped, InFlight
  <2> QED
    BY <1>8, <2>1 DEF Tick, Shared!Tick
<1>9. CASE UNCHANGED vars
  <2>1. UNCHANGED vars => UNCHANGED <<FetchingUrls, Kept, Phase, url, Due, Given, ctxDone, now>>
    BY DEF vars, cacheVars, callVars, FetchingUrls, KeptUrls, Kept, Phase, Due, Settled, Given,
       Holds, Owns, Mapped, InFlight
  <2> QED
    BY <1>9, <2>1
<1> QED
  BY <1>1, <1>2, <1>3, <1>4, <1>5, <1>6, <1>7, <1>8, <1>9 DEF Next, CallerStep

\* The cache implements SharedFetch: whatever callers can observe of entries,
\* channels and the mutex, one fetch at a time per URL could have done.
THEOREM Refinement == Spec => ImplementsSharedFetch
<1>1. Spec => Shared!Init /\ [][Shared!Next]_Shared!vars
  BY InitRefines, StepRefines, Invariant, PTL DEF Spec
<1> QED
  BY <1>1 DEF ImplementsSharedFetch, Shared!Spec
=============================================================================
