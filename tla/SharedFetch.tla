---------------------------- MODULE SharedFetch ----------------------------
(***************************************************************************)
(* What the response cache promises its callers, without entries, channels *)
(* or a mutex: for each listed URL there is at most one fetch, everyone    *)
(* who asks meanwhile gets its outcome, a success is kept until its TTL is *)
(* over and not fetched again before, and a failure is not kept at all.  A *)
(* caller whose context has ended may be turned away; nobody else is       *)
(* affected by that.                                                       *)
(* ResponseCache is shown to implement this specification.                 *)
(***************************************************************************)
EXTENDS Naturals

CONSTANTS Callers, Urls, PathOf, ttls, MaxTime

VARIABLES
    fetching,  \* the URLs being fetched for the cache
    kept,      \* the time each kept success was obtained, by URL
    state,     \* of each caller
    want,      \* the URL each caller asked for
    due,       \* the outcome each waiting caller is owed, "none" before the fetch ends
    out,       \* what each caller that returned was given
    ctxDone, now

vars == <<fetching, kept, state, want, due, out, ctxDone, now>>

Cacheable(u) == PathOf[u] \in DOMAIN ttls
Live(u) == u \in DOMAIN kept /\ now < kept[u] + ttls[PathOf[u]]
AnyUrl == CHOOSE u \in Urls : TRUE

Init ==
    /\ fetching = {}
    /\ kept = [u \in {} |-> 0]
    /\ state = [c \in Callers |-> "idle"]
    /\ want = [c \in Callers |-> AnyUrl]
    /\ due = [c \in Callers |-> "none"]
    /\ out = [c \in Callers |-> "none"]
    /\ ctxDone = [c \in Callers |-> FALSE]
    /\ now = 0

Asks(c, u, how) ==
    /\ state[c] = "idle"
    /\ state' = [state EXCEPT ![c] = how]
    /\ want' = [want EXCEPT ![c] = u]
    /\ UNCHANGED <<out, ctxDone, now>>

AskDirect(c, u) ==
    /\ ~Cacheable(u)
    /\ Asks(c, u, "direct")
    /\ UNCHANGED <<fetching, kept, due>>

AskKept(c, u) ==
    /\ Live(u)
    /\ Asks(c, u, "waiting")
    /\ due' = [due EXCEPT ![c] = "ok"]
    /\ UNCHANGED <<fetching, kept>>

\* Joins the fetch of u, or starts it and drops what has expired.
AskFetch(c, u) ==
    /\ Cacheable(u)
    /\ ~Live(u)
    /\ Asks(c, u, "waiting")
    /\ fetching' = fetching \cup {u}
    /\ kept' = [v \in DOMAIN kept \ {u} |-> kept[v]]
    /\ UNCHANGED due

Owed(u, outcome) ==
    /\ u \in fetching
    /\ fetching' = fetching \ {u}
    /\ due' = [c \in Callers |->
                 IF state[c] = "waiting" /\ want[c] = u /\ due[c] = "none"
                 THEN outcome ELSE due[c]]
    /\ UNCHANGED <<state, want, out, ctxDone, now>>

\* The body was in at `since', before anybody was told of it.
Succeed(u, since) ==
    /\ since <= now
    /\ Owed(u, "ok")
    /\ kept' = [v \in DOMAIN kept \cup {u} |-> IF v = u THEN since ELSE kept[v]]

Fail(u) ==
    /\ \E outcome \in {"status", "error"} : Owed(u, outcome)
    /\ UNCHANGED kept

Answer(c, outcome) ==
    /\ state' = [state EXCEPT ![c] = "returned"]
    /\ out' = [out EXCEPT ![c] = outcome]
    /\ due' = [due EXCEPT ![c] = "none"]
    /\ UNCHANGED <<fetching, kept, want, ctxDone, now>>

Deliver(c) ==
    \/ state[c] = "waiting" /\ due[c] # "none" /\ Answer(c, due[c])
    \/ state[c] = "direct" /\ \E outcome \in {"ok", "status", "error"} : Answer(c, outcome)

GiveUp(c) ==
    /\ state[c] \in {"waiting", "direct"}
    /\ ctxDone[c]
    /\ Answer(c, "cancelled")

CtxEnds(c) ==
    /\ state[c] \in {"waiting", "direct"}
    /\ ctxDone' = [ctxDone EXCEPT ![c] = TRUE]
    /\ UNCHANGED <<fetching, kept, state, want, due, out, now>>

Consume(c) ==
    /\ state[c] = "returned"
    /\ state' = [state EXCEPT ![c] = "idle"]
    /\ want' = [want EXCEPT ![c] = AnyUrl]
    /\ out' = [out EXCEPT ![c] = "none"]
    /\ ctxDone' = [ctxDone EXCEPT ![c] = FALSE]
    /\ UNCHANGED <<fetching, kept, due, now>>

Tick ==
    /\ now < MaxTime
    /\ now' = now + 1
    /\ UNCHANGED <<fetching, kept, state, want, due, out, ctxDone>>

Next ==
    \/ \E c \in Callers, u \in Urls : AskDirect(c, u) \/ AskKept(c, u) \/ AskFetch(c, u)
    \/ \E u \in Urls : Fail(u) \/ \E since \in 0..now : Succeed(u, since)
    \/ \E c \in Callers : Deliver(c) \/ GiveUp(c) \/ CtxEnds(c) \/ Consume(c)
    \/ Tick

Spec == Init /\ [][Next]_vars
=============================================================================
