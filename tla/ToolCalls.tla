----------------------------- MODULE ToolCalls -----------------------------
(***************************************************************************)
(* Tool calls that run at the same time and need the same listed URL       *)
(* (server.go's withTimeout, the handlers and prefetch of tools/, the      *)
(* response cache below them).  The cache is SharedFetch, which            *)
(* ResponseCache implements: every step a call makes in it is a step of    *)
(* that specification.                                                     *)
(*                                                                         *)
(* A `prefetching' call (departures, trips) has a goroutine ask for the    *)
(* URL while its handler makes hops of its own, and then waits on the      *)
(* goroutine's channel without a look at its context.  A `direct' call     *)
(* (deviations, sites, nearest_stops, ...) asks in the handler.            *)
(*                                                                         *)
(* Time passes only while everybody waits for the upstream; what the       *)
(* program computes by itself takes none.                                  *)
(***************************************************************************)
EXTENDS Naturals

CONSTANTS
    Callers,           \* tool calls
    Url,               \* the URL they share
    Ttl,               \* its cache rule
    ToolCallTimeout,
    FetchBound,        \* how long a detached fetch may take: DetachedBound of RetryingClient
    MaxTime            \* bound on the clock

ASSUME ToolCallAssumption ==
    /\ Ttl \in Nat \ {0}
    /\ {ToolCallTimeout, FetchBound, MaxTime} \subseteq Nat

VARIABLES
    fetching, kept, state, want, due, out, ctxDone, now,   \* of the cache
    stage,    \* of the handler
    tool,     \* what kind of tool was called
    began,    \* when
    owner,    \* the calls whose request started a fetch
    since,    \* when the last fetch started
    taken     \* when the reply a call was given was obtained

Cache == INSTANCE SharedFetch
         WITH Urls <- {Url}, PathOf <- [u \in {Url} |-> Url], ttls <- [p \in {Url} |-> Ttl]

cache == <<fetching, kept, state, want, due, out, ctxDone, now>>
calls == <<stage, tool, began>>
vars == <<cache, calls, owner, since, taken>>

TypeOK ==
    /\ fetching \subseteq {Url}
    /\ DOMAIN kept \subseteq {Url} /\ kept \in [DOMAIN kept -> Nat]
    /\ state \in [Callers -> {"idle", "waiting", "returned"}]
    /\ want \in [Callers -> {Url}]
    /\ due \in [Callers -> {"none", "ok", "status", "error"}]
    /\ out \in [Callers -> {"none", "ok", "status", "error", "cancelled"}]
    /\ ctxDone \in [Callers -> BOOLEAN]
    /\ now \in Nat
    /\ stage \in [Callers -> {"idle", "working", "awaiting", "over"}]
    /\ tool \in [Callers -> {"prefetching", "direct"}]
    /\ began \in [Callers -> Nat]
    /\ owner \subseteq Callers
    /\ since \in Nat
    /\ taken \in [Callers -> Nat]

Init ==
    /\ Cache!Init
    /\ stage = [c \in Callers |-> "idle"]
    /\ tool = [c \in Callers |-> "direct"]
    /\ began = [c \in Callers |-> 0]
    /\ owner = {}
    /\ since = 0
    /\ taken = [c \in Callers |-> 0]

-----------------------------------------------------------------------------
Active(c) == stage[c] \in {"working", "awaiting"}
Expired(c) == now >= began[c] + ToolCallTimeout

Begins(c, t) ==
    /\ stage[c] = "idle"
    /\ stage' = [stage EXCEPT ![c] = "working"]
    /\ tool' = [tool EXCEPT ![c] = t]
    /\ began' = [began EXCEPT ![c] = now]
    /\ UNCHANGED <<cache, owner, since, taken>>

\* mutant: the messages are fetched once the other hops are done
WillAskLate(c) == state[c] = "idle" /\ (stage[c] \in {"awaiting", "over"} \/ (stage[c] = "working" /\ tool[c] = "direct"))
\* The request is on its way to the cache, which it reaches also when the
\* handler is quicker and has returned by then.
WillAsk(c) == state[c] = "idle" /\ stage[c] # "idle"

Starts == Url \notin fetching

AskKept(c) ==
    /\ WillAsk(c)
    /\ Cache!AskKept(c, Url)
    /\ taken' = [taken EXCEPT ![c] = kept[Url]]
    /\ UNCHANGED <<calls, owner, since>>

AskFetch(c) ==
    /\ WillAsk(c)
    /\ Cache!AskFetch(c, Url)
    /\ owner' = IF Starts THEN owner \cup {c} ELSE owner
    /\ since' = IF Starts THEN now ELSE since
    /\ UNCHANGED <<calls, taken>>

FetchEnds ==
    /\ Cache!Succeed(Url, now) \/ Cache!Fail(Url)
    /\ taken' = [c \in Callers |-> IF state[c] = "waiting" /\ due[c] = "none" THEN now ELSE taken[c]]
    /\ since' = 0
    /\ UNCHANGED <<calls, owner>>

Deliver(c) == Cache!Deliver(c) /\ UNCHANGED <<calls, owner, since, taken>>

\* The context of a call ends when its handler returns or its time is up;
\* mutant: when the handler's own hop is over.
CtxOverAfterHop(c) == stage[c] \in {"awaiting", "over"} \/ Expired(c)
CtxOver(c) == stage[c] = "over" \/ Expired(c)

NeverTurnedAway(c) == FALSE   \* mutant: waiting on `ready' alone
\* Who shares another call's fetch looks at its context while it waits, the
\* owner only once its fetch is over: `select' picks either then.
TurnedAway(c) ==
    /\ state[c] = "waiting"
    /\ c \in owner => due[c] # "none"
    /\ CtxOver(c)

CtxEnds(c) ==
    /\ TurnedAway(c)
    /\ ~ctxDone[c]
    /\ Cache!CtxEnds(c)
    /\ UNCHANGED <<calls, owner, since, taken>>

GiveUp(c) ==
    /\ TurnedAway(c)
    /\ Cache!GiveUp(c)
    /\ UNCHANGED <<calls, owner, since, taken>>

-----------------------------------------------------------------------------
Returns(c) ==
    /\ stage' = [stage EXCEPT ![c] = "over"]
    /\ tool' = [tool EXCEPT ![c] = "direct"]
    /\ began' = [began EXCEPT ![c] = 0]

\* The handler's own hops end, within the tool call's time: it waits for the
\* goroutine, or returns without (an error, a picker).
HopEnds(c) ==
    /\ stage[c] = "working" /\ tool[c] = "prefetching"
    /\ \/ stage' = [stage EXCEPT ![c] = "awaiting"] /\ UNCHANGED <<tool, began>>
       \/ Returns(c)
    /\ UNCHANGED <<cache, owner, since, taken>>

\* mutant: a goroutine that failed sends nothing
SettledWhenGood(c) == state[c] = "returned" /\ out[c] = "ok"
Settled(c) == state[c] = "returned"

CanAnswer(c) ==
    /\ Settled(c)
    /\ stage[c] = "awaiting" \/ (stage[c] = "working" /\ tool[c] = "direct")

\* With the messages when it got them, else with a warning or an error.
Answers(c) ==
    /\ CanAnswer(c)
    /\ Returns(c)
    /\ UNCHANGED <<cache, owner, since, taken>>

\* The session makes its next call.
NextCall(c) ==
    /\ stage[c] = "over"
    /\ Cache!Consume(c)
    /\ stage' = [stage EXCEPT ![c] = "idle"]
    /\ owner' = owner \ {c}
    /\ taken' = [taken EXCEPT ![c] = 0]
    /\ UNCHANGED <<tool, began, since>>

HopOnNoContext(c) == TRUE   \* mutant: a hop that is not on the call's context
\* A hop of the handler's own is over by the deadline of the call.
HopInTime(c) == (stage[c] = "working" /\ tool[c] = "prefetching") => ~Expired(c)

\* Everybody waits for the upstream, and has time left to.
Waiting(c) ==
    /\ ~WillAsk(c) /\ ~TurnedAway(c) /\ ~CanAnswer(c)
    /\ due[c] = "none"
    /\ HopInTime(c)

Tick ==
    /\ \A c \in Callers : Waiting(c)
    /\ fetching # {} => now < since + FetchBound
    /\ Cache!Tick
    /\ UNCHANGED <<calls, owner, since, taken>>

-----------------------------------------------------------------------------
Handler(c) == HopEnds(c) \/ Answers(c)
Request(c) == AskKept(c) \/ AskFetch(c) \/ Deliver(c) \/ CtxEnds(c) \/ GiveUp(c)

Next ==
    \/ \E c \in Callers :
          \/ \E t \in {"prefetching", "direct"} : Begins(c, t)
          \/ Request(c)
          \/ Handler(c)
          \/ NextCall(c)
    \/ FetchEnds
    \/ Tick

\* A goroutine that can run does, and every request to the upstream ends, by
\* the timeouts of the HTTP client if nothing else.
Spec ==
    /\ Init /\ [][Next]_vars
    /\ WF_vars(FetchEnds)
    /\ \A c \in Callers : WF_vars(Request(c)) /\ WF_vars(Handler(c))

-----------------------------------------------------------------------------
\* Of all that goes on for it at the same time, a call takes no longer than
\* the longest: its own deadline or one fetch.  The time of a prefetch and of
\* the handler's hops does not add up.
CallBound ==
    \A c \in Callers : Active(c) =>
        now <= began[c] + ToolCallTimeout \/ now <= began[c] + FetchBound

\* Only a call whose own request fills the cache outlives its deadline, and
\* never two of them at once: the others wait no longer than they may.
LateCallsFillTheCache ==
    LET late == {c \in Callers : Active(c) /\ now > began[c] + ToolCallTimeout}
    IN late \subseteq owner /\ \A c, d \in late : c = d

\* A call says that the messages could not be had only when the upstream
\* failed or the call's own time is up: never because another call that
\* shared the fetch has returned, nor because its own other hop is done.
WarningsAreGrounded ==
    \A c \in Callers :
        Active(c) /\ state[c] = "returned" /\ ~Expired(c) => out[c] \in {"ok", "status", "error"}

\* What a call answers with was true not longer ago than the cache may keep
\* it and the call may take, although it was read before the other hops.
SnapshotBound ==
    [][\A c \in Callers :
         CanAnswer(c) /\ stage'[c] = "over" /\ out[c] = "ok"
            => now < taken[c] + Ttl + ToolCallTimeout]_vars

\* Every call is answered, whichever request is slow, fails or is shared.
CallsAreAnswered == \A c \in Callers : (stage[c] = "working") ~> (stage[c] = "over")
=============================================================================
