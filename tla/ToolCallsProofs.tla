-------------------------- MODULE ToolCallsProofs --------------------------
(***************************************************************************)
(* Proofs, for any number of concurrent calls and any limits, of the       *)
(* safety properties of ToolCalls: how late a call can be, which calls can *)
(* be late, what a warning may be due to and how old a snapshot may be.    *)
(***************************************************************************)
EXTENDS ToolCalls, TLAPS

Unsettled(c) == state[c] = "waiting" /\ due[c] = "none"
Good(c) == due[c] = "ok" \/ (state[c] = "returned" /\ out[c] = "ok")

\* The state of a request and that of its handler belong together.
Coherent ==
    \A c \in Callers :
        /\ stage[c] = "idle" => state[c] = "idle" /\ c \notin owner
        /\ state[c] = "idle" => c \notin owner
        /\ due[c] # "none" => state[c] = "waiting"
        /\ Unsettled(c) => fetching = {Url}

\* A fetch in flight has one owner, started with it and is not overdue.
OneOwner ==
    /\ fetching # {} => since <= now /\ now <= since + FetchBound
    /\ \A c, d \in owner : Unsettled(c) /\ Unsettled(d) => c = d
    /\ \A c \in owner : Unsettled(c) /\ Active(c) => since = began[c]

\* No time passes before the request of a call has reached the cache, and its
\* handler's own hops keep to the deadline.
OnTime ==
    \A c \in Callers : Active(c) =>
        /\ began[c] <= now
        /\ state[c] = "idle" => began[c] = now
        /\ stage[c] = "working" /\ tool[c] = "prefetching" => now <= began[c] + ToolCallTimeout

\* How old a good reply can be by the time it is used.
Recent ==
    /\ \A u \in DOMAIN kept : kept[u] <= now
    /\ \A c \in Callers : Active(c) /\ Good(c) =>
         /\ taken[c] <= now
         /\ began[c] < taken[c] + Ttl
         /\ now <= began[c] + ToolCallTimeout \/ now = taken[c]

Late(c) == Active(c) /\ now > began[c] + ToolCallTimeout

\* LateCallsFillTheCache, without the set.
LateOwn ==
    /\ \A c \in Callers : Late(c) => c \in owner
    /\ \A c, d \in Callers : Late(c) /\ Late(d) => c = d

\* The inductive invariant.
CallInv ==
    /\ TypeOK /\ Coherent /\ OneOwner /\ OnTime
    /\ CallBound /\ LateOwn /\ WarningsAreGrounded /\ Recent

LEMMA LateCalls == LateOwn => LateCallsFillTheCache
  BY DEF LateOwn, Late, LateCallsFillTheCache

\* The initial states satisfy the invariant.
LEMMA CallInvInit == Init => CallInv
<1> SUFFICES ASSUME Init PROVE CallInv
  OBVIOUS
<1>1. TypeOK
  BY DEF Init, Cache!Init, Cache!AnyUrl, TypeOK
<1>2. \A c \in Callers : stage[c] = "idle" /\ state[c] = "idle" /\ due[c] = "none"
  BY DEF Init, Cache!Init
<1>3. owner = {} /\ fetching = {}
  BY DEF Init, Cache!Init
<1> QED
  BY <1>1, <1>2, <1>3 DEF CallInv, Coherent, OneOwner, OnTime, CallBound, LateOwn,
     Late, WarningsAreGrounded, Recent, Active, Unsettled, Init, Cache!Init

\* A call begins.
LEMMA BeginsStep ==
  ASSUME CallInv, NEW c \in Callers, NEW t \in {"prefetching", "direct"}, Begins(c, t)
  PROVE  CallInv'
<1> USE ToolCallAssumption DEF CallInv
<1>1. /\ stage[c] = "idle" /\ stage' = [stage EXCEPT ![c] = "working"]
      /\ tool' = [tool EXCEPT ![c] = t] /\ began' = [began EXCEPT ![c] = now]
      /\ UNCHANGED <<fetching, kept, state, want, due, out, ctxDone, now, owner, since, taken>>
  BY DEF Begins, cache, TypeOK
<1>2. TypeOK'
  BY <1>1 DEF TypeOK
<1>3. Coherent'
  BY <1>1 DEF TypeOK, Coherent, Unsettled
<1>4. OneOwner'
  BY <1>1 DEF TypeOK, Coherent, OneOwner, OnTime, Unsettled, Active
<1>5. OnTime'
  BY <1>1 DEF TypeOK, Coherent, OnTime, Active
<1>6. CallBound'
  BY <1>1 DEF TypeOK, CallBound, OnTime, Active
<1>7. LateOwn'
  BY <1>1 DEF TypeOK, Coherent, LateOwn, OnTime, Late, Active
<1>8. WarningsAreGrounded'
  BY <1>1 DEF TypeOK, Coherent, WarningsAreGrounded, Expired, Active
<1>9. Recent'
  BY <1>1 DEF TypeOK, Coherent, OnTime, Recent, Good, Active
<1> QED
  BY <1>2, <1>3, <1>4, <1>5, <1>6, <1>7, <1>8, <1>9

\* A request is answered from what is kept.
LEMMA AskKeptStep ==
  ASSUME CallInv, NEW c \in Callers, AskKept(c)
  PROVE  CallInv'
<1> USE ToolCallAssumption DEF CallInv
<1>1. /\ state[c] = "idle" /\ stage[c] # "idle"
      /\ Url \in DOMAIN kept /\ now < kept[Url] + Ttl
      /\ state' = [state EXCEPT ![c] = "waiting"] /\ due' = [due EXCEPT ![c] = "ok"]
      /\ want' = [want EXCEPT ![c] = Url] /\ taken' = [taken EXCEPT ![c] = kept[Url]]
      /\ UNCHANGED <<fetching, kept, out, ctxDone, now, stage, tool, began, owner, since>>
  BY DEF AskKept, WillAsk, calls, Cache!AskKept, Cache!Live, Cache!Asks, TypeOK
<1>2. TypeOK'
  BY <1>1 DEF TypeOK
<1>3. Coherent'
  BY <1>1 DEF TypeOK, Coherent, Unsettled
<1>4. OneOwner'
  BY <1>1 DEF TypeOK, Coherent, OneOwner, OnTime, Unsettled, Active
<1>5. OnTime'
  BY <1>1 DEF TypeOK, Coherent, OnTime, Active
<1>6. CallBound'
  BY <1>1 DEF TypeOK, CallBound, OnTime, Active
<1>7. LateOwn'
  BY <1>1 DEF TypeOK, Coherent, LateOwn, OnTime, Late, Active
<1>8. WarningsAreGrounded'
  BY <1>1 DEF TypeOK, Coherent, WarningsAreGrounded, Expired, Active
<1>9. Recent'
  BY <1>1 DEF TypeOK, Coherent, OnTime, Recent, Good, Active
<1> QED
  BY <1>2, <1>3, <1>4, <1>5, <1>6, <1>7, <1>8, <1>9

\* A request joins the fetch in flight, or starts one.
LEMMA AskFetchStep ==
  ASSUME CallInv, NEW c \in Callers, AskFetch(c)
  PROVE  CallInv'
<1> USE ToolCallAssumption DEF CallInv
<1>a. Url \notin fetching <=> fetching = {}
  BY DEF TypeOK
<1>b. /\ state[c] = "idle" /\ stage[c] # "idle"
      /\ state' = [state EXCEPT ![c] = "waiting"] /\ want' = [want EXCEPT ![c] = Url]
      /\ fetching' = fetching \cup {Url}
      /\ kept' = [v \in DOMAIN kept \ {Url} |-> kept[v]]
      /\ UNCHANGED <<due, out, ctxDone, now, stage, tool, began, taken>>
  BY DEF AskFetch, WillAsk, calls, Cache!AskFetch, Cache!Asks
<1>c. /\ fetching = {} => owner' = owner \cup {c} /\ since' = now
      /\ fetching # {} => UNCHANGED <<owner, since>>
  BY <1>a DEF AskFetch, Starts
<1>1. /\ state[c] = "idle" /\ stage[c] # "idle"
      /\ state' = [state EXCEPT ![c] = "waiting"] /\ want' = [want EXCEPT ![c] = Url]
      /\ fetching' = {Url}
      /\ DOMAIN kept' \subseteq {Url} /\ kept' \in [DOMAIN kept' -> Nat]
      /\ \A u \in DOMAIN kept' : u \in DOMAIN kept /\ kept'[u] = kept[u]
      /\ fetching = {} => owner' = owner \cup {c} /\ since' = now
      /\ fetching # {} => owner' = owner /\ since' = since
      /\ UNCHANGED <<due, out, ctxDone, now, stage, tool, began, taken>>
  BY <1>b, <1>c DEF TypeOK
<1>2. TypeOK'
  BY <1>1 DEF TypeOK
<1>3. Coherent'
  BY <1>1 DEF TypeOK, Coherent, Unsettled
<1>4. OneOwner'
  BY <1>1 DEF TypeOK, Coherent, OneOwner, OnTime, Unsettled, Active
<1>5. OnTime'
  BY <1>1 DEF TypeOK, Coherent, OnTime, Active
<1>6. CallBound'
  BY <1>1 DEF TypeOK, CallBound, OnTime, Active
<1>7. LateOwn'
  BY <1>1 DEF TypeOK, Coherent, LateOwn, OnTime, Late, Active
<1>8. WarningsAreGrounded'
  BY <1>1 DEF TypeOK, Coherent, WarningsAreGrounded, Expired, Active
<1>9. Recent'
  BY <1>1 DEF TypeOK, Coherent, OnTime, Recent, Good, Active
<1> QED
  BY <1>2, <1>3, <1>4, <1>5, <1>6, <1>7, <1>8, <1>9

\* The fetch ends, and whoever waits for it is owed its outcome.
LEMMA FetchEndsStep ==
  ASSUME CallInv, FetchEnds
  PROVE  CallInv'
<1> USE ToolCallAssumption DEF CallInv
<1>a. PICK o \in {"ok", "status", "error"} : Cache!Owed(Url, o)
  BY DEF FetchEnds, Cache!Succeed, Cache!Fail
<1>b. /\ DOMAIN kept' \subseteq {Url} /\ kept' \in [DOMAIN kept' -> Nat]
      /\ \A u \in DOMAIN kept' : kept'[u] = now \/ (u \in DOMAIN kept /\ kept'[u] = kept[u])
  BY DEF FetchEnds, Cache!Succeed, Cache!Fail, TypeOK
<1>c. /\ fetching = {Url} /\ fetching' = {}
      /\ due' = [d \in Callers |->
                   IF state[d] = "waiting" /\ due[d] = "none" THEN o ELSE due[d]]
      /\ UNCHANGED <<state, want, out, ctxDone, now>>
  BY <1>a DEF Cache!Owed, TypeOK
<1>d. /\ taken' = [d \in Callers |->
                     IF state[d] = "waiting" /\ due[d] = "none" THEN now ELSE taken[d]]
      /\ since' = 0
      /\ UNCHANGED <<stage, tool, began, owner>>
  BY DEF FetchEnds, calls
<1>1. /\ fetching = {Url} /\ fetching' = {} /\ since' = 0
      /\ due' \in [Callers -> {"none", "ok", "status", "error"}]
      /\ taken' \in [Callers -> Nat]
      /\ \A d \in Callers : IF state[d] = "waiting" /\ due[d] = "none"
                            THEN due'[d] = o /\ taken'[d] = now
                            ELSE due'[d] = due[d] /\ taken'[d] = taken[d]
      /\ UNCHANGED <<state, want, out, ctxDone, now, stage, tool, began, owner>>
  BY <1>c, <1>d DEF TypeOK
<1>2. TypeOK'
  BY <1>1, <1>b DEF TypeOK
<1>3. Coherent'
  BY <1>1 DEF TypeOK, Coherent, Unsettled
<1>4. OneOwner'
  BY <1>1 DEF TypeOK, Coherent, OneOwner, OnTime, Unsettled, Active
<1>5. OnTime'
  BY <1>1 DEF TypeOK, Coherent, OnTime, Active
<1>6. CallBound'
  BY <1>1 DEF TypeOK, CallBound, OnTime, Active
<1>7. LateOwn'
  BY <1>1 DEF TypeOK, LateOwn, Late, Active
<1>8. WarningsAreGrounded'
  BY <1>1 DEF TypeOK, Coherent, WarningsAreGrounded, Expired, Active
<1>9. Recent'
  BY <1>1, <1>b DEF TypeOK, Coherent, OnTime, Recent, Good, Active
<1> QED
  BY <1>2, <1>3, <1>4, <1>5, <1>6, <1>7, <1>8, <1>9

\* A request returns with what it is owed.
LEMMA DeliverStep ==
  ASSUME CallInv, NEW c \in Callers, Deliver(c)
  PROVE  CallInv'
<1> USE ToolCallAssumption DEF CallInv
<1>1. /\ state[c] = "waiting" /\ due[c] \in {"ok", "status", "error"}
      /\ state' = [state EXCEPT ![c] = "returned"]
      /\ out' = [out EXCEPT ![c] = due[c]] /\ due' = [due EXCEPT ![c] = "none"]
      /\ UNCHANGED <<fetching, kept, want, ctxDone, now, stage, tool, began, owner, since, taken>>
  BY DEF Deliver, calls, Cache!Deliver, Cache!Answer, TypeOK
<1>2. TypeOK'
  BY <1>1 DEF TypeOK
<1>3. Coherent'
  BY <1>1 DEF TypeOK, Coherent, Unsettled
<1>4. OneOwner'
  BY <1>1 DEF TypeOK, Coherent, OneOwner, OnTime, Unsettled, Active
<1>5. OnTime'
  BY <1>1 DEF TypeOK, Coherent, OnTime, Active
<1>6. CallBound'
  BY <1>1 DEF TypeOK, CallBound, OnTime, Active
<1>7. LateOwn'
  BY <1>1 DEF TypeOK, Coherent, LateOwn, OnTime, Late, Active
<1>8. WarningsAreGrounded'
  BY <1>1 DEF TypeOK, Coherent, WarningsAreGrounded, Expired, Active
<1>9. Recent'
  BY <1>1 DEF TypeOK, Coherent, OnTime, Recent, Good, Active
<1> QED
  BY <1>2, <1>3, <1>4, <1>5, <1>6, <1>7, <1>8, <1>9

\* The context of a request ends.
LEMMA CtxEndsStep ==
  ASSUME CallInv, NEW c \in Callers, CtxEnds(c)
  PROVE  CallInv'
<1> USE ToolCallAssumption DEF CallInv
<1>1. /\ ctxDone' = [ctxDone EXCEPT ![c] = TRUE]
      /\ UNCHANGED <<fetching, kept, state, want, due, out, now, stage, tool, began, owner, since, taken>>
  BY DEF CtxEnds, calls, Cache!CtxEnds, TypeOK
<1>2. TypeOK'
  BY <1>1 DEF TypeOK
<1>3. Coherent'
  BY <1>1 DEF TypeOK, Coherent, Unsettled
<1>4. OneOwner'
  BY <1>1 DEF TypeOK, Coherent, OneOwner, OnTime, Unsettled, Active
<1>5. OnTime'
  BY <1>1 DEF TypeOK, Coherent, OnTime, Active
<1>6. CallBound'
  BY <1>1 DEF TypeOK, CallBound, OnTime, Active
<1>7. LateOwn'
  BY <1>1 DEF TypeOK, Coherent, LateOwn, OnTime, Late, Active
<1>8. WarningsAreGrounded'
  BY <1>1 DEF TypeOK, Coherent, WarningsAreGrounded, Expired, Active
<1>9. Recent'
  BY <1>1 DEF TypeOK, Coherent, OnTime, Recent, Good, Active
<1> QED
  BY <1>2, <1>3, <1>4, <1>5, <1>6, <1>7, <1>8, <1>9

\* A request that shares another's fetch gives up.
LEMMA GiveUpStep ==
  ASSUME CallInv, NEW c \in Callers, GiveUp(c)
  PROVE  CallInv'
<1> USE ToolCallAssumption DEF CallInv
<1>1. /\ state[c] = "waiting"
      /\ stage[c] = "over" \/ now >= began[c] + ToolCallTimeout
      /\ state' = [state EXCEPT ![c] = "returned"]
      /\ out' = [out EXCEPT ![c] = "cancelled"] /\ due' = [due EXCEPT ![c] = "none"]
      /\ UNCHANGED <<fetching, kept, want, ctxDone, now, stage, tool, began, owner, since, taken>>
  BY DEF GiveUp, TurnedAway, CtxOver, Expired, calls, Cache!GiveUp, Cache!Answer, TypeOK
<1>2. TypeOK'
  BY <1>1 DEF TypeOK
<1>3. Coherent'
  BY <1>1 DEF TypeOK, Coherent, Unsettled
<1>4. OneOwner'
  BY <1>1 DEF TypeOK, Coherent, OneOwner, OnTime, Unsettled, Active
<1>5. OnTime'
  BY <1>1 DEF TypeOK, Coherent, OnTime, Active
<1>6. CallBound'
  BY <1>1 DEF TypeOK, CallBound, OnTime, Active
<1>7. LateOwn'
  BY <1>1 DEF TypeOK, Coherent, LateOwn, OnTime, Late, Active
<1>8. WarningsAreGrounded'
  BY <1>1 DEF TypeOK, Coherent, WarningsAreGrounded, Expired, Active
<1>9. Recent'
  BY <1>1 DEF TypeOK, Coherent, OnTime, Recent, Good, Active
<1> QED
  BY <1>2, <1>3, <1>4, <1>5, <1>6, <1>7, <1>8, <1>9

\* The handler's own hops end.
LEMMA HopEndsStep ==
  ASSUME CallInv, NEW c \in Callers, HopEnds(c)
  PROVE  CallInv'
<1> USE ToolCallAssumption DEF CallInv
<1>1. /\ stage[c] = "working"
      /\ \/ stage' = [stage EXCEPT ![c] = "awaiting"] /\ UNCHANGED <<tool, began>>
         \/ /\ stage' = [stage EXCEPT ![c] = "over"]
            /\ tool' = [tool EXCEPT ![c] = "direct"] /\ began' = [began EXCEPT ![c] = 0]
      /\ UNCHANGED <<fetching, kept, state, want, due, out, ctxDone, now, owner, since, taken>>
  BY DEF HopEnds, Returns, cache, TypeOK
<1>2. TypeOK'
  BY <1>1 DEF TypeOK
<1>3. Coherent'
  BY <1>1 DEF TypeOK, Coherent, Unsettled
<1>4. OneOwner'
  BY <1>1 DEF TypeOK, Coherent, OneOwner, OnTime, Unsettled, Active
<1>5. OnTime'
  BY <1>1 DEF TypeOK, Coherent, OnTime, Active
<1>6. CallBound'
  BY <1>1 DEF TypeOK, CallBound, OnTime, Active
<1>7. LateOwn'
  BY <1>1 DEF TypeOK, Coherent, LateOwn, OnTime, Late, Active
<1>8. WarningsAreGrounded'
  BY <1>1 DEF TypeOK, Coherent, WarningsAreGrounded, Expired, Active
<1>9. Recent'
  BY <1>1 DEF TypeOK, Coherent, OnTime, Recent, Good, Active
<1> QED
  BY <1>2, <1>3, <1>4, <1>5, <1>6, <1>7, <1>8, <1>9

\* The handler answers.
LEMMA AnswersStep ==
  ASSUME CallInv, NEW c \in Callers, Answers(c)
  PROVE  CallInv'
<1> USE ToolCallAssumption DEF CallInv
<1>1. /\ stage[c] # "idle" /\ stage' = [stage EXCEPT ![c] = "over"]
      /\ tool' = [tool EXCEPT ![c] = "direct"] /\ began' = [began EXCEPT ![c] = 0]
      /\ UNCHANGED <<fetching, kept, state, want, due, out, ctxDone, now, owner, since, taken>>
  BY DEF Answers, CanAnswer, Returns, cache, TypeOK
<1>2. TypeOK'
  BY <1>1 DEF TypeOK
<1>3. Coherent'
  BY <1>1 DEF TypeOK, Coherent, Unsettled
<1>4. OneOwner'
  BY <1>1 DEF TypeOK, Coherent, OneOwner, OnTime, Unsettled, Active
<1>5. OnTime'
  BY <1>1 DEF TypeOK, Coherent, OnTime, Active
<1>6. CallBound'
  BY <1>1 DEF TypeOK, CallBound, OnTime, Active
<1>7. LateOwn'
  BY <1>1 DEF TypeOK, Coherent, LateOwn, OnTime, Late, Active
<1>8. WarningsAreGrounded'
  BY <1>1 DEF TypeOK, Coherent, WarningsAreGrounded, Expired, Active
<1>9. Recent'
  BY <1>1 DEF TypeOK, Coherent, OnTime, Recent, Good, Active
<1> QED
  BY <1>2, <1>3, <1>4, <1>5, <1>6, <1>7, <1>8, <1>9

\* A session makes room for its next call.
LEMMA NextCallStep ==
  ASSUME CallInv, NEW c \in Callers, NextCall(c)
  PROVE  CallInv'
<1> USE ToolCallAssumption DEF CallInv
<1>1. /\ stage[c] = "over" /\ state[c] = "returned"
      /\ stage' = [stage EXCEPT ![c] = "idle"] /\ state' = [state EXCEPT ![c] = "idle"]
      /\ want' = [want EXCEPT ![c] = Url] /\ out' = [out EXCEPT ![c] = "none"]
      /\ ctxDone' = [ctxDone EXCEPT ![c] = FALSE]
      /\ owner' = owner \ {c} /\ taken' = [taken EXCEPT ![c] = 0]
      /\ UNCHANGED <<fetching, kept, due, now, tool, began, since>>
  BY DEF NextCall, Cache!Consume, Cache!AnyUrl, TypeOK
<1>2. TypeOK'
  BY <1>1 DEF TypeOK
<1>3. Coherent'
  BY <1>1 DEF TypeOK, Coherent, Unsettled
<1>4. OneOwner'
  BY <1>1 DEF TypeOK, Coherent, OneOwner, OnTime, Unsettled, Active
<1>5. OnTime'
  BY <1>1 DEF TypeOK, Coherent, OnTime, Active
<1>6. CallBound'
  BY <1>1 DEF TypeOK, CallBound, OnTime, Active
<1>7. LateOwn'
  BY <1>1 DEF TypeOK, Coherent, LateOwn, OnTime, Late, Active
<1>8. WarningsAreGrounded'
  BY <1>1 DEF TypeOK, Coherent, WarningsAreGrounded, Expired, Active
<1>9. Recent'
  BY <1>1 DEF TypeOK, Coherent, OnTime, Recent, Good, Active
<1> QED
  BY <1>2, <1>3, <1>4, <1>5, <1>6, <1>7, <1>8, <1>9

\* Time passes: the calls that are not answered make a hop of their own within
\* their deadline, share a fetch within it, or own the one fetch in flight.
LEMMA TickStep ==
  ASSUME CallInv, Tick
  PROVE  CallInv'
<1> USE ToolCallAssumption DEF CallInv
<1>1. /\ now' = now + 1
      /\ UNCHANGED <<fetching, kept, state, want, due, out, ctxDone>>
      /\ UNCHANGED <<stage, tool, began, owner, since, taken>>
      /\ fetching # {} => now < since + FetchBound
  BY DEF Tick, Cache!Tick, calls
<1>2. \A c \in Callers : Active(c) /\ ~(stage[c] = "working" /\ tool[c] = "prefetching")
                            => Unsettled(c)
  BY DEF Tick, Waiting, WillAsk, CanAnswer, Settled, Active, Unsettled, TypeOK
<1>3. \A c \in Callers : Active(c) => state[c] # "idle"
  BY DEF Tick, Waiting, WillAsk, Active
<1>4. \A c \in Callers : stage[c] = "working" /\ tool[c] = "prefetching"
                            => now < began[c] + ToolCallTimeout
  BY DEF Tick, Waiting, HopInTime, Expired, TypeOK
<1>5. \A c \in Callers : Unsettled(c) /\ c \notin owner => now < began[c] + ToolCallTimeout
  BY DEF Tick, Waiting, TurnedAway, CtxOver, Expired, Unsettled, TypeOK
<1>6. \A c \in Callers : Active(c) /\ Unsettled(c) /\ c \in owner => now < began[c] + FetchBound
  BY <1>1 DEF Coherent, OneOwner
<1>7. \A c \in Callers : due[c] = "none"
  BY DEF Tick, Waiting
<1>8. TypeOK'
  BY <1>1 DEF TypeOK
<1>9. Coherent'
  BY <1>1 DEF Coherent, Unsettled
<1>10. OneOwner'
  BY <1>1 DEF TypeOK, OneOwner, Unsettled, Active
<1>11. OnTime'
  BY <1>1, <1>3, <1>4 DEF TypeOK, OnTime, Active
<1>12. CallBound'
  BY <1>1, <1>2, <1>4, <1>5, <1>6 DEF TypeOK, CallBound, Active
<1>13. LateOwn'
  <2>1. \A c \in Callers : Late(c)' => Active(c) /\ Unsettled(c) /\ c \in owner
    BY <1>1, <1>2, <1>4, <1>5 DEF TypeOK, Late, Active
  <2> QED
    BY <1>1, <2>1 DEF LateOwn, OneOwner
<1>14. WarningsAreGrounded'
  BY <1>1 DEF TypeOK, WarningsAreGrounded, Expired, Active
<1>15. Recent'
  <2>1. \A c \in Callers : Active(c) /\ Good(c) => now < began[c] + ToolCallTimeout
    BY <1>2, <1>4, <1>7 DEF Good, Unsettled
  <2> QED
    BY <1>1, <2>1 DEF TypeOK, Recent, Good, Active
<1> QED
  BY <1>8, <1>9, <1>10, <1>11, <1>12, <1>13, <1>14, <1>15

\* A step in which nothing changes.
LEMMA CallInvStutters == CallInv /\ UNCHANGED vars => CallInv'
<1> SUFFICES ASSUME CallInv, UNCHANGED vars PROVE CallInv'
  OBVIOUS
<1>1. UNCHANGED <<fetching, kept, state, want, due, out, ctxDone, now>>
  BY DEF vars, cache
<1>2. UNCHANGED <<stage, tool, began, owner, since, taken>>
  BY DEF vars, calls
<1> QED
  BY <1>1, <1>2 DEF CallInv, TypeOK, Coherent, OneOwner, OnTime, CallBound, LateOwn, Late,
     WarningsAreGrounded, Recent, Expired, Active, Unsettled, Good

\* Every step preserves the invariant.
LEMMA CallInvStep == CallInv /\ [Next]_vars => CallInv'
<1> SUFFICES ASSUME CallInv, [Next]_vars PROVE CallInv'
  OBVIOUS
<1>1. CASE UNCHANGED vars
  BY <1>1, CallInvStutters
<1>2. CASE FetchEnds
  BY <1>2, FetchEndsStep
<1>3. CASE Tick
  BY <1>3, TickStep
<1>4. ASSUME NEW c \in Callers, \E t \in {"prefetching", "direct"} : Begins(c, t)
      PROVE  CallInv'
  BY <1>4, BeginsStep
<1>5. ASSUME NEW c \in Callers, Request(c)
      PROVE  CallInv'
  BY <1>5, AskKeptStep, AskFetchStep, DeliverStep, CtxEndsStep, GiveUpStep DEF Request
<1>6. ASSUME NEW c \in Callers, Handler(c)
      PROVE  CallInv'
  BY <1>6, HopEndsStep, AnswersStep DEF Handler
<1>7. ASSUME NEW c \in Callers, NextCall(c)
      PROVE  CallInv'
  BY <1>7, NextCallStep
<1> QED
  BY <1>1, <1>2, <1>3, <1>4, <1>5, <1>6, <1>7 DEF Next

\* The invariant holds of every reachable state.
THEOREM CallsAreSafe == Spec => []CallInv
  BY CallInvInit, CallInvStep, PTL DEF Spec

\* No call takes longer than the longest of what goes on for it: its deadline
\* (withTimeout, server.go) or one detached fetch (cache.go).
THEOREM CallsAreBounded == Spec => []CallBound
<1>1. CallInv => CallBound
  BY DEF CallInv
<1> QED
  BY <1>1, CallsAreSafe, PTL

\* The only call that can outlive its deadline is the one whose request fills
\* the cache; whoever shares its fetch is not held up by it (cache.go's await).
THEOREM OneCallFillsTheCache == Spec => []LateCallsFillTheCache
<1>1. CallInv => LateCallsFillTheCache
  BY LateCalls DEF CallInv
<1> QED
  BY <1>1, CallsAreSafe, PTL

\* No warning is due to another call's return or to the end of one's own hop.
THEOREM WarningsHaveAReason == Spec => []WarningsAreGrounded
<1>1. CallInv => WarningsAreGrounded
  BY DEF CallInv
<1> QED
  BY <1>1, CallsAreSafe, PTL

\* The messages in an answer are at most the TTL and the deadline old, although
\* prefetch reads them before the handler's other hops.
THEOREM SnapshotsAreRecent == Spec => SnapshotBound
<1>1. CallInv /\ [Next]_vars =>
        [\A c \in Callers :
           CanAnswer(c) /\ stage'[c] = "over" /\ out[c] = "ok"
              => now < taken[c] + Ttl + ToolCallTimeout]_vars
  <2> SUFFICES ASSUME CallInv, NEW c \in Callers, CanAnswer(c), out[c] = "ok"
               PROVE  now < taken[c] + Ttl + ToolCallTimeout
    OBVIOUS
  <2>1. Active(c) /\ Good(c)
    BY DEF CanAnswer, Settled, Active, Good
  <2>2. /\ now \in Nat /\ began[c] \in Nat /\ taken[c] \in Nat
        /\ Ttl \in Nat /\ Ttl > 0 /\ ToolCallTimeout \in Nat
    BY ToolCallAssumption DEF CallInv, TypeOK
  <2>3. /\ began[c] < taken[c] + Ttl
        /\ now <= began[c] + ToolCallTimeout \/ now = taken[c]
    BY <2>1 DEF CallInv, Recent
  <2> QED
    BY <2>2, <2>3
<1> QED
  BY <1>1, CallsAreSafe, PTL DEF Spec, SnapshotBound

\* The calls start with an empty cache.
LEMMA CacheInit == Init => Cache!Init
  BY DEF Init

\* Whatever a call does leaves the cache alone or is a step of SharedFetch.
LEMMA CacheStep == CallInv /\ [Next]_vars => [Cache!Next]_(Cache!vars)
<1> SUFFICES ASSUME CallInv, [Next]_vars PROVE Cache!Next \/ UNCHANGED cache
  BY DEF Cache!vars, cache
<1>1. ASSUME NEW c \in Callers, Request(c) PROVE Cache!Next
  BY <1>1 DEF Request, AskKept, AskFetch, Deliver, CtxEnds, GiveUp, Cache!Next
<1>2. ASSUME NEW c \in Callers, NextCall(c) PROVE Cache!Next
  BY <1>2 DEF NextCall, Cache!Next
<1>3. ASSUME NEW c \in Callers, Handler(c) PROVE UNCHANGED cache
  BY <1>3 DEF Handler, HopEnds, Answers
<1>4. ASSUME NEW c \in Callers, NEW t \in {"prefetching", "direct"}, Begins(c, t)
      PROVE  UNCHANGED cache
  BY <1>4 DEF Begins
<1>5. CASE FetchEnds
  <2>1. now \in 0..now
    BY DEF CallInv, TypeOK
  <2> QED
    BY <1>5, <2>1 DEF FetchEnds, Cache!Next
<1>6. CASE Tick
  BY <1>6 DEF Tick, Cache!Next
<1>7. CASE UNCHANGED vars
  BY <1>7 DEF vars
<1> QED
  BY <1>1, <1>2, <1>3, <1>4, <1>5, <1>6, <1>7 DEF Next

\* The calls ask nothing of the cache that SharedFetch does not offer, so what
\* is proved of ResponseCache through SharedFetch holds of the cache they share.
THEOREM CallsUseTheCache == Spec => Cache!Spec
  BY CacheInit, CacheStep, CallsAreSafe, PTL DEF Spec, Cache!Spec
=============================================================================
