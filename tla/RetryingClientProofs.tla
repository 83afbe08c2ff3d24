------------------------ MODULE RetryingClientProofs ------------------------
(***************************************************************************)
(* Proofs, for every number of attempts, every timeout, wait and width of  *)
(* a duration, of the safety properties of RetryingClient.                 *)
(* RetryAfterHonoured depends on the width: it is proved from the          *)
(* assumption that the headers fit it.                                     *)
(***************************************************************************)
EXTENDS RetryingClient, TLAPS

\* One attempt and the wait after it.
Round == ClientTimeout + LongestWait

\* Only the response under judgement, or handed to the caller, has an open body.
Bodies ==
    /\ pc \in {"try", "sleep"} => open = {}
    /\ pc = "judge" => open = IF IsResponse(last) THEN {attempt} ELSE {}
    /\ pc = "returned" => open = IF IsResponse(last) /\ ~ctxError THEN {attempt} ELSE {}
    /\ ctxError => pc = "returned"

\* Why another attempt will be made.
WorthIt ==
    /\ attempt <= Attempts
    /\ pc = "sleep" => get /\ Retryable(last) /\ attempt < Attempts /\ wait <= LongestWait

\* The time the rounds so far may have taken.
Budget ==
    /\ pc = "try" => elapsed <= (attempt - 1) * Round
    /\ pc \in {"judge", "sleep"} => elapsed <= (attempt - 1) * Round + ClientTimeout
    /\ pc = "returned" => DetachedBound

\* What the proofs rest on: which bodies are open, why the loop goes on and
\* how long it can have run.
RetryInv == TypeOK /\ Bodies /\ WorthIt /\ Budget /\ DeadlineHonoured

\* The limits are numbers.
LEMMA Limits ==
    /\ Attempts \in Nat /\ Attempts >= 1
    /\ Backoff \in Nat /\ MaxRetryAfterWait \in Nat /\ ClientTimeout \in Nat
    /\ ToolCallTimeout \in Nat /\ LongestWait \in Nat /\ Round \in Nat
    /\ Backoff <= LongestWait /\ MaxRetryAfterWait <= LongestWait
  BY RetryAssumption DEF LongestWait, Round

\* A duration is a number, whatever the header says.
LEMMA RetryAfterType ==
  ASSUME NEW o \in Responses
  PROVE  RetryAfter(o) \in Int
<1>1. o.after \in RetryAfters \cup {NoHeader}
  BY DEF Responses
<1>2. o.after \in Int
  <2>1. NoHeader \in Int
    BY DEF NoHeader
  <2>2. RetryAfters \subseteq Nat
    BY RetryAssumption
  <2>3. \A x \in RetryAfters \cup {NoHeader} : x \in Int
    BY <2>1, <2>2
  <2> QED
    BY <1>1, <2>3
<1>3. HalfRange \in Int /\ HalfRange > 0 /\ Second \in Int
  BY RetryAssumption
<1>4. \A x \in Int : Wrap(x) \in Int
  BY <1>3 DEF Wrap
<1> QED
  BY <1>2, <1>3, <1>4 DEF RetryAfter

\* More rounds take no less time.
LEMMA MoreRounds ==
  ASSUME NEW a \in Int, NEW b \in Int, a <= b
  PROVE  a * Round <= b * Round
  BY Limits

\* One more round.
LEMMA NextRound ==
  ASSUME NEW a \in Int
  PROVE  a * Round = (a - 1) * Round + ClientTimeout + LongestWait
  BY Limits DEF Round

\* The bound of DetachedBound, in rounds.
LEMMA AllRounds ==
  Attempts * ClientTimeout + (Attempts - 1) * LongestWait = (Attempts - 1) * Round + ClientTimeout
  BY Limits DEF Round

\* The initial states satisfy the invariant.
LEMMA RetryInvInit == Init => RetryInv
<1> SUFFICES ASSUME Init PROVE RetryInv
  OBVIOUS
<1>1. TypeOK
  <2>1. get \in BOOLEAN /\ detached \in BOOLEAN /\ ctxError \in BOOLEAN
    BY Zenon DEF Init
  <2> QED
    BY <2>1, Limits DEF Init, TypeOK
<1>2. Bodies /\ WorthIt /\ DeadlineHonoured
  BY Limits DEF Init, Bodies, WorthIt, DeadlineHonoured, Deadline
<1>3. Budget
  BY Limits DEF Init, Budget
<1> QED
  BY <1>1, <1>2, <1>3 DEF RetryInv

\* What an attempt can end with, and how long it can have taken.
LEMMA AttemptEnds ==
  ASSUME RetryInv, InnerDo
  PROVE  \E o \in Responses \cup Errors, d \in 0..ClientTimeout :
            Ends(o, d) /\ (~detached => elapsed + d <= Deadline)
<1> USE Limits DEF RetryInv, TypeOK
<1>1. ASSUME NEW d \in Latencies, InTime(d),
             NEW o \in Responses \cup {TransportError}, Ends(o, d)
      PROVE  /\ o \in Responses \cup Errors /\ d \in 0..ClientTimeout
             /\ ~detached => elapsed + d <= Deadline
  <2>1. TransportError \in Errors
    BY DEF TransportError, Errors
  <2> QED
    BY <1>1, <2>1, RetryAssumption DEF InTime
<1>2. ASSUME InTime(ClientTimeout)
      PROVE  /\ Timeout \in Responses \cup Errors /\ ClientTimeout \in 0..ClientTimeout
             /\ ~detached => elapsed + ClientTimeout <= Deadline
  BY <1>2 DEF InTime, Timeout, Errors
<1>3. ASSUME ~detached, elapsed + ClientTimeout >= Deadline,
             NEW d, d = IF CtxDone THEN 0 ELSE Deadline - elapsed
      PROVE  /\ CtxError \in Responses \cup Errors /\ d \in 0..ClientTimeout
             /\ elapsed + d <= Deadline
  <2>1. elapsed <= Deadline
    BY <1>3 DEF DeadlineHonoured
  <2>2. d \in 0..ClientTimeout /\ elapsed + d <= Deadline
    BY <1>3, <2>1 DEF CtxDone, Deadline
  <2> QED
    BY <2>2 DEF CtxError, Errors
<1> QED
  BY <1>1, <1>2, <1>3 DEF InnerDo

\* Every step keeps the invariant.
LEMMA RetryInvStep == RetryInv /\ [Next]_vars => RetryInv'
<1> SUFFICES ASSUME RetryInv, [Next]_vars PROVE RetryInv'
  OBVIOUS
<1> USE Limits DEF RetryInv
<1>1. CASE InnerDo
  <2>1. PICK o \in Responses \cup Errors, d \in 0..ClientTimeout :
           Ends(o, d) /\ (~detached => elapsed + d <= Deadline)
    BY <1>1, AttemptEnds
  <2>2. TypeOK'
    BY <2>1 DEF Ends, TypeOK
  <2>3. Bodies'
    BY <2>1 DEF Ends, Bodies, TypeOK
  <2>4. WorthIt'
    BY <2>1 DEF Ends, WorthIt
  <2>5. Budget'
    <3>1. elapsed <= (attempt - 1) * Round /\ (attempt - 1) * Round \in Int
      BY <2>1 DEF Ends, Budget, TypeOK
    <3> HIDE Limits
    <3>2. elapsed' <= (attempt - 1) * Round + ClientTimeout
      BY <2>1, <3>1, Limits DEF Ends, TypeOK
    <3> QED
      BY <2>1, <3>2 DEF Ends, Budget
  <2>6. DeadlineHonoured'
    BY <2>1 DEF Ends, DeadlineHonoured, Deadline
  <2> QED
    BY <2>2, <2>3, <2>4, <2>5, <2>6
<1>2. CASE ReturnOutcome
  <2>1. TypeOK' /\ Bodies' /\ DeadlineHonoured'
    BY <1>2 DEF ReturnOutcome, Returns, TypeOK, Bodies, DeadlineHonoured, Deadline
  <2>2. WorthIt'
    BY <1>2 DEF ReturnOutcome, Returns, WorthIt
  <2>3. Budget'
    <3>1. elapsed <= (attempt - 1) * Round + ClientTimeout /\ attempt \in Nat /\ attempt <= Attempts
      BY <1>2 DEF ReturnOutcome, Budget, WorthIt, TypeOK
    <3>2. (attempt - 1) * Round <= (Attempts - 1) * Round
      BY <3>1, MoreRounds
    <3>3. DetachedBound
      BY <3>1, <3>2, AllRounds DEF DetachedBound, TypeOK
    <3> QED
      BY <1>2, <3>3 DEF ReturnOutcome, Returns, Budget, DetachedBound
  <2> QED
    BY <2>1, <2>2, <2>3
<1>3. CASE PrepareRetry
  <2>1. wait' \in Int /\ wait' <= LongestWait
    <3>1. CASE IsResponse(last) /\ last.after # NoHeader
      <4>1. last \in Responses
        BY <3>1 DEF TypeOK, IsResponse, Errors, NoOutcome
      <4> QED
        BY <1>3, <3>1, <4>1, RetryAfterType DEF PrepareRetry, TooLong
    <3>2. CASE ~(IsResponse(last) /\ last.after # NoHeader)
      BY <1>3, <3>2 DEF PrepareRetry
    <3> QED
      BY <3>1, <3>2
  <2>2. TypeOK'
    BY <1>3, <2>1 DEF PrepareRetry, TypeOK
  <2>3. Bodies'
    BY <1>3 DEF PrepareRetry, Bodies
  <2>4. WorthIt'
    BY <1>3, <2>1 DEF PrepareRetry, WorthIt, Final, TypeOK
  <2>5. Budget' /\ DeadlineHonoured'
    BY <1>3 DEF PrepareRetry, Budget, DeadlineHonoured, Deadline
  <2> QED
    BY <2>2, <2>3, <2>4, <2>5
<1>4. ASSUME NEW d \in Nat, pc = "sleep", Slept(d), d <= LongestWait,
             ~detached => elapsed + d <= Deadline
      PROVE  RetryInv'
  <2>1. TypeOK'
    BY <1>4 DEF Slept, TypeOK
  <2>2. Bodies' /\ DeadlineHonoured'
    BY <1>4 DEF Slept, Bodies, DeadlineHonoured, Deadline, TypeOK
  <2>3. WorthIt'
    BY <1>4 DEF Slept, WorthIt, TypeOK
  <2>4. Budget'
    <3>1. elapsed + d <= attempt * Round
      BY <1>4, NextRound DEF Budget, TypeOK
    <3>2. elapsed' <= (attempt' - 1) * Round
      BY <1>4, <3>1 DEF Slept, TypeOK
    <3> QED
      BY <1>4, <3>2 DEF Slept, Budget
  <2> QED
    BY <2>1, <2>2, <2>3, <2>4
<1>5. CASE NoWait
  BY <1>4, <1>5 DEF NoWait, DeadlineHonoured, TypeOK
<1>6. CASE Wait
  BY <1>4, <1>6 DEF Wait, WorthIt, TypeOK
<1>7. CASE WaitCut
  <2>1. elapsed \in Nat /\ wait \in Int /\ attempt \in Nat /\ wait <= LongestWait /\ attempt + 1 <= Attempts
    BY <1>7 DEF WaitCut, TypeOK, WorthIt
  <2>2. elapsed' \in Nat /\ elapsed' <= elapsed + wait /\ elapsed' <= Deadline
    BY <1>7, <2>1 DEF WaitCut, CtxDone, Deadline, DeadlineHonoured
  <2>3. TypeOK'
    BY <1>7, <2>2 DEF WaitCut, TypeOK
  <2>4. Bodies' /\ WorthIt' /\ DeadlineHonoured'
    BY <1>7, <2>2 DEF WaitCut, Bodies, WorthIt, DeadlineHonoured, Deadline
  <2>5. Budget'
    <3>1. elapsed + wait <= attempt * Round
      BY <1>7, <2>1, NextRound DEF WaitCut, Budget
    <3>2. attempt * Round <= (Attempts - 1) * Round
      BY <2>1, MoreRounds
    <3>3. DetachedBound'
      BY <2>1, <2>2, <3>1, <3>2, AllRounds DEF DetachedBound
    <3> QED
      BY <1>7, <3>3 DEF WaitCut, Budget
  <2> QED
    BY <2>3, <2>4, <2>5
<1>8. CASE UNCHANGED vars
  BY <1>8 DEF vars, TypeOK, Bodies, WorthIt, Budget, DetachedBound, DeadlineHonoured, Deadline
<1> QED
  BY <1>1, <1>2, <1>3, <1>5, <1>6, <1>7, <1>8 DEF Next

\* RetryInv holds throughout: types, the open bodies, the reason for another
\* attempt and the time spent.
THEOREM RetryInvariant == Spec => []RetryInv
  BY RetryInvInit, RetryInvStep, PTL DEF Spec

\* retryingClient.Do closes the body of every response it gives up and leaves
\* the returned one open.
THEOREM NoBodyLeaks == Spec => []BodiesAccountedFor
<1>1. RetryInv => BodiesAccountedFor
  BY DEF RetryInv, Bodies, BodiesAccountedFor
<1> QED
  BY <1>1, RetryInvariant, PTL

\* Attempts and waits on the tool call's own context end by its deadline.
THEOREM InTimeForTheCall == Spec => []DeadlineHonoured
<1>1. RetryInv => DeadlineHonoured
  BY DEF RetryInv
<1> QED
  BY <1>1, RetryInvariant, PTL

\* A detached request takes no longer than its attempts and the waits between.
THEOREM DetachedIsBounded == Spec => []DetachedBound
<1>1. ASSUME RetryInv PROVE DetachedBound
  <2>1. CASE pc = "returned"
    BY <1>1, <2>1 DEF RetryInv, Budget
  <2>2. CASE pc # "returned"
    <3>1. attempt \in Nat /\ attempt <= Attempts /\ elapsed \in Nat
      BY <1>1 DEF RetryInv, TypeOK, WorthIt
    <3>2. elapsed <= (attempt - 1) * Round + ClientTimeout
      BY <1>1, <2>2, <3>1, Limits DEF RetryInv, Budget, TypeOK
    <3>3. (attempt - 1) * Round <= (Attempts - 1) * Round
      BY <3>1, Limits, MoreRounds
    <3> QED
      BY <3>1, <3>2, <3>3, Limits, AllRounds DEF DetachedBound
  <2> QED
    BY <2>1, <2>2
<1> QED
  BY <1>1, RetryInvariant, PTL

\* Another attempt is made only for a GET whose outcome is worth it, and never
\* more often than Attempts.
THEOREM OnlyWorthwhileRetries == Spec => NoHopelessRetry
<1>1. ASSUME RetryInv, [Next]_vars
      PROVE  [attempt' # attempt =>
                get /\ attempt' <= Attempts
                /\ last.kind \notin {"timeout", "ctx", "ok", "client_error"}]_vars
  <2>1. ASSUME NEW d, pc = "sleep", Slept(d)
        PROVE  get /\ attempt' <= Attempts
               /\ last.kind \notin {"timeout", "ctx", "ok", "client_error"}
    <3>1. get /\ Retryable(last) /\ attempt < Attempts /\ attempt' = attempt + 1
      BY <1>1, <2>1 DEF RetryInv, WorthIt, Slept
    <3> QED
      BY <1>1, <3>1, Limits DEF RetryInv, TypeOK, Retryable
  <2>2. CASE NoWait \/ Wait
    BY <2>1, <2>2 DEF NoWait, Wait
  <2>3. CASE InnerDo
    BY <2>3 DEF InnerDo, Ends
  <2>4. CASE ReturnOutcome \/ PrepareRetry \/ WaitCut \/ UNCHANGED vars
    BY <2>4 DEF ReturnOutcome, Returns, PrepareRetry, WaitCut, vars
  <2> QED
    BY <1>1, <2>2, <2>3, <2>4 DEF Next
<1> QED
  BY <1>1, RetryInvariant, PTL DEF Spec, NoHopelessRetry
-----------------------------------------------------------------------------
\* No header asks for more than a duration can hold.
HeadersFit == \A secs \in RetryAfters : secs * Second < HalfRange

Wished == IsResponse(last) /\ last.after # NoHeader

\* The wait is the one the header asked for.
AsWished == pc = "sleep" /\ Wished => wait = RetryAfter(last)

\* A duration that fits is what the header says.
LEMMA FittingWish ==
  ASSUME HeadersFit, NEW o \in Responses, o.after # NoHeader
  PROVE  o.after \in Nat /\ RetryAfter(o) = o.after * Second /\ o.after * Second \in Nat
<1>1. o.after \in RetryAfters
  BY DEF Responses
<1>2. o.after \in Nat
  BY <1>1, RetryAssumption
<1>3. Second \in Nat /\ HalfRange \in Nat /\ HalfRange > 0
  BY RetryAssumption
<1>4. o.after * Second \in Nat /\ o.after * Second < HalfRange
  BY <1>1, <1>2, <1>3 DEF HeadersFit
<1>5. \A x \in Nat : x < HalfRange => Wrap(x) = x
  BY <1>3 DEF Wrap
<1> QED
  BY <1>2, <1>4, <1>5 DEF RetryAfter

\* Every step keeps the wait the wished one.
LEMMA AsWishedStep == RetryInv /\ AsWished /\ [Next]_vars => AsWished'
<1> SUFFICES ASSUME RetryInv, AsWished, [Next]_vars, pc' = "sleep" PROVE AsWished'
  BY DEF AsWished
<1>1. CASE PrepareRetry
  BY <1>1 DEF PrepareRetry, AsWished, Wished, IsResponse, RetryAfter
<1>2. CASE UNCHANGED vars
  BY <1>2 DEF vars, AsWished, Wished, IsResponse, RetryAfter
<1>3. ~(InnerDo \/ ReturnOutcome \/ NoWait \/ Wait \/ WaitCut)
  BY DEF InnerDo, Ends, ReturnOutcome, Returns, NoWait, Wait, Slept, WaitCut
<1> QED
  BY <1>1, <1>2, <1>3 DEF Next

\* As long as the headers fit a duration, the next attempt comes no sooner
\* than the server asked for.
THEOREM WishesAreKept == HeadersFit => (Spec => RetryAfterHonoured)
<1> SUFFICES ASSUME HeadersFit PROVE Spec => RetryAfterHonoured
  OBVIOUS
<1>1. Init => AsWished
  BY DEF Init, AsWished
<1>2. ASSUME RetryInv, AsWished, [Next]_vars
      PROVE  [attempt' # attempt /\ IsResponse(last) /\ last.after # NoHeader
                => elapsed' >= elapsed + last.after * Second]_vars
  <2> SUFFICES ASSUME attempt' # attempt, Wished
               PROVE  elapsed' >= elapsed + last.after * Second
    BY DEF Wished
  <2>1. PICK d \in Int : pc = "sleep" /\ Slept(d) /\ d >= wait /\ d >= 0
    <3>1. ~(InnerDo \/ ReturnOutcome \/ PrepareRetry \/ WaitCut \/ UNCHANGED vars)
      BY DEF InnerDo, Ends, ReturnOutcome, Returns, PrepareRetry, WaitCut, vars
    <3>2. wait \in Int
      BY <1>2 DEF RetryInv, TypeOK
    <3> QED
      BY <1>2, <3>1, <3>2 DEF Next, NoWait, Wait
  <2>2. last \in Responses
    BY <1>2 DEF RetryInv, TypeOK, Wished, IsResponse, Errors, NoOutcome
  <2>3. wait = last.after * Second /\ last.after * Second \in Nat
    BY <1>2, <2>1, <2>2, FittingWish DEF AsWished, Wished
  <2> QED
    BY <1>2, <2>1, <2>3 DEF Slept, RetryInv, TypeOK
<1> QED
  BY <1>1, <1>2, AsWishedStep, RetryInvariant, PTL DEF Spec, RetryAfterHonoured

\* The steps of the loop that are left: an attempt, its judgement and the wait
\* before the next one, for each attempt that may still be made.
Rank ==
    IF pc = "try" THEN 3 ELSE IF pc = "judge" THEN 2 ELSE IF pc = "sleep" THEN 1 ELSE 0
RoundsLeft == 3 * (Attempts - attempt) + Rank

\* A step leaves fewer of them, and there are never fewer than none.
LEMMA RoundsCount ==
  ASSUME RetryInv, [Next]_vars
  PROVE  RoundsLeft \in Nat /\ [RoundsLeft' < RoundsLeft]_vars
<1>1. attempt \in Nat /\ Attempts \in Nat /\ attempt <= Attempts
  BY Limits DEF RetryInv, TypeOK, WorthIt
<1>2. RoundsLeft \in Nat
  BY <1>1 DEF RoundsLeft, Rank
<1>3. CASE InnerDo
  <2>1. Rank = 3 /\ Rank' = 2 /\ attempt' = attempt
    BY <1>3 DEF InnerDo, Ends, Rank
  <2> QED
    BY <1>1, <1>2, <2>1 DEF RoundsLeft
<1>4. CASE ReturnOutcome \/ PrepareRetry
  <2>1. Rank = 2 /\ (Rank' = 0 \/ Rank' = 1) /\ attempt' = attempt
    BY <1>4 DEF ReturnOutcome, Returns, PrepareRetry, Rank
  <2> QED
    BY <1>1, <1>2, <2>1 DEF RoundsLeft
<1>5. CASE NoWait \/ Wait
  <2>1. Rank = 1 /\ Rank' = 3 /\ attempt' = attempt + 1
    BY <1>5 DEF NoWait, Wait, Slept, Rank
  <2> QED
    BY <1>1, <1>2, <2>1 DEF RoundsLeft
<1>6. CASE WaitCut
  <2>1. Rank = 1 /\ Rank' = 0 /\ attempt' = attempt
    BY <1>6 DEF WaitCut, Rank
  <2> QED
    BY <1>1, <1>2, <2>1 DEF RoundsLeft
<1> QED
  BY <1>2, <1>3, <1>4, <1>5, <1>6 DEF Next

\* Do comes to an end after finitely many steps, whatever the upstream answers:
\* three for each attempt at most.
THEOREM RetriesAreFinite ==
  Spec => [](RoundsLeft \in Nat) /\ [][RoundsLeft' < RoundsLeft]_vars
<1>1. RetryInv /\ [Next]_vars => RoundsLeft \in Nat /\ [RoundsLeft' < RoundsLeft]_vars
  BY RoundsCount
<1> QED
  BY <1>1, RetryInvariant, PTL DEF Spec

\* The comment on maxRetryAfterWait is true of every header that fits a
\* duration: the others, which the run LongRetryAfter finds, are its only
\* exceptions.
THEOREM FittingWishesAreCapped == HeadersFit => (Spec => LongRetryAfterReturned)
<1> SUFFICES ASSUME HeadersFit PROVE Spec => LongRetryAfterReturned
  OBVIOUS
<1> DEFINE Capped == pc = "sleep" /\ IsResponse(last) => last.after * Second <= MaxRetryAfterWait
<1> DEFINE Fair == [attempt' # attempt /\ IsResponse(last)
                      => last.after * Second <= MaxRetryAfterWait]_vars
<1>1. Init => Capped
  BY DEF Init
<1>2. ASSUME RetryInv, Capped, [Next]_vars PROVE Capped'
  <2> SUFFICES ASSUME pc' = "sleep", IsResponse(last') PROVE (last.after * Second <= MaxRetryAfterWait)'
    BY DEF IsResponse
  <2>1. CASE PrepareRetry
    <3>1. last' = last /\ IsResponse(last) /\ last \in Responses
      BY <1>2, <2>1 DEF PrepareRetry, RetryInv, TypeOK, IsResponse, Errors, NoOutcome
    <3>2. CASE last.after = NoHeader
      BY <3>1, <3>2, RetryAssumption, Limits DEF NoHeader
    <3>3. CASE last.after # NoHeader
      <4>1. RetryAfter(last) = last.after * Second /\ last.after * Second \in Nat
        BY <3>1, <3>3, FittingWish
      <4>2. ~(RetryAfter(last) > MaxRetryAfterWait)
        BY <2>1, <3>1, <3>3 DEF PrepareRetry, TooLong
      <4> QED
        BY <3>1, <4>1, <4>2, Limits
    <3> QED
      BY <3>2, <3>3
  <2>2. CASE UNCHANGED vars
    BY <1>2, <2>2 DEF vars, IsResponse
  <2>3. ~(InnerDo \/ ReturnOutcome \/ NoWait \/ Wait \/ WaitCut)
    BY DEF InnerDo, Ends, ReturnOutcome, Returns, NoWait, Wait, Slept, WaitCut
  <2> QED
    BY <1>2, <2>1, <2>2, <2>3 DEF Next
<1>3. ASSUME Capped, [Next]_vars PROVE Fair
  <2> SUFFICES ASSUME attempt' # attempt PROVE pc = "sleep"
    BY <1>3
  <2> QED
    BY <1>3 DEF Next, InnerDo, Ends, ReturnOutcome, Returns, PrepareRetry, NoWait, Wait, WaitCut, vars
<1> QED
  BY <1>1, <1>2, <1>3, RetryInvariant, PTL DEF Spec, LongRetryAfterReturned
=============================================================================
