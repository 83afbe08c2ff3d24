--------------------------- MODULE RetryingClient ---------------------------
(***************************************************************************)
(* One upstream request on its way through retryingClient.Do               *)
(* (slclient/retry.go) and the http.Client with its timeout below it       *)
(* (slclient/client.go), on behalf of a tool call with the deadline of     *)
(* withTimeout (server.go).  A request that fills the response cache runs  *)
(* on context.WithoutCancel and so has no deadline: `detached'.            *)
(*                                                                         *)
(* elapsed counts ticks, Second of them to the second.  A time.Duration is *)
(* a signed word counting ticks: of 10 bits when HalfRange is 2^9.         *)
(***************************************************************************)
EXTENDS Integers

CONSTANTS
    Attempts,       \* as NewRetryingClient stores it
    Backoff, MaxRetryAfterWait, ClientTimeout, ToolCallTimeout,   \* in ticks
    Second,
    HalfRange,      \* a time.Duration is in -HalfRange..HalfRange-1
    Latencies,      \* how long an attempt may take to answer or fail, in ticks
    RetryAfters     \* the seconds a Retry-After header may carry

ASSUME RetryAssumption ==
    /\ Attempts \in Nat \ {0}
    /\ {Backoff, MaxRetryAfterWait, ClientTimeout, ToolCallTimeout, Second} \subseteq Nat
    /\ HalfRange \in Nat \ {0}
    /\ Latencies \subseteq 0..ClientTimeout
    /\ RetryAfters \subseteq Nat

VARIABLES
    pc,        \* "try": in the inner Do; "judge": with its outcome; "sleep"; "returned"
    get,       \* the method is GET
    detached,  \* the request's context is never done
    attempt,
    last,      \* the outcome of the last inner Do
    open,      \* the attempts whose response body is open
    wait,
    ctxError,  \* Do returned the context's error from sleepCtx
    elapsed

vars == <<pc, get, detached, attempt, last, open, wait, ctxError, elapsed>>

-----------------------------------------------------------------------------
NoHeader == -1   \* absent, not a number (an HTTP-date), or negative

Responses == [kind : {"ok", "client_error", "throttled", "server_error"},
              after : RetryAfters \cup {NoHeader}]
Errors == [kind : {"transport", "timeout", "ctx"}, after : {NoHeader}]
NoOutcome == [kind |-> "none", after |-> NoHeader]

TransportError == [kind |-> "transport", after |-> NoHeader]
Timeout == [kind |-> "timeout", after |-> NoHeader]
CtxError == [kind |-> "ctx", after |-> NoHeader]

IsResponse(o) == o.kind \in {"ok", "client_error", "throttled", "server_error"}

\* mutant: every error is worth a retry
RetryableAnyError(o) == o.kind \in {"transport", "timeout", "ctx", "throttled", "server_error"}

\* http.Client's timeout error is a context.DeadlineExceeded as well.
Retryable(o) == o.kind \in {"transport", "throttled", "server_error"}

Wrap(x) == ((x + HalfRange) % (2 * HalfRange)) - HalfRange

\* time.Duration(secs) * time.Second; mutant: the header is read as ticks
RetryAfterTicks(o) == o.after
RetryAfter(o) == Wrap(o.after * Second)

Deadline == ToolCallTimeout
CtxDone == ~detached /\ elapsed >= Deadline

TypeOK ==
    /\ pc \in {"try", "judge", "sleep", "returned"}
    /\ get \in BOOLEAN /\ detached \in BOOLEAN /\ ctxError \in BOOLEAN
    /\ attempt \in Nat \ {0}
    /\ last \in Responses \cup Errors \cup {NoOutcome}
    /\ open \subseteq Nat
    /\ wait \in Int
    /\ elapsed \in Nat

Init ==
    /\ pc = "try"
    /\ get \in BOOLEAN
    /\ detached \in {FALSE, get}
    /\ attempt = 1
    /\ last = NoOutcome
    /\ open = {}
    /\ wait = 0
    /\ ctxError = FALSE
    /\ elapsed = 0

-----------------------------------------------------------------------------
\* The inner Do ends: with a response or a transport error in time, with a
\* timeout when the client's own runs out, with the context's error when that
\* comes first.
Ends(o, d) ==
    /\ pc = "try"
    /\ pc' = "judge"
    /\ last' = o
    /\ elapsed' = elapsed + d
    /\ open' = IF IsResponse(o) THEN open \cup {attempt} ELSE open
    /\ UNCHANGED <<get, detached, attempt, wait, ctxError>>

InTime(d) == (detached \/ elapsed + d <= Deadline)

InnerDo ==
    \/ \E d \in Latencies :
        InTime(d) /\ \E o \in Responses \cup {TransportError} : Ends(o, d)
    \/ InTime(ClientTimeout) /\ Ends(Timeout, ClientTimeout)
    \/ /\ ~detached
       /\ elapsed + ClientTimeout >= Deadline
       /\ Ends(CtxError, IF CtxDone THEN 0 ELSE Deadline - elapsed)

-----------------------------------------------------------------------------
Returns == pc' = "returned" /\ UNCHANGED <<get, detached, attempt, last, open, wait, elapsed>>

\* mutant: one attempt too many
FinalOffByOne == ~get \/ ~Retryable(last) \/ attempt > Attempts

\* The outcome is the caller's to handle: not a GET, not worth a retry, or
\* the last attempt.
Final == ~get \/ ~Retryable(last) \/ attempt >= Attempts

NeverTooLong == FALSE   \* mutant: the cap is not applied
\* The server asks for a longer wait than we are prepared to make.
TooLong == IsResponse(last) /\ last.after # NoHeader /\ RetryAfter(last) > MaxRetryAfterWait

ReturnOutcome ==
    /\ pc = "judge"
    /\ Final \/ TooLong
    /\ Returns
    /\ UNCHANGED ctxError

\* mutant: the body of the response that is given up stays open
PrepareRetryKeepsBody ==
    /\ pc = "judge"
    /\ ~Final /\ ~TooLong
    /\ wait' = IF IsResponse(last) /\ last.after # NoHeader THEN RetryAfter(last) ELSE Backoff
    /\ pc' = "sleep"
    /\ UNCHANGED <<get, detached, attempt, last, open, ctxError, elapsed>>

PrepareRetry ==
    /\ pc = "judge"
    /\ ~Final /\ ~TooLong
    /\ wait' = IF IsResponse(last) /\ last.after # NoHeader THEN RetryAfter(last) ELSE Backoff
    /\ open' = open \ {attempt}
    /\ pc' = "sleep"
    /\ UNCHANGED <<get, detached, attempt, last, ctxError, elapsed>>

\* sleepCtx.  A wait that is not positive returns at once, without a look at
\* the context.
Slept(d) ==
    /\ elapsed' = elapsed + d
    /\ attempt' = attempt + 1
    /\ pc' = "try"
    /\ UNCHANGED <<get, detached, last, open, wait, ctxError>>

NoWait == pc = "sleep" /\ wait <= 0 /\ Slept(0)

\* mutant: time.Sleep
WaitBlindly == pc = "sleep" /\ wait > 0 /\ Slept(wait)

Wait ==
    /\ pc = "sleep"
    /\ wait > 0
    /\ detached \/ elapsed + wait <= Deadline
    /\ Slept(wait)

WaitCut ==
    /\ pc = "sleep"
    /\ wait > 0
    /\ ~detached
    /\ elapsed + wait >= Deadline
    /\ elapsed' = IF CtxDone THEN elapsed ELSE Deadline
    /\ ctxError' = TRUE
    /\ pc' = "returned"
    /\ UNCHANGED <<get, detached, attempt, last, open, wait>>

Next == InnerDo \/ ReturnOutcome \/ PrepareRetry \/ NoWait \/ Wait \/ WaitCut

Spec == Init /\ [][Next]_vars

-----------------------------------------------------------------------------
\* When Do returns a response its body is open for the caller, and the bodies
\* of all the responses it gave up, or all of them when it returns an error,
\* are closed: retries leak no connection.
BodiesAccountedFor ==
    pc = "returned" =>
        open = IF IsResponse(last) /\ ~ctxError THEN {attempt} ELSE {}

\* A request on the tool call's own context is over by the deadline, however
\* the attempts and the waits between them add up.
DeadlineHonoured == ~detached => elapsed <= Deadline

\* A detached request, which no deadline bounds, still ends: it cannot take
\* longer than all its attempts and the waits between them.
LongestWait == IF Backoff > MaxRetryAfterWait THEN Backoff ELSE MaxRetryAfterWait
DetachedBound ==
    elapsed <= Attempts * ClientTimeout + (Attempts - 1) * LongestWait

\* Between an answer with a Retry-After and the next attempt at least that
\* many seconds pass.
RetryAfterHonoured ==
    [][attempt' # attempt /\ IsResponse(last) /\ last.after # NoHeader
        => elapsed' >= elapsed + last.after * Second]_vars

\* The upstream is never hit again after a timeout or the end of the context,
\* nor more often than Attempts, nor more than once when the method is not GET.
NoHopelessRetry ==
    [][attempt' # attempt =>
         get /\ attempt' <= Attempts /\ last.kind \notin {"timeout", "ctx", "ok", "client_error"}]_vars

\* What the comment on maxRetryAfterWait says: the client never waits for, or
\* cuts short, a Retry-After above the cap; that response is returned instead.
LongRetryAfterReturned ==
    [][attempt' # attempt /\ IsResponse(last) => last.after * Second <= MaxRetryAfterWait]_vars

\* What server.go says of the tool call that makes the request: a hung
\* upstream does not hold it beyond its deadline.
ToolCallMeetsDeadline == pc = "returned" => elapsed <= Deadline
=============================================================================
