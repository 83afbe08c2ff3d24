------------------------------- MODULE Trips -------------------------------
(***************************************************************************)
(* One call of the trips tool (tools/journeyplanner.go): the handler, the  *)
(* goroutine that prefetches /v1/messages (tools/transport.go) and the     *)
(* stop-finder goroutines it starts when the planner calls a side          *)
(* ambiguous.  Each hop is an asynchronous step that ends with a body or   *)
(* an error; the tool call's deadline may pass at any moment, after which  *)
(* no hop of the handler succeeds.                                         *)
(*                                                                         *)
(* A /v2/trips body is abstracted to what the handler looks at: whether it *)
(* has journeys, and of which side it says something: the sides whose      *)
(* endpoint is no stop when there are journeys, the sides called ambiguous *)
(* when there are none.  Stop-finder candidates are counted: how many are  *)
(* stops, whether there are others, whether pickExactMatch chooses one.    *)
(***************************************************************************)
EXTENDS Naturals

VARIABLES
    arg,       \* how each side was given
    timeOk,    \* the time and time_mode arguments parse
    mode,      \* "verbose", "plain" (skip_deviations) or "enriched"
    pc,
    planned,   \* what name_origin and name_destination carry
    flagged,   \* the sides being disambiguated
    finder,    \* each side's stop-finder goroutine and the candidates it found
    body,      \* the last /v2/trips body
    warned,    \* the sides with an exact_match_shadowed warning
    expired,   \* the tool call's deadline has passed
    messages,  \* the prefetch goroutine
    snapshot,  \* what it fetched
    result

vars == <<arg, timeOk, mode, pc, planned, flagged, finder, body, warned, expired,
          messages, snapshot, result>>
input == <<arg, timeOk, mode>>

Sides == {"origin", "destination"}
Other(s) == IF s = "origin" THEN "destination" ELSE "origin"

Args == {"name", "id", "both", "neither", "bad_id"}
ByName == {s \in Sides : arg[s] = "name"}

Journeys(drift) == [kind |-> "journeys", sides |-> drift]
NoJourneys(ambiguous) == [kind |-> "none", sides |-> ambiguous]
Unreadable == [kind |-> "unreadable", sides |-> {}]
Bodies == [kind : {"journeys", "none"}, sides : SUBSET Sides] \cup {Unreadable}

\* Stops are ranked; with two or more of them `exact' says that the best one is
\* an exact match.
Finder == {f \in [state : {"off", "running", "failed", "found"},
                  stops : 0..2, others : BOOLEAN, exact : BOOLEAN] :
              f.exact => f.stops = 2}
Without(state) == [state |-> state, stops |-> 0, others |-> FALSE, exact |-> FALSE]
Found == {f \in Finder : f.state = "found"}

\* The id of the best stop of a side.
Pick == [origin |-> "origin_stop", destination |-> "destination_stop"]

NoResult == [kind |-> "none", sides |-> {}, warned |-> {}, deviations |-> "none"]
Error(kind) == [NoResult EXCEPT !.kind = kind]
About(kind, sides) == [NoResult EXCEPT !.kind = kind, !.sides = sides]

TypeOK ==
    /\ arg \in [Sides -> Args]
    /\ timeOk \in BOOLEAN
    /\ mode \in {"verbose", "plain", "enriched"}
    /\ pc \in {"start", "plan", "finders", "retry", "messages", "done"}
    /\ planned \in [Sides -> Args \cup {Pick[s] : s \in Sides}]
    /\ flagged \subseteq Sides
    /\ finder \in [Sides -> Finder]
    /\ body \in Bodies
    /\ warned \subseteq Sides
    /\ expired \in BOOLEAN
    /\ messages \in {"off", "fetching", "fetched", "sent", "received"}
    /\ snapshot \in {"none", "good", "undecodable", "error"}

Init ==
    /\ arg \in [Sides -> Args]
    /\ timeOk \in BOOLEAN
    /\ mode \in {"verbose", "plain", "enriched"}
    /\ pc = "start"
    /\ planned = arg
    /\ flagged = {}
    /\ finder = [s \in Sides |-> Without("off")]
    /\ body = NoJourneys({})
    /\ warned = {}
    /\ expired = FALSE
    /\ messages = "off"
    /\ snapshot = "none"
    /\ result = NoResult

-----------------------------------------------------------------------------
Done(r) == pc' = "done" /\ result' = r

\* buildTripsParams: exactly one of name and id for each side, and a valid time.
ArgsValid == timeOk /\ \A s \in Sides : arg[s] \in {"name", "id"}

Start ==
    /\ pc = "start"
    /\ IF ArgsValid
       THEN /\ pc' = "plan"
            /\ messages' = IF mode = "enriched" THEN "fetching" ELSE "off"
            /\ UNCHANGED result
       ELSE /\ Done(Error("bad_argument"))
            /\ UNCHANGED messages
    /\ UNCHANGED <<input, planned, flagged, finder, body, warned, expired, snapshot>>

\* mutant: only the origin is looked at
DriftedOrigin(b) == IF b.kind = "journeys" THEN b.sides \cap ByName \cap {"origin"} ELSE {}

\* The by-name sides the planner resolved to something that is no stop, and the
\* by-name sides the broker calls ambiguous.  Sides given by id are trusted.
Drifted(b) == IF b.kind = "journeys" THEN b.sides \cap ByName ELSE {}
Ambiguous(b) == IF b.kind = "none" THEN b.sides \cap ByName ELSE {}

\* Errors name one side, the origin first.
First(sides) == IF "origin" \in sides THEN {"origin"} ELSE sides

\* The end of the handler: verboseTripsResult, or trimmedTripsResult up to the
\* point where it waits for the prefetched messages.
Shape(b, ws) ==
    CASE b.kind = "none" ->
            Done([NoResult EXCEPT !.kind = "raw",
                                  !.warned = IF mode = "verbose" THEN ws ELSE {}])
      [] b.kind = "unreadable" ->
            Done(Error(IF mode = "verbose" THEN "raw" ELSE "reshape_error"))
      [] b.kind = "journeys" /\ messages = "off" ->
            Done([NoResult EXCEPT !.kind = "trips", !.warned = ws])
      [] OTHER -> pc' = "messages" /\ UNCHANGED result

Planned(b) ==
    /\ pc = "plan"
    /\ ~expired
    /\ body' = b
    /\ IF Drifted(b) # {}
       THEN /\ Done(About("not_a_stop", First(Drifted(b))))
            /\ UNCHANGED <<flagged, finder>>
       ELSE IF Ambiguous(b) = {}
       THEN Shape(b, {}) /\ UNCHANGED <<flagged, finder>>
       ELSE /\ pc' = "finders"
            /\ flagged' = Ambiguous(b)
            /\ finder' = [s \in Sides |-> Without(IF s \in Ambiguous(b) THEN "running" ELSE "off")]
            /\ UNCHANGED result
    /\ UNCHANGED <<input, planned, warned, expired, messages, snapshot>>

HopFails ==
    /\ pc \in {"plan", "retry"}
    /\ Done(Error("upstream_error"))
    /\ UNCHANGED <<input, planned, flagged, finder, body, warned, expired, messages, snapshot>>

-----------------------------------------------------------------------------
\* The stop-finder goroutines; a broker error counts as a failure.
Finds(s, f) ==
    /\ finder[s].state = "running"
    /\ f.state = "failed" \/ ~expired
    /\ finder' = [finder EXCEPT ![s] = f]
    /\ UNCHANGED <<input, pc, planned, flagged, body, warned, expired, messages, snapshot, result>>

NotAStop(s) == finder[s].stops = 0 /\ finder[s].others
Resolved(s) == finder[s].stops = 1 \/ finder[s].exact
Shadowing(s) == finder[s].stops > 1

\* mutants: the first goroutine to finish is enough; both are waited for
\* although only one may have been started
FirstFinderFinished == \E s \in flagged : finder[s].state # "running"
BothFindersFinished == \A s \in Sides : finder[s].state \in {"found", "failed"}
FindersFinished == \A s \in flagged : finder[s].state # "running"

FinderFailed == \E s \in flagged : finder[s].state = "failed"

SwappedPicks == [s \in Sides |-> IF s \in flagged THEN Pick[Other(s)] ELSE planned[s]]   \* mutant
Retried == [s \in Sides |-> IF s \in flagged THEN Pick[s] ELSE planned[s]]

\* resolveAmbiguity, once wg.Wait returns.
Disambiguate ==
    /\ pc = "finders"
    /\ FindersFinished
    /\ IF FinderFailed
       THEN Done(Error("upstream_error")) /\ UNCHANGED <<planned, warned>>
       ELSE IF \E s \in flagged : NotAStop(s)
       THEN /\ Done(About("not_a_stop", First({s \in flagged : NotAStop(s)})))
            /\ UNCHANGED <<planned, warned>>
       ELSE IF \E s \in flagged : ~Resolved(s)
       THEN /\ Done(About("picker", {s \in flagged : ~Resolved(s)}))
            /\ UNCHANGED <<planned, warned>>
       ELSE /\ pc' = "retry"
            /\ planned' = Retried
            /\ warned' = {s \in flagged : Shadowing(s)}
            /\ UNCHANGED result
    /\ UNCHANGED <<input, flagged, finder, body, expired, messages, snapshot>>

\* mutant: no second look at the endpoints
RetryPlannedUnguarded(b) ==
    /\ pc = "retry"
    /\ ~expired
    /\ body' = b
    /\ IF b.kind = "none" /\ b.sides \cap flagged # {}
       THEN Done(About("picker", b.sides \cap flagged))
       ELSE Shape(b, warned)
    /\ UNCHANGED <<input, planned, flagged, finder, warned, expired, messages, snapshot>>

RetryPlanned(b) ==
    /\ pc = "retry"
    /\ ~expired
    /\ body' = b
    /\ IF b.kind = "none" /\ b.sides \cap flagged # {}
       THEN Done(About("picker", b.sides \cap flagged))
       ELSE IF Drifted(b) # {}
       THEN Done(About("not_a_stop", First(Drifted(b))))
       ELSE Shape(b, warned)
    /\ UNCHANGED <<input, planned, flagged, finder, warned, expired, messages, snapshot>>

-----------------------------------------------------------------------------
\* prefetch.  Its request may be the one that fills the response cache, which
\* the deadline does not reach, so it can succeed after it.
MessagesFetched(snap) ==
    /\ messages = "fetching"
    /\ messages' = "fetched"
    /\ snapshot' = snap
    /\ UNCHANGED <<input, pc, planned, flagged, finder, body, warned, expired, result>>

\* mutant: the channel has no buffer
SendWhenReceived ==
    /\ messages = "fetched"
    /\ pc = "messages"
    /\ messages' = "sent"
    /\ UNCHANGED <<input, pc, planned, flagged, finder, body, warned, expired, snapshot, result>>

Send ==
    /\ messages = "fetched"
    /\ messages' = "sent"
    /\ UNCHANGED <<input, pc, planned, flagged, finder, body, warned, expired, snapshot, result>>

SilentEnrichment == IF snapshot = "good" THEN "attached" ELSE "none"   \* mutant: no warning
Enrichment == IF snapshot = "good" THEN "attached" ELSE "unavailable"

\* enrichWithDeviations waits for the channel only, not for the context.
Receive ==
    /\ pc = "messages"
    /\ messages = "sent"
    /\ messages' = "received"
    /\ Done([kind |-> "trips", sides |-> {}, warned |-> warned, deviations |-> Enrichment])
    /\ UNCHANGED <<input, planned, flagged, finder, body, warned, expired, snapshot>>

Expire ==
    /\ pc # "done"
    /\ ~expired
    /\ expired' = TRUE
    /\ UNCHANGED <<input, pc, planned, flagged, finder, body, warned, messages, snapshot, result>>

-----------------------------------------------------------------------------
Next ==
    \/ Start
    \/ \E b \in Bodies : Planned(b) \/ RetryPlanned(b)
    \/ HopFails
    \/ \E s \in Sides, f \in Found \cup {Without("failed")} : Finds(s, f)
    \/ Disambiguate
    \/ \E snap \in {"good", "undecodable", "error"} : MessagesFetched(snap)
    \/ Send
    \/ Receive
    \/ Expire

\* Every hop ends, by the timeouts of the HTTP client if nothing else, and a
\* goroutine that can run does.
HandlerStep == Start \/ (\E b \in Bodies : Planned(b) \/ RetryPlanned(b)) \/ HopFails \/ Disambiguate \/ Receive
FinderStep(s) == \E f \in Found \cup {Without("failed")} : Finds(s, f)
PrefetchStep == (\E snap \in {"good", "undecodable", "error"} : MessagesFetched(snap)) \/ Send

Spec ==
    /\ Init /\ [][Next]_vars
    /\ WF_vars(HandlerStep) /\ WF_vars(PrefetchStep)
    /\ \A s \in Sides : WF_vars(FinderStep(s))

-----------------------------------------------------------------------------
\* No journeys are returned that start or end, on a side the caller named, at
\* something that is no transit stop: neither in the first plan nor in the
\* retry, trimmed or verbose.
NoSilentDrift ==
    result.kind = "trips" => Drifted(body) = {}

\* Journeys from a retry were planned between the stops picked for the sides
\* that were ambiguous, each for its own side, and the caller's own words for
\* the others; the result warns of every side where another stop was passed over.
PlansWhatWasPicked ==
    result.kind = "trips" =>
        /\ \A s \in Sides : planned[s] = IF s \in flagged THEN Pick[s] ELSE arg[s]
        /\ \A s \in flagged : finder[s].state = "found" /\ finder[s].stops > 0
        /\ result.warned = {s \in flagged : finder[s].stops > 1}

\* A picker asks only about sides the caller named and the broker flagged, for
\* which the stop-finder has answered: an outage is never shown as a choice.
PickersAreGrounded ==
    result.kind = "picker" =>
        /\ result.sides # {}
        /\ result.sides \subseteq flagged \cap ByName
        /\ \A s \in flagged : finder[s].state = "found"

\* When deviations were asked for, trimmed journeys either carry them or say
\* that they could not be had, whichever of the hops was the slow one.
DeviationsAccountedFor ==
    result.kind = "trips" =>
        result.deviations = IF mode # "enriched" THEN "none"
                            ELSE IF snapshot = "good" THEN "attached" ELSE "unavailable"

\* The call returns.
HandlerReturns == <>(pc = "done")

\* The prefetch goroutine ends, also when the handler returned an error and
\* nobody reads the channel.
PrefetchEnds == (messages = "fetching") ~> (messages \in {"sent", "received"})

\* What the comment on resolveAmbiguity says: a retry that comes back ambiguous
\* is answered with a picker.
AmbiguousRetryGetsPicker ==
    pc = "done" /\ planned # arg /\ Ambiguous(body) # {} => result.kind \in {"picker", "upstream_error"}
=============================================================================
