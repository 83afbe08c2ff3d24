---------------------------- MODULE TripsProofs ----------------------------
(***************************************************************************)
(* The safety properties of a call of trips, proved from one inductive     *)
(* invariant.                                                              *)
(***************************************************************************)
EXTENDS Trips, TLAPS

-----------------------------------------------------------------------------
\* What the handler is about to plan with, or has planned with, is what the
\* caller meant.
Meant ==
    /\ \A s \in Sides : planned[s] = IF s \in flagged THEN Pick[s] ELSE arg[s]
    /\ \A s \in flagged : finder[s].state = "found" /\ finder[s].stops > 0
    /\ warned = {s \in flagged : finder[s].stops > 1}

Planning ==
    /\ pc \in {"start", "plan", "retry", "messages"} => Meant
    /\ pc \in {"start", "plan"} => flagged = {}
    /\ flagged \subseteq ByName

\* While the stop-finders run nothing has been chosen yet, and each flagged
\* side has one.
Choosing ==
    pc = "finders" =>
        /\ planned = arg /\ warned = {}
        /\ \A s \in flagged : finder[s].state # "off"

\* The prefetch runs exactly when the answer is to be enriched, and the handler
\* waits for it with a plan it has already accepted.
Prefetching ==
    /\ pc = "start" => messages = "off"
    /\ pc \in {"plan", "finders", "retry"} => (messages = "off" <=> mode # "enriched")
    /\ pc = "messages" => mode = "enriched" /\ messages # "off" /\ Drifted(body) = {}

\* A result is given once, and the snapshot it was made of is not replaced.
Ending ==
    /\ pc # "done" => result.kind = "none"
    /\ result.kind = "trips" /\ mode = "enriched" => messages = "received"
    /\ result.kind = "trips" => result.warned = warned /\ Meant

Answers ==
    NoSilentDrift /\ PlansWhatWasPicked /\ PickersAreGrounded /\ DeviationsAccountedFor

TripsInv == TypeOK /\ Planning /\ Choosing /\ Prefetching /\ Ending /\ Answers
-----------------------------------------------------------------------------
LEMMA InitInv == Init => TripsInv
<1> SUFFICES ASSUME Init PROVE TripsInv
  OBVIOUS
<1> USE DEF Init
<1>1. result.kind = "none"
  BY DEF NoResult
<1>2. Without("off") \in Finder
  BY DEF Without, Finder
<1>3. body \in Bodies
  BY DEF Bodies, NoJourneys
<1>4. TypeOK
  BY <1>2, <1>3 DEF TypeOK
<1>5. Meant
  BY DEF Meant
<1>6. Planning /\ Choosing /\ Prefetching /\ Ending
  BY <1>1, <1>5 DEF Planning, Choosing, Prefetching, Ending
<1>7. Answers
  BY <1>1 DEF Answers, NoSilentDrift, PlansWhatWasPicked, PickersAreGrounded,
              DeviationsAccountedFor
<1> QED
  BY <1>4, <1>6, <1>7 DEF TripsInv

\* What the handler ends with, other than journeys and pickers, binds nothing.
LEMMA Errors ==
    \A k, x : Error(k).kind = k /\ About(k, x).kind = k /\ About(k, x).sides = x
  BY DEF Error, About, NoResult

LEMMA StartInv == TripsInv /\ Start => TripsInv'
<1> SUFFICES ASSUME TripsInv, Start PROVE TripsInv'
  OBVIOUS
<1> USE DEF TripsInv, Start, input
<1>1. result'.kind = result.kind \/ result'.kind = "bad_argument"
  BY Errors DEF Done
<1>2. result.kind = "none"
  BY DEF Ending
<1>3. Meant'
  BY DEF Planning, Meant
<1>4. TypeOK'
  BY DEF TypeOK, Done
<1>5. Planning' /\ Choosing'
  BY <1>3 DEF Planning, Choosing, ByName, Done
<1>6. Prefetching'
  BY DEF Prefetching, Done
<1>7. Ending' /\ Answers'
  BY <1>1, <1>2 DEF Ending, Done, Answers, NoSilentDrift, PlansWhatWasPicked,
                    PickersAreGrounded, DeviationsAccountedFor
<1> QED
  BY <1>4, <1>5, <1>6, <1>7

\* An accepted plan is answered with journeys, which stand up to the guard, or
\* with something that promises nothing.
LEMMA ShapeEnds ==
    ASSUME NEW b \in Bodies, NEW ws, Shape(b, ws), Drifted(b) = {},
           messages = "off" <=> mode # "enriched", result.kind = "none"
    PROVE  \/ pc' = "messages" /\ result' = result /\ mode = "enriched" /\ messages # "off"
           \/ pc' = "done" /\ result'.kind \in {"raw", "reshape_error"}
           \/ /\ pc' = "done" /\ result'.kind = "trips" /\ result'.warned = ws
              /\ mode # "enriched" /\ result'.deviations = "none"
<1>1. CASE b.kind = "none"
  BY <1>1 DEF Shape, Done, NoResult
<1>2. CASE b.kind = "unreadable"
  BY <1>2, Errors DEF Shape, Done
<1>3. CASE b.kind = "journeys" /\ messages = "off"
  BY <1>3 DEF Shape, Done, NoResult
<1>4. CASE b.kind = "journeys" /\ messages # "off"
  BY <1>4 DEF Shape
<1> QED
  BY <1>1, <1>2, <1>3, <1>4 DEF Bodies, Unreadable

\* What follows a plan, the first one or the retry, that the handler accepts.
LEMMA AcceptedPlan ==
    ASSUME TripsInv, pc \in {"plan", "retry"}, NEW b \in Bodies, Shape(b, warned),
           Drifted(b) = {}, body' = b,
           UNCHANGED <<input, planned, flagged, finder, warned, expired, messages, snapshot>>
    PROVE  TripsInv'
<1> USE DEF TripsInv, input
<1>1. Meant /\ result.kind = "none" /\ (messages = "off" <=> mode # "enriched")
  BY DEF Planning, Ending, Prefetching
<1>2. \/ pc' = "messages" /\ result' = result /\ mode = "enriched" /\ messages # "off"
      \/ pc' = "done" /\ result'.kind \in {"raw", "reshape_error"}
      \/ /\ pc' = "done" /\ result'.kind = "trips" /\ result'.warned = warned
         /\ mode # "enriched" /\ result'.deviations = "none"
  BY <1>1, ShapeEnds
<1>3. Meant'
  BY <1>1 DEF Meant
<1>4. Drifted(body)' = {}
  BY DEF Drifted, ByName
<1>5. TypeOK'
  BY <1>2 DEF TypeOK
<1>6. Planning' /\ Choosing' /\ Prefetching'
  BY <1>2, <1>3, <1>4 DEF Planning, Choosing, Prefetching, ByName
<1>7. Ending'
  BY <1>1, <1>2, <1>3 DEF Ending
<1>8. PlansWhatWasPicked'
  BY <1>2, <1>3, <1>1 DEF PlansWhatWasPicked, Meant
<1>9. NoSilentDrift' /\ PickersAreGrounded'
  BY <1>1, <1>2, <1>4 DEF NoSilentDrift, PickersAreGrounded
<1>10. DeviationsAccountedFor'
  <2>1. result'.kind = "trips" => mode' # "enriched" /\ result'.deviations = "none"
    BY <1>1, <1>2
  <2> QED
    BY <2>1 DEF DeviationsAccountedFor
<1> QED
  BY <1>5, <1>6, <1>7, <1>8, <1>9, <1>10 DEF Answers

\* A call that ends with an error, or with the complaint that a place is no
\* stop, keeps the invariant whatever it has done before.
LEMMA Refusal ==
    ASSUME TripsInv, pc' = "done", body' \in Bodies,
           result'.kind \in {"upstream_error", "not_a_stop"},
           UNCHANGED <<input, planned, flagged, finder, warned, expired, messages, snapshot>>
    PROVE  TripsInv'
<1> USE DEF TripsInv, input
<1>1. TypeOK'
  BY DEF TypeOK
<1>2. Planning' /\ Choosing' /\ Prefetching'
  BY DEF Planning, Choosing, Prefetching, ByName
<1>3. Ending' /\ Answers'
  BY DEF Ending, Answers, NoSilentDrift, PlansWhatWasPicked, PickersAreGrounded,
         DeviationsAccountedFor
<1> QED
  BY <1>1, <1>2, <1>3

LEMMA PlannedInv == ASSUME TripsInv, NEW b \in Bodies, Planned(b) PROVE TripsInv'
<1> USE DEF TripsInv, input
<1>1. CASE Drifted(b) # {}
  <2>1. pc' = "done" /\ result'.kind = "not_a_stop"
    BY <1>1, Errors DEF Planned, Done
  <2> QED
    BY <1>1, <2>1, Refusal DEF Planned
<1>2. CASE Drifted(b) = {} /\ Ambiguous(b) = {}
  <2>1. warned = {}
    BY DEF Planned, Planning, Meant
  <2> QED
    BY <1>2, <2>1, AcceptedPlan DEF Planned
<1>3. CASE Drifted(b) = {} /\ Ambiguous(b) # {}
  <2>1. /\ pc = "plan" /\ pc' = "finders" /\ flagged' = Ambiguous(b) /\ result' = result
        /\ finder' = [s \in Sides |->
                         Without(IF s \in Ambiguous(b) THEN "running" ELSE "off")]
    BY <1>3 DEF Planned
  <2>2. flagged' \subseteq ByName' /\ flagged' \subseteq Sides
    BY <2>1 DEF Planned, Ambiguous, ByName
  <2>3. planned' = arg' /\ warned' = {}
    <3>1. \A s \in Sides : planned[s] = arg[s]
      BY <2>1 DEF Planning, Meant
    <3>2. planned = arg
      BY <3>1 DEF TypeOK
    <3> QED
      BY <2>1, <3>2 DEF Planned, Planning, Meant
  <2>4. \A s \in Sides : finder'[s] \in Finder /\ (s \in flagged' => finder'[s].state # "off")
    BY <2>1 DEF Without, Finder
  <2>5. TypeOK'
    BY <2>1, <2>2, <2>4 DEF TypeOK, Planned
  <2>6. Planning' /\ Choosing' /\ Prefetching'
    BY <2>1, <2>2, <2>3, <2>4 DEF Planning, Choosing, Prefetching, Planned
  <2>7. Ending' /\ Answers'
    BY <2>1 DEF Ending, Answers, NoSilentDrift, PlansWhatWasPicked, PickersAreGrounded,
                DeviationsAccountedFor
  <2> QED
    BY <2>5, <2>6, <2>7
<1> QED
  BY <1>1, <1>2, <1>3

LEMMA HopFailsInv == TripsInv /\ HopFails => TripsInv'
<1> SUFFICES ASSUME TripsInv, HopFails PROVE TripsInv'
  OBVIOUS
<1>1. body' \in Bodies
  BY DEF HopFails, TripsInv, TypeOK
<1> QED
  BY <1>1, Refusal, Errors DEF HopFails, Done

\* A stop-finder's answer disturbs no side that has one already.
LEMMA FindsInv ==
    ASSUME TripsInv, NEW s \in Sides, NEW f \in Found \cup {Without("failed")}, Finds(s, f)
    PROVE  TripsInv'
<1> USE DEF TripsInv, Finds, input
<1>1. f \in Finder /\ f.state # "off"
  <2>1. Without("failed") \in Finder /\ Without("failed").state = "failed"
    BY DEF Without, Finder
  <2> QED
    BY <2>1 DEF Found
<1>2. /\ finder[s].state = "running" /\ finder' \in [Sides -> Finder]
      /\ \A t \in Sides : finder'[t] = IF t = s THEN f ELSE finder[t]
  BY <1>1 DEF TypeOK
<1>3. \A t \in flagged : t \in Sides
  BY DEF TypeOK
<1>4. ASSUME \A t \in flagged : finder[t].state = "found"
      PROVE  \A t \in flagged : finder'[t] = finder[t]
  BY <1>2, <1>3, <1>4
<1>5. Meant => Meant'
  BY <1>4 DEF Meant
<1>6. TypeOK'
  BY <1>2 DEF TypeOK
<1>7. Planning' /\ Choosing' /\ Prefetching'
  BY <1>1, <1>2, <1>3, <1>5 DEF Planning, Choosing, Prefetching, ByName, Drifted
<1>8. Ending'
  BY <1>5 DEF Ending
<1>9. PlansWhatWasPicked' /\ PickersAreGrounded'
  BY <1>4 DEF Answers, PlansWhatWasPicked, PickersAreGrounded, ByName
<1>10. NoSilentDrift' /\ DeviationsAccountedFor'
  BY DEF Answers, NoSilentDrift, DeviationsAccountedFor, Drifted, ByName
<1> QED
  BY <1>6, <1>7, <1>8, <1>9, <1>10 DEF Answers

LEMMA DisambiguateInv == TripsInv /\ Disambiguate => TripsInv'
<1> SUFFICES ASSUME TripsInv, Disambiguate PROVE TripsInv'
  OBVIOUS
<1> USE DEF TripsInv, input
<1>1. body' \in Bodies /\ flagged \subseteq Sides /\ finder \in [Sides -> Finder]
  BY DEF Disambiguate, TypeOK
<1>2. planned = arg /\ warned = {} /\ result.kind = "none" /\ flagged \subseteq ByName
  BY DEF Disambiguate, Choosing, Ending, Planning
<1>3. ASSUME ~FinderFailed PROVE \A s \in flagged : finder[s].state = "found"
  BY <1>1, <1>3 DEF FinderFailed, FindersFinished, Disambiguate, Choosing, Finder
<1>4. CASE FinderFailed \/ \E s \in flagged : NotAStop(s)
  <2>1. /\ pc' = "done" /\ result'.kind \in {"upstream_error", "not_a_stop"}
        /\ UNCHANGED <<planned, warned>>
    BY <1>4, Errors DEF Disambiguate, Done
  <2> QED
    BY <1>1, <2>1, Refusal DEF Disambiguate
<1>5. CASE /\ ~FinderFailed /\ ~\E s \in flagged : NotAStop(s)
           /\ \E s \in flagged : ~Resolved(s)
  <2>1. /\ pc' = "done" /\ UNCHANGED <<planned, warned>> /\ result'.kind = "picker"
        /\ result'.sides = {s \in flagged : ~Resolved(s)}
    BY <1>5, Errors DEF Disambiguate, Done
  <2>2. TypeOK' /\ Planning' /\ Choosing' /\ Prefetching' /\ Ending'
    BY <1>2, <2>1 DEF Disambiguate, TypeOK, Planning, Choosing, Prefetching, Ending, ByName
  <2>3. PickersAreGrounded'
    BY <1>2, <1>3, <1>5, <2>1 DEF Disambiguate, PickersAreGrounded, ByName
  <2> QED
    BY <2>1, <2>2, <2>3 DEF Answers, NoSilentDrift, PlansWhatWasPicked, DeviationsAccountedFor
<1>6. CASE ~FinderFailed /\ (\A s \in flagged : ~NotAStop(s)) /\ \A s \in flagged : Resolved(s)
  <2>1. /\ pc' = "retry" /\ planned' = Retried /\ warned' = {s \in flagged : Shadowing(s)}
        /\ result' = result
    BY <1>6 DEF Disambiguate
  <2>2. \A s \in flagged : finder[s].state = "found" /\ finder[s].stops > 0
    BY <1>1, <1>3, <1>6 DEF Resolved, Finder
  <2>3. Meant'
    BY <1>2, <2>1, <2>2 DEF Disambiguate, Meant, Retried, Shadowing
  <2>4. TypeOK'
    BY <1>1, <2>1 DEF TypeOK, Disambiguate, Retried
  <2>5. Planning' /\ Choosing' /\ Prefetching'
    BY <1>2, <2>1, <2>3 DEF Planning, Choosing, Prefetching, Disambiguate, ByName
  <2>6. Ending' /\ Answers'
    BY <1>2, <2>1 DEF Ending, Answers, NoSilentDrift, PlansWhatWasPicked,
                      PickersAreGrounded, DeviationsAccountedFor
  <2> QED
    BY <2>4, <2>5, <2>6
<1> QED
  BY <1>4, <1>5, <1>6

LEMMA RetryPlannedInv == ASSUME TripsInv, NEW b \in Bodies, RetryPlanned(b) PROVE TripsInv'
<1> USE DEF TripsInv, input
<1>1. CASE b.kind = "none" /\ b.sides \cap flagged # {}
  <2>1. /\ pc' = "done" /\ result'.kind = "picker" /\ result'.sides = b.sides \cap flagged
        /\ body' = b
    BY <1>1, Errors DEF RetryPlanned, Done
  <2>2. Meant /\ flagged \subseteq ByName /\ result.kind = "none"
    BY DEF RetryPlanned, Planning, Ending
  <2>3. TypeOK' /\ Planning' /\ Choosing' /\ Prefetching' /\ Ending'
    BY <2>1, <2>2 DEF RetryPlanned, TypeOK, Planning, Choosing, Prefetching, Ending, ByName
  <2>4. PickersAreGrounded'
    BY <1>1, <2>1, <2>2 DEF RetryPlanned, PickersAreGrounded, ByName, Meant
  <2> QED
    BY <2>1, <2>3, <2>4 DEF Answers, NoSilentDrift, PlansWhatWasPicked, DeviationsAccountedFor
<1>2. CASE ~(b.kind = "none" /\ b.sides \cap flagged # {}) /\ Drifted(b) # {}
  <2>1. pc' = "done" /\ result'.kind = "not_a_stop"
    BY <1>2, Errors DEF RetryPlanned, Done
  <2> QED
    BY <2>1, Refusal DEF RetryPlanned
<1>3. CASE ~(b.kind = "none" /\ b.sides \cap flagged # {}) /\ Drifted(b) = {}
  BY <1>3, AcceptedPlan DEF RetryPlanned
<1> QED
  BY <1>1, <1>2, <1>3

\* Only the prefetch, or the deadline, has moved; what they write is read only
\* once the channel has delivered.
LEMMA PrefetchInv ==
    ASSUME TripsInv,
           UNCHANGED <<input, pc, planned, flagged, finder, body, warned, result>>,
           TypeOK',
           \/ messages = "fetching" /\ messages' = "fetched"
           \/ messages = "fetched" /\ messages' = "sent" /\ snapshot' = snapshot
           \/ UNCHANGED <<messages, snapshot>>
    PROVE  TripsInv'
<1> USE DEF TripsInv, input
<1>1. Meant => Meant'
  BY DEF Meant
<1>2. Planning' /\ Choosing' /\ Prefetching'
  BY <1>1 DEF Planning, Choosing, Prefetching, ByName, Drifted
<1>3. Ending'
  BY <1>1 DEF Ending
<1>4. DeviationsAccountedFor'
  <2>1. result.kind = "trips" => mode # "enriched" \/ UNCHANGED <<messages, snapshot>>
    BY DEF Ending
  <2>2. CASE result.kind = "trips" /\ mode # "enriched"
    BY <2>2 DEF Answers, DeviationsAccountedFor
  <2>3. CASE result.kind = "trips" /\ UNCHANGED <<messages, snapshot>>
    BY <2>3 DEF Answers, DeviationsAccountedFor
  <2> QED
    BY <2>1, <2>2, <2>3 DEF DeviationsAccountedFor
<1>5. NoSilentDrift' /\ PlansWhatWasPicked' /\ PickersAreGrounded'
  BY DEF Answers, NoSilentDrift, PlansWhatWasPicked, PickersAreGrounded, Drifted, ByName
<1> QED
  BY <1>2, <1>3, <1>4, <1>5 DEF Answers

LEMMA ReceiveInv == TripsInv /\ Receive => TripsInv'
<1> SUFFICES ASSUME TripsInv, Receive PROVE TripsInv'
  OBVIOUS
<1> USE DEF TripsInv, Receive, input
<1>1. /\ pc' = "done" /\ result'.kind = "trips" /\ result'.warned = warned
      /\ result'.deviations = Enrichment /\ messages' = "received"
  BY DEF Done
<1>2. Meant /\ mode = "enriched" /\ Drifted(body) = {}
  BY DEF Planning, Prefetching
<1>3. Meant'
  BY <1>2 DEF Meant
<1>4. TypeOK'
  BY <1>1 DEF TypeOK
<1>5. Planning' /\ Choosing' /\ Prefetching' /\ Ending'
  BY <1>1, <1>3 DEF Planning, Choosing, Prefetching, Ending, ByName
<1>6. NoSilentDrift' /\ PickersAreGrounded'
  BY <1>1, <1>2 DEF NoSilentDrift, PickersAreGrounded, Drifted, ByName
<1>7. PlansWhatWasPicked'
  BY <1>1, <1>2, <1>3 DEF PlansWhatWasPicked, Meant
<1>8. DeviationsAccountedFor'
  BY <1>1, <1>2 DEF DeviationsAccountedFor, Enrichment
<1> QED
  BY <1>4, <1>5, <1>6, <1>7, <1>8 DEF Answers

LEMMA StepInv == TripsInv /\ [Next]_vars => TripsInv'
<1> SUFFICES ASSUME TripsInv, [Next]_vars PROVE TripsInv'
  OBVIOUS
<1>1. ASSUME NEW snap \in {"good", "undecodable", "error"}, MessagesFetched(snap)
      PROVE  TripsInv'
  <2>1. TypeOK'
    BY <1>1 DEF MessagesFetched, TripsInv, TypeOK, input
  <2> QED
    BY <1>1, <2>1, PrefetchInv DEF MessagesFetched
<1>2. CASE Send
  <2>1. TypeOK'
    BY <1>2 DEF Send, TripsInv, TypeOK, input
  <2> QED
    BY <1>2, <2>1, PrefetchInv DEF Send
<1>3. CASE Expire
  <2>1. TypeOK'
    BY <1>3 DEF Expire, TripsInv, TypeOK, input
  <2> QED
    BY <1>3, <2>1, PrefetchInv DEF Expire
<1>4. CASE UNCHANGED vars
  <2>1. TypeOK'
    BY <1>4 DEF vars, TripsInv, TypeOK
  <2> QED
    BY <1>4, <2>1, PrefetchInv DEF vars, input
<1> QED
  BY <1>1, <1>2, <1>3, <1>4, StartInv, PlannedInv, RetryPlannedInv, HopFailsInv, FindsInv,
     DisambiguateInv, ReceiveInv DEF Next

\* Every reachable state of a call satisfies the invariant.
THEOREM TripsInvariant == Spec => []TripsInv
<1>1. Init => TripsInv
  BY InitInv
<1>2. TripsInv /\ [Next]_vars => TripsInv'
  BY StepInv
<1> QED
  BY <1>1, <1>2, PTL DEF Spec

-----------------------------------------------------------------------------
\* tripsEndpointGuard covers every path to journeys: neither the first plan, the
\* retry, nor the wait for the messages returns journeys from or to a place
\* that is no stop, on a side the caller named.
THEOREM NoDrift == Spec => []NoSilentDrift
<1>1. TripsInv => NoSilentDrift
  BY DEF TripsInv, Answers
<1> QED
  BY <1>1, TripsInvariant, PTL

\* The retry is planned between the stops that resolveSide picked, each on its
\* own side, with a warning for each side where it passed another stop over.
THEOREM RetriesKeepTheirSides == Spec => []PlansWhatWasPicked
<1>1. TripsInv => PlansWhatWasPicked
  BY DEF TripsInv, Answers
<1> QED
  BY <1>1, TripsInvariant, PTL

\* resolveAmbiguity asks only about sides the caller named and the broker
\* flagged, and only with every stop-finder's answer in hand.
THEOREM PickersHaveCandidates == Spec => []PickersAreGrounded
<1>1. TripsInv => PickersAreGrounded
  BY DEF TripsInv, Answers
<1> QED
  BY <1>1, TripsInvariant, PTL

\* enrichWithDeviations: deviations that were asked for are attached or said to
\* be unavailable, whichever of the hops came last.
THEOREM DeviationsAreAnswered == Spec => []DeviationsAccountedFor
<1>1. TripsInv => DeviationsAccountedFor
  BY DEF TripsInv, Answers
<1> QED
  BY <1>1, TripsInvariant, PTL

-----------------------------------------------------------------------------
\* What a call has still to do: the stages of the handler before it, the
\* stop-finders that run, the way of the messages, and its time, which can run
\* out once.  A stage weighs more than the goroutines it starts.
Stages ==
    IF pc = "start" THEN 5 ELSE IF pc = "plan" THEN 4 ELSE IF pc = "finders" THEN 3
    ELSE IF pc = "retry" THEN 2 ELSE IF pc = "messages" THEN 1 ELSE 0
Search(s) == IF finder[s].state = "running" THEN 1 ELSE 0
Delivery ==
    IF messages = "fetching" THEN 3 ELSE IF messages = "fetched" THEN 2
    ELSE IF messages = "sent" THEN 1 ELSE 0
StepsLeft ==
    4 * Stages + Search("origin") + Search("destination") + Delivery + (IF expired THEN 0 ELSE 1)

\* The handler waits for its goroutines only while there is something to come:
\* stop-finders that run or have ended, messages that nobody has received yet.
WaitsForSomething ==
    /\ pc = "finders" => \A s \in flagged : finder[s].state \in {"running", "failed", "found"}
    /\ pc = "messages" => messages \in {"fetching", "fetched", "sent"}

\* Nobody but the handler at its end takes the messages from the channel.
ReceivedAtTheEnd == messages = "received" => pc = "done"

\* ReceivedAtTheEnd is inductive: only the last step of the handler receives.
LEMMA StepReceives == TripsInv /\ ReceivedAtTheEnd /\ [Next]_vars => ReceivedAtTheEnd'
<1> SUFFICES ASSUME TripsInv, ReceivedAtTheEnd, [Next]_vars PROVE ReceivedAtTheEnd'
  OBVIOUS
<1> USE DEF ReceivedAtTheEnd
<1>1. CASE Start
  BY <1>1 DEF Start, Done, TripsInv, Prefetching
<1>2. ASSUME NEW b \in Bodies, Planned(b) \/ RetryPlanned(b) PROVE ReceivedAtTheEnd'
  BY <1>2 DEF Planned, RetryPlanned
<1>3. CASE HopFails \/ Disambiguate \/ Receive
  BY <1>3 DEF HopFails, Disambiguate, Receive, Done
<1>4. ASSUME NEW s, NEW f, Finds(s, f) PROVE ReceivedAtTheEnd'
  BY <1>4 DEF Finds
<1>5. ASSUME NEW snap, MessagesFetched(snap) PROVE ReceivedAtTheEnd'
  BY <1>5 DEF MessagesFetched
<1>6. CASE Send \/ Expire \/ UNCHANGED vars
  BY <1>6 DEF Send, Expire, vars
<1> QED
  BY <1>1, <1>2, <1>3, <1>4, <1>5, <1>6 DEF Next

\* The handler is never left waiting for a goroutine that was not started or
\* for messages that have been taken already (wg.Wait, enrichWithDeviations).
THEOREM NoLonelyWait == Spec => []WaitsForSomething
<1>1. Init => ReceivedAtTheEnd
  BY DEF Init, ReceivedAtTheEnd
<1>2. TripsInv /\ ReceivedAtTheEnd => WaitsForSomething
  <2> SUFFICES ASSUME TripsInv, ReceivedAtTheEnd PROVE WaitsForSomething
    OBVIOUS
  <2>1. ASSUME NEW s \in Sides PROVE finder[s].state \in {"off", "running", "failed", "found"}
    BY DEF TripsInv, TypeOK, Finder
  <2>2. messages \in {"off", "fetching", "fetched", "sent", "received"} /\ flagged \subseteq Sides
    BY DEF TripsInv, TypeOK
  <2> QED
    BY <2>1, <2>2 DEF WaitsForSomething, ReceivedAtTheEnd, TripsInv, Choosing, Prefetching
<1> QED
  BY <1>1, <1>2, TripsInvariant, StepReceives, PTL DEF Spec

\* What is left is a number, and a step leaves less of it.
LEMMA StepsCount ==
  ASSUME TripsInv, [Next]_vars
  PROVE  StepsLeft \in Nat /\ (UNCHANGED vars \/ StepsLeft' < StepsLeft)
<1>1. ASSUME NEW s PROVE Search(s) \in {0, 1} /\ Search(s)' \in {0, 1}
  BY DEF Search
<1>2. Stages \in 0..5 /\ Delivery \in 0..3 /\ Stages' \in 0..5 /\ Delivery' \in 0..3
  BY DEF Stages, Delivery
<1>3. CASE Start
  <2>1. Stages = 5 /\ Stages' <= 4 /\ Delivery = 0 /\ Delivery' <= 3
    BY <1>3 DEF Start, Done, Stages, Delivery, TripsInv, Prefetching
  <2>2. \A s : Search(s)' = Search(s)
    BY <1>3 DEF Start, Search
  <2>3. expired' = expired
    BY <1>3 DEF Start
  <2> QED
    BY <1>1, <1>2, <2>1, <2>2, <2>3 DEF StepsLeft
<1>4. ASSUME NEW b \in Bodies, Planned(b) PROVE StepsLeft' < StepsLeft
  <2>1. Stages = 4 /\ Stages' <= 3 /\ expired' = expired /\ Delivery' = Delivery
    BY <1>4 DEF Planned, Shape, Done, Stages, Delivery
  <2> QED
    BY <1>1, <1>2, <2>1 DEF StepsLeft
<1>5. ASSUME NEW b \in Bodies, RetryPlanned(b) PROVE StepsLeft' < StepsLeft
  <2>1. Stages = 2 /\ Stages' <= 1 /\ expired' = expired /\ Delivery' = Delivery
    BY <1>5 DEF RetryPlanned, Shape, Done, Stages, Delivery
  <2>2. \A s : Search(s)' = Search(s)
    BY <1>5 DEF RetryPlanned, Search
  <2> QED
    BY <1>1, <1>2, <2>1, <2>2 DEF StepsLeft
<1>6. CASE HopFails \/ Disambiguate
  <2>1. Stages' < Stages /\ expired' = expired /\ Delivery' = Delivery
    BY <1>6 DEF HopFails, Disambiguate, Done, Stages, Delivery
  <2>2. \A s : Search(s)' = Search(s)
    BY <1>6 DEF HopFails, Disambiguate, Search
  <2> QED
    BY <1>1, <1>2, <2>1, <2>2 DEF StepsLeft
<1>7. ASSUME NEW s \in Sides, NEW f \in Found \cup {Without("failed")}, Finds(s, f)
      PROVE  StepsLeft' < StepsLeft
  <2>1. f.state # "running"
    BY DEF Found, Without
  <2>2. Search(s) = 1 /\ Search(s)' = 0 /\ Search(Other(s))' = Search(Other(s))
    BY <1>7, <2>1 DEF Finds, Search, TripsInv, TypeOK, Sides, Other
  <2>3. Stages' = Stages /\ Delivery' = Delivery /\ expired' = expired
    BY <1>7 DEF Finds, Stages, Delivery
  <2>4. (s = "origin" /\ Other(s) = "destination") \/ (s = "destination" /\ Other(s) = "origin")
    BY DEF Sides, Other
  <2> QED
    BY <1>1, <1>2, <2>2, <2>3, <2>4 DEF StepsLeft
<1>8. ASSUME NEW snap, MessagesFetched(snap) PROVE StepsLeft' < StepsLeft
  <2>1. Stages' = Stages /\ Delivery = 3 /\ Delivery' = 2 /\ expired' = expired
    BY <1>8 DEF MessagesFetched, Stages, Delivery
  <2>2. \A s : Search(s)' = Search(s)
    BY <1>8 DEF MessagesFetched, Search
  <2> QED
    BY <1>1, <1>2, <2>1, <2>2 DEF StepsLeft
<1>9. CASE Send
  <2>1. Stages' = Stages /\ Delivery = 2 /\ Delivery' = 1 /\ expired' = expired
    BY <1>9 DEF Send, Stages, Delivery
  <2>2. \A s : Search(s)' = Search(s)
    BY <1>9 DEF Send, Search
  <2> QED
    BY <1>1, <1>2, <2>1, <2>2 DEF StepsLeft
<1>10. CASE Receive
  <2>1. Stages = 1 /\ Stages' = 0 /\ Delivery = 1 /\ Delivery' = 0 /\ expired' = expired
    BY <1>10 DEF Receive, Done, Stages, Delivery
  <2>2. \A s : Search(s)' = Search(s)
    BY <1>10 DEF Receive, Search
  <2> QED
    BY <1>1, <1>2, <2>1, <2>2 DEF StepsLeft
<1>11. CASE Expire
  <2>1. Stages' = Stages /\ Delivery' = Delivery /\ ~expired /\ expired'
    BY <1>11 DEF Expire, Stages, Delivery
  <2>2. \A s : Search(s)' = Search(s)
    BY <1>11 DEF Expire, Search
  <2> QED
    BY <1>1, <1>2, <2>1, <2>2 DEF StepsLeft
<1>12. StepsLeft \in Nat
  BY <1>1, <1>2 DEF StepsLeft
<1> QED
  BY <1>3, <1>4, <1>5, <1>6, <1>7, <1>8, <1>9, <1>10, <1>11, <1>12 DEF Next

\* A call is over after finitely many steps, whatever the hops end with, in
\* whatever order, and whenever its time runs out.
THEOREM CallsAreFinite == Spec => [](StepsLeft \in Nat) /\ [][StepsLeft' < StepsLeft]_vars
<1>1. TripsInv /\ [Next]_vars => StepsLeft \in Nat /\ [StepsLeft' < StepsLeft]_vars
  BY StepsCount
<1> QED
  BY <1>1, TripsInvariant, PTL DEF Spec
=============================================================================
