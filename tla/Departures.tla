----------------------------- MODULE Departures -----------------------------
(***************************************************************************)
(* One call of the departures tool (tools/transport.go) and what           *)
(* trimDepartures (tools/departures_transform.go) makes of the two replies *)
(* it waits for: the board of the site and the prefetched snapshot of      *)
(* /v1/messages, which arrive in either order.                             *)
(*                                                                         *)
(* A row of the board is the line, the stop (stop area or stop point) and  *)
(* the direction it names; what it does not name is None, and a row that   *)
(* cannot be read names nothing.  Of a filter, the line prefix and the     *)
(* mode are the set of lines they let through.  Deviations are judged one  *)
(* by one, so a list of them has at most one.                              *)
(***************************************************************************)
EXTENDS Naturals, SequencesExt

CONSTANTS
    Lines, Stops,
    Ways,      \* directions
    None,      \* no id, no direction
    MaxRows,   \* bound on the length of the board
    Limits     \* values of the limit argument, 0 for unlimited

ASSUME DeparturesAssumption ==
    /\ None \notin Lines \cup Stops \cup Ways
    /\ MaxRows \in Nat
    /\ Limits \subseteq Nat

VARIABLES
    filter, limit,   \* the request
    pc,
    board,     \* the departures array of the upstream's reply
    upstream,  \* its stop_deviations
    messages,  \* the prefetch: "fetching", then how it ended
    snapshot,  \* the deviations it fetched
    result

vars == <<filter, limit, pc, board, upstream, messages, snapshot, result>>

\* way: None when every direction is asked for.
Filter == [lines : SUBSET Lines, way : Ways \cup {None}]

Unreadable == [readable |-> FALSE, line |-> None, stop |-> None, way |-> None]
Row ==
    [readable : {TRUE}, line : Lines \cup {None}, stop : Stops \cup {None}, way : Ways \cup {None}]
        \cup {Unreadable}

\* active: its publish window covers the present.  An entry may come without
\* a scope, or with an empty one (network-wide).
Unscoped == [scoped |-> FALSE, stops |-> {}, lines |-> {}, active |-> TRUE]
Deviation ==
    [scoped : {TRUE}, stops : SUBSET Stops, lines : SUBSET Lines, active : BOOLEAN]
        \cup {Unscoped}
DeviationLists == {{}} \cup {{d} : d \in Deviation}

NoResult == [kind |-> "none", rows |-> {}, deviations |-> {}, warned |-> FALSE]

TypeOK ==
    /\ filter \in Filter
    /\ limit \in Limits
    /\ pc \in {"board", "messages", "done"}
    /\ board \in Seq(Row)
    /\ upstream \in DeviationLists /\ snapshot \in DeviationLists
    /\ messages \in {"fetching", "good", "undecodable", "error"}
    /\ result.kind \in {"none", "error", "departures"}

Init ==
    /\ filter \in Filter
    /\ limit \in Limits
    /\ pc = "board"
    /\ board = <<>>
    /\ upstream = {}
    /\ messages = "fetching"
    /\ snapshot = {}
    /\ result = NoResult

-----------------------------------------------------------------------------
\* Rows are known by their positions on the board.
\* departureMatches
Matches(row, f) ==
    /\ f.lines = Lines \/ row.line \in f.lines
    /\ f.way = None \/ row.way = f.way

\* filterDepartures: a row that cannot be read passes every filter.
Filtered(f) == {i \in DOMAIN board : board[i].readable => Matches(board[i], f)}

Truncated(rows, n) ==
    IF n > 0 THEN {i \in rows : Cardinality({j \in rows : j <= i}) <= n} ELSE rows

\* collectSiteIdentity
SiteStops(rows) == {board[i].stop : i \in rows} \ {None}
SiteLines(rows) == {board[i].line : i \in rows} \ {None}

\* scopeMatchesSite: lines count only when no stop is named; mutant: any
\* part of the scope will do.
MatchesAnyScope(d, rows) ==
    \/ d.stops \cap SiteStops(rows) # {}
    \/ d.lines \cap SiteLines(rows) # {}
    \/ d.stops = {} /\ d.lines = {}
MatchesSite(d, rows) ==
    IF d.stops # {}
    THEN d.stops \cap SiteStops(rows) # {}
    ELSE d.lines = {} \/ d.lines \cap SiteLines(rows) # {}

Relevant(devs, rows) == {d \in devs : d.scoped /\ MatchesSite(d, rows)}

\* deriveStopDeviations, of the rows that pass the filter.
\* mutant: no upcoming departures once the filter is applied
NoticesOfFiltered(rows) ==
    IF rows = {} THEN upstream
    ELSE IF messages = "good" THEN {d \in Relevant(snapshot, rows) : d.active}
    ELSE Relevant(upstream, rows)
Notices(rows) ==
    IF board = <<>> THEN upstream
    ELSE IF messages = "good" THEN {d \in Relevant(snapshot, rows) : d.active}
    ELSE Relevant(upstream, rows)

\* trimDepartures; mutant: the page is cut before the notices are derived.
TrimmedAfterLimit(f, n) ==
    LET page == Truncated(Filtered(f), n)
    IN [kind |-> "departures", rows |-> page, deviations |-> Notices(page),
        warned |-> messages = "error"]
Trimmed(f, n) ==
    [kind |-> "departures", rows |-> Truncated(Filtered(f), n),
     deviations |-> Notices(Filtered(f)), warned |-> messages = "error"]

-----------------------------------------------------------------------------
BoardFetched(rows, devs) ==
    /\ pc = "board"
    /\ board' = rows
    /\ upstream' = devs
    /\ pc' = "messages"
    /\ UNCHANGED <<filter, limit, messages, snapshot, result>>

BoardFails ==
    /\ pc = "board"
    /\ result' = [NoResult EXCEPT !.kind = "error"]
    /\ pc' = "done"
    /\ UNCHANGED <<filter, limit, board, upstream, messages, snapshot>>

MessagesFetched(devs) ==
    /\ messages = "fetching"
    /\ messages' = "good"
    /\ snapshot' = devs
    /\ UNCHANGED <<filter, limit, pc, board, upstream, result>>

MessagesFail(how) ==
    /\ messages = "fetching"
    /\ messages' = how
    /\ UNCHANGED <<filter, limit, pc, board, upstream, snapshot, result>>

\* messages() returns; the body is a JSON object, or `null', which is refused.
Answer ==
    /\ pc = "messages"
    /\ messages # "fetching"
    /\ pc' = "done"
    /\ \/ result' = Trimmed(filter, limit)
       \/ board = <<>> /\ upstream = {} /\ result' = [NoResult EXCEPT !.kind = "error"]
    /\ UNCHANGED <<filter, limit, board, upstream, messages, snapshot>>

Next ==
    \/ \E rows \in BoundedSeq(Row, MaxRows), devs \in DeviationLists : BoardFetched(rows, devs)
    \/ BoardFails
    \/ \E devs \in DeviationLists : MessagesFetched(devs)
    \/ \E how \in {"undecodable", "error"} : MessagesFail(how)
    \/ Answer

Spec == Init /\ [][Next]_vars

-----------------------------------------------------------------------------
Answered == result.kind = "departures"

Narrower(f, g) == f.lines \subseteq g.lines /\ g.way \in {None, f.way}

\* Which notices are shown does not depend on how many rows fit on the page.
LimitKeepsNotices ==
    Answered => \A n \in Limits : result.deviations = Trimmed(filter, n).deviations

\* A caller who narrows the filter never learns of a notice that the wider
\* query does not show, not even when the filter leaves no row at all: a line
\* 40 query does not carry a line 43 notice.
NarrowerFilterFewerNotices ==
    Answered => \A f \in Filter :
        Narrower(filter, f) => result.deviations \subseteq Trimmed(f, limit).deviations

\* No false positives, from neither source: a notice that names stops names one
\* of this board's, also when the lines it names do call here; one that names
\* lines alone names one that calls here and that the caller asked about.
NoticesAreOfThisSite ==
    Answered /\ board # <<>> =>
        \A d \in result.deviations :
            /\ d.scoped
            /\ d.stops # {} => \E i \in DOMAIN board : board[i].stop \in d.stops
            /\ d.stops = {} /\ d.lines # {} =>
                  \E i \in DOMAIN board : board[i].line \in d.lines \cap filter.lines

\* What the README says of the fallback: notices that come from the upstream's
\* own stop_deviations, which nobody has checked against their publish window,
\* come with a warning.
FallbackIsAnnounced ==
    Answered /\ board # <<>> /\ messages # "good" => result.warned
=============================================================================
