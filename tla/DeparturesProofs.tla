-------------------------- MODULE DeparturesProofs --------------------------
(***************************************************************************)
(* Proofs, for any lines, stops, directions, limits and length of a board, *)
(* of what Departures promises of the notices.                             *)
(***************************************************************************)
EXTENDS Departures, TLAPS

\* The answer is that of the board and the messages, which no longer change
\* once it is given.
Settled ==
    /\ filter \in Filter
    /\ \A i \in DOMAIN board : board[i] \in Row
    /\ result.kind = "departures" =>
          pc = "done" /\ messages # "fetching" /\ result = Trimmed(filter, limit)

\* The state keeps the settled answer.
LEMMA SettledStep == Settled /\ [Next]_vars => Settled'
<1> SUFFICES ASSUME Settled, [Next]_vars PROVE Settled'
  OBVIOUS
<1> USE DEF Settled
<1>1. ASSUME UNCHANGED <<filter, limit, board, upstream, messages, snapshot>>
      PROVE  Trimmed(filter, limit)' = Trimmed(filter, limit)
  BY <1>1 DEF Trimmed, Truncated, Filtered, Matches, Notices, Relevant, MatchesSite, SiteStops, SiteLines
<1>2. ASSUME NEW rows \in BoundedSeq(Row, MaxRows), NEW devs, BoardFetched(rows, devs)
      PROVE  Settled'
  <2>1. \A i \in DOMAIN rows : rows[i] \in Row
    BY DEF BoundedSeq, SeqOf
  <2>2. result'.kind # "departures"
    BY <1>2 DEF BoardFetched
  <2> QED
    BY <1>2, <2>1, <2>2 DEF BoardFetched
<1>3. CASE BoardFails
  BY <1>3 DEF BoardFails, NoResult
<1>4. ASSUME NEW devs, MessagesFetched(devs)
      PROVE  Settled'
  BY <1>4 DEF MessagesFetched
<1>5. ASSUME NEW how, MessagesFail(how)
      PROVE  Settled'
  BY <1>5 DEF MessagesFail
<1>6. CASE Answer
  <2>1. UNCHANGED <<filter, limit, board, upstream, messages, snapshot>> /\ pc' = "done" /\ messages # "fetching"
    BY <1>6 DEF Answer
  <2>2. CASE result' = Trimmed(filter, limit)
    BY <1>1, <2>1, <2>2
  <2>3. CASE result' = [NoResult EXCEPT !.kind = "error"]
    BY <2>1, <2>3 DEF NoResult
  <2> QED
    BY <1>6, <2>2, <2>3 DEF Answer
<1>7. CASE UNCHANGED vars
  BY <1>1, <1>7 DEF vars
<1> QED
  BY <1>2, <1>3, <1>4, <1>5, <1>6, <1>7 DEF Next

\* A narrower filter lets fewer rows through.
LEMMA NarrowerFilterFewerRows ==
  ASSUME NEW f \in Filter, NEW g \in Filter, Narrower(f, g)
  PROVE  Filtered(f) \subseteq Filtered(g)
<1>1. f.lines \subseteq g.lines /\ g.lines \subseteq Lines /\ (g.way = None \/ g.way = f.way)
  BY DEF Filter, Narrower
<1>2. f.lines = Lines => g.lines = Lines
  BY <1>1
<1>3. ASSUME NEW row, Matches(row, f)
      PROVE  Matches(row, g)
  BY <1>1, <1>2, <1>3 DEF Matches
<1> QED
  BY <1>3 DEF Filtered

\* Fewer rows are of fewer stops and lines, and fewer notices concern them.
LEMMA FewerRowsFewerNotices ==
  ASSUME NEW few, NEW many, few \subseteq many
  PROVE  Notices(few) \subseteq Notices(many)
<1>1. SiteStops(few) \subseteq SiteStops(many) /\ SiteLines(few) \subseteq SiteLines(many)
  BY DEF SiteStops, SiteLines
<1>2. ASSUME NEW d, MatchesSite(d, few)
      PROVE  MatchesSite(d, many)
  BY <1>1, <1>2 DEF MatchesSite
<1>3. ASSUME NEW devs PROVE Relevant(devs, few) \subseteq Relevant(devs, many)
  BY <1>2 DEF Relevant
<1> QED
  BY <1>3 DEF Notices

\* An answer is what the tool makes of the replies it has waited for.
THEOREM AnswersAreSettled == Spec => []Settled
<1>1. Init => Settled
  BY DEF Init, Settled, NoResult
<1> QED
  BY <1>1, SettledStep, PTL DEF Spec

\* The notices do not depend on the page, for any limit.
THEOREM PageKeepsNotices == Spec => []LimitKeepsNotices
<1>1. Settled => LimitKeepsNotices
  BY DEF Settled, LimitKeepsNotices, Answered, Trimmed
<1> QED
  BY <1>1, AnswersAreSettled, PTL

\* A narrower filter shows no notice that a wider one hides.
THEOREM FilterIsMonotone == Spec => []NarrowerFilterFewerNotices
<1>1. ASSUME Settled, Answered, NEW f \in Filter, Narrower(filter, f)
      PROVE  result.deviations \subseteq Trimmed(f, limit).deviations
  <2>1. filter \in Filter /\ result = Trimmed(filter, limit)
    BY <1>1 DEF Settled, Answered
  <2>2. result.deviations = Notices(Filtered(filter)) /\ Trimmed(f, limit).deviations = Notices(Filtered(f))
    BY <2>1 DEF Trimmed
  <2> QED
    BY <1>1, <2>1, <2>2, NarrowerFilterFewerRows, FewerRowsFewerNotices
<1>2. Settled => NarrowerFilterFewerNotices
  BY <1>1 DEF NarrowerFilterFewerNotices
<1> QED
  BY <1>2, AnswersAreSettled, PTL

\* A line of a row that the filter lets through is one it asks for: a row that
\* cannot be read passes every filter, but names no line.
LEMMA LinesPassTheFilter ==
  ASSUME NEW i \in Filtered(filter), Settled, board[i].line # None
  PROVE  board[i].line \in filter.lines
<1>1. board[i] \in Row
  BY DEF Settled, Filtered
<1>2. board[i] # Unreadable
  BY DEF Unreadable
<1>3. board[i].readable = TRUE /\ board[i].line \in Lines
  BY <1>1, <1>2 DEF Row
<1>4. Matches(board[i], filter)
  BY <1>3 DEF Filtered
<1> QED
  BY <1>4, <1>3 DEF Matches

\* A notice that names stops names one of the board's, and one that names
\* lines alone a line of the board that was asked for.
THEOREM NoFalsePositives == Spec => []NoticesAreOfThisSite
<1>1. ASSUME Settled, Answered, board # <<>>, NEW d \in result.deviations
      PROVE  /\ d.scoped
             /\ d.stops # {} => \E i \in DOMAIN board : board[i].stop \in d.stops
             /\ d.stops = {} /\ d.lines # {} =>
                   \E i \in DOMAIN board : board[i].line \in d.lines \cap filter.lines
  <2> DEFINE rows == Filtered(filter)
  <2>1. result.deviations = Notices(rows)
    BY <1>1 DEF Settled, Answered, Trimmed
  <2>2. d.scoped /\ MatchesSite(d, rows)
    BY <1>1, <2>1 DEF Notices, Relevant
  <2>3. rows \subseteq DOMAIN board
    BY DEF Filtered
  <2>4. CASE d.stops # {}
    <3>1. d.stops \cap SiteStops(rows) # {}
      BY <2>2, <2>4 DEF MatchesSite
    <3> QED
      BY <2>2, <2>3, <2>4, <3>1 DEF SiteStops
  <2>5. CASE d.stops = {} /\ d.lines # {}
    <3>1. d.lines \cap SiteLines(rows) # {}
      BY <2>2, <2>5 DEF MatchesSite
    <3>2. PICK i \in rows : board[i].line \in d.lines /\ board[i].line # None
      BY <3>1 DEF SiteLines
    <3>3. board[i].line \in filter.lines
      BY <1>1, <3>2, LinesPassTheFilter
    <3> QED
      BY <2>2, <2>3, <2>5, <3>2, <3>3
  <2> QED
    BY <2>2, <2>4, <2>5
<1>2. Settled => NoticesAreOfThisSite
  BY <1>1 DEF NoticesAreOfThisSite
<1> QED
  BY <1>2, AnswersAreSettled, PTL
=============================================================================
