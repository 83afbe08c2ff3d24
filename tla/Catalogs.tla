------------------------------ MODULE Catalogs ------------------------------
(***************************************************************************)
(* The pages that the tools cut from the catalogs of lines, of sites and   *)
(* of stop points: flattenAndFilterLines (tools/lines_transform.go),       *)
(* filterByName (tools/sites_transform.go) and nearestStops                *)
(* (tools/nearest_stops.go).                                               *)
(*                                                                         *)
(* A row is what its decoder can read of it, whether it passes the filter  *)
(* (name, designation, group of lines), whether it has a place and how far *)
(* away that is, in tenths of a metre.  Groups of lines are numbered in    *)
(* the alphabetical order of their modes; pages are lists of positions.    *)
(***************************************************************************)
EXTENDS Naturals, SequencesExt

CONSTANTS
    Groups,       \* modes of the line catalog
    Distances,    \* in tenths of a metre
    NoArray,      \* what the catalog may hold for a group instead of its lines
    MaxRows,      \* bound on a list
    Limits        \* values of the limit argument, 0 for unlimited

ASSUME CatalogsAssumption ==
    /\ Groups \subseteq Nat /\ IsFiniteSet(Groups)
    /\ Distances \subseteq Nat
    /\ MaxRows \in Nat /\ Limits \subseteq Nat

VARIABLES
    lines,    \* by group
    sites

Line == [readable : BOOLEAN, passes : BOOLEAN]
Site == [readable : BOOLEAN, passes : BOOLEAN, placed : BOOLEAN, distance : Distances]

CatalogsInit ==
    /\ lines = [g \in Groups |-> <<>>]
    /\ sites = <<>>

ListsLine(g, row) ==
    /\ lines[g] # NoArray /\ Len(lines[g]) < MaxRows
    /\ lines' = [lines EXCEPT ![g] = Append(@, row)]
    /\ UNCHANGED sites

BreaksGroup(g) ==
    /\ lines[g] = <<>>
    /\ lines' = [lines EXCEPT ![g] = NoArray]
    /\ UNCHANGED sites

ListsSite(row) ==
    /\ Len(sites) < MaxRows
    /\ sites' = Append(sites, row)
    /\ UNCHANGED lines

-----------------------------------------------------------------------------
\* A loop over positions that keeps those that pass and stops at the limit.
Page(positions, passing, limit) ==
    LET kept[k \in 0..Len(positions)] ==
            IF k = 0 THEN <<>>
            ELSE IF positions[k] \in passing /\ (limit > 0 => Len(kept[k - 1]) < limit)
                 THEN Append(kept[k - 1], positions[k])
                 ELSE kept[k - 1]
    IN kept[Len(positions)]

\* A stable sort: what goes before the i-th of s, and where that leaves it.
Earlier(s, less, i) ==
    {j \in DOMAIN s : <<s[j], s[i]>> \in less \/ (j < i /\ <<s[i], s[j]>> \notin less)}
Sorted(s, less) ==
    [k \in DOMAIN s |-> s[CHOOSE i \in DOMAIN s : Cardinality(Earlier(s, less, i)) = k - 1]]

\* selectGroupKeys, of the keys in the order the map gives them; mutant: that
\* order is kept.
KeysAsIterated(order, asked) == Page(order, asked, 0)
Keys(order, asked) == Sorted(Page(order, asked, 0), {p \in Groups \X Groups : p[1] < p[2]})

Rows(g) == IF lines[g] = NoArray THEN <<>> ELSE [i \in DOMAIN lines[g] |-> <<g, i>>]
Positions(keys) ==
    LET upto[k \in 0..Len(keys)] == IF k = 0 THEN <<>> ELSE upto[k - 1] \o Rows(keys[k])
    IN upto[Len(keys)]

\* lineMatchesFilters: a line that cannot be read passes no filter, and is
\* left out also without any.
LineMatches(p, filtered) ==
    LET row == lines[p[1]][p[2]] IN row.readable /\ (filtered => row.passes)

\* flattenLinesSlim and flattenLinesVerbose: the same lines.
LinesPage(order, asked, filtered, limit) ==
    LET positions == Positions(Keys(order, asked))
    IN Page(positions, {p \in ToSet(positions) : LineMatches(p, filtered)}, limit)

\* filterByName: without a query the rows are not looked into.
NamesPage(query, limit) ==
    Page([i \in DOMAIN sites |-> i],
         {i \in DOMAIN sites : query => sites[i].readable /\ sites[i].passes}, limit)

-----------------------------------------------------------------------------
Rounded(distance) == (distance + 5) \div 10

\* nearestStops; mutant: the cap comes before the sort.
Eligible(radius) == {i \in DOMAIN sites : sites[i].placed /\ sites[i].distance <= radius}
Within(radius) == Page([i \in DOMAIN sites |-> i], Eligible(radius), 0)
Nearer == {p \in (DOMAIN sites) \X (DOMAIN sites) :
              Rounded(sites[p[1]].distance) < Rounded(sites[p[2]].distance)}
Cut(positions, limit) ==
    IF limit > 0 /\ Len(positions) > limit THEN SubSeq(positions, 1, limit) ELSE positions
NearestCapFirst(radius, limit) == Sorted(Cut(Within(radius), limit), Nearer)
Nearest(radius, limit) == Cut(Sorted(Within(radius), Nearer), limit)

\* The whole catalog is decoded at once.
NearestFails == \E i \in DOMAIN sites : ~sites[i].readable

-----------------------------------------------------------------------------
Orders == {order \in [1..Cardinality(Groups) -> Groups] :
              /\ ToSet(order) = Groups
              /\ \A i, j \in DOMAIN order : order[i] = order[j] => i = j}

IsPageOf(page, all, limit) ==
    IsPrefix(page, all) /\ (Len(page) = limit \/ (page = all /\ (limit = 0 \/ Len(all) < limit)))

\* A page is the beginning of the list a caller gets without a limit, full or
\* all of it: a second look with another limit moves no line or site, nor does
\* the order in which Go walks a map, and a row that is skipped takes no place.
PagesArePrefixes ==
    \A limit \in Limits, filtered \in BOOLEAN :
        /\ IsPageOf(NamesPage(filtered, limit), NamesPage(filtered, 0), limit)
        /\ \A asked \in {Groups} \cup {{g} : g \in Groups}, order, other \in Orders :
              IsPageOf(LinesPage(order, asked, filtered, limit),
                       LinesPage(other, asked, filtered, 0), limit)

\* No stop that is left out is nearer, by the metre, than one that is shown:
\* the page holds the nearest stops in the radius, wherever the catalog lists
\* them, none without a place, and all of them when it is not full.
NearestAreNearest ==
    ~NearestFails => \A radius \in Distances, limit \in Limits :
        LET page == Nearest(radius, limit)
            left == Eligible(radius) \ ToSet(page)
        IN /\ ToSet(page) \subseteq Eligible(radius)
           /\ \A i, j \in DOMAIN page : i < j => page[i] # page[j]
           /\ \A i \in ToSet(page), j \in left : sites[i].distance < sites[j].distance + 10
           /\ left # {} => Len(page) = limit
=============================================================================
