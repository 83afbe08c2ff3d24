----------------------------- MODULE Deviations -----------------------------
(***************************************************************************)
(* What the tools make of a reply of /v1/messages: the trips tool attaches *)
(* notices to the legs of a journey (indexDeviations and attachDeviations, *)
(* tools/trips_transform.go), the deviations tool lists them, slim or      *)
(* verbose, through its mode and facility filters                          *)
(* (tools/deviations_transform.go).  Both are functions of the reply, so   *)
(* the only step is the upstream's, which publishes one more notice.       *)
(*                                                                         *)
(* A notice is its line scope, its publish window, its categories and      *)
(* which decoder can read it: the tool's reads the names of stop areas     *)
(* too, so what it can read the index can.  It is identified by its        *)
(* position.  Words stand for what they are up to case.                    *)
(***************************************************************************)
EXTENDS Integers, FiniteSets, Sequences

CONSTANTS
    Entries,      \* the notices considered
    MaxScope,     \* no notice names more lines
    MaxMessages,  \* bound on the length of a reply
    Missing,      \* a time that is not there
    Garbled,      \* a time that cannot be parsed
    MaxPerLeg     \* maxDeviationsPerLeg

Time == Nat \cup {Missing, Garbled}
ScopeLine == [line : STRING, mode : STRING]
Category == [form : {"string", "object"}, group : STRING, type : STRING, name : STRING]
Entry ==
    [readable : {"all", "index", "none"},
     scope : {s \in Seq(ScopeLine) : Len(s) <= MaxScope},
     from : Time, upto : Time,
     categories : Seq(Category)]

ASSUME DeviationsAssumption ==
    /\ MaxScope \in Nat /\ MaxMessages \in Nat /\ MaxPerLeg \in Nat
    /\ {Missing, Garbled} \cap Nat = {}

ASSUME EntriesAssumption == \A e \in Entries : e \in Entry

VARIABLE messages

DeviationsInit == messages = <<>>

Publishes(e) ==
    /\ Len(messages) < MaxMessages
    /\ messages' = Append(messages, e)

DeviationsNext == \E e \in Entries : Publishes(e)

DeviationsSpec == DeviationsInit /\ [][DeviationsNext]_messages

-----------------------------------------------------------------------------
\* mapMode, in ASCII; a product of another name is a mode of that name.
Mode == [Buss |-> "bus", Tag |-> "train", Tunnelbana |-> "metro", Sparvagn |-> "tram",
         Bat |-> "ship", Skepp |-> "ship", Farja |-> "ship", footpath |-> "walk"]
mapMode(product) == IF product \in DOMAIN Mode THEN Mode[product] ELSE product

\* modeToUpstreamTransport
Transport == [bus |-> "BUS", train |-> "TRAIN", metro |-> "METRO", tram |-> "TRAM", ship |-> "SHIP"]

\* trimLeg, of what concerns the notices; "" is no line.
Leg(product, line, estimated, planned) ==
    [mode |-> mapMode(product),
     line |-> IF mapMode(product) = "walk" THEN "" ELSE line,
     departure |-> IF estimated # Missing THEN estimated ELSE planned]

\* indexDeviations: one notice it cannot read leaves no index at all.
Indexed == \A i \in DOMAIN messages : messages[i].readable # "none"

\* The places in the reply that name a line, and those that name a leg's, in
\* the order of the index.
Places == {p \in (1..Len(messages)) \X (1..MaxScope) : p[2] <= Len(messages[p[1]].scope)}
Candidates(leg) ==
    {p \in Places :
        /\ leg.line # ""
        /\ leg.mode \in DOMAIN Transport
        /\ messages[p[1]].scope[p[2]] = [line |-> leg.line, mode |-> Transport[leg.mode]]}
Before(p, q) == p[1] < q[1] \/ (p[1] = q[1] /\ p[2] < q[2])
FirstFew(places) == {p \in places : Cardinality({q \in places : Before(q, p)}) < MaxPerLeg}

\* deviationActiveAt and activeDeviations: what has no readable window, or is
\* for a leg without a readable time, counts as active.
Active(e, at) ==
    \/ {at, e.from, e.upto} \cap {Missing, Garbled} # {}
    \/ e.from <= at /\ at <= e.upto
ActiveAt(places, at) == {p \in places : Active(messages[p[1]], at)}

\* attachLegDeviations; mutant: the cap comes before the time filter.
AttachedCapFirst(leg) ==
    [shown |-> ActiveAt(FirstFew(Candidates(leg)), leg.departure),
     more |-> Cardinality(ActiveAt(FirstFew(Candidates(leg)), leg.departure)) > MaxPerLeg]
Attached(leg) ==
    [shown |-> FirstFew(ActiveAt(Candidates(leg), leg.departure)),
     more |-> Cardinality(ActiveAt(Candidates(leg), leg.departure)) > MaxPerLeg]

-----------------------------------------------------------------------------
\* flattenCategories: an array of strings and objects is neither form, and
\* the type of an object wins over its name.
Kind(c) == IF c.type # "" THEN c.type ELSE c.name
Word(w) == IF w = "" THEN <<>> ELSE <<w>>
Label(c) == Word(c.group) \o Word(Kind(c))
Uniform(e) == \A i, j \in DOMAIN e.categories : e.categories[i].form = e.categories[j].form
Categories(e) ==
    IF Uniform(e) THEN {Label(e.categories[i]) : i \in DOMAIN e.categories} \ {<<>>} ELSE {}

\* hasFacilityCategory; mutant: only where a kind follows the group.
FacilityWithKind(e) == \E label \in Categories(e) : Len(label) = 2 /\ label[1] = "FACILITY"
Facility(e) == \E label \in Categories(e) : label[1] = "FACILITY"

\* keep; mutant: the mode of a notice is that of the first line it names.
KeepFirstMode(e, mode, facility) ==
    /\ Facility(e) => facility
    /\ mode = "" \/ Facility(e) \/ (e.scope # <<>> /\ e.scope[1].mode = mode)
Keep(e, mode, facility) ==
    /\ Facility(e) => facility
    /\ mode = "" \/ Facility(e) \/ \E j \in DOMAIN e.scope : e.scope[j].mode = mode

\* trimDeviationsList and filterRawDeviations, by the positions they list.
Slim(mode, facility) ==
    {i \in DOMAIN messages : messages[i].readable = "all" /\ Keep(messages[i], mode, facility)}
\* mutant: the filters are of the slim shape only
VerboseUnfiltered(mode, facility) == DOMAIN messages
Verbose(mode, facility) ==
    {i \in DOMAIN messages : messages[i].readable = "all" => Keep(messages[i], mode, facility)}

-----------------------------------------------------------------------------
\* The legs that can ask about what the reply speaks of.
Lines == {messages[p[1]].scope[p[2]].line : p \in Places}
Moments == {messages[i].from : i \in DOMAIN messages} \cup {messages[i].upto : i \in DOMAIN messages}
Legs ==
    {Leg(product, line, estimated, planned) :
        product \in DOMAIN Mode \cup {"taxi"}, line \in Lines,
        estimated \in Moments \cup {Missing}, planned \in Moments}

\* Nothing that concerns a leg is hidden silently: a notice that names its
\* line and mode and is, or may be, in force when it departs is shown on the
\* leg, unless the leg says that there are more.
NoHiddenNotice ==
    Indexed => \A leg \in Legs : \A p \in Candidates(leg) :
        Active(messages[p[1]], leg.departure)
            => p \in Attached(leg).shown \/ Attached(leg).more

\* The two tools agree on what concerns a mode: a notice shown on a leg is
\* listed under the leg's mode by a caller who asks for facilities too, also
\* when the leg's line is not the first it names and when it is of a facility.
AttachedIsListed ==
    \A leg \in Legs : \A p \in Attached(leg).shown :
        /\ p[1] \in Verbose(Transport[leg.mode], TRUE)
        /\ messages[p[1]].readable = "all" => p[1] \in Slim(Transport[leg.mode], TRUE)

Modes == {""} \cup {Transport[m] : m \in DOMAIN Transport}

\* The shape a caller asks for does not change what it is told: verbose lists
\* what slim lists, in addition only what slim cannot read, under any filter.
VerboseAgreesWithSlim ==
    \A mode \in Modes, facility \in BOOLEAN :
        /\ Slim(mode, facility) \subseteq Verbose(mode, facility)
        /\ Verbose(mode, facility) \ Slim(mode, facility)
             = {i \in DOMAIN messages : messages[i].readable # "all"}

\* Lifts and escalators are the caller's choice, whichever shape the upstream
\* gives the category in: none is listed unasked, each is listed when asked
\* for under every mode, and asking takes nothing else away.
FacilityIsOptIn ==
    LET facilities == {i \in DOMAIN messages :
            /\ messages[i].readable = "all"
            /\ Uniform(messages[i])
            /\ \E c \in DOMAIN messages[i].categories : messages[i].categories[c].group = "FACILITY"}
    IN \A mode \in Modes :
        /\ Slim(mode, FALSE) \cap facilities = {}
        /\ facilities \subseteq Slim(mode, TRUE)
        /\ Slim(mode, FALSE) \subseteq Slim(mode, TRUE)
=============================================================================
