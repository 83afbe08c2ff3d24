SPECIFICATION RepliesSpec
CONSTANTS
    Qualities = {900, 901, 950, 1000}
    QualityMin = 1000
    ExactGap = 100
    UnambiguousDelta = 50
    ResolveCap = 2
    MaxLocations = 4
    Entries <- MCEntries
    MaxScope = 2
    MaxMessages = 3
    Missing = Missing
    Garbled = Garbled
    MaxPerLeg = 1
    SiteNumbers <- MCSiteNumbers
    minSiteID = 102
    maxSiteID = 9999
    Heads <- MCHeads
    Groups = {1, 2}
    NoArray = NoArray
    Distances = {4, 5, 14, 16}
    MaxRows = 2
    Limits = {0, 1, 2}
INVARIANTS TripsAgreesWithResolve StopOnlyKeepsVerdict OrderDoesNotMatter
INVARIANTS NoHiddenNotice AttachedIsListed VerboseAgreesWithSlim FacilityIsOptIn
INVARIANTS SpellingsAgree EchoNamesSitesOnly PagesArePrefixes NearestAreNearest
CHECK_DEADLOCK FALSE
