SPECIFICATION FairSpec
CONSTANTS
    Reader = {r1, r2}
    h1 = h1
    h2 = h2
    None = None
    Host = {h1, h2}
    NameserverSets <- MCNameserverSets
    Glues <- MCGlues
    Answers <- MCAnswers
    TTLs = {3}
    MaxAllowedTTL = 3
    DesireNumberOfNameserversPerZone = 2
    LazyEnrichment = FALSE
    MaxTime = 2
INVARIANTS ExchangeNeverPanics ReturnedZoneHasServers ExpiryBounded
PROPERTIES EnrichmentFinishes
CHECK_DEADLOCK FALSE
