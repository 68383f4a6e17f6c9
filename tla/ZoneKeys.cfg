SPECIFICATION FairSpec
CONSTANTS
    Caller = {c1, c2, c3}
    TTLs <- MCTTLs
    MaxAllowedTTL = 2
    EmptyTTL = 1
    MaxTime = 5
    None = None
INVARIANTS KeysWithinTTL NoRefetch
PROPERTIES CallReturns
