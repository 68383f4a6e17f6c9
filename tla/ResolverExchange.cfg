SPECIFICATION Spec
CONSTANTS
    Query = {a, b}
    N = 3
    QNames = {2, 3}
    Flags = {"DO"}
    Cuts = {0, 1, 2}
    Servers <- MCShared
    Lifetimes = {1}
    MaxQueriesPerRequest = 3
    MaxTime = 3
    None = None
INVARIANTS StoreSound OneInputPerZone GapExcused PanicOnlyAtFirstLabel LabelsSuffice
PROPERTY WalkDescends
CHECK_DEADLOCK FALSE
