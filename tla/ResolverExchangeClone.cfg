SPECIFICATION Spec
CONSTANTS
    Query = {a}
    N = 4
    QNames = {2, 4}
    Flags = {"DO"}
    Cuts = {0, 1, 2, 3}
    Servers <- MCShared
    Lifetimes = {1}
    MaxQueriesPerRequest = 5
    MaxTime = 3
    None = None
INVARIANT NoInvalidClone
CHECK_DEADLOCK FALSE
