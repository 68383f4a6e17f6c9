SPECIFICATION FairSpec
CONSTANTS
    s1 = s1
    s2 = s2
    s3 = s3
    Server <- MCServer
    ServerLists <- MCServerLists
    MaxBest = 2
    None = None
INVARIANTS SilentOnlyAtEnd
PROPERTIES AllEnd
CHECK_DEADLOCK FALSE
