SPECIFICATION FairSpec
CONSTANTS
    popular = popular
    plain = plain
    Client = {c1}
    Worker = worker
    Server = {s1, s2}
    Name <- MCName
    Popular <- MCPopular
    Type <- MCType
    Asked <- MCAsked
    QueueSize = 1
    None = None
INVARIANTS FailureMeansAllFailed
PROPERTIES CallReturns
