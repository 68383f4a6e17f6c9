SPECIFICATION FairSpec
CONSTANTS
    r1 = r1  r2 = r2  r3 = r3  r4 = r4
    a = a  b = b  w1 = w1  w2 = w2
    Request = {r1, r3, r4}  Question = {a, b}
    QuestionOf <- MCQuestionOf  FlagOf <- MCFlagOf
    Root = a  Hyphened = {b}
    Worker = {w1, w2}
    QueueSize = 1  Threshold = 2
    Results = {"secure"}  Validator = TRUE
    Lifetimes = {1}  NegativeTTL = 2
    MaxTime = 1  MaxRounds = 1
    None = None
INVARIANTS EachRequestOnce PrefetchesBounded
PROPERTIES EveryRequestReplied
CHECK_DEADLOCK FALSE
