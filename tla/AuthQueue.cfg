SPECIFICATION FairSpec
CONSTANTS
    N = 2
    OffPath = OffPath
    None = None
    QueueSize = 1
    Messages <- MCMessages
INVARIANTS NoSendAfterClose ErrorsPrivate ScheduleIndependent ErrorReported
PROPERTIES QueryReturns StartEventuallyEnds
CHECK_DEADLOCK FALSE
