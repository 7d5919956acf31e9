SPECIFICATION FairSpec
CONSTANTS
    QueueLen = 1
    RespondTimeout = 3
    LossMax = 1
    AnswerMax = 2
    NoiseMax = 0
    PollPeriod = 2
    ReqWait = 4
    FinishTimeout = 8
    StaleTimeout = 8
    LagMax = 1
    StallMax = 1
    MbPriority = 5
    DcePriority = 4
    CounterMod = 2
INVARIANTS
    TypeOK
    FreshReply
    NoRawMismatch
    NeverBusy
    Accounting
PROPERTIES
    PublishedSpec
    PollsForever
    SilenceIsShown
