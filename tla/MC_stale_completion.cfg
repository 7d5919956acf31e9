SPECIFICATION Spec
CONSTANTS
    QueueLen = 8
    RespondTimeout = 3
    LossMax = 0
    AnswerMax = 2
    NoiseMax = 1
    PollPeriod = 2
    ReqWait = 4
    FinishTimeout = 5
    StaleTimeout = 5
    LagMax = 4
    StallMax = 0
    MbPriority = 5
    DcePriority = 4
    CounterMod = 1
INVARIANTS
    NoRawMismatch
