SPECIFICATION Spec
CONSTANTS
    QueueLen = 1
    RespondTimeout = 1
    LossMax = 0
    AnswerMax = 1
    NoiseMax = 1
    PollPeriod = 1
    ReqWait = 1
    FinishTimeout = 2
    StaleTimeout = 1
    LagMax = 0
    StallMax = 2
    MbPriority = 4
    DcePriority = 4
    CounterMod = 1
INVARIANTS
    StaleBound
    RunResConserved
    ResponseTimed
