SPECIFICATION Spec
CONSTANTS
    QueueLen = 8
    RespondTimeout = 4
    LossMax = 0
    AnswerMax = 2
    NoiseMax = 0
    PollPeriod = 2
    ReqWait = 10
    FinishTimeout = 20
    StaleTimeout = 20
    LagMax = 4
    StallMax = 0
    MbPriority = 5
    DcePriority = 4
    CounterMod = 1
PROPERTIES
    PollSpacing
