SPECIFICATION SysFairSpec
CONSTANTS
    Modes = {0, 1, 6}
    PinMax = 1
    GpioMax = 0
    McuMax = 0
    LvAmt = 2
    TempAmt = 3
    ConvMax = 1
    QueueLen = 2
    WaitTicks = 2
    InputEvery = 2
    ShortPeriod = 3
    LongPeriod = 9
    TempPeriod = 9
    CycleWrap = 16
    LvEvery = 2
    InitTicks = 2
INVARIANTS
    TypeOK
    BusShared
    SamplingAlive
    NeverBrokenOff
PROPERTIES
    Routed
    InputsReported
    ModeDelivers
