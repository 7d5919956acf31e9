SPECIFICATION SysFairSpec
CONSTANTS
    Modes = {1, 3, 4, 6}
    PinMax = 0
    GpioMax = 1
    McuMax = 0
    LvAmt = 2
    TempAmt = 3
    ConvMax = 1
    QueueLen = 2
    WaitTicks = 2
    InputEvery = 2
    ShortPeriod = 3
    LongPeriod = 9
    TempPeriod = 9
    CycleWrap = 16
    LvEvery = 2
    InitTicks = 2
INVARIANTS
    LoopTypeOK
PROPERTIES
    ModeDelivers
    OutputsFollow
