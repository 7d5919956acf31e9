SPECIFICATION SysFairSpec
CONSTANTS
    Modes = {1, 3}
    PinMax = 0
    GpioMax = 0
    McuMax = 0
    LvAmt = 3
    TempAmt = 3
    ConvMax = 1
    QueueLen = 2
    WaitTicks = 2
    InputEvery = 2
    ShortPeriod = 2
    LongPeriod = 3
    TempPeriod = 9
    CycleWrap = 16
    LvEvery = 2
    InitTicks = 2
PROPERTIES
    ModeDelivers
