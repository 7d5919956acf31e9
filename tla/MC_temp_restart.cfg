SPECIFICATION SysFairSpec
CONSTANTS
    Modes = {6}
    PinMax = 0
    GpioMax = 0
    McuMax = 0
    LvAmt = 2
    TempAmt = 12
    ConvMax = 1
    QueueLen = 2
    WaitTicks = 2
    InputEvery = 2
    ShortPeriod = 3
    LongPeriod = 9
    TempPeriod = 9
    CycleWrap = 16
    LvEvery = 2
    InitTicks = 2
PROPERTIES
    ModeDelivers
