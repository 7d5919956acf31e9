SPECIFICATION PnioFairSpec
CONSTANTS
    GpioMax = 1
    McuMax = 1
    QueueLen = 3
    Modes = {0, 5}
    ShortPeriod = 1
    LongPeriod = 2
    TempPeriod = 2
    CycleWrap = 20
    LvEvery = 1
    Ars = {a1, a2}
    NoAr = NoAr
    TriggerVal = 6
    GpioCycle = 2
    LateMax = 2
INVARIANTS
    PnioTypeOK
    ArServed
PROPERTIES
    ConnectedWhole
    NothingDropped
    OutputsReach
