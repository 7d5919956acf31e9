SPECIFICATION CritSpec
CONSTANTS
    Contexts = {poll, rtu, timer}
    DepthMax = 3
INVARIANTS
    Exclusive
    Restored
