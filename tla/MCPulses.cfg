SPECIFICATION FairSpec
CONSTANTS
    Axes = {"X", "Y"}
    Compare = 3
    MinPeriod = 5
    MaxPeriod = 20
    FTIMER = 1
    MICROS = 4
    Wrap = 64
    TickTime = 3
    Latency = 2
    Delays = {0, 25, 36, 100}
INVARIANTS
    NoStepLost
    PinsAtRest
PROPERTY
    PulseEnds
