CONSTANTS
    Symbols = {s1}
    Ticks = {t1, t2}
    Syncs = {y1}
    Target = 2
    MinOrder = 0
    Buying = 3
    NoTick = NoTick
SPECIFICATION FairSpec
INVARIANTS
    TypeOK
    HaltLeaksLittle
    ExposureWithinTarget
    StoppedIsQuiet
PROPERTIES
    HaltBarrier
    StopReturns
