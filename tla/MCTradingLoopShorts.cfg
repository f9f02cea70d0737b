CONSTANTS
    Symbols = {s1}
    Ticks = {t1, t2}
    Syncs = {y1}
    Target = 2
    MinOrder = 0
    Buying = 3
    NoTick = NoTick
SPECIFICATION Spec
INVARIANT SellsOnlyWhatIsHeld
