SPECIFICATION Spec
CONSTANTS
    fa = fa
    fb = fb
    fc = fc
    fd = fd
    out = out
    mid = mid
    uart = uart
    spi = spi
    i2c = i2c
    x = x
    y = y
    excl = excl
    crit = crit
    Leaf <- MCLeaf
    Targets <- MCTargets
    Sources <- MCSources
    MaxLeaves = 4
    MaxMerges = 3
INVARIANTS
    CountsExact
    RunsAttributed
    AnnotationsGathered
    HistoryGathered
CHECK_DEADLOCK FALSE
