SPECIFICATION Spec
CONSTANTS
    a = a
    b = b
    w1 = w1
    w2 = w2
    r1 = r1
    Blocks = {a, b}
    Chains <- MCChains
    Writers = {w1}
    Readers = {}
    SizeOf <- MCTightSizeOf
    Budget = 25
    Modes = {"daemon", "embedded"}
    L1MayFail = TRUE
    S3MayFail = TRUE
    MaxClock = 4
    MaxRestarts = 1
INVARIANT IndexBacked
PROPERTY EvictsOldest
PROPERTY CycleMeetsTarget
