SPECIFICATION Spec
CONSTANTS
    a = a
    b = b
    w1 = w1
    w2 = w2
    r1 = r1
    Blocks = {a, b}
    Chains <- MCChains
    Writers = {w1}
    Readers = {r1}
    SizeOf <- MCSizeOf
    Budget = 0
    Modes = {"daemon", "embedded"}
    L1MayFail = TRUE
    S3MayFail = TRUE
    MaxClock = 2
    MaxRestarts = 1
INVARIANT MatchedServed
