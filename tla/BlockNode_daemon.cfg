SPECIFICATION Spec
CONSTANTS
    a = a
    b = b
    w1 = w1
    w2 = w2
    r1 = r1
    Blocks = {a, b}
    Chains <- MCChains
    Writers = {w1, w2}
    Readers = {}
    SizeOf <- MCSizeOf
    Budget = 0
    Modes = {"daemon"}
    L1MayFail = FALSE
    S3MayFail = TRUE
    MaxClock = 3
    MaxRestarts = 2
SYMMETRY WriterSymmetry
INVARIANT LookupSeesAcked
INVARIANT IndexPublishedOnly
