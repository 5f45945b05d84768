SPECIFICATION FairSpec
CONSTANTS
    a = a
    b = b
    w1 = w1
    w2 = w2
    r1 = r1
    Blocks = {a, b}
    Chains <- MCChains
    Writers = {w1}
    Readers = {}
    SizeOf <- MCSizeOf
    Budget = 25
    Modes = {"daemon"}
    L1MayFail = FALSE
    S3MayFail = TRUE
    MaxClock = 3
    MaxRestarts = 1
PROPERTY PutAnswered
PROPERTY BudgetRestored
