SPECIFICATION MCSpec
CHECK_DEADLOCK FALSE
SYMMETRY MCSymmetry
CONSTANTS
    w1 = w1
    w2 = w2
    c1 = c1
    c2 = c2
    body1 = body1
    body2 = body2
    Clients = {c1, c2}
    Payloads = {body1, body2}
    Absent = Absent
    Backends <- MCBackends
    MaxRetries = 1
    MaxFaults = 2
    MaxCalls = 3
    WalWriters = {w1, w2}
    WriterNs <- MCWriterNs
    WriterId <- MCWriterId
    ListedUnder <- MCListedUnder
    WalSeeds <- MCWalSeeds
    MaxWalEpoch = 1
    WalCalls <- MCWalCalls
    MaxWalFaults = 1
    CodecRadix = 8
    MaxEdits = 0
    CodecItems = {}
    FileItems <- MCFileItems
    FileRanges <- MCFileRanges
    CompressCfgs <- MCCompressCfgs
    MaxFileEdits = 1
    Documents <- MCDocuments
    MaxDocuments = 4
    FlatThreads = {"f1", "f2"}
    FileKeys <- MCFileKeys
    PutsOf <- MCPutsOf
    Chunks = 2
    MaxPuts = 3
    PxTenants = {"t", "u"}
    PxTokens = {1, 2}
    PxPayloads = {"p", "q"}
    MaxChain = 2
    Guardrail <- MCGuardrail
    EntrySize = 2
    U64Max = 400
    MaxPool = 1
    PxBudgets <- MCPxBudgets
    Recorders = {"r1", "r2"}
    Samples = {0, 3, 9}
    HistBuckets = 3
    Percentiles = {50, 90, 100}
    HistBounds <- MCHistBounds
INVARIANT PublishedKept
INVARIANT ObjectsReadBack
INVARIANT RangeReadExact
INVARIANT OutcomeDeterministic
INVARIANT ReadsOwnPayload
INVARIANT LookupLatest
INVARIANT TotalsAgree
PROPERTY LookupExact
PROPERTY SwapsAreAtomic
