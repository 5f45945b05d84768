SPECIFICATION MCSpec
CHECK_DEADLOCK FALSE
CONSTANTS
    e1 = e1
    e2 = e2
    L1 = L1
    L2 = L2
    s1 = s1
    s2 = s2
    b1 = b1
    b2 = b2
    Engines = {e1, e2}
    Writers = {e1}
    KvKeys = {"k"}
    KvValues = {L1, L2, s1, s2}
    LargeValues = {L1, L2}
    ChunkCount = 2
    Modes <- MCModes
    MaxKvPuts = 2
    MaxKvFaults = 1
    ArenaWorkers = {"w1"}
    ArenaKeys = {"k1", "k2"}
    ArenaValues = {"small", "big", "bigger"}
    SizeOf <- MCSizeOf
    ArenaSize = 5
    MinBytes = 2
    BatchSize = 3
    MaxWrites = 5
    Threads = {"t1", "t2"}
    Blocks = {b1, b2}
    Chains <- MCChains
    Tips = {b2}
    Spaces = {"n"}
    Settings <- MCSettings
    Opens = {"tcp"}
    MaxCabiCalls = 3
    MaxCabiFaults = 1
    MaxBuffers = 3
    Setups <- MCSetups
    WireSpaces <- MCWireSpaces
    WireKeys <- MCWireKeys
    Hashes = {1, 2}
    MaxWireCalls = 3
    MaxOutages = 1
    MaxMoves = 1
    ArenaMin = 7
    FrameCells = 9
    ChunkCells = 5
    CodecRadix = 4
    CodecItems <- MCCodecItems
    MaxEdits = 2
INVARIANT ManifestHasChunks
INVARIANT GetsAreWhole
INVARIANT NoAckedPutLost
 
 
INVARIANT MissIsReal
 
 
INVARIANT AcceptedIsCanonical
