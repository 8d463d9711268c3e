SPECIFICATION ClientSpec
CONSTANTS
    None = None
    ws = ws
    udp = udp
    Senders = {s1}
    Receivers = {ws, udp}
    ChunkCounts = {2, 3}
    MaxChunks = 2
    Half = 3
    Lag = 2
    MaxFrames = 6
    VoiceMixes <- ClientMixes
    MaxJobs = 3
    Cap = 3
    MaxWanted = 2
    MaxSamples = 8
    Peers = {a, b}
    NoBuffer = None
    MaxBuffers = 4
    MaxStarts = 2
    MaxStops = 2
    PoolSize = 4
    ChannelSize = 2
    FirstDelay = 2
    MaxDelay = 6
    MaxLinks = 2
    MaxAsks = 2
INVARIANTS
    FramesIntact
    NewestArrives
    QuietOutsideCalls
    CallIsWired
    PlayedInOrder
    SnapshotFresh
    NeverAllocates
    NeverGivesUp
    OrderlyLink
SYMMETRY ReceiverSymmetry
CHECK_DEADLOCK FALSE
