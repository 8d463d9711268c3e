SPECIFICATION ClientSpec
CONSTANTS
    None = None
    ws = ws
    udp = udp
    Senders = {s1}
    Receivers = {ws, udp}
    ChunkCounts = {2}
    MaxChunks = 2
    Half = 3
    Lag = 2
    MaxFrames = 0
    VoiceMixes <- ClientMixes
    MaxJobs = 3
    Cap = 3
    MaxWanted = 2
    MaxSamples = 0
    Peers = {a, b}
    NoBuffer = None
    MaxBuffers = 0
    MaxStarts = 2
    MaxStops = 2
    PoolSize = 4
    ChannelSize = 2
    FirstDelay = 2
    MaxDelay = 6
    MaxLinks = 0
    MaxAsks = 2
INVARIANT EngineFollowsVoice
CHECK_DEADLOCK FALSE
