SPECIFICATION ServerSpec
CONSTANTS
    ann = ann
    bob = bob
    Peers = {ann, bob}
    Managers = {ann}
    Silenced <- ChatSilenced
    Friends <- ChatFriends
    Mixes <- ChatMixes
    Expiring = {1}
    MaxAge = 1
    SlowChannels = {2}
    SlowSecs = 2
    StampLife = 3
    MaxMessages = 2
    MaxBlobs = 1
    FirstChannels = 2
    MaxChannel = 3
    MaxId = 4
    MaxClock = 4
    MaxCrashes = 1
    MaxTasks = 2
    None = None
    Tasks <- SoundTasks
    Program <- SoundProgram
    OnMissing <- SoundMissing
INVARIANTS
    OneMessagePerId
    StoredWhenQuiet
    OwnBlobPresent
    BudgetKept
    
    
    NoDeadlock
PROPERTIES
    DueDelivered
    HandlersEnd
CHECK_DEADLOCK FALSE
