SPECIFICATION FairLockSpec
CONSTANTS
    None = None
    Tasks <- DisconnectTasks
    Program <- ProgramOf
    OnMissing <- OnMissingOf
PROPERTY HandlersEnd
CHECK_DEADLOCK FALSE
