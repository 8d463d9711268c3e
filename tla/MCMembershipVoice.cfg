SPECIFICATION FairSpec
CONSTANTS
    None = None
    p1 = p1
    p2 = p2
    p3 = p3
    r1 = r1
    c1 = c1
    c2 = c2
    s1 = s1
    s2 = s2
    Peers = {p1, p2}
    Codes = {}
    Channels = {c1, c2}
    TextChannels = {}
    Spaces = {s1, s2}
    Moderators = {p2}
    Requests <- VoiceRequests
    MaxRoomPeers = 2
    UserLimit = 2
    MaxMembers = 2
    MaxSpaces = 2
    MaxListings = 2
INVARIANTS
    
    OnlyMembersInVoice
PROPERTIES
    StaleMembersSwept
    
