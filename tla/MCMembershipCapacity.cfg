SPECIFICATION Spec
CONSTANTS
    None = None
    p1 = p1
    p2 = p2
    p3 = p3
    r1 = r1
    c1 = c1
    c2 = c2
    s1 = s1
    s2 = s2
    Peers = {p1, p2, p3}
    Codes = {r1}
    Channels = {c1}
    TextChannels = {}
    Spaces = {s1}
    Moderators = {p2}
    Requests <- CapacityRequests
    MaxRoomPeers = 2
    UserLimit = 0
    MaxMembers = 1
    MaxSpaces = 2
    MaxListings = 2
INVARIANT RoomCapacity
