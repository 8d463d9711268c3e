SPECIFICATION ViewsSpec
CONSTANTS
    None = None
    p1 = p1
    p2 = p2
    p3 = p3
    r1 = r1
    c1 = c1
    c2 = c2
    s1 = s1
    s2 = s2
    b3 = b3
    x1 = x1
    g1 = g1
    n1 = n1
    n2 = n2
    h1 = h1
    l1 = l1
    l2 = l2
    Peers = {p1, p2}
    Codes = {}
    Channels = {c1, c2}
    TextChannels = {}
    Spaces = {s1}
    Moderators = {p2}
    Requests <- ChannelRequests
    MaxRoomPeers = 2
    UserLimit = 2
    MaxMembers = 2
    MaxSpaces = 2
    MaxListings = 2
    Boards = {c1, c2, b3}
    Buddies = {x1}
    Groups = {g1}
    HomeOf <- Homes
    Nowhere = nowhere
    MaxEvents = 3
    Typists = {p2, p3}
    Pens = {n1, n2}
    Pages = {c1, c2}
    TypingLimit = 2
    MaxStrokes = 4
    Self = p1
    Guests = {p2, p3}
    Lobbies = {l1, l2}
    Halls = {h1}
    Nobody = nobody
    MaxMoves = 4
INVARIANTS
    
    SharerListed
    DeletedChannelsSilent
    UserLimitRespected
    
    TypistsTimed
    NobodyMissing
SYMMETRY ViewSymmetry
CHECK_DEADLOCK FALSE
