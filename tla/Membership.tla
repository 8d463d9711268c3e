----------------------------- MODULE Membership -----------------------------
(***************************************************************************)
(* Who is in which room and space of the signaling server.                 *)
(*                                                                         *)
(* The server keeps one membership fact in two places: a connection holds  *)
(* its own room code and space id (Peer, each behind a lock of its own),   *)
(* and the shared ServerState holds the peer_ids and the active sharer of  *)
(* every room and the member_ids of every space (one RwLock).  A handler   *)
(* takes these locks one after the other, and the handlers of different    *)
(* connections interleave between two acquisitions.                        *)
(*                                                                         *)
(* The requests of ONE connection are handled one at a time, in order      *)
(* (connection.rs awaits each handler), so every peer has one program      *)
(* counter, pc[p], and the locals of the handler it runs, loc[p].  One     *)
(* action is one critical section under the state lock.  It also holds     *)
(* the adjacent accesses that commute with every step another connection   *)
(* can take there: they are named at each action.                          *)
(*                                                                         *)
(* The room of a space channel is keyed "sp:<space>:ch:<channel>", and     *)
(* channel ids are never given out twice, so a channel stands here for     *)
(* its own room.  Sending a notification changes none of this state.       *)
(***************************************************************************)
EXTENDS Integers, FiniteSets

CONSTANTS
    Peers,         \* connections: the server gives each one a fresh id
    Codes,         \* codes of stand-alone rooms
    Channels,      \* channel ids, and the rooms of these channels
    TextChannels,  \* the channels created with type Text
    Spaces,        \* space ids
    Moderators,    \* peers whose role grants MANAGE_CHANNELS and KICK_MEMBERS
    Requests,      \* the kinds of request the clients of an instance send
    MaxRoomPeers,  \* LIMITS.max_room_peers
    UserLimit,     \* user_limit of the channels, 0 for none
    MaxMembers,    \* LIMITS.max_members_per_space
    MaxSpaces,     \* LIMITS.max_spaces_per_user
    MaxListings,   \* bound: how often one peer is listed in one room
    None

Rooms == Codes \cup Channels

ASSUME IdsAssumption ==
    /\ Codes \cap Channels = {}
    /\ TextChannels \subseteq Channels
    /\ Moderators \subseteq Peers
    /\ None \notin Peers \cup Rooms \cup Spaces

ASSUME BoundsAssumption ==
    /\ IsFiniteSet(Peers)
    /\ MaxRoomPeers \in Nat \ {0} /\ UserLimit \in Nat
    /\ MaxMembers \in Nat \ {0}   /\ MaxSpaces \in Nat
    /\ MaxListings \in Nat \ {0}

VARIABLES
    conn,          \* the connection: "new", "up", "closing", "gone"
    pc,            \* the critical section the running handler enters next
    loc,           \* the locals that handler keeps from one to the next
    roomCode,      \* Peer.room_code (and its lock-free cache)
    spaceId,       \* Peer.space_id
    rooms,         \* keys of ServerState.rooms
    peerIds,       \* Room.peer_ids, a vector: how often it holds each peer
    activeShare,   \* Room.active_screen_share_peer_id
    spaces,        \* keys of ServerState.spaces
    channels,      \* Space.channels
    ownerId,       \* Space.owner_id
    memberIds,     \* Space.member_ids
    allocated      \* the space and channel ids given out so far

peerVars  == <<conn, roomCode, spaceId>>
roomVars  == <<rooms, peerIds, activeShare>>
spaceVars == <<spaces, channels, ownerId, memberIds, allocated>>
vars == <<pc, loc, peerVars, roomVars, spaceVars>>

Steps == { "idle", "leaveBegin", "leaveUnlist", "joinCommit", "spaceUnmember",
           "roomCommit", "spaceCommit", "channelCommit", "dropUnlist",
           "dropForget", "reset" }

Fields == { "code", "space" }

Locals == [ room  : Rooms \cup {None},     \* the room code that was read
            space : Spaces \cup {None},    \* the space id that was read
            chan  : Channels \cup {None},  \* the channel that was asked for
            todo  : SUBSET (Peers \X Fields),   \* the fields yet to be cleared
            next  : Steps ]                \* what follows handle_leave_channel

NoLocals == [ room |-> None, space |-> None, chan |-> None,
              todo |-> {}, next |-> "idle" ]

-----------------------------------------------------------------------------
(* What the handlers read. *)

Idle(p) == conn[p] = "up" /\ pc[p] = "idle"

NewRoom == [ p \in Peers |-> 0 ]

Listed(p, r) == r \in rooms /\ peerIds[r][p] > 0

(* The length of a list: the number of its entries, the n-th of each peer. *)
Entries(list) == { e \in Peers \X (1 .. MaxListings) : e[2] <= list[e[1]] }

RoomLen(r) == Cardinality(Entries(peerIds[r]))

Without(p, r) == [ peerIds EXCEPT ![r][p] = 0 ]

Connected == { p \in Peers : conn[p] \in {"up", "closing"} }

LiveChannels == UNION { channels[s] : s \in spaces }

Owned(p) == { s \in spaces : ownerId[s] = p }

MayManage(p, s) == p \in Moderators \/ ownerId[s] = p

(* The peers relay_audio sends a frame of p to. *)
Recipients(p) ==
    { q \in Connected \ {p} : roomCode[p] # None /\ Listed(q, roomCode[p]) }

-----------------------------------------------------------------------------
Init ==
    /\ conn = [ p \in Peers |-> "new" ]
    /\ pc = [ p \in Peers |-> "idle" ]
    /\ loc = [ p \in Peers |-> NoLocals ]
    /\ roomCode = [ p \in Peers |-> None ]
    /\ spaceId = [ p \in Peers |-> None ]
    /\ rooms = {}
    /\ peerIds = [ r \in Rooms |-> NewRoom ]
    /\ activeShare = [ r \in Rooms |-> None ]
    /\ spaces = {}
    /\ channels = [ s \in Spaces |-> {} ]
    /\ ownerId = [ s \in Spaces |-> None ]
    /\ memberIds = [ s \in Spaces |-> {} ]
    /\ allocated = {}

(* Control: the handler of p ends, or goes on at step with new locals. *)
Finish(p) ==
    /\ pc' = [ pc EXCEPT ![p] = "idle" ]
    /\ loc' = [ loc EXCEPT ![p] = NoLocals ]

Goto(p, step, locals) ==
    /\ pc' = [ pc EXCEPT ![p] = step ]
    /\ loc' = [ loc EXCEPT ![p] = locals ]

Control == <<pc, loc>>

-----------------------------------------------------------------------------
(* A peer connects; it is in no room and no space. *)
Connect(p) ==
    /\ conn[p] = "new"
    /\ conn' = [ conn EXCEPT ![p] = "up" ]
    /\ UNCHANGED <<Control, roomCode, spaceId, roomVars, spaceVars>>

(* handle_create_room: one critical section.  The previous room, if any,   *)
(* is not left.  A code is drawn again while a room has it.                *)
CreateRoom(p) ==
    /\ "CreateRoom" \in Requests /\ Idle(p)
    /\ \E r \in Codes \ rooms :
          /\ roomCode' = [ roomCode EXCEPT ![p] = r ]
          /\ rooms' = rooms \cup {r}
          /\ peerIds' = [ peerIds EXCEPT ![r] = [ NewRoom EXCEPT ![p] = 1 ] ]
          /\ activeShare' = [ activeShare EXCEPT ![r] = None ]
    /\ UNCHANGED <<Control, conn, spaceId, spaceVars>>

(* handle_join_room, the check under the read lock: the room exists and    *)
(* has a place.  (The password is right in every request modelled.)        *)
JoinRoom(p) ==
    /\ "JoinRoom" \in Requests /\ Idle(p)
    /\ \E r \in Codes \cap rooms :
          /\ RoomLen(r) < MaxRoomPeers
          /\ Goto(p, "roomCommit", [ NoLocals EXCEPT !.room = r ])
    /\ UNCHANGED <<peerVars, roomVars, spaceVars>>

(* handle_join_room, the write lock: the code is set whether or not the    *)
(* room is still there, the peer is listed only if it is.                  *)
JoinRoomCommit(p) ==
    /\ pc[p] = "roomCommit"
    /\ LET r == loc[p].room IN
          /\ roomCode' = [ roomCode EXCEPT ![p] = r ]
          /\ peerIds[r][p] < MaxListings
          /\ peerIds' = IF r \in rooms THEN [ peerIds EXCEPT ![r][p] = @ + 1 ]
                                       ELSE peerIds
    /\ Finish(p)
    /\ UNCHANGED <<conn, spaceId, rooms, activeShare, spaceVars>>

(* Mutant: the slot is taken from whoever has it. *)
StartShareTaking(p) ==
    /\ "StartShare" \in Requests /\ Idle(p)
    /\ roomCode[p] \in rooms
    /\ activeShare' = [ activeShare EXCEPT ![roomCode[p]] = p ]
    /\ UNCHANGED <<Control, peerVars, rooms, peerIds, spaceVars>>

(* handle_start_screen_share: one critical section; the peer's own room    *)
(* code decides, its listing is not looked at.                             *)
StartShare(p) ==
    /\ "StartShare" \in Requests /\ Idle(p)
    /\ roomCode[p] \in rooms
    /\ activeShare[roomCode[p]] \in {None, p}
    /\ activeShare' = [ activeShare EXCEPT ![roomCode[p]] = p ]
    /\ UNCHANGED <<Control, peerVars, rooms, peerIds, spaceVars>>

(* stop_screen_share_in_room: a no-op unless sharer is the active one.     *)
StopShareIn(r, sharer) ==
    activeShare' = IF r \in rooms /\ activeShare[r] = sharer
                   THEN [ activeShare EXCEPT ![r] = None ] ELSE activeShare

(* handle_stop_screen_share.  The room code is read before the write lock  *)
(* is taken: nobody but the sharer itself takes the slot from it, so the   *)
(* second step commutes with what others do in between.                    *)
StopShare(p) ==
    /\ "StopShare" \in Requests /\ Idle(p)
    /\ roomCode[p] # None
    /\ StopShareIn(roomCode[p], p)
    /\ UNCHANGED <<Control, peerVars, rooms, peerIds, spaceVars>>

-----------------------------------------------------------------------------
(* handle_leave_channel, its first half: the room code is read, and a      *)
(* share of the peer stopped (for the two as one step, see StopShare).     *)
(* A peer that is in no channel leaves nothing.  The handler is called     *)
(* for LeaveChannel, and by the handlers of JoinChannel and LeaveSpace.    *)
LeaveBegin(p) ==
    /\ pc[p] = "leaveBegin"
    /\ roomCode[p] \in Channels
    /\ StopShareIn(roomCode[p], p)
    /\ Goto(p, "leaveUnlist", [ loc[p] EXCEPT !.room = roomCode[p] ])
    /\ UNCHANGED <<peerVars, rooms, peerIds, spaceVars>>

Continue(p) ==
    IF loc[p].next = "idle" THEN Finish(p)
    ELSE Goto(p, loc[p].next, [ loc[p] EXCEPT !.room = None, !.next = "idle" ])

LeaveNothing(p) ==
    /\ pc[p] = "leaveBegin"
    /\ roomCode[p] \notin Channels
    /\ Continue(p)
    /\ UNCHANGED <<peerVars, roomVars, spaceVars>>

(* Mutant: the list is left as it is. *)
LeaveUnlistForgetting(p) ==
    /\ pc[p] = "leaveUnlist"
    /\ roomCode' = [ roomCode EXCEPT ![p] = None ]
    /\ Continue(p)
    /\ UNCHANGED <<conn, spaceId, roomVars, spaceVars>>

(* Its second half: the peer is taken off the list of the room it read,    *)
(* which stays even when empty, and its room code is cleared.  (Others     *)
(* only ever clear a room code: the order of the two does not matter.)     *)
LeaveUnlist(p) ==
    /\ pc[p] = "leaveUnlist"
    /\ peerIds' = Without(p, loc[p].room)
    /\ roomCode' = [ roomCode EXCEPT ![p] = None ]
    /\ Continue(p)
    /\ UNCHANGED <<conn, spaceId, rooms, activeShare, spaceVars>>

LeaveChannel(p) ==
    /\ "LeaveChannel" \in Requests /\ Idle(p)
    /\ Goto(p, "leaveBegin", NoLocals)
    /\ UNCHANGED <<peerVars, roomVars, spaceVars>>

(* handle_join_channel: the space id is read, the current channel left.    *)
JoinChannel(p) ==
    /\ "JoinChannel" \in Requests /\ Idle(p)
    /\ spaceId[p] # None
    /\ \E c \in Channels \cap allocated :
          Goto(p, "leaveBegin", [ NoLocals EXCEPT !.space = spaceId[p],
                                                  !.chan = c,
                                                  !.next = "joinCommit" ])
    /\ UNCHANGED <<peerVars, roomVars, spaceVars>>

(* Mutants: a channel that was deleted meanwhile is entered, or one place  *)
(* too many is given.                                                      *)
CanEnterDeleted(c, s) ==
    /\ c \notin TextChannels
    /\ UserLimit > 0 => RoomLen(c) < UserLimit

CanEnterFull(c, s) ==
    /\ s \in spaces /\ c \in channels[s]
    /\ c \notin TextChannels
    /\ UserLimit > 0 => RoomLen(c) <= UserLimit

(* The channel is still one of the space read before, is a voice channel   *)
(* and has a place.  A limit of 0 is no limit.                             *)
CanEnter(c, s) ==
    /\ s \in spaces /\ c \in channels[s]
    /\ c \notin TextChannels
    /\ UserLimit > 0 => RoomLen(c) < UserLimit

(* handle_join_channel, the write lock: a room that was swept is made      *)
(* anew.  Whether the peer still is a member of the space is not asked.    *)
JoinCommit(p) ==
    /\ pc[p] = "joinCommit"
    /\ LET c == loc[p].chan IN
          /\ CanEnter(c, loc[p].space)
          /\ peerIds[c][p] < MaxListings
          /\ roomCode' = [ roomCode EXCEPT ![p] = c ]
          /\ rooms' = rooms \cup {c}
          /\ peerIds' = [ peerIds EXCEPT ![c][p] = @ + 1 ]
    /\ Finish(p)
    /\ UNCHANGED <<conn, spaceId, activeShare, spaceVars>>

JoinRefused(p) ==
    /\ pc[p] = "joinCommit"
    /\ ~CanEnter(loc[p].chan, loc[p].space)
    /\ Finish(p)
    /\ UNCHANGED <<peerVars, roomVars, spaceVars>>

-----------------------------------------------------------------------------
(* handle_create_space: the creator is its first member, and a voice       *)
(* channel comes with it.  The previous space is not left.  (Only the      *)
(* owner's own handler changes what it owns: the check commutes.)          *)
CreateSpace(p) ==
    /\ "CreateSpace" \in Requests /\ Idle(p)
    /\ Cardinality(Owned(p)) < MaxSpaces
    /\ \E s \in Spaces \ allocated, c \in Channels \ (TextChannels \cup allocated) :
          /\ spaceId' = [ spaceId EXCEPT ![p] = s ]
          /\ rooms' = rooms \cup {c}
          /\ spaces' = spaces \cup {s}
          /\ channels' = [ channels EXCEPT ![s] = {c} ]
          /\ ownerId' = [ ownerId EXCEPT ![s] = p ]
          /\ memberIds' = [ memberIds EXCEPT ![s] = {p} ]
          /\ allocated' = allocated \cup {s, c}
    /\ UNCHANGED <<Control, conn, roomCode, peerIds, activeShare>>

(* handle_join_space, under the read lock: the invite names a space.       *)
JoinSpace(p) ==
    /\ "JoinSpace" \in Requests /\ Idle(p)
    /\ \E s \in spaces : Goto(p, "spaceCommit", [ NoLocals EXCEPT !.space = s ])
    /\ UNCHANGED <<peerVars, roomVars, spaceVars>>

(* Mutant: a full space gets a member. *)
JoinSpaceCommitFull(p) ==
    /\ pc[p] = "spaceCommit"
    /\ LET s == loc[p].space
           present == memberIds[s] \cap Connected
       IN  /\ spaceId' = [ spaceId EXCEPT ![p] = s ]
           /\ s \in spaces
           /\ memberIds' =
                 [ memberIds EXCEPT ![s] =
                     IF Cardinality(present) <= MaxMembers
                     THEN present \cup {p} ELSE present ]
    /\ Finish(p)
    /\ UNCHANGED <<conn, roomCode, roomVars, spaces, channels, ownerId, allocated>>

(* handle_join_space, the write lock: the space id is set first, whatever  *)
(* becomes of the join.  Members whose connection is gone are dropped; a   *)
(* full space refuses a peer that is not a member yet, which keeps the     *)
(* space id.  (Everybody is signed in, to an account of its own: the code  *)
(* also drops other connections of the same account.)                      *)
JoinSpaceCommit(p) ==
    /\ pc[p] = "spaceCommit"
    /\ LET s == loc[p].space
           present == memberIds[s] \cap Connected
       IN  /\ spaceId' = [ spaceId EXCEPT ![p] = s ]
           /\ memberIds' =
                 IF s \in spaces
                 THEN [ memberIds EXCEPT ![s] =
                          IF Cardinality(present) < MaxMembers
                          THEN present \cup {p} ELSE present ]
                 ELSE memberIds
    /\ Finish(p)
    /\ UNCHANGED <<conn, roomCode, roomVars, spaces, channels, ownerId, allocated>>

(* Mutant: the current channel is not left. *)
LeaveSpaceTalking(p) ==
    /\ "LeaveSpace" \in Requests /\ Idle(p)
    /\ spaceId[p] # None
    /\ Goto(p, "spaceUnmember", [ NoLocals EXCEPT !.space = spaceId[p] ])
    /\ UNCHANGED <<peerVars, roomVars, spaceVars>>

(* handle_leave_space: the space id is read, the current channel left.     *)
LeaveSpace(p) ==
    /\ "LeaveSpace" \in Requests /\ Idle(p)
    /\ spaceId[p] # None
    /\ Goto(p, "leaveBegin", [ NoLocals EXCEPT !.space = spaceId[p],
                                               !.next = "spaceUnmember" ])
    /\ UNCHANGED <<peerVars, roomVars, spaceVars>>

(* handle_leave_space, the write lock, and the space id cleared after it.  *)
SpaceUnmember(p) ==
    /\ pc[p] = "spaceUnmember"
    /\ memberIds' = [ memberIds EXCEPT ![loc[p].space] = @ \ {p} ]
    /\ spaceId' = [ spaceId EXCEPT ![p] = None ]
    /\ Finish(p)
    /\ UNCHANGED <<conn, roomCode, roomVars, spaces, channels, ownerId, allocated>>

-----------------------------------------------------------------------------
(* handle_create_channel, up to the write lock: the space id is read and   *)
(* the permission checked.                                                 *)
CreateChannel(p) ==
    /\ "CreateChannel" \in Requests /\ Idle(p)
    /\ spaceId[p] \in spaces /\ MayManage(p, spaceId[p])
    /\ Goto(p, "channelCommit", [ NoLocals EXCEPT !.space = spaceId[p] ])
    /\ UNCHANGED <<peerVars, roomVars, spaceVars>>

(* handle_create_channel, the write lock: the room is inserted even if the *)
(* space is gone by now, the channel only if it is not.                    *)
CreateChannelCommit(p) ==
    /\ pc[p] = "channelCommit"
    /\ \E c \in Channels \ allocated :
          /\ allocated' = allocated \cup {c}
          /\ rooms' = rooms \cup {c}
          /\ channels' = IF loc[p].space \in spaces
                         THEN [ channels EXCEPT ![loc[p].space] = @ \cup {c} ]
                         ELSE channels
    /\ Finish(p)
    /\ UNCHANGED <<peerVars, peerIds, activeShare, spaces, ownerId, memberIds>>

(* A room that is removed takes its list and its sharer with it. *)
RemoveRooms(gone) ==
    /\ rooms' = rooms \ gone
    /\ peerIds' = [ r \in Rooms |-> IF r \in gone THEN NewRoom ELSE peerIds[r] ]
    /\ activeShare' = [ r \in Rooms |-> IF r \in gone THEN None ELSE activeShare[r] ]

(* The handler of p goes on to clear fields of other peers, one at a time. *)
ResetLater(p, todo) ==
    IF todo = {} THEN Finish(p)
    ELSE Goto(p, "reset", [ NoLocals EXCEPT !.todo = todo ])

(* handle_delete_channel, the write lock: the last channel of a space      *)
(* stays; the room goes with the channel.  The room codes of those it      *)
(* listed are cleared later, without the lock.  (The space id and the      *)
(* permission are read before, but nothing between the two steps changes   *)
(* what the second does, unless the space is gone: see StateLock.)         *)
DeleteChannel(p) ==
    /\ "DeleteChannel" \in Requests /\ Idle(p)
    /\ spaceId[p] \in spaces /\ MayManage(p, spaceId[p])
    /\ Cardinality(channels[spaceId[p]]) > 1
    /\ \E c \in channels[spaceId[p]] :
          /\ channels' = [ channels EXCEPT ![spaceId[p]] = @ \ {c} ]
          /\ RemoveRooms({c})
          /\ ResetLater(p, { q \in Connected : Listed(q, c) } \X {"code"})
    /\ UNCHANGED <<peerVars, spaces, ownerId, memberIds, allocated>>

(* handle_delete_space, the write lock, where the ownership is checked.    *)
(* Both fields of every member are cleared later, without the lock: the    *)
(* room code too, whichever room it names.                                 *)
DeleteSpace(p) ==
    /\ "DeleteSpace" \in Requests /\ Idle(p)
    /\ spaceId[p] \in spaces /\ ownerId[spaceId[p]] = p
    /\ LET s == spaceId[p] IN
          /\ spaces' = spaces \ {s}
          /\ channels' = [ channels EXCEPT ![s] = {} ]
          /\ ownerId' = [ ownerId EXCEPT ![s] = None ]
          /\ memberIds' = [ memberIds EXCEPT ![s] = {} ]
          /\ RemoveRooms(channels[s])
          /\ ResetLater(p, (memberIds[s] \cap Connected) \X Fields)
    /\ UNCHANGED <<peerVars, allocated>>

(* handle_kick_member and remove_member_from_space, the write lock.  The   *)
(* target is connected and a member; a moderator cannot remove the owner   *)
(* or another moderator.  The room that lists the target is not touched.   *)
Kick(p) ==
    /\ "Kick" \in Requests /\ Idle(p)
    /\ spaceId[p] \in spaces /\ MayManage(p, spaceId[p])
    /\ LET s == spaceId[p] IN
       \E q \in (memberIds[s] \cap Connected) \ {p, ownerId[s]} :
          /\ q \in Moderators => ownerId[s] = p
          /\ memberIds' = [ memberIds EXCEPT ![s] = @ \ {q} ]
          /\ ResetLater(p, {q} \X Fields)
    /\ UNCHANGED <<peerVars, roomVars, spaces, channels, ownerId, allocated>>

(* One field of one peer is cleared, whatever it holds by now.  Each is    *)
(* under a lock of its own.  (The order is the code's, member by member;   *)
(* here it is any.)                                                        *)
Reset(p) ==
    /\ pc[p] = "reset"
    /\ \E t \in loc[p].todo :
          /\ roomCode' = IF t[2] = "code"
                         THEN [ roomCode EXCEPT ![t[1]] = None ] ELSE roomCode
          /\ spaceId' = IF t[2] = "space"
                        THEN [ spaceId EXCEPT ![t[1]] = None ] ELSE spaceId
          /\ ResetLater(p, loc[p].todo \ {t})
    /\ UNCHANGED <<conn, roomVars, spaceVars>>

-----------------------------------------------------------------------------
(* Mutant: the share goes on. *)
DropBeginSharing(p) ==
    /\ IF roomCode[p] = None THEN Goto(p, "dropForget", NoLocals)
       ELSE Goto(p, "dropUnlist", [ NoLocals EXCEPT !.room = roomCode[p] ])
    /\ UNCHANGED <<roomCode, spaceId, roomVars, spaceVars>>

(* handle_disconnect, up to its first write lock: the room code is read,   *)
(* and a share of the peer stopped (as in LeaveBegin).  It serves the      *)
(* LeaveRoom request, and the end of the connection.                       *)
DropBegin(p) ==
    /\ StopShareIn(roomCode[p], p)
    /\ IF roomCode[p] = None THEN Goto(p, "dropForget", NoLocals)
       ELSE Goto(p, "dropUnlist", [ NoLocals EXCEPT !.room = roomCode[p] ])
    /\ UNCHANGED <<roomCode, spaceId, rooms, peerIds, spaceVars>>

LeaveRoom(p) ==
    /\ "LeaveRoom" \in Requests /\ Idle(p)
    /\ DropBegin(p) /\ UNCHANGED conn

Hangup(p) ==
    /\ "Hangup" \in Requests /\ Idle(p)
    /\ conn' = [ conn EXCEPT ![p] = "closing" ]
    /\ DropBegin(p)

(* Mutant: a room that is left empty stays. *)
DropUnlistKeeping(p) ==
    /\ pc[p] = "dropUnlist"
    /\ LET r == loc[p].room
       IN  /\ peerIds' = Without(p, r)
           /\ roomCode' = IF r \in Channels
                          THEN [ roomCode EXCEPT ![p] = None ] ELSE roomCode
    /\ Goto(p, "dropForget", NoLocals)
    /\ UNCHANGED <<conn, spaceId, rooms, activeShare, spaceVars>>

(* The peer is taken off the list of the room it read; a stand-alone room  *)
(* that is left empty is removed.  For a channel the room code is cleared  *)
(* here, for a stand-alone room only at the end.                           *)
DropUnlist(p) ==
    /\ pc[p] = "dropUnlist"
    /\ LET r == loc[p].room
           emptied == r \in Codes /\ Without(p, r)[r] = NewRoom
       IN  /\ peerIds' = Without(p, r)
           /\ rooms' = IF emptied THEN rooms \ {r} ELSE rooms
           /\ activeShare' = IF emptied THEN [ activeShare EXCEPT ![r] = None ]
                                        ELSE activeShare
           /\ roomCode' = IF r \in Channels
                          THEN [ roomCode EXCEPT ![p] = None ] ELSE roomCode
    /\ Goto(p, "dropForget", NoLocals)
    /\ UNCHANGED <<conn, spaceId, spaceVars>>

(* The rest of handle_disconnect: the peer leaves its space, if it has     *)
(* one, and its fields are cleared.  A closing connection is then removed  *)
(* from the peers.  (After the space's write lock only fields that nobody  *)
(* else sets are written.)                                                 *)
DropForget(p) ==
    /\ pc[p] = "dropForget"
    /\ memberIds' = IF spaceId[p] = None THEN memberIds
                    ELSE [ memberIds EXCEPT ![spaceId[p]] = @ \ {p} ]
    /\ spaceId' = [ spaceId EXCEPT ![p] = None ]
    /\ roomCode' = [ roomCode EXCEPT ![p] = None ]
    /\ conn' = [ conn EXCEPT ![p] = IF @ = "closing" THEN "gone" ELSE @ ]
    /\ Finish(p)
    /\ UNCHANGED <<roomVars, spaces, channels, ownerId, allocated>>

(* clear_session_state_on_identity_switch, for Login and CreateAccount on  *)
(* a connection in use: both fields are cleared, no list is touched.  The  *)
(* spaces of the old identity are not the peer's any more.                 *)
SwitchIdentity(p) ==
    /\ "SwitchIdentity" \in Requests /\ Idle(p)
    /\ roomCode' = [ roomCode EXCEPT ![p] = None ]
    /\ spaceId' = [ spaceId EXCEPT ![p] = None ]
    /\ ownerId' = [ s \in Spaces |-> IF ownerId[s] = p THEN None ELSE ownerId[s] ]
    /\ UNCHANGED <<Control, conn, roomVars, spaces, channels, memberIds, allocated>>

(* Mutants: a room goes for its age alone, or stale members stay. *)
SweepOccupied ==
    /\ \E old \in SUBSET rooms : RemoveRooms(old)
    /\ memberIds' = [ s \in Spaces |-> memberIds[s] \cap Connected ]
    /\ UNCHANGED <<Control, peerVars, spaces, channels, ownerId, allocated>>

SweepRoomsOnly ==
    /\ \E old \in SUBSET { r \in rooms : peerIds[r] = NewRoom } : RemoveRooms(old)
    /\ UNCHANGED <<Control, peerVars, spaceVars>>

(* The sweeper's turn, every 60 s, under the write lock: rooms that are    *)
(* empty and old enough go, those of channels too, and members whose       *)
(* connection is gone.  Ages are not modelled: any empty room may be old.  *)
Sweep ==
    /\ \E old \in SUBSET { r \in rooms : peerIds[r] = NewRoom } : RemoveRooms(old)
    /\ memberIds' = [ s \in Spaces |-> memberIds[s] \cap Connected ]
    /\ UNCHANGED <<Control, peerVars, spaces, channels, ownerId, allocated>>

-----------------------------------------------------------------------------
(* A client sends a request, or its connection begins or ends. *)
Request(p) ==
    \/ Connect(p)      \/ CreateRoom(p)    \/ JoinRoom(p)      \/ LeaveRoom(p)
    \/ StartShare(p)   \/ StopShare(p)     \/ JoinChannel(p)   \/ LeaveChannel(p)
    \/ CreateSpace(p)  \/ JoinSpace(p)     \/ LeaveSpace(p)    \/ DeleteSpace(p)
    \/ CreateChannel(p) \/ DeleteChannel(p) \/ Kick(p)
    \/ SwitchIdentity(p) \/ Hangup(p)

(* The handler of p goes on. *)
Proceed(p) ==
    \/ JoinRoomCommit(p) \/ JoinCommit(p)    \/ JoinRefused(p)
    \/ LeaveBegin(p)     \/ LeaveNothing(p)  \/ LeaveUnlist(p)
    \/ JoinSpaceCommit(p) \/ SpaceUnmember(p) \/ CreateChannelCommit(p)
    \/ Reset(p) \/ DropUnlist(p) \/ DropForget(p)

Next == Sweep \/ \E p \in Peers : Request(p) \/ Proceed(p)

Spec == Init /\ [][Next]_vars

(* The runtime resumes a handler that can go on (the state lock is fair,   *)
(* see StateLock), and the sweeper's timer keeps firing.  No client has to *)
(* send anything.                                                          *)
Fairness == WF_vars(Sweep) /\ \A p \in Peers : WF_vars(Proceed(p))

FairSpec == Spec /\ Fairness

-----------------------------------------------------------------------------
(* TypeOK: the shape of the state.  A room or a space that is not there    *)
(* has no content, and a room code or a space id may name one that is not  *)
(* there any more.                                                         *)
ControlOK ==
    /\ pc \in [ Peers -> Steps ]
    /\ loc \in [ Peers -> Locals ]

PeersOK ==
    /\ conn \in [ Peers -> {"new", "up", "closing", "gone"} ]
    /\ roomCode \in [ Peers -> Rooms \cup {None} ]
    /\ spaceId \in [ Peers -> Spaces \cup {None} ]

RoomsOK ==
    /\ rooms \subseteq Rooms
    /\ peerIds \in [ Rooms -> [ Peers -> 0 .. MaxListings ] ]
    /\ activeShare \in [ Rooms -> Peers \cup {None} ]
    /\ \A r \in Rooms \ rooms : peerIds[r] = NewRoom /\ activeShare[r] = None

SpacesOK ==
    /\ spaces \subseteq Spaces
    /\ channels \in [ Spaces -> SUBSET Channels ]
    /\ ownerId \in [ Spaces -> Peers \cup {None} ]
    /\ memberIds \in [ Spaces -> SUBSET Peers ]
    /\ allocated \subseteq Spaces \cup Channels
    /\ \A s \in Spaces \ spaces : channels[s] = {} /\ memberIds[s] = {}

TypeOK == ControlOK /\ PeersOK /\ RoomsOK /\ SpacesOK

(* A peer whose room code names a channel is on the list of that channel's *)
(* room, or channel and room are both gone: joins, leaves, kicks, channel  *)
(* and space deletions, departures and the sweeper may interleave as they  *)
(* like, a voice channel never has a speaker that its list does not show   *)
(* (and no listener hears from somebody it cannot see).                    *)
VoiceCodeListed ==
    \A p \in Peers, c \in Channels :
        roomCode[p] = c => Listed(p, c) \/ c \notin rooms \cup LiveChannels

(* The active sharer of a channel's room is on that room's list: whoever   *)
(* leaves the list gave the slot back before.                              *)
SharerListed ==
    \A c \in Channels : activeShare[c] # None => Listed(activeShare[c], c)

(* Two spaces never share a channel, so deleting one leaves the rooms of   *)
(* the other alone.                                                        *)
ChannelsDisjoint ==
    \A s, t \in Spaces : s # t => channels[s] \cap channels[t] = {}

(* What the handlers' locals and the ids given out contribute to the two   *)
(* (VoiceInv is inductive): a handler about to take a peer off a list has  *)
(* given its sharing slot back, a stand-alone join is of a stand-alone     *)
(* room, and a channel id is in use nowhere before it is given out.        *)
SharerLeaving ==
    \A p \in Peers :
        pc[p] \in {"leaveUnlist", "dropUnlist"} /\ loc[p].room \in Channels
            => activeShare[loc[p].room] # p

LocalsKept ==
    \A p \in Peers :
        /\ pc[p] = "roomCommit" => loc[p].room \in Codes
        /\ loc[p].next \in {"idle", "joinCommit", "spaceUnmember"}

IdsAllocated ==
    /\ \A s \in Spaces : channels[s] \subseteq allocated
    /\ \A p \in Peers : roomCode[p] \in Channels => roomCode[p] \in allocated

VoiceSupport == SharerLeaving /\ LocalsKept /\ IdsAllocated /\ ChannelsDisjoint

VoiceInv == TypeOK /\ VoiceCodeListed /\ SharerListed /\ VoiceSupport

(* Nobody is listed in the room of a channel that does not exist: a join   *)
(* that was under way when the channel, or its space, was deleted does not *)
(* bring the room back.                                                    *)
DeletedChannelsSilent ==
    \A c \in Channels \ LiveChannels : peerIds[c] = NewRoom

(* No channel ever lists more than its user limit, however many joins run  *)
(* at once.                                                                *)
UserLimitRespected ==
    UserLimit > 0 => \A c \in Channels : RoomLen(c) <= UserLimit

(* No space ever has more members than max_members_per_space: neither a    *)
(* rejoin nor the removal of stale members makes room for one too many.    *)
MembersWithinCap ==
    \A s \in Spaces : Cardinality(memberIds[s]) <= MaxMembers

(* No stand-alone room ever lists more than max_room_peers (a test says    *)
(* "11th peer should get an error" of a limit of 10).  The place is        *)
(* checked under one lock and taken under another: this does not hold.     *)
RoomCapacity == \A r \in Codes : RoomLen(r) <= MaxRoomPeers

(* A stand-alone room that is there lists somebody: it is removed with its *)
(* last listing, and the sweeper never finds one to remove.                *)
RoomsOccupied == \A r \in Codes \cap rooms : RoomLen(r) > 0

-----------------------------------------------------------------------------
(* What holds as long as no handler clears the fields of a peer without    *)
(* taking it off the lists (Kick, DeleteChannel, DeleteSpace and           *)
(* SwitchIdentity do), and clients do not go from a stand-alone room to a  *)
(* channel without leaving it: every room entered is a channel's, and it   *)
(* is left through one of the two leave handlers.                          *)
Orderly ==
    Requests \cap { "CreateRoom", "JoinRoom", "Kick", "DeleteChannel",
                    "DeleteSpace", "SwitchIdentity" } = {}

(* Hearing is mutual: a peer that hears another one is heard by it.        *)
HearingIsMutual ==
    \A p, q \in Peers : q \in Recipients(p) => p \in Recipients(q)

(* A peer that is in no room receives nobody's audio: a list that names a  *)
(* peer after it left would go on relaying to it.                          *)
NoRoomNoAudio ==
    \A p, q \in Peers : roomCode[q] = None => q \notin Recipients(p)

(* The sharing slot of a channel is held by a peer that is connected and   *)
(* in that channel: a departed sharer would block the slot for good.       *)
SharerPresent ==
    \A c \in Channels, p \in Peers :
        activeShare[c] = p => conn[p] = "up" /\ roomCode[p] = c

(* No space is ever full: each has room for every peer.                    *)
NeverFull == Cardinality(Peers) <= MaxMembers

(* Whoever is in a voice channel is a member of the channel's space, as    *)
(* long as no space is ever full: one that is refused its place in a full  *)
(* space keeps the space id it was given before the count was looked at,   *)
(* and a channel asks for no more than that.                               *)
OnlyMembersInVoice ==
    \A p \in Peers, s \in spaces :
        roomCode[p] \in channels[s] => p \in memberIds[s]

(* A departed peer that is still among the members of a space (it had      *)
(* joined another one without leaving) is taken off by the sweeper: again  *)
(* and again the members of all spaces are connections that are there.     *)
StaleMembersSwept == []<>(\A s \in Spaces : memberIds[s] \subseteq Connected)

(* The same, as one abstract specification: seen through the room codes    *)
(* and the sharing slots, every step is a step of VoicePresence or none.   *)
Presence ==
    INSTANCE VoicePresence WITH
        where <- [ p \in Peers |-> IF roomCode[p] \in Channels THEN roomCode[p] ELSE None ],
        slot <- [ c \in Channels |-> activeShare[c] ]

ImplementsPresence == Presence!Spec
=============================================================================
