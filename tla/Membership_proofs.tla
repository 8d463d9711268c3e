-------------------------- MODULE Membership_proofs --------------------------
(***************************************************************************)
(* Proofs about Membership, for any number of connections, rooms, channels *)
(* and spaces and any set of requests: the type invariant, that voice      *)
(* codes and sharers are listed, the caps on members and listings, that    *)
(* the room of a channel that is gone lists nobody, that a stand-alone     *)
(* room goes with its last listing, and, for clients that are Orderly,     *)
(* that the lists and the codes agree and the server implements            *)
(* VoicePresence.                                                          *)
(***************************************************************************)
EXTENDS Membership, FiniteSetTheorems, TLAPS

USE DEF Rooms

-----------------------------------------------------------------------------
(* What the pieces shared by several handlers preserve. *)

LEMMA NoLocalsOK == NoLocals \in Locals
  BY DEF NoLocals, Locals, Steps

LEMMA GotoOK ==
    ASSUME ControlOK, NEW p \in Peers, NEW step \in Steps, NEW l \in Locals,
           Goto(p, step, l)
    PROVE  ControlOK'
  BY DEF ControlOK, Goto

LEMMA FinishOK ==
    ASSUME ControlOK, NEW p \in Peers, Finish(p)
    PROVE  ControlOK'
  BY NoLocalsOK DEF ControlOK, Finish, Steps

LEMMA ContinueOK ==
    ASSUME ControlOK, NEW p \in Peers, Continue(p)
    PROVE  ControlOK'
  <1>1. CASE loc[p].next = "idle"
    BY <1>1, FinishOK DEF Continue
  <1>2. CASE loc[p].next # "idle"
    <2>1. [ loc[p] EXCEPT !.room = None, !.next = "idle" ] \in Locals /\ loc[p].next \in Steps
      BY DEF ControlOK, Locals, Steps
    <2> QED
      BY <1>2, <2>1, GotoOK DEF Continue
  <1> QED
    BY <1>1, <1>2

LEMMA ResetLaterOK ==
    ASSUME ControlOK, NEW p \in Peers, NEW todo \in SUBSET (Peers \X Fields),
           ResetLater(p, todo)
    PROVE  ControlOK'
  <1>1. [ NoLocals EXCEPT !.todo = todo ] \in Locals
    BY DEF NoLocals, Locals, Steps
  <1> QED
    BY <1>1, FinishOK, GotoOK DEF ResetLater, Steps

LEMMA StopShareOK ==
    ASSUME RoomsOK, NEW p \in Peers, NEW r, StopShareIn(r, p),
           UNCHANGED <<rooms, peerIds>>
    PROVE  RoomsOK'
  BY IdsAssumption DEF RoomsOK, StopShareIn, NewRoom

LEMMA UnlistOK ==
    ASSUME RoomsOK, NEW p \in Peers, NEW r, peerIds' = Without(p, r),
           UNCHANGED <<rooms, activeShare>>
    PROVE  RoomsOK'
  <1>1. peerIds' \in [ Rooms -> [ Peers -> 0 .. MaxListings ] ]
    <2>1. CASE r \in Rooms
      <3>1. [ peerIds[r] EXCEPT ![p] = 0 ] \in [ Peers -> 0 .. MaxListings ]
        BY <2>1, BoundsAssumption DEF RoomsOK
      <3> QED
        BY <2>1, <3>1 DEF RoomsOK, Without
    <2>2. CASE r \notin Rooms
      BY <2>2 DEF RoomsOK, Without
    <2> QED
      BY <2>1, <2>2
  <1>2. ASSUME NEW q \in Rooms \ rooms PROVE peerIds'[q] = NewRoom
    BY <1>2 DEF RoomsOK, Without, NewRoom
  <1> QED
    BY <1>1, <1>2 DEF RoomsOK, NewRoom

LEMMA RemoveRoomsOK ==
    ASSUME RoomsOK, NEW gone, RemoveRooms(gone)
    PROVE  RoomsOK'
  <1>1. NewRoom \in [ Peers -> 0 .. MaxListings ]
    BY BoundsAssumption DEF NewRoom
  <1> QED
    BY <1>1 DEF RoomsOK, RemoveRooms, NewRoom

(* What a step leaves alone keeps its type. *)
LEMMA SameControl == ControlOK /\ UNCHANGED Control => ControlOK'
  BY DEF ControlOK, Control

LEMMA SamePeers == PeersOK /\ UNCHANGED peerVars => PeersOK'
  BY DEF PeersOK, peerVars

LEMMA SameRooms == RoomsOK /\ UNCHANGED roomVars => RoomsOK'
  BY DEF RoomsOK, roomVars, NewRoom

LEMMA SameSpaces == SpacesOK /\ UNCHANGED spaceVars => SpacesOK'
  BY DEF SpacesOK, spaceVars

LEMMA DropBeginOK ==
    ASSUME TypeOK, NEW p \in Peers, DropBegin(p)
    PROVE  ControlOK' /\ RoomsOK' /\ SpacesOK'
  <1>1. ControlOK'
    <2>1. [ NoLocals EXCEPT !.room = roomCode[p] ] \in Locals
      BY DEF NoLocals, Locals, Steps, TypeOK, PeersOK
    <2> QED
      BY <2>1, NoLocalsOK, GotoOK DEF DropBegin, Steps, TypeOK
  <1> QED
    BY <1>1, StopShareOK, SameSpaces DEF DropBegin, TypeOK

LEMMA DropUnlistOK ==
    ASSUME RoomsOK, NEW p \in Peers, DropUnlist(p)
    PROVE  RoomsOK'
  <1> DEFINE r == loc[p].room
             emptied == r \in Codes /\ Without(p, r)[r] = NewRoom
  <1>1. CASE ~emptied
    BY <1>1, UnlistOK DEF DropUnlist
  <1>2. CASE emptied
    <2>1. peerIds' = [ peerIds EXCEPT ![r] = NewRoom ]
      BY <1>2 DEF DropUnlist, Without, RoomsOK
    <2> QED
      BY <1>2, <2>1, BoundsAssumption DEF DropUnlist, RoomsOK, NewRoom
  <1> QED
    BY <1>1, <1>2

-----------------------------------------------------------------------------
LEMMA TypeOKInit == Init => TypeOK
  BY BoundsAssumption, NoLocalsOK
  DEF Init, TypeOK, ControlOK, PeersOK, RoomsOK, SpacesOK, NewRoom, Steps

LEMMA TypeOKNext == TypeOK /\ [Next]_vars => TypeOK'
  <1> SUFFICES ASSUME TypeOK, [Next]_vars PROVE TypeOK'
    OBVIOUS
  <1>1. ASSUME NEW p \in Peers, Connect(p) PROVE TypeOK'
    BY <1>1, SameControl, SameRooms, SameSpaces DEF Connect, TypeOK, PeersOK
  <1>2. ASSUME NEW p \in Peers, CreateRoom(p) PROVE TypeOK'
    BY <1>2, SameControl, SameSpaces, BoundsAssumption DEF CreateRoom, TypeOK, PeersOK, RoomsOK, NewRoom
  <1>3. ASSUME NEW p \in Peers, JoinRoom(p) PROVE TypeOK'
    <2>1. PICK r \in Codes \cap rooms : Goto(p, "roomCommit", [ NoLocals EXCEPT !.room = r ])
      BY <1>3 DEF JoinRoom
    <2>2. [ NoLocals EXCEPT !.room = r ] \in Locals
      BY <2>1 DEF NoLocals, Locals, Steps
    <2>3. ControlOK'
      BY <2>1, <2>2, GotoOK DEF Steps, TypeOK
    <2> QED
      BY <1>3, <2>3, SamePeers, SameRooms, SameSpaces DEF JoinRoom, TypeOK
  <1>4. ASSUME NEW p \in Peers, LeaveRoom(p) PROVE TypeOK'
    <2> QED
      BY <1>4, DropBeginOK DEF LeaveRoom, TypeOK, PeersOK, DropBegin
  <1>5. ASSUME NEW p \in Peers, StartShare(p) PROVE TypeOK'
    BY <1>5, SameControl, SamePeers, SameSpaces, IdsAssumption DEF StartShare, TypeOK, RoomsOK
  <1>6. ASSUME NEW p \in Peers, StopShare(p) PROVE TypeOK'
    BY <1>6, SameControl, SamePeers, SameSpaces, StopShareOK DEF StopShare, TypeOK
  <1>7. ASSUME NEW p \in Peers, JoinChannel(p) PROVE TypeOK'
    <2>1. PICK c \in Channels \cap allocated :
             Goto(p, "leaveBegin", [ NoLocals EXCEPT !.space = spaceId[p],
                                                     !.chan = c,
                                                     !.next = "joinCommit" ])
      BY <1>7 DEF JoinChannel
    <2>2. [ NoLocals EXCEPT !.space = spaceId[p], !.chan = c, !.next = "joinCommit" ] \in Locals
      BY <2>1 DEF NoLocals, Locals, Steps, TypeOK, PeersOK
    <2>3. ControlOK'
      BY <2>1, <2>2, GotoOK DEF Steps, TypeOK
    <2> QED
      BY <1>7, <2>3, SamePeers, SameRooms, SameSpaces DEF JoinChannel, TypeOK
  <1>8. ASSUME NEW p \in Peers, LeaveChannel(p) PROVE TypeOK'
    BY <1>8, GotoOK, NoLocalsOK, SamePeers, SameRooms, SameSpaces DEF LeaveChannel, TypeOK, Steps
  <1>9. ASSUME NEW p \in Peers, CreateSpace(p) PROVE TypeOK'
    BY <1>9, SameControl DEF CreateSpace, TypeOK, PeersOK, RoomsOK, SpacesOK
  <1>10. ASSUME NEW p \in Peers, JoinSpace(p) PROVE TypeOK'
    <2>1. PICK s \in spaces : Goto(p, "spaceCommit", [ NoLocals EXCEPT !.space = s ])
      BY <1>10 DEF JoinSpace
    <2>2. [ NoLocals EXCEPT !.space = s ] \in Locals
      BY <2>1 DEF NoLocals, Locals, Steps, TypeOK, SpacesOK
    <2>3. ControlOK'
      BY <2>1, <2>2, GotoOK DEF Steps, TypeOK
    <2> QED
      BY <1>10, <2>3, SamePeers, SameRooms, SameSpaces DEF JoinSpace, TypeOK
  <1>11. ASSUME NEW p \in Peers, LeaveSpace(p) PROVE TypeOK'
    <2>1. [ NoLocals EXCEPT !.space = spaceId[p], !.next = "spaceUnmember" ] \in Locals
      BY DEF NoLocals, Locals, Steps, TypeOK, PeersOK
    <2>2. ControlOK'
      BY <1>11, <2>1, GotoOK DEF LeaveSpace, Steps, TypeOK
    <2> QED
      BY <1>11, <2>2, SamePeers, SameRooms, SameSpaces DEF LeaveSpace, TypeOK
  <1>12. ASSUME NEW p \in Peers, DeleteSpace(p) PROVE TypeOK'
    <2>1. (memberIds[spaceId[p]] \cap Connected) \X Fields \in SUBSET (Peers \X Fields)
      BY DEF Connected
    <2>2. ControlOK'
      BY <1>12, <2>1, ResetLaterOK DEF DeleteSpace, TypeOK
    <2>3. RoomsOK'
      BY <1>12, RemoveRoomsOK DEF DeleteSpace, TypeOK
    <2>4. SpacesOK'
      BY <1>12 DEF DeleteSpace, TypeOK, SpacesOK
    <2> QED
      BY <1>12, <2>2, <2>3, <2>4, SamePeers DEF DeleteSpace, TypeOK
  <1>13. ASSUME NEW p \in Peers, CreateChannel(p) PROVE TypeOK'
    <2>1. [ NoLocals EXCEPT !.space = spaceId[p] ] \in Locals
      BY DEF NoLocals, Locals, Steps, TypeOK, PeersOK
    <2>2. ControlOK'
      BY <1>13, <2>1, GotoOK DEF CreateChannel, Steps, TypeOK
    <2> QED
      BY <1>13, <2>2, SamePeers, SameRooms, SameSpaces DEF CreateChannel, TypeOK
  <1>14. ASSUME NEW p \in Peers, DeleteChannel(p) PROVE TypeOK'
    <2>1. PICK c \in channels[spaceId[p]] :
             /\ channels' = [ channels EXCEPT ![spaceId[p]] = @ \ {c} ]
             /\ RemoveRooms({c})
             /\ ResetLater(p, { q \in Connected : Listed(q, c) } \X {"code"})
      BY <1>14 DEF DeleteChannel
    <2>2. { q \in Connected : Listed(q, c) } \X {"code"} \in SUBSET (Peers \X Fields)
      BY DEF Connected, Fields
    <2>3. ControlOK'
      BY <2>1, <2>2, ResetLaterOK DEF TypeOK
    <2>4. RoomsOK'
      BY <2>1, RemoveRoomsOK DEF TypeOK
    <2>5. SpacesOK'
      BY <1>14, <2>1 DEF DeleteChannel, TypeOK, SpacesOK
    <2> QED
      BY <1>14, <2>3, <2>4, <2>5, SamePeers DEF DeleteChannel, TypeOK
  <1>15. ASSUME NEW p \in Peers, Kick(p) PROVE TypeOK'
    <2>1. PICK q \in (memberIds[spaceId[p]] \cap Connected) \ {p, ownerId[spaceId[p]]} :
             /\ q \in Moderators => ownerId[spaceId[p]] = p
             /\ memberIds' = [ memberIds EXCEPT ![spaceId[p]] = @ \ {q} ]
             /\ ResetLater(p, {q} \X Fields)
      BY <1>15 DEF Kick
    <2>2. ControlOK'
      BY <2>1, ResetLaterOK DEF Connected, TypeOK
    <2>3. SpacesOK'
      BY <1>15, <2>1 DEF Kick, TypeOK, SpacesOK
    <2> QED
      BY <1>15, <2>2, <2>3, SamePeers, SameRooms DEF Kick, TypeOK
  <1>16. ASSUME NEW p \in Peers, SwitchIdentity(p) PROVE TypeOK'
    BY <1>16, SameControl, SameRooms DEF SwitchIdentity, TypeOK, PeersOK, SpacesOK
  <1>17. ASSUME NEW p \in Peers, Hangup(p) PROVE TypeOK'
    <2> QED
      BY <1>17, DropBeginOK DEF Hangup, TypeOK, PeersOK, DropBegin
  <1>18. ASSUME NEW p \in Peers, JoinRoomCommit(p) PROVE TypeOK'
    <2>1. ControlOK'
      BY <1>18, FinishOK DEF JoinRoomCommit, TypeOK
    <2>2. loc[p].room \in Rooms \cup {None}
      BY DEF TypeOK, ControlOK, Locals
    <2>3. PeersOK'
      BY <1>18, <2>2 DEF JoinRoomCommit, TypeOK, PeersOK
    <2>4. RoomsOK'
      BY <1>18, BoundsAssumption DEF JoinRoomCommit, TypeOK, RoomsOK
    <2> QED
      BY <1>18, <2>1, <2>3, <2>4, SameSpaces DEF JoinRoomCommit, TypeOK
  <1>19. ASSUME NEW p \in Peers, JoinCommit(p) PROVE TypeOK'
    <2>1. ControlOK'
      BY <1>19, FinishOK DEF JoinCommit, TypeOK
    <2>2. loc[p].space \in Spaces \cup {None} /\ loc[p].chan \in Channels \cup {None}
      BY DEF TypeOK, ControlOK, Locals
    <2>3. loc[p].chan \in Channels
      BY <1>19, <2>2, IdsAssumption DEF JoinCommit, CanEnter, TypeOK, SpacesOK
    <2>4. PeersOK'
      BY <1>19, <2>3 DEF JoinCommit, TypeOK, PeersOK
    <2>5. RoomsOK'
      BY <1>19, <2>3, BoundsAssumption DEF JoinCommit, TypeOK, RoomsOK
    <2> QED
      BY <1>19, <2>1, <2>4, <2>5, SameSpaces DEF JoinCommit, TypeOK
  <1>20. ASSUME NEW p \in Peers, JoinRefused(p) PROVE TypeOK'
    BY <1>20, FinishOK, SamePeers, SameRooms, SameSpaces DEF JoinRefused, TypeOK
  <1>21. ASSUME NEW p \in Peers, LeaveBegin(p) PROVE TypeOK'
    <2>1. [ loc[p] EXCEPT !.room = roomCode[p] ] \in Locals
      BY DEF TypeOK, ControlOK, PeersOK, Locals
    <2>2. ControlOK'
      BY <1>21, <2>1, GotoOK DEF LeaveBegin, Steps, TypeOK
    <2>3. RoomsOK'
      BY <1>21, StopShareOK DEF LeaveBegin, TypeOK
    <2> QED
      BY <1>21, <2>2, <2>3, SamePeers, SameSpaces DEF LeaveBegin, TypeOK
  <1>22. ASSUME NEW p \in Peers, LeaveNothing(p) PROVE TypeOK'
    BY <1>22, ContinueOK, SamePeers, SameRooms, SameSpaces DEF LeaveNothing, TypeOK
  <1>23. ASSUME NEW p \in Peers, LeaveUnlist(p) PROVE TypeOK'
    BY <1>23, ContinueOK, UnlistOK, SameSpaces DEF LeaveUnlist, TypeOK, PeersOK
  <1>24. ASSUME NEW p \in Peers, JoinSpaceCommit(p) PROVE TypeOK'
    <2>1. ControlOK'
      BY <1>24, FinishOK DEF JoinSpaceCommit, TypeOK
    <2>2. loc[p].space \in Spaces \cup {None}
      BY DEF TypeOK, ControlOK, Locals
    <2>3. PeersOK'
      BY <1>24, <2>2 DEF JoinSpaceCommit, TypeOK, PeersOK
    <2>4. SpacesOK'
      BY <1>24 DEF JoinSpaceCommit, TypeOK, SpacesOK, Connected
    <2> QED
      BY <1>24, <2>1, <2>3, <2>4, SameRooms DEF JoinSpaceCommit, TypeOK
  <1>25. ASSUME NEW p \in Peers, SpaceUnmember(p) PROVE TypeOK'
    BY <1>25, FinishOK, SameRooms DEF SpaceUnmember, TypeOK, PeersOK, SpacesOK
  <1>26. ASSUME NEW p \in Peers, CreateChannelCommit(p) PROVE TypeOK'
    BY <1>26, FinishOK, SamePeers DEF CreateChannelCommit, TypeOK, RoomsOK, SpacesOK
  <1>27. ASSUME NEW p \in Peers, Reset(p) PROVE TypeOK'
    <2>1. PICK t \in loc[p].todo : ResetLater(p, loc[p].todo \ {t})
      BY <1>27 DEF Reset
    <2>2. loc[p].todo \ {t} \in SUBSET (Peers \X Fields)
      BY DEF TypeOK, ControlOK, Locals
    <2>3. ControlOK'
      BY <2>1, <2>2, ResetLaterOK DEF TypeOK
    <2>4. PeersOK'
      BY <1>27 DEF Reset, TypeOK, PeersOK
    <2> QED
      BY <1>27, <2>3, <2>4, SameRooms, SameSpaces DEF Reset, TypeOK
  <1>28. ASSUME NEW p \in Peers, DropUnlist(p) PROVE TypeOK'
    <2>1. ControlOK'
      BY <1>28, NoLocalsOK, GotoOK DEF DropUnlist, Steps, TypeOK
    <2>2. PeersOK'
      BY <1>28 DEF DropUnlist, TypeOK, PeersOK
    <2>3. RoomsOK'
      BY <1>28, DropUnlistOK DEF TypeOK
    <2> QED
      BY <1>28, <2>1, <2>2, <2>3, SameSpaces DEF DropUnlist, TypeOK
  <1>29. ASSUME NEW p \in Peers, DropForget(p) PROVE TypeOK'
    BY <1>29, FinishOK, SameRooms DEF DropForget, TypeOK, PeersOK, SpacesOK
  <1>30. CASE Sweep
    <2>1. RoomsOK'
      BY <1>30, RemoveRoomsOK DEF Sweep, TypeOK
    <2>2. SpacesOK'
      BY <1>30 DEF Sweep, TypeOK, SpacesOK
    <2> QED
      BY <1>30, <2>1, <2>2, SameControl, SamePeers DEF Sweep, TypeOK
  <1>31. CASE UNCHANGED vars
    BY <1>31, SameControl, SamePeers, SameRooms, SameSpaces DEF vars, Control, TypeOK
  <1> QED
    BY <1>1, <1>2, <1>3, <1>4, <1>5, <1>6, <1>7, <1>8, <1>9, <1>10, <1>11, <1>12, <1>13, <1>14, <1>15,
       <1>16, <1>17, <1>18, <1>19, <1>20, <1>21, <1>22, <1>23, <1>24, <1>25, <1>26, <1>27, <1>28, <1>29, <1>30, <1>31
    DEF Next, Request, Proceed

(* The state always has the shape TypeOK says: every room list and every   *)
(* member list names connections, and a room or space that is gone has no  *)
(* list and no sharer left.                                                *)
THEOREM TypeCorrect == Spec => []TypeOK
  BY TypeOKInit, TypeOKNext, PTL DEF Spec

-----------------------------------------------------------------------------
(* Voice codes and sharers are listed.  First the lists: what VoiceInv     *)
(* says, apart from what handlers remember.                                *)
ListsInv == VoiceCodeListed /\ SharerListed /\ IdsAllocated /\ ChannelsDisjoint

LEMMA ListsSame ==
    ASSUME ListsInv, UNCHANGED <<roomCode, roomVars, spaces, channels, allocated>>
    PROVE  ListsInv'
  BY DEF ListsInv, VoiceCodeListed, SharerListed, IdsAllocated, ChannelsDisjoint,
         Listed, LiveChannels, roomVars

LEMMA ListsFewerCodes ==
    ASSUME ListsInv, TypeOK, roomCode' \in [ Peers -> Rooms \cup {None} ],
           \A q \in Peers : roomCode'[q] \in {roomCode[q], None},
           UNCHANGED <<roomVars, spaces, channels, allocated>>
    PROVE  ListsInv'
  BY IdsAssumption
  DEF ListsInv, VoiceCodeListed, SharerListed, IdsAllocated, ChannelsDisjoint,
      Listed, LiveChannels, roomVars

LEMMA ListsStopShare ==
    ASSUME ListsInv, RoomsOK, NEW p \in Peers, NEW r, StopShareIn(r, p),
           UNCHANGED <<roomCode, rooms, peerIds, spaces, channels, allocated>>
    PROVE  ListsInv'
  BY DEF ListsInv, VoiceCodeListed, SharerListed, IdsAllocated, ChannelsDisjoint,
         Listed, LiveChannels, RoomsOK, StopShareIn

(* The rooms that go are listed by nobody's code, or their channels go too. *)
LEMMA ListsRemoveRooms ==
    ASSUME ListsInv, TypeOK, NEW gone \in SUBSET Rooms, RemoveRooms(gone),
           channels' \in [ Spaces -> SUBSET Channels ],
           \A s \in Spaces : channels'[s] \subseteq channels[s],
           spaces' \subseteq spaces,
           \A q \in Peers : roomCode[q] \in gone \cap Channels
               => roomCode[q] \notin LiveChannels',
           UNCHANGED <<roomCode, allocated>>
    PROVE  ListsInv'
  <1>1. VoiceCodeListed'
    BY DEF ListsInv, VoiceCodeListed, Listed, LiveChannels, RemoveRooms, TypeOK,
           RoomsOK, SpacesOK
  <1>2. SharerListed'
    BY IdsAssumption DEF ListsInv, SharerListed, Listed, RemoveRooms, TypeOK, RoomsOK
  <1>3. IdsAllocated' /\ ChannelsDisjoint'
    BY DEF ListsInv, IdsAllocated, ChannelsDisjoint, TypeOK, SpacesOK
  <1> QED
    BY <1>1, <1>2, <1>3 DEF ListsInv

(* A peer is taken off the list of a room in which it holds no slot. *)
LEMMA ListsUnlist ==
    ASSUME ListsInv, TypeOK, NEW p \in Peers, NEW r \in Channels,
           activeShare[r] # p,
           peerIds' = Without(p, r), roomCode' = [ roomCode EXCEPT ![p] = None ],
           UNCHANGED <<rooms, activeShare, spaces, channels, allocated>>
    PROVE  ListsInv'
  <1>1. \A q \in Peers, c \in Channels :
            q # p \/ c # r => peerIds'[c][q] = peerIds[c][q]
    BY DEF Without, TypeOK, RoomsOK
  <1>2. VoiceCodeListed'
    BY <1>1, IdsAssumption
    DEF ListsInv, VoiceCodeListed, Listed, LiveChannels, TypeOK, PeersOK
  <1>3. SharerListed'
    BY <1>1 DEF ListsInv, SharerListed, Listed, TypeOK, RoomsOK
  <1>4. IdsAllocated' /\ ChannelsDisjoint'
    BY IdsAssumption DEF ListsInv, IdsAllocated, ChannelsDisjoint, TypeOK, PeersOK
  <1> QED
    BY <1>2, <1>3, <1>4 DEF ListsInv

(* What happens to the lists of stand-alone rooms does not matter. *)
LEMMA ListsElsewhere ==
    ASSUME ListsInv, TypeOK, NEW p \in Peers, NEW r \in Codes,
           roomCode' = [ roomCode EXCEPT ![p] = r ] \/ roomCode' = roomCode,
           \A c \in Channels : /\ c \in rooms' <=> c \in rooms
                              /\ peerIds'[c] = peerIds[c]
                              /\ activeShare'[c] = activeShare[c],
           UNCHANGED <<spaces, channels, allocated>>
    PROVE  ListsInv'
  <1>1. \A q \in Peers : roomCode'[q] \in Channels => roomCode'[q] = roomCode[q]
    BY IdsAssumption DEF TypeOK, PeersOK
  <1>2. VoiceCodeListed'
    BY <1>1 DEF ListsInv, VoiceCodeListed, Listed, LiveChannels
  <1>3. SharerListed'
    BY DEF ListsInv, SharerListed, Listed
  <1>4. IdsAllocated' /\ ChannelsDisjoint'
    BY <1>1 DEF ListsInv, IdsAllocated, ChannelsDisjoint
  <1> QED
    BY <1>2, <1>3, <1>4 DEF ListsInv

LEMMA ListsNext == VoiceInv /\ [Next]_vars => ListsInv'
  <1> SUFFICES ASSUME VoiceInv, [Next]_vars PROVE ListsInv'
    OBVIOUS
  <1>0. TypeOK /\ ListsInv /\ SharerLeaving /\ LocalsKept
    BY DEF VoiceInv, VoiceSupport, ListsInv
  <1> USE <1>0
  <1>1. ASSUME NEW p \in Peers, Connect(p) PROVE ListsInv'
    BY <1>1, ListsSame DEF Connect, spaceVars
  <1>2. ASSUME NEW p \in Peers, CreateRoom(p) PROVE ListsInv'
    <2>1. PICK r \in Codes \ rooms :
             /\ roomCode' = [ roomCode EXCEPT ![p] = r ]
             /\ rooms' = rooms \cup {r}
             /\ peerIds' = [ peerIds EXCEPT ![r] = [ NewRoom EXCEPT ![p] = 1 ] ]
             /\ activeShare' = [ activeShare EXCEPT ![r] = None ]
      BY <1>2 DEF CreateRoom
    <2>2. \A c \in Channels : c # r /\ c \in Rooms
      BY IdsAssumption
    <2> QED
      BY <1>2, <2>1, <2>2, ListsElsewhere DEF CreateRoom, spaceVars, TypeOK, RoomsOK
  <1>3. ASSUME NEW p \in Peers, JoinRoom(p) PROVE ListsInv'
    BY <1>3, ListsSame DEF JoinRoom, peerVars, spaceVars
  <1>4. ASSUME NEW p \in Peers, LeaveRoom(p) PROVE ListsInv'
    BY <1>4, ListsStopShare DEF LeaveRoom, DropBegin, spaceVars, TypeOK
  <1>5. ASSUME NEW p \in Peers, StartShare(p) PROVE ListsInv'
    BY <1>5, IdsAssumption
    DEF StartShare, ListsInv, VoiceCodeListed, SharerListed, IdsAllocated, ChannelsDisjoint,
        Listed, LiveChannels, TypeOK, PeersOK, RoomsOK, peerVars, spaceVars
  <1>6. ASSUME NEW p \in Peers, StopShare(p) PROVE ListsInv'
    BY <1>6, ListsStopShare DEF StopShare, peerVars, spaceVars, TypeOK
  <1>7. ASSUME NEW p \in Peers, JoinChannel(p) PROVE ListsInv'
    BY <1>7, ListsSame DEF JoinChannel, peerVars, spaceVars
  <1>8. ASSUME NEW p \in Peers, LeaveChannel(p) PROVE ListsInv'
    BY <1>8, ListsSame DEF LeaveChannel, peerVars, spaceVars
  <1>9. ASSUME NEW p \in Peers, CreateSpace(p) PROVE ListsInv'
    BY <1>9, IdsAssumption
    DEF CreateSpace, ListsInv, VoiceCodeListed, SharerListed, IdsAllocated, ChannelsDisjoint,
        Listed, LiveChannels, TypeOK, PeersOK, RoomsOK, SpacesOK
  <1>10. ASSUME NEW p \in Peers, JoinSpace(p) PROVE ListsInv'
    BY <1>10, ListsSame DEF JoinSpace, peerVars, spaceVars
  <1>11. ASSUME NEW p \in Peers, LeaveSpace(p) PROVE ListsInv'
    BY <1>11, ListsSame DEF LeaveSpace, peerVars, spaceVars
  <1>12. ASSUME NEW p \in Peers, DeleteSpace(p) PROVE ListsInv'
    <2>1. channels[spaceId[p]] \in SUBSET Rooms
      BY <1>12 DEF DeleteSpace, TypeOK, SpacesOK
    <2>2. ASSUME NEW q \in Peers, roomCode[q] \in channels[spaceId[p]]
          PROVE  roomCode[q] \notin LiveChannels'
      BY <1>12, <2>2 DEF DeleteSpace, LiveChannels, ListsInv, ChannelsDisjoint, TypeOK, SpacesOK
    <2> QED
      BY <1>12, <2>1, <2>2, ListsRemoveRooms DEF DeleteSpace, TypeOK, SpacesOK, peerVars
  <1>13. ASSUME NEW p \in Peers, CreateChannel(p) PROVE ListsInv'
    BY <1>13, ListsSame DEF CreateChannel, peerVars, spaceVars
  <1>14. ASSUME NEW p \in Peers, DeleteChannel(p) PROVE ListsInv'
    <2>1. PICK c \in channels[spaceId[p]] :
             /\ channels' = [ channels EXCEPT ![spaceId[p]] = @ \ {c} ]
             /\ RemoveRooms({c})
      BY <1>14 DEF DeleteChannel
    <2>2. {c} \in SUBSET Rooms
      BY <1>14, <2>1 DEF DeleteChannel, TypeOK, SpacesOK
    <2>3. c \notin LiveChannels'
      BY <1>14, <2>1 DEF DeleteChannel, LiveChannels, ListsInv, ChannelsDisjoint, TypeOK, SpacesOK
    <2> QED
      BY <1>14, <2>1, <2>2, <2>3, ListsRemoveRooms DEF DeleteChannel, TypeOK, SpacesOK, peerVars
  <1>15. ASSUME NEW p \in Peers, Kick(p) PROVE ListsInv'
    BY <1>15, ListsSame DEF Kick, peerVars
  <1>16. ASSUME NEW p \in Peers, SwitchIdentity(p) PROVE ListsInv'
    BY <1>16, ListsFewerCodes DEF SwitchIdentity, TypeOK, PeersOK
  <1>17. ASSUME NEW p \in Peers, Hangup(p) PROVE ListsInv'
    BY <1>17, ListsStopShare DEF Hangup, DropBegin, spaceVars, TypeOK
  <1>18. ASSUME NEW p \in Peers, JoinRoomCommit(p) PROVE ListsInv'
    <2>1. loc[p].room \in Codes
      BY <1>18 DEF JoinRoomCommit, LocalsKept
    <2>2. \A c \in Channels : c # loc[p].room /\ c \in Rooms
      BY <2>1, IdsAssumption
    <2> QED
      BY <1>18, <2>1, <2>2, ListsElsewhere DEF JoinRoomCommit, spaceVars, TypeOK, RoomsOK
  <1>19. ASSUME NEW p \in Peers, JoinCommit(p) PROVE ListsInv'
    BY <1>19, IdsAssumption
    DEF JoinCommit, CanEnter, ListsInv, VoiceCodeListed, SharerListed, IdsAllocated, ChannelsDisjoint,
        Listed, LiveChannels, TypeOK, PeersOK, RoomsOK, SpacesOK, spaceVars
  <1>20. ASSUME NEW p \in Peers, JoinRefused(p) PROVE ListsInv'
    BY <1>20, ListsSame DEF JoinRefused, peerVars, spaceVars
  <1>21. ASSUME NEW p \in Peers, LeaveBegin(p) PROVE ListsInv'
    BY <1>21, ListsStopShare DEF LeaveBegin, peerVars, spaceVars, TypeOK
  <1>22. ASSUME NEW p \in Peers, LeaveNothing(p) PROVE ListsInv'
    BY <1>22, ListsSame DEF LeaveNothing, peerVars, spaceVars
  <1>23. ASSUME NEW p \in Peers, LeaveUnlist(p) PROVE ListsInv'
    <2> DEFINE r == loc[p].room
    <2>1. CASE r \in Channels
      BY <1>23, <2>1, ListsUnlist DEF LeaveUnlist, SharerLeaving, spaceVars
    <2>2. CASE r \notin Channels
      <3>1. \A c \in Channels : peerIds'[c] = peerIds[c]
        BY <1>23, <2>2 DEF LeaveUnlist, Without, TypeOK, RoomsOK
      <3> QED
        BY <1>23, <3>1, IdsAssumption
        DEF LeaveUnlist, ListsInv, VoiceCodeListed, SharerListed, IdsAllocated,
            ChannelsDisjoint, Listed, LiveChannels, TypeOK, PeersOK, spaceVars
    <2> QED
      BY <2>1, <2>2
  <1>24. ASSUME NEW p \in Peers, JoinSpaceCommit(p) PROVE ListsInv'
    BY <1>24, ListsSame DEF JoinSpaceCommit
  <1>25. ASSUME NEW p \in Peers, SpaceUnmember(p) PROVE ListsInv'
    BY <1>25, ListsSame DEF SpaceUnmember
  <1>26. ASSUME NEW p \in Peers, CreateChannelCommit(p) PROVE ListsInv'
    BY <1>26, IdsAssumption
    DEF CreateChannelCommit, ListsInv, VoiceCodeListed, SharerListed, IdsAllocated, ChannelsDisjoint,
        Listed, LiveChannels, TypeOK, PeersOK, RoomsOK, SpacesOK, peerVars
  <1>27. ASSUME NEW p \in Peers, Reset(p) PROVE ListsInv'
    BY <1>27, ListsFewerCodes DEF Reset, TypeOK, PeersOK, spaceVars
  <1>28. ASSUME NEW p \in Peers, DropUnlist(p) PROVE ListsInv'
    <2> DEFINE r == loc[p].room
    <2>1. r \in Rooms \cup {None}
      BY DEF TypeOK, ControlOK, Locals
    <2>2. CASE r \in Channels
      <3>1. r \notin Codes
        BY <2>2, IdsAssumption
      <3> QED
        BY <1>28, <2>2, <3>1, ListsUnlist DEF DropUnlist, SharerLeaving, spaceVars
    <2>3. CASE r \in Codes
      <3>1. \A c \in Channels : c # r /\ c \in Rooms
        BY <2>3, IdsAssumption
      <3>2. r \notin Channels
        BY <3>1
      <3> QED
        BY <1>28, <2>3, <3>1, <3>2, ListsElsewhere
        DEF DropUnlist, Without, spaceVars, TypeOK, RoomsOK
    <2>4. CASE r = None
      <3>1. r \notin Rooms
        BY <2>4, IdsAssumption
      <3>2. peerIds' = peerIds
        BY <1>28, <3>1 DEF DropUnlist, Without, TypeOK, RoomsOK
      <3> QED
        BY <1>28, <3>1, <3>2, ListsSame DEF DropUnlist, spaceVars, roomVars
    <2> QED
      BY <2>1, <2>2, <2>3, <2>4
  <1>29. ASSUME NEW p \in Peers, DropForget(p) PROVE ListsInv'
    BY <1>29, ListsFewerCodes DEF DropForget, TypeOK, PeersOK
  <1>30. CASE Sweep
    <2>1. PICK old \in SUBSET { r \in rooms : peerIds[r] = NewRoom } : RemoveRooms(old)
      BY <1>30 DEF Sweep
    <2>2. old \in SUBSET Rooms
      BY <2>1 DEF TypeOK, RoomsOK
    <2>3. ASSUME NEW q \in Peers PROVE roomCode[q] \notin old \cap Channels
      BY <2>1 DEF ListsInv, VoiceCodeListed, Listed, NewRoom
    <2> QED
      BY <1>30, <2>1, <2>2, <2>3, ListsRemoveRooms DEF Sweep, peerVars, TypeOK, SpacesOK
  <1>31. CASE UNCHANGED vars
    BY <1>31, ListsSame DEF vars, peerVars, spaceVars
  <1> QED
    BY <1>1, <1>2, <1>3, <1>4, <1>5, <1>6, <1>7, <1>8, <1>9, <1>10, <1>11, <1>12, <1>13, <1>14, <1>15,
       <1>16, <1>17, <1>18, <1>19, <1>20, <1>21, <1>22, <1>23, <1>24, <1>25, <1>26, <1>27, <1>28, <1>29, <1>30, <1>31
    DEF Next, Request, Proceed

-----------------------------------------------------------------------------
(* Then what handlers remember.  A step of p is harmless when p does not   *)
(* arrive where its locals matter, and when nobody but p takes a slot.     *)
Nexts == { "idle", "joinCommit", "spaceUnmember" }
Sensitive == { "roomCommit", "leaveUnlist", "dropUnlist" }

OthersStay(p) ==
    \A q \in Peers \ {p} : pc'[q] = pc[q] /\ loc'[q] = loc[q]

Harmless(p) ==
    /\ OthersStay(p)
    /\ pc'[p] \notin Sensitive
    /\ loc'[p].next \in Nexts

OnlyTaker(p) ==
    \A q \in Peers \ {p}, c \in Channels :
        activeShare'[c] = q => activeShare[c] = q

ControlInv == SharerLeaving /\ LocalsKept

LEMMA ControlHarmless ==
    ASSUME ControlInv, TypeOK, NEW p \in Peers, Harmless(p), OnlyTaker(p)
    PROVE  ControlInv'
  BY DEF ControlInv, SharerLeaving, LocalsKept, Harmless, OthersStay, OnlyTaker,
         Sensitive, Nexts, TypeOK, ControlOK

(* Going to unlist p: it must not hold the slot of the room it remembers.  *)
LEMMA ControlUnlisting ==
    ASSUME ControlInv, TypeOK, NEW p \in Peers, OthersStay(p), OnlyTaker(p),
           pc'[p] \in {"leaveUnlist", "dropUnlist"},
           loc'[p].next \in Nexts,
           loc'[p].room \in Channels => activeShare'[loc'[p].room] # p
    PROVE  ControlInv'
  BY DEF ControlInv, SharerLeaving, LocalsKept, OthersStay, OnlyTaker,
         Sensitive, Nexts, TypeOK, ControlOK

LEMMA GotoHarmless ==
    ASSUME TypeOK, NEW p \in Peers, NEW step \in Steps \ Sensitive, NEW l \in Locals,
           l.next \in Nexts, Goto(p, step, l)
    PROVE  Harmless(p)
  BY DEF Goto, Harmless, OthersStay, TypeOK, ControlOK

LEMMA FinishHarmless ==
    ASSUME TypeOK, NEW p \in Peers, Finish(p)
    PROVE  Harmless(p)
  BY DEF Finish, Harmless, OthersStay, TypeOK, ControlOK, NoLocals, Nexts, Sensitive

LEMMA IdleHarmless ==
    ASSUME TypeOK, ControlInv, NEW p \in Peers, pc[p] = "idle", UNCHANGED Control
    PROVE  Harmless(p)
  BY DEF Control, Harmless, OthersStay, ControlInv, LocalsKept, Nexts, Sensitive

LEMMA ContinueHarmless ==
    ASSUME TypeOK, ControlInv, NEW p \in Peers, Continue(p)
    PROVE  Harmless(p)
  <1>1. CASE loc[p].next = "idle"
    BY <1>1, FinishHarmless DEF Continue
  <1>2. CASE loc[p].next # "idle"
    <2> DEFINE l == [ loc[p] EXCEPT !.room = None, !.next = "idle" ]
    <2>1. l \in Locals /\ l.next \in Nexts
      BY DEF TypeOK, ControlOK, Locals, Steps, Nexts
    <2>2. loc[p].next \in Steps \ Sensitive
      BY DEF ControlInv, LocalsKept, Steps, Sensitive
    <2> QED
      BY <1>2, <2>1, <2>2, GotoHarmless DEF Continue
  <1> QED
    BY <1>1, <1>2

LEMMA ResetLaterHarmless ==
    ASSUME TypeOK, NEW p \in Peers, NEW todo \in SUBSET (Peers \X Fields),
           ResetLater(p, todo)
    PROVE  Harmless(p)
  <1>1. [ NoLocals EXCEPT !.todo = todo ] \in Locals
        /\ [ NoLocals EXCEPT !.todo = todo ].next \in Nexts
    BY DEF NoLocals, Locals, Steps, Nexts
  <1> QED
    BY <1>1, FinishHarmless, GotoHarmless DEF ResetLater, Steps, Sensitive

LEMMA StopShareTakesNone ==
    ASSUME RoomsOK, NEW p \in Peers, NEW r \in Rooms \cup {None}, StopShareIn(r, p)
    PROVE  OnlyTaker(p) /\ (r \in Channels => activeShare'[r] # p)
  BY IdsAssumption DEF RoomsOK, StopShareIn, OnlyTaker

LEMMA RemoveRoomsTakesNone ==
    ASSUME NEW gone, RemoveRooms(gone)
    PROVE  \A q \in Peers, c \in Channels : activeShare'[c] = q => activeShare[c] = q
  BY IdsAssumption DEF RemoveRooms

LEMMA DropBeginControl ==
    ASSUME TypeOK, ControlInv, NEW p \in Peers, DropBegin(p)
    PROVE  ControlInv'
  <1>1. OnlyTaker(p) /\ (roomCode[p] \in Channels => activeShare'[roomCode[p]] # p)
    BY StopShareTakesNone DEF DropBegin, TypeOK, PeersOK
  <1>2. CASE roomCode[p] = None
    BY <1>1, <1>2, NoLocalsOK, GotoHarmless, ControlHarmless
    DEF DropBegin, NoLocals, Nexts, Steps, Sensitive
  <1>3. CASE roomCode[p] # None
    <2>1. /\ OthersStay(p)
          /\ pc'[p] = "dropUnlist"
          /\ loc'[p].next = "idle" /\ loc'[p].room = roomCode[p]
      BY <1>3 DEF DropBegin, Goto, OthersStay, NoLocals, TypeOK, ControlOK
    <2> QED
      BY <1>1, <2>1, ControlUnlisting DEF Nexts
  <1> QED
    BY <1>2, <1>3

LEMMA ControlNext == VoiceInv /\ [Next]_vars => ControlInv'
  <1> SUFFICES ASSUME VoiceInv, [Next]_vars PROVE ControlInv'
    OBVIOUS
  <1>0. TypeOK /\ RoomsOK /\ ControlInv
    BY DEF VoiceInv, VoiceSupport, ControlInv, TypeOK
  <1> USE <1>0
  <1>1. ASSUME NEW p \in Peers, Connect(p) PROVE ControlInv'
    <2>1. UNCHANGED <<Control, activeShare>>
      BY <1>1 DEF Connect, roomVars
    <2> QED
      BY <2>1 DEF ControlInv, SharerLeaving, LocalsKept, Control
  <1>2. ASSUME NEW p \in Peers, CreateRoom(p) PROVE ControlInv'
    <2>1. OnlyTaker(p)
      BY <1>2, IdsAssumption DEF CreateRoom, OnlyTaker, TypeOK, RoomsOK
    <2> QED
      BY <1>2, <2>1, IdleHarmless, ControlHarmless DEF CreateRoom, Idle
  <1>3. ASSUME NEW p \in Peers, JoinRoom(p) PROVE ControlInv'
    <2>1. PICK r \in Codes \cap rooms : Goto(p, "roomCommit", [ NoLocals EXCEPT !.room = r ])
      BY <1>3 DEF JoinRoom
    <2>2. /\ OthersStay(p)
          /\ pc'[p] = "roomCommit"
          /\ loc'[p].room \in Codes /\ loc'[p].next = "idle"
      BY <2>1 DEF Goto, OthersStay, NoLocals, TypeOK, ControlOK
    <2>3. UNCHANGED activeShare
      BY <1>3 DEF JoinRoom, roomVars
    <2> QED
      BY <2>2, <2>3 DEF ControlInv, SharerLeaving, LocalsKept, OthersStay
  <1>4. ASSUME NEW p \in Peers, LeaveRoom(p) PROVE ControlInv'
    BY <1>4, DropBeginControl DEF LeaveRoom
  <1>5. ASSUME NEW p \in Peers, StartShare(p) PROVE ControlInv'
    <2>1. OnlyTaker(p)
      BY <1>5 DEF StartShare, OnlyTaker, TypeOK, RoomsOK
    <2> QED
      BY <1>5, <2>1, IdleHarmless, ControlHarmless DEF StartShare, Idle
  <1>6. ASSUME NEW p \in Peers, StopShare(p) PROVE ControlInv'
    <2>1. OnlyTaker(p)
      BY <1>6, StopShareTakesNone DEF StopShare, TypeOK, PeersOK
    <2> QED
      BY <1>6, <2>1, IdleHarmless, ControlHarmless DEF StopShare, Idle
  <1>7. ASSUME NEW p \in Peers, JoinChannel(p) PROVE ControlInv'
    <2>1. PICK c \in Channels \cap allocated : Goto(p, "leaveBegin", [ NoLocals EXCEPT !.space = spaceId[p], !.chan = c, !.next = "joinCommit" ])
      BY <1>7 DEF JoinChannel
    <2>2. [ NoLocals EXCEPT !.space = spaceId[p], !.chan = c, !.next = "joinCommit" ] \in Locals /\ [ NoLocals EXCEPT !.space = spaceId[p], !.chan = c, !.next = "joinCommit" ].next \in Nexts
      BY <2>1 DEF NoLocals, Locals, Steps, Nexts, TypeOK, PeersOK, SpacesOK
    <2>3. Harmless(p)
      BY <2>1, <2>2, GotoHarmless DEF Steps, Sensitive
    <2> QED
      BY <1>7, <2>3, ControlHarmless DEF JoinChannel, roomVars, OnlyTaker
  <1>8. ASSUME NEW p \in Peers, LeaveChannel(p) PROVE ControlInv'
    BY <1>8, NoLocalsOK, GotoHarmless, ControlHarmless
    DEF LeaveChannel, roomVars, OnlyTaker, NoLocals, Nexts, Steps, Sensitive
  <1>9. ASSUME NEW p \in Peers, CreateSpace(p) PROVE ControlInv'
    BY <1>9, IdleHarmless, ControlHarmless DEF CreateSpace, Idle, OnlyTaker
  <1>10. ASSUME NEW p \in Peers, JoinSpace(p) PROVE ControlInv'
    <2>1. PICK s \in spaces : Goto(p, "spaceCommit", [ NoLocals EXCEPT !.space = s ])
      BY <1>10 DEF JoinSpace
    <2>2. [ NoLocals EXCEPT !.space = s ] \in Locals /\ [ NoLocals EXCEPT !.space = s ].next \in Nexts
      BY <2>1 DEF NoLocals, Locals, Steps, Nexts, TypeOK, PeersOK, SpacesOK
    <2>3. Harmless(p)
      BY <2>1, <2>2, GotoHarmless DEF Steps, Sensitive
    <2> QED
      BY <1>10, <2>3, ControlHarmless DEF JoinSpace, roomVars, OnlyTaker
  <1>11. ASSUME NEW p \in Peers, LeaveSpace(p) PROVE ControlInv'
    <2>2. [ NoLocals EXCEPT !.space = spaceId[p], !.next = "spaceUnmember" ] \in Locals /\ [ NoLocals EXCEPT !.space = spaceId[p], !.next = "spaceUnmember" ].next \in Nexts
      BY DEF NoLocals, Locals, Steps, Nexts, TypeOK, PeersOK, SpacesOK
    <2>3. Harmless(p)
      BY <1>11, <2>2, GotoHarmless DEF Steps, Sensitive, LeaveSpace
    <2> QED
      BY <1>11, <2>3, ControlHarmless DEF LeaveSpace, roomVars, OnlyTaker
  <1>12. ASSUME NEW p \in Peers, DeleteSpace(p) PROVE ControlInv'
    <2>1. (memberIds[spaceId[p]] \cap Connected) \X Fields \in SUBSET (Peers \X Fields)
      BY DEF Connected
    <2>2. Harmless(p)
      BY <1>12, <2>1, ResetLaterHarmless DEF DeleteSpace
    <2> QED
      BY <1>12, <2>2, RemoveRoomsTakesNone, ControlHarmless DEF DeleteSpace, OnlyTaker
  <1>13. ASSUME NEW p \in Peers, CreateChannel(p) PROVE ControlInv'
    <2>2. [ NoLocals EXCEPT !.space = spaceId[p] ] \in Locals /\ [ NoLocals EXCEPT !.space = spaceId[p] ].next \in Nexts
      BY DEF NoLocals, Locals, Steps, Nexts, TypeOK, PeersOK, SpacesOK
    <2>3. Harmless(p)
      BY <1>13, <2>2, GotoHarmless DEF Steps, Sensitive, CreateChannel
    <2> QED
      BY <1>13, <2>3, ControlHarmless DEF CreateChannel, roomVars, OnlyTaker
  <1>14. ASSUME NEW p \in Peers, DeleteChannel(p) PROVE ControlInv'
    <2>1. PICK c \in channels[spaceId[p]] :
             /\ RemoveRooms({c})
             /\ ResetLater(p, { q \in Connected : Listed(q, c) } \X {"code"})
      BY <1>14 DEF DeleteChannel
    <2>2. { q \in Connected : Listed(q, c) } \X {"code"} \in SUBSET (Peers \X Fields)
      BY DEF Connected, Fields
    <2> QED
      BY <2>1, <2>2, ResetLaterHarmless, RemoveRoomsTakesNone, ControlHarmless DEF OnlyTaker
  <1>15. ASSUME NEW p \in Peers, Kick(p) PROVE ControlInv'
    <2>1. PICK q \in memberIds[spaceId[p]] \cap Connected : ResetLater(p, {q} \X Fields)
      BY <1>15 DEF Kick
    <2>2. Harmless(p)
      BY <2>1, ResetLaterHarmless DEF Connected
    <2> QED
      BY <1>15, <2>2, ControlHarmless DEF Kick, roomVars, OnlyTaker
  <1>16. ASSUME NEW p \in Peers, SwitchIdentity(p) PROVE ControlInv'
    BY <1>16, IdleHarmless, ControlHarmless DEF SwitchIdentity, Idle, OnlyTaker, roomVars
  <1>17. ASSUME NEW p \in Peers, Hangup(p) PROVE ControlInv'
    BY <1>17, DropBeginControl DEF Hangup
  <1>18. ASSUME NEW p \in Peers, JoinRoomCommit(p) PROVE ControlInv'
    BY <1>18, FinishHarmless, ControlHarmless DEF JoinRoomCommit, OnlyTaker
  <1>19. ASSUME NEW p \in Peers, JoinCommit(p) PROVE ControlInv'
    BY <1>19, FinishHarmless, ControlHarmless DEF JoinCommit, OnlyTaker
  <1>20. ASSUME NEW p \in Peers, JoinRefused(p) PROVE ControlInv'
    BY <1>20, FinishHarmless, ControlHarmless DEF JoinRefused, roomVars, OnlyTaker
  <1>21. ASSUME NEW p \in Peers, LeaveBegin(p) PROVE ControlInv'
    <2>1. OnlyTaker(p) /\ activeShare'[roomCode[p]] # p
      BY <1>21, StopShareTakesNone DEF LeaveBegin
    <2>2. /\ OthersStay(p)
          /\ pc'[p] = "leaveUnlist"
          /\ loc'[p].next = loc[p].next /\ loc'[p].room = roomCode[p]
      BY <1>21 DEF LeaveBegin, Goto, OthersStay, TypeOK, ControlOK, Locals
    <2>3. loc[p].next \in Nexts
      BY DEF ControlInv, LocalsKept, Nexts
    <2> QED
      BY <2>1, <2>2, <2>3, ControlUnlisting
  <1>22. ASSUME NEW p \in Peers, LeaveNothing(p) PROVE ControlInv'
    BY <1>22, ContinueHarmless, ControlHarmless DEF LeaveNothing, roomVars, OnlyTaker
  <1>23. ASSUME NEW p \in Peers, LeaveUnlist(p) PROVE ControlInv'
    BY <1>23, ContinueHarmless, ControlHarmless DEF LeaveUnlist, OnlyTaker
  <1>24. ASSUME NEW p \in Peers, JoinSpaceCommit(p) PROVE ControlInv'
    BY <1>24, FinishHarmless, ControlHarmless DEF JoinSpaceCommit, roomVars, OnlyTaker
  <1>25. ASSUME NEW p \in Peers, SpaceUnmember(p) PROVE ControlInv'
    BY <1>25, FinishHarmless, ControlHarmless DEF SpaceUnmember, roomVars, OnlyTaker
  <1>26. ASSUME NEW p \in Peers, CreateChannelCommit(p) PROVE ControlInv'
    BY <1>26, FinishHarmless, ControlHarmless DEF CreateChannelCommit, OnlyTaker
  <1>27. ASSUME NEW p \in Peers, Reset(p) PROVE ControlInv'
    <2>1. PICK t \in loc[p].todo : ResetLater(p, loc[p].todo \ {t})
      BY <1>27 DEF Reset
    <2>2. loc[p].todo \ {t} \in SUBSET (Peers \X Fields)
      BY DEF TypeOK, ControlOK, Locals
    <2> QED
      BY <1>27, <2>1, <2>2, ResetLaterHarmless, ControlHarmless DEF Reset, roomVars, OnlyTaker
  <1>28. ASSUME NEW p \in Peers, DropUnlist(p) PROVE ControlInv'
    <2>1. OnlyTaker(p)
      BY <1>28, IdsAssumption DEF DropUnlist, OnlyTaker, TypeOK, RoomsOK
    <2>2. Harmless(p)
      BY <1>28, NoLocalsOK, GotoHarmless DEF DropUnlist, NoLocals, Nexts, Steps, Sensitive
    <2> QED
      BY <2>1, <2>2, ControlHarmless
  <1>29. ASSUME NEW p \in Peers, DropForget(p) PROVE ControlInv'
    BY <1>29, FinishHarmless, ControlHarmless DEF DropForget, roomVars, OnlyTaker
  <1>30. CASE Sweep
    BY <1>30, RemoveRoomsTakesNone
    DEF Sweep, ControlInv, SharerLeaving, LocalsKept, Control, TypeOK, ControlOK
  <1>31. CASE UNCHANGED vars
    BY <1>31 DEF vars, roomVars, ControlInv, SharerLeaving, LocalsKept
  <1> QED
    BY <1>1, <1>2, <1>3, <1>4, <1>5, <1>6, <1>7, <1>8, <1>9, <1>10, <1>11, <1>12, <1>13, <1>14, <1>15,
       <1>16, <1>17, <1>18, <1>19, <1>20, <1>21, <1>22, <1>23, <1>24, <1>25, <1>26, <1>27, <1>28, <1>29, <1>30, <1>31
    DEF Next, Request, Proceed

-----------------------------------------------------------------------------
LEMMA VoiceInvInit == Init => VoiceInv
  BY TypeOKInit, IdsAssumption
  DEF Init, VoiceInv, VoiceCodeListed, SharerListed, VoiceSupport, SharerLeaving,
      LocalsKept, IdsAllocated, ChannelsDisjoint, NoLocals

LEMMA VoiceInvNext == VoiceInv /\ [Next]_vars => VoiceInv'
  <1> SUFFICES ASSUME VoiceInv, [Next]_vars PROVE VoiceInv'
    OBVIOUS
  <1>1. TypeOK'
    BY TypeOKNext DEF VoiceInv
  <1> QED
    BY <1>1, ListsNext, ControlNext DEF VoiceInv, VoiceSupport, ListsInv, ControlInv

(* The inductive invariant: what the voice channels rest on, kept by every *)
(* critical section of every handler and by the sweeper.                   *)
THEOREM VoiceInvariant == Spec => []VoiceInv
  BY VoiceInvInit, VoiceInvNext, PTL DEF Spec

(* A peer whose room code names a channel is on that channel's list, or    *)
(* channel and room are both gone, however joins, leaves, kicks,           *)
(* deletions, departures and sweeps interleave.                            *)
THEOREM VoiceCodesAreListed == Spec => []VoiceCodeListed
  BY VoiceInvariant, PTL DEF VoiceInv

(* The sharer of a channel is on the channel's list. *)
THEOREM SharersAreListed == Spec => []SharerListed
  BY VoiceInvariant, PTL DEF VoiceInv

(* No channel ever belongs to two spaces. *)
THEOREM ChannelsStayDisjoint == Spec => []ChannelsDisjoint
  BY VoiceInvariant, PTL DEF VoiceInv, VoiceSupport

-----------------------------------------------------------------------------
(* The members of a space. *)

LEMMA MembersType ==
    ASSUME TypeOK, NEW s \in Spaces
    PROVE  memberIds[s] \in SUBSET Peers /\ IsFiniteSet(memberIds[s])
  <1>1. memberIds[s] \in SUBSET Peers
    BY DEF TypeOK, SpacesOK
  <1> QED
    BY <1>1, BoundsAssumption, FS_Subset

(* Who only takes members away breaks no cap. *)
LEMMA FewerMembers ==
    ASSUME TypeOK, MembersWithinCap,
           \A s \in Spaces : memberIds'[s] \in SUBSET memberIds[s]
    PROVE  MembersWithinCap'
  <1> SUFFICES ASSUME NEW s \in Spaces PROVE Cardinality(memberIds'[s]) <= MaxMembers
    BY DEF MembersWithinCap
  <1>1. IsFiniteSet(memberIds[s]) /\ memberIds'[s] \in SUBSET memberIds[s]
    BY MembersType
  <1>2. /\ Cardinality(memberIds'[s]) <= Cardinality(memberIds[s])
        /\ IsFiniteSet(memberIds'[s])
    BY <1>1, FS_Subset
  <1>3. Cardinality(memberIds[s]) \in Nat /\ Cardinality(memberIds'[s]) \in Nat
    BY <1>1, <1>2, FS_CardinalityType
  <1> QED
    BY <1>2, <1>3, BoundsAssumption DEF MembersWithinCap

LEMMA MembersNext ==
    ASSUME TypeOK, MembersWithinCap, [Next]_vars
    PROVE  MembersWithinCap'
  <1>1. ASSUME NEW p \in Peers, Connect(p) PROVE MembersWithinCap'
    BY <1>1 DEF Connect, MembersWithinCap, spaceVars
  <1>2. ASSUME NEW p \in Peers, CreateRoom(p) PROVE MembersWithinCap'
    BY <1>2 DEF CreateRoom, MembersWithinCap, spaceVars
  <1>3. ASSUME NEW p \in Peers, JoinRoom(p) PROVE MembersWithinCap'
    BY <1>3 DEF JoinRoom, MembersWithinCap, spaceVars
  <1>4. ASSUME NEW p \in Peers, LeaveRoom(p) PROVE MembersWithinCap'
    BY <1>4 DEF LeaveRoom, DropBegin, MembersWithinCap, spaceVars
  <1>5. ASSUME NEW p \in Peers, StartShare(p) PROVE MembersWithinCap'
    BY <1>5 DEF StartShare, MembersWithinCap, spaceVars
  <1>6. ASSUME NEW p \in Peers, StopShare(p) PROVE MembersWithinCap'
    BY <1>6 DEF StopShare, MembersWithinCap, spaceVars
  <1>7. ASSUME NEW p \in Peers, JoinChannel(p) PROVE MembersWithinCap'
    BY <1>7 DEF JoinChannel, MembersWithinCap, spaceVars
  <1>8. ASSUME NEW p \in Peers, LeaveChannel(p) PROVE MembersWithinCap'
    BY <1>8 DEF LeaveChannel, MembersWithinCap, spaceVars
  <1>9. ASSUME NEW p \in Peers, CreateSpace(p) PROVE MembersWithinCap'
    <2>1. PICK s \in Spaces : memberIds' = [ memberIds EXCEPT ![s] = {p} ]
      BY <1>9 DEF CreateSpace
    <2>2. Cardinality({p}) = 1
      BY FS_Singleton
    <2> SUFFICES ASSUME NEW t \in Spaces PROVE Cardinality(memberIds'[t]) <= MaxMembers
      BY DEF MembersWithinCap
    <2>3. CASE t = s
      BY <2>1, <2>2, <2>3, BoundsAssumption DEF TypeOK, SpacesOK
    <2>4. CASE t # s
      BY <2>1, <2>4 DEF MembersWithinCap, TypeOK, SpacesOK
    <2> QED
      BY <2>3, <2>4
  <1>10. ASSUME NEW p \in Peers, JoinSpace(p) PROVE MembersWithinCap'
    BY <1>10 DEF JoinSpace, MembersWithinCap, spaceVars
  <1>11. ASSUME NEW p \in Peers, LeaveSpace(p) PROVE MembersWithinCap'
    BY <1>11 DEF LeaveSpace, MembersWithinCap, spaceVars
  <1>12. ASSUME NEW p \in Peers, DeleteSpace(p) PROVE MembersWithinCap'
    BY <1>12, FewerMembers DEF DeleteSpace, TypeOK, SpacesOK
  <1>13. ASSUME NEW p \in Peers, CreateChannel(p) PROVE MembersWithinCap'
    BY <1>13 DEF CreateChannel, MembersWithinCap, spaceVars
  <1>14. ASSUME NEW p \in Peers, DeleteChannel(p) PROVE MembersWithinCap'
    BY <1>14 DEF DeleteChannel, MembersWithinCap, spaceVars
  <1>15. ASSUME NEW p \in Peers, Kick(p) PROVE MembersWithinCap'
    BY <1>15, FewerMembers DEF Kick, TypeOK, SpacesOK
  <1>16. ASSUME NEW p \in Peers, SwitchIdentity(p) PROVE MembersWithinCap'
    BY <1>16 DEF SwitchIdentity, MembersWithinCap, spaceVars
  <1>17. ASSUME NEW p \in Peers, Hangup(p) PROVE MembersWithinCap'
    BY <1>17 DEF Hangup, DropBegin, MembersWithinCap, spaceVars
  <1>18. ASSUME NEW p \in Peers, JoinRoomCommit(p) PROVE MembersWithinCap'
    BY <1>18 DEF JoinRoomCommit, MembersWithinCap, spaceVars
  <1>19. ASSUME NEW p \in Peers, JoinCommit(p) PROVE MembersWithinCap'
    BY <1>19 DEF JoinCommit, MembersWithinCap, spaceVars
  <1>20. ASSUME NEW p \in Peers, JoinRefused(p) PROVE MembersWithinCap'
    BY <1>20 DEF JoinRefused, MembersWithinCap, spaceVars
  <1>21. ASSUME NEW p \in Peers, LeaveBegin(p) PROVE MembersWithinCap'
    BY <1>21 DEF LeaveBegin, MembersWithinCap, spaceVars
  <1>22. ASSUME NEW p \in Peers, LeaveNothing(p) PROVE MembersWithinCap'
    BY <1>22 DEF LeaveNothing, MembersWithinCap, spaceVars
  <1>23. ASSUME NEW p \in Peers, LeaveUnlist(p) PROVE MembersWithinCap'
    BY <1>23 DEF LeaveUnlist, MembersWithinCap, spaceVars
  <1>24. ASSUME NEW p \in Peers, JoinSpaceCommit(p) PROVE MembersWithinCap'
    <2> DEFINE s == loc[p].space
               present == memberIds[s] \cap Connected
    <2>1. CASE s \notin spaces
      BY <1>24, <2>1 DEF JoinSpaceCommit, MembersWithinCap
    <2>2. CASE s \in spaces
      <3>1. /\ s \in Spaces
            /\ memberIds' = [ memberIds EXCEPT ![s] =
                 IF Cardinality(present) < MaxMembers THEN present \cup {p} ELSE present ]
        BY <1>24, <2>2 DEF JoinSpaceCommit, TypeOK, SpacesOK
      <3>2. IsFiniteSet(memberIds[s]) /\ present \in SUBSET memberIds[s]
        BY <3>1, MembersType
      <3>3. IsFiniteSet(present) /\ Cardinality(present) <= Cardinality(memberIds[s])
        BY <3>2, FS_Subset
      <3>4. Cardinality(present) \in Nat /\ Cardinality(memberIds[s]) \in Nat
        BY <3>2, <3>3, FS_CardinalityType
      <3>5. Cardinality(present \cup {p}) \in {Cardinality(present), Cardinality(present) + 1}
        BY <3>3, FS_AddElement
      <3>6. Cardinality(memberIds[s]) <= MaxMembers
        BY <3>1 DEF MembersWithinCap
      <3>7. memberIds'[s] = IF Cardinality(present) < MaxMembers
                            THEN present \cup {p} ELSE present
        BY <3>1 DEF TypeOK, SpacesOK
      <3>8. Cardinality(memberIds'[s]) <= MaxMembers
        BY <3>3, <3>4, <3>5, <3>6, <3>7, BoundsAssumption
      <3>9. \A t \in Spaces \ {s} : memberIds'[t] = memberIds[t]
        BY <3>1 DEF TypeOK, SpacesOK
      <3> QED
        BY <3>8, <3>9 DEF MembersWithinCap
    <2> QED
      BY <2>1, <2>2
  <1>25. ASSUME NEW p \in Peers, SpaceUnmember(p) PROVE MembersWithinCap'
    BY <1>25, FewerMembers DEF SpaceUnmember, TypeOK, SpacesOK
  <1>26. ASSUME NEW p \in Peers, CreateChannelCommit(p) PROVE MembersWithinCap'
    BY <1>26 DEF CreateChannelCommit, MembersWithinCap, spaceVars
  <1>27. ASSUME NEW p \in Peers, Reset(p) PROVE MembersWithinCap'
    BY <1>27 DEF Reset, MembersWithinCap, spaceVars
  <1>28. ASSUME NEW p \in Peers, DropUnlist(p) PROVE MembersWithinCap'
    BY <1>28 DEF DropUnlist, MembersWithinCap, spaceVars
  <1>29. ASSUME NEW p \in Peers, DropForget(p) PROVE MembersWithinCap'
    BY <1>29, FewerMembers DEF DropForget, TypeOK, SpacesOK
  <1>30. CASE Sweep
    BY <1>30, FewerMembers DEF Sweep, TypeOK, SpacesOK
  <1>31. CASE UNCHANGED vars
    BY <1>31 DEF vars, spaceVars, MembersWithinCap
  <1> QED
    BY <1>1, <1>2, <1>3, <1>4, <1>5, <1>6, <1>7, <1>8, <1>9, <1>10, <1>11, <1>12, <1>13, <1>14, <1>15, <1>16, <1>17, <1>18, <1>19, <1>20, <1>21, <1>22, <1>23, <1>24, <1>25, <1>26, <1>27, <1>28, <1>29, <1>30, <1>31 DEF Next, Request, Proceed

(* No space ever has more members than its cap, however joins, rejoins,    *)
(* departures and sweeps interleave.                                       *)
THEOREM MembersStayWithinCap == Spec => []MembersWithinCap
  <1>1. Init => MembersWithinCap
    <2> SUFFICES ASSUME Init, NEW s \in Spaces PROVE Cardinality(memberIds[s]) <= MaxMembers
      BY DEF MembersWithinCap
    <2>1. memberIds[s] = {} /\ Cardinality({}) = 0
      BY FS_EmptySet DEF Init
    <2> QED
      BY <2>1, BoundsAssumption
  <1>2. TypeOK /\ MembersWithinCap /\ [Next]_vars => MembersWithinCap'
    BY MembersNext
  <1> QED
    BY <1>1, <1>2, TypeCorrect, PTL DEF Spec

-----------------------------------------------------------------------------
(* The rooms of channels that are gone.  A space that is created must not  *)
(* take the place of one that is there, and ids given out see to that.     *)
Silent ==
    /\ DeletedChannelsSilent
    /\ spaces \subseteq allocated

(* Nothing happens to the list of any channel. *)
LEMMA SilentSame ==
    ASSUME Silent, \A c \in Channels : peerIds'[c] = peerIds[c],
           UNCHANGED <<spaces, channels, allocated>>
    PROVE  Silent'
  BY DEF Silent, DeletedChannelsSilent, LiveChannels, NewRoom

(* A peer is taken off a list. *)
LEMMA SilentUnlist ==
    ASSUME Silent, TypeOK, NEW p \in Peers, NEW r, peerIds' = Without(p, r),
           UNCHANGED <<spaces, channels, allocated>>
    PROVE  Silent'
  <1>1. ASSUME NEW c \in Channels, peerIds[c] = NewRoom PROVE peerIds'[c] = NewRoom
    <2>1. CASE c = r
      <3>1. peerIds'[c] = [ peerIds[c] EXCEPT ![p] = 0 ]
        BY <2>1 DEF Without, TypeOK, RoomsOK
      <3> QED
        BY <1>1, <3>1 DEF NewRoom
    <2>2. CASE c # r
      BY <1>1, <2>2 DEF Without, TypeOK, RoomsOK
    <2> QED
      BY <2>1, <2>2
  <1> QED
    BY <1>1 DEF Silent, DeletedChannelsSilent, LiveChannels, NewRoom

(* Rooms are removed; channels that go lose their rooms. *)
LEMMA SilentRemove ==
    ASSUME Silent, NEW gone, RemoveRooms(gone),
           \A c \in LiveChannels : c \in gone \/ c \in LiveChannels',
           spaces' \subseteq spaces, UNCHANGED allocated
    PROVE  Silent'
  BY DEF Silent, DeletedChannelsSilent, RemoveRooms, NewRoom

LEMMA SilentNext ==
    ASSUME VoiceInv, Silent, [Next]_vars
    PROVE  Silent'
  <1>0. TypeOK /\ LocalsKept /\ ChannelsDisjoint
    BY DEF VoiceInv, VoiceSupport
  <1> USE <1>0
  <1>1. ASSUME NEW p \in Peers, Connect(p) PROVE Silent'
    BY <1>1, SilentSame DEF Connect, roomVars, spaceVars
  <1>2. ASSUME NEW p \in Peers, CreateRoom(p) PROVE Silent'
    <2>1. PICK r \in Codes : peerIds' = [ peerIds EXCEPT ![r] = [ NewRoom EXCEPT ![p] = 1 ] ]
      BY <1>2 DEF CreateRoom
    <2>2. \A c \in Channels : c # r /\ c \in Rooms
      BY IdsAssumption
    <2>3. \A c \in Channels : peerIds'[c] = peerIds[c]
      BY <2>1, <2>2 DEF TypeOK, RoomsOK
    <2> QED
      BY <1>2, <2>3, SilentSame DEF CreateRoom, spaceVars
  <1>3. ASSUME NEW p \in Peers, JoinRoom(p) PROVE Silent'
    BY <1>3, SilentSame DEF JoinRoom, roomVars, spaceVars
  <1>4. ASSUME NEW p \in Peers, LeaveRoom(p) PROVE Silent'
    BY <1>4, SilentSame DEF LeaveRoom, DropBegin, roomVars, spaceVars
  <1>5. ASSUME NEW p \in Peers, StartShare(p) PROVE Silent'
    BY <1>5, SilentSame DEF StartShare, roomVars, spaceVars
  <1>6. ASSUME NEW p \in Peers, StopShare(p) PROVE Silent'
    BY <1>6, SilentSame DEF StopShare, roomVars, spaceVars
  <1>7. ASSUME NEW p \in Peers, JoinChannel(p) PROVE Silent'
    BY <1>7, SilentSame DEF JoinChannel, roomVars, spaceVars
  <1>8. ASSUME NEW p \in Peers, LeaveChannel(p) PROVE Silent'
    BY <1>8, SilentSame DEF LeaveChannel, roomVars, spaceVars
  <1>9. ASSUME NEW p \in Peers, CreateSpace(p) PROVE Silent'
    <2>1. PICK s \in Spaces \ allocated, c \in Channels :
             /\ spaces' = spaces \cup {s}
             /\ channels' = [ channels EXCEPT ![s] = {c} ]
             /\ allocated' = allocated \cup {s, c}
      BY <1>9 DEF CreateSpace
    <2>2. s \notin spaces
      BY DEF Silent
    <2>3. \A t \in spaces : t \in spaces' /\ channels'[t] = channels[t]
      BY <2>1, <2>2 DEF TypeOK, SpacesOK
    <2>4. \A d \in LiveChannels : d \in LiveChannels'
      BY <2>3 DEF LiveChannels
    <2>5. UNCHANGED peerIds
      BY <1>9 DEF CreateSpace
    <2> QED
      BY <2>1, <2>4, <2>5 DEF Silent, DeletedChannelsSilent, NewRoom
  <1>10. ASSUME NEW p \in Peers, JoinSpace(p) PROVE Silent'
    BY <1>10, SilentSame DEF JoinSpace, roomVars, spaceVars
  <1>11. ASSUME NEW p \in Peers, LeaveSpace(p) PROVE Silent'
    BY <1>11, SilentSame DEF LeaveSpace, roomVars, spaceVars
  <1>12. ASSUME NEW p \in Peers, DeleteSpace(p) PROVE Silent'
    <2> DEFINE s == spaceId[p]
    <2>1. /\ spaces' = spaces \ {s}
          /\ channels' = [ channels EXCEPT ![s] = {} ]
          /\ RemoveRooms(channels[s])
          /\ UNCHANGED allocated
      BY <1>12 DEF DeleteSpace
    <2>2. \A c \in LiveChannels : c \in channels[s] \/ c \in LiveChannels'
      BY <2>1 DEF LiveChannels, TypeOK, SpacesOK
    <2>3. spaces' \subseteq spaces
      BY <2>1
    <2> HIDE DEF s
    <2> QED
      BY <2>1, <2>2, <2>3, SilentRemove
  <1>13. ASSUME NEW p \in Peers, CreateChannel(p) PROVE Silent'
    BY <1>13, SilentSame DEF CreateChannel, roomVars, spaceVars
  <1>14. ASSUME NEW p \in Peers, DeleteChannel(p) PROVE Silent'
    <2>1. PICK c \in channels[spaceId[p]] :
             /\ channels' = [ channels EXCEPT ![spaceId[p]] = @ \ {c} ]
             /\ RemoveRooms({c})
             /\ UNCHANGED <<spaces, allocated>>
      BY <1>14 DEF DeleteChannel
    <2>2. \A d \in LiveChannels : d \in {c} \/ d \in LiveChannels'
      BY <2>1 DEF LiveChannels, TypeOK, SpacesOK
    <2> QED
      BY <2>1, <2>2, SilentRemove
  <1>15. ASSUME NEW p \in Peers, Kick(p) PROVE Silent'
    BY <1>15, SilentSame DEF Kick, roomVars, spaceVars
  <1>16. ASSUME NEW p \in Peers, SwitchIdentity(p) PROVE Silent'
    BY <1>16, SilentSame DEF SwitchIdentity, roomVars, spaceVars
  <1>17. ASSUME NEW p \in Peers, Hangup(p) PROVE Silent'
    BY <1>17, SilentSame DEF Hangup, DropBegin, roomVars, spaceVars
  <1>18. ASSUME NEW p \in Peers, JoinRoomCommit(p) PROVE Silent'
    <2>1. loc[p].room \in Codes
      BY <1>18 DEF JoinRoomCommit, LocalsKept
    <2>2. \A c \in Channels : c # loc[p].room /\ c \in Rooms
      BY <2>1, IdsAssumption
    <2>3. \A c \in Channels : peerIds'[c] = peerIds[c]
      BY <1>18, <2>2 DEF JoinRoomCommit, TypeOK, RoomsOK
    <2> QED
      BY <1>18, <2>3, SilentSame DEF JoinRoomCommit, spaceVars
  <1>19. ASSUME NEW p \in Peers, JoinCommit(p) PROVE Silent'
    <2>1. loc[p].chan \in LiveChannels
      BY <1>19 DEF JoinCommit, CanEnter, LiveChannels
    <2>2. \A c \in Channels \ {loc[p].chan} : peerIds'[c] = peerIds[c]
      BY <1>19 DEF JoinCommit, TypeOK, RoomsOK
    <2>3. UNCHANGED <<spaces, channels, allocated>>
      BY <1>19 DEF JoinCommit, spaceVars
    <2> QED
      BY <2>1, <2>2, <2>3 DEF Silent, DeletedChannelsSilent, LiveChannels, NewRoom
  <1>20. ASSUME NEW p \in Peers, JoinRefused(p) PROVE Silent'
    BY <1>20, SilentSame DEF JoinRefused, roomVars, spaceVars
  <1>21. ASSUME NEW p \in Peers, LeaveBegin(p) PROVE Silent'
    BY <1>21, SilentSame DEF LeaveBegin, roomVars, spaceVars
  <1>22. ASSUME NEW p \in Peers, LeaveNothing(p) PROVE Silent'
    BY <1>22, SilentSame DEF LeaveNothing, roomVars, spaceVars
  <1>23. ASSUME NEW p \in Peers, LeaveUnlist(p) PROVE Silent'
    BY <1>23, SilentUnlist DEF LeaveUnlist, spaceVars
  <1>24. ASSUME NEW p \in Peers, JoinSpaceCommit(p) PROVE Silent'
    BY <1>24, SilentSame DEF JoinSpaceCommit, roomVars, spaceVars
  <1>25. ASSUME NEW p \in Peers, SpaceUnmember(p) PROVE Silent'
    BY <1>25, SilentSame DEF SpaceUnmember, roomVars, spaceVars
  <1>26. ASSUME NEW p \in Peers, CreateChannelCommit(p) PROVE Silent'
    <2>1. PICK c \in Channels :
             /\ allocated' = allocated \cup {c}
             /\ channels' = IF loc[p].space \in spaces
                            THEN [ channels EXCEPT ![loc[p].space] = @ \cup {c} ]
                            ELSE channels
      BY <1>26 DEF CreateChannelCommit
    <2>2. \A t \in spaces : channels[t] \subseteq channels'[t]
      BY <2>1 DEF TypeOK, SpacesOK
    <2>3. UNCHANGED <<spaces, peerIds>>
      BY <1>26 DEF CreateChannelCommit
    <2>4. \A d \in LiveChannels : d \in LiveChannels'
      BY <2>2, <2>3 DEF LiveChannels
    <2> QED
      BY <2>1, <2>3, <2>4 DEF Silent, DeletedChannelsSilent, NewRoom
  <1>27. ASSUME NEW p \in Peers, Reset(p) PROVE Silent'
    BY <1>27, SilentSame DEF Reset, roomVars, spaceVars
  <1>28. ASSUME NEW p \in Peers, DropUnlist(p) PROVE Silent'
    BY <1>28, SilentUnlist DEF DropUnlist, spaceVars
  <1>29. ASSUME NEW p \in Peers, DropForget(p) PROVE Silent'
    BY <1>29, SilentSame DEF DropForget, roomVars, spaceVars
  <1>30. CASE Sweep
    <2>1. PICK old \in SUBSET rooms : RemoveRooms(old)
      BY <1>30 DEF Sweep
    <2>2. UNCHANGED <<spaces, channels, allocated>>
      BY <1>30 DEF Sweep
    <2>3. \A c \in LiveChannels : c \in LiveChannels'
      BY <2>2 DEF LiveChannels
    <2> QED
      BY <2>1, <2>2, <2>3, SilentRemove
  <1>31. CASE UNCHANGED vars
    BY <1>31, SilentSame DEF vars, roomVars, spaceVars
  <1> QED
    BY <1>1, <1>2, <1>3, <1>4, <1>5, <1>6, <1>7, <1>8, <1>9, <1>10, <1>11, <1>12, <1>13, <1>14, <1>15, <1>16, <1>17, <1>18, <1>19, <1>20, <1>21, <1>22, <1>23, <1>24, <1>25, <1>26, <1>27, <1>28, <1>29, <1>30, <1>31 DEF Next, Request, Proceed

(* Nobody is ever listed in the room of a channel that does not exist: no  *)
(* join that was under way brings a deleted channel's room back.           *)
THEOREM DeletedChannelsStaySilent == Spec => []DeletedChannelsSilent
  <1>1. Init => Silent
    BY DEF Init, Silent, DeletedChannelsSilent
  <1>2. VoiceInv /\ Silent /\ [Next]_vars => Silent'
    BY SilentNext
  <1>3. Silent => DeletedChannelsSilent
    BY DEF Silent
  <1> QED
    BY <1>1, <1>2, <1>3, VoiceInvariant, PTL DEF Spec
-----------------------------------------------------------------------------
(* The length of a list. *)

Lists == [ Peers -> 0 .. MaxListings ]

LEMMA EntriesFinite ==
    ASSUME NEW list \in Lists
    PROVE  IsFiniteSet(Entries(list)) /\ Cardinality(Entries(list)) \in Nat
  <1>1. IsFiniteSet(1 .. MaxListings)
    BY BoundsAssumption, FS_Interval
  <1>2. IsFiniteSet(Peers \X (1 .. MaxListings))
    BY <1>1, BoundsAssumption, FS_Product
  <1>3. Entries(list) \in SUBSET (Peers \X (1 .. MaxListings))
    BY DEF Entries
  <1> QED
    BY <1>2, <1>3, FS_Subset, FS_CardinalityType

(* A list that holds nobody more often is not longer. *)
LEMMA ShorterList ==
    ASSUME NEW a \in Lists, NEW b \in Lists, \A p \in Peers : a[p] <= b[p]
    PROVE  Cardinality(Entries(a)) <= Cardinality(Entries(b))
  <1>1. Entries(a) \in SUBSET Entries(b)
    <2> SUFFICES ASSUME NEW p \in Peers, NEW n \in 1 .. MaxListings, n <= a[p]
                 PROVE  n <= b[p]
      BY DEF Entries
    <2>1. a[p] \in Int /\ b[p] \in Int /\ a[p] <= b[p]
      BY DEF Lists
    <2> QED
      BY <2>1
  <1> QED
    BY <1>1, EntriesFinite, FS_Subset

(* One more listing makes it longer by one. *)
LEMMA OneMoreEntry ==
    ASSUME NEW list \in Lists, NEW p \in Peers, list[p] < MaxListings
    PROVE  /\ [ list EXCEPT ![p] = @ + 1 ] \in Lists
           /\ Cardinality(Entries([ list EXCEPT ![p] = @ + 1 ]))
                = Cardinality(Entries(list)) + 1
  <1> DEFINE longer == [ list EXCEPT ![p] = @ + 1 ]
             e == <<p, list[p] + 1>>
  <1>1. list[p] \in Nat /\ list[p] + 1 \in 1 .. MaxListings
    BY BoundsAssumption DEF Lists
  <1>2. longer \in Lists
    BY <1>1, BoundsAssumption DEF Lists
  <1>3. Entries(longer) = Entries(list) \cup {e}
    <2>1. ASSUME NEW q \in Peers, NEW n \in 1 .. MaxListings
          PROVE  n <= longer[q] <=> n <= list[q] \/ <<q, n>> = e
      BY <1>1, <2>1 DEF Lists
    <2>2. e \in Peers \X (1 .. MaxListings) /\ e[2] <= longer[e[1]]
      BY <1>1 DEF Lists
    <2> HIDE DEF longer, e
    <2> QED
      BY <2>1, <2>2 DEF Entries
  <1>4. e \notin Entries(list)
    BY <1>1 DEF Entries
  <1> QED
    BY <1>2, <1>3, <1>4, EntriesFinite, FS_AddElement

(* It has an entry unless it holds nobody. *)
LEMMA SomebodyListed ==
    ASSUME NEW list \in Lists
    PROVE  Cardinality(Entries(list)) > 0 <=> list # NewRoom
  <1>1. Entries(list) = {} <=> list = NewRoom
    <2>1. ASSUME NEW p \in Peers PROVE list[p] > 0 <=> <<p, 1>> \in Entries(list)
      BY BoundsAssumption DEF Lists, Entries
    <2>2. ASSUME \A p \in Peers : ~(list[p] > 0) PROVE list = NewRoom
      BY <2>2 DEF Lists, NewRoom
    <2>3. ASSUME list = NewRoom PROVE Entries(list) = {}
      BY <2>3 DEF Entries, NewRoom
    <2> QED
      BY <2>1, <2>2, <2>3
  <1> QED
    BY <1>1, EntriesFinite, FS_EmptySet

LEMMA ListType ==
    ASSUME TypeOK, NEW r \in Rooms
    PROVE  peerIds[r] \in Lists
  BY DEF TypeOK, RoomsOK, Lists

-----------------------------------------------------------------------------
(* Who changes a list of peers.  Everybody else leaves rooms and lists as  *)
(* they are.                                                               *)
ChangesRooms(p) ==
    \/ CreateRoom(p)  \/ JoinRoomCommit(p)      \/ JoinCommit(p)
    \/ LeaveUnlist(p) \/ DropUnlist(p)          \/ CreateSpace(p)
    \/ DeleteSpace(p) \/ CreateChannelCommit(p) \/ DeleteChannel(p)

LEMMA RoomWriters ==
    ASSUME [Next]_vars
    PROVE  UNCHANGED <<rooms, peerIds>> \/ Sweep \/ \E p \in Peers : ChangesRooms(p)
  <1>1. ASSUME NEW p \in Peers, Request(p)
        PROVE  UNCHANGED <<rooms, peerIds>> \/ ChangesRooms(p)
    BY <1>1
    DEF Request, ChangesRooms, Connect, JoinRoom, LeaveRoom, StartShare, StopShare,
        JoinChannel, LeaveChannel, JoinSpace, LeaveSpace, CreateChannel, Kick,
        SwitchIdentity, Hangup, DropBegin, roomVars
  <1>2. ASSUME NEW p \in Peers, Proceed(p)
        PROVE  UNCHANGED <<rooms, peerIds>> \/ ChangesRooms(p)
    BY <1>2
    DEF Proceed, ChangesRooms, JoinRefused, LeaveBegin, LeaveNothing, JoinSpaceCommit,
        SpaceUnmember, Reset, DropForget, roomVars
  <1>3. CASE UNCHANGED vars
    BY <1>3 DEF vars, roomVars
  <1> QED
    BY <1>1, <1>2, <1>3 DEF Next

(* Only a join lengthens the list of a channel, the one it was let into.   *)
LEMMA OnlyJoinsLengthen ==
    ASSUME VoiceInv, [Next]_vars, NEW c \in Channels,
           ~ \E p \in Peers : JoinCommit(p) /\ loc[p].chan = c
    PROVE  \A q \in Peers : peerIds'[c][q] <= peerIds[c][q]
  <1>0. TypeOK /\ LocalsKept /\ c \notin Codes /\ c \in Rooms
    BY IdsAssumption DEF VoiceInv, VoiceSupport
  <1>1. peerIds[c] \in Lists /\ \A q \in Peers : peerIds[c][q] \in Nat
    BY <1>0, ListType DEF Lists
  <1>2. CASE UNCHANGED <<rooms, peerIds>>
    BY <1>1, <1>2
  <1>3. ASSUME NEW gone, RemoveRooms(gone)
        PROVE  \A q \in Peers : peerIds'[c][q] <= peerIds[c][q]
    BY <1>0, <1>1, <1>3 DEF RemoveRooms, NewRoom
  <1>4. CASE Sweep
    BY <1>3, <1>4 DEF Sweep
  <1>5. ASSUME NEW p \in Peers, NEW r, peerIds' = Without(p, r)
        PROVE  \A q \in Peers : peerIds'[c][q] <= peerIds[c][q]
    BY <1>0, <1>1, <1>5 DEF Without, TypeOK, RoomsOK
  <1>6. ASSUME NEW p \in Peers, ChangesRooms(p)
        PROVE  \A q \in Peers : peerIds'[c][q] <= peerIds[c][q]
    <2>1. CASE CreateRoom(p)
      BY <1>0, <1>1, <2>1 DEF CreateRoom, TypeOK, RoomsOK
    <2>2. CASE JoinRoomCommit(p)
      <3>1. loc[p].room # c
        BY <1>0, <2>2 DEF JoinRoomCommit, LocalsKept
      <3> QED
        BY <1>0, <1>1, <2>2, <3>1 DEF JoinRoomCommit, TypeOK, RoomsOK
    <2>3. CASE JoinCommit(p)
      <3>1. loc[p].chan # c
        BY <2>3
      <3> QED
        BY <1>0, <1>1, <2>3, <3>1 DEF JoinCommit, TypeOK, RoomsOK
    <2>4. CASE LeaveUnlist(p)
      BY <1>5, <2>4 DEF LeaveUnlist
    <2>5. CASE DropUnlist(p)
      BY <1>5, <2>5 DEF DropUnlist
    <2>6. CASE CreateSpace(p)
      BY <1>1, <2>6 DEF CreateSpace
    <2>7. CASE DeleteSpace(p)
      BY <1>3, <2>7 DEF DeleteSpace
    <2>8. CASE CreateChannelCommit(p)
      BY <1>1, <2>8 DEF CreateChannelCommit
    <2>9. CASE DeleteChannel(p)
      BY <1>3, <2>9 DEF DeleteChannel
    <2> QED
      BY <1>6, <2>1, <2>2, <2>3, <2>4, <2>5, <2>6, <2>7, <2>8, <2>9 DEF ChangesRooms
  <1> QED
    BY <1>2, <1>4, <1>6, RoomWriters

(* No channel ever lists more than its user limit, whatever joins run at   *)
(* once: the place is checked and taken under one lock.                    *)
THEOREM UserLimitsRespected == Spec => []UserLimitRespected
  <1>1. Init => UserLimitRespected
    <2> SUFFICES ASSUME Init, UserLimit > 0, NEW c \in Channels
                 PROVE  RoomLen(c) <= UserLimit
      BY DEF UserLimitRespected
    <2>1. peerIds[c] = NewRoom /\ NewRoom \in Lists
      BY BoundsAssumption DEF Init, NewRoom, Lists
    <2>2. RoomLen(c) \in Nat /\ ~(RoomLen(c) > 0)
      BY <2>1, EntriesFinite, SomebodyListed DEF RoomLen
    <2> QED
      BY <2>2, BoundsAssumption
  <1>2. TypeOK' /\ VoiceInv /\ UserLimitRespected /\ [Next]_vars => UserLimitRespected'
    <2> SUFFICES ASSUME TypeOK', VoiceInv, UserLimitRespected, [Next]_vars,
                        UserLimit > 0, NEW c \in Channels
                 PROVE  Cardinality(Entries(peerIds'[c])) <= UserLimit
      BY DEF UserLimitRespected, RoomLen
    <2>1. peerIds[c] \in Lists /\ peerIds'[c] \in Lists
      BY DEF VoiceInv, TypeOK, RoomsOK, Lists
    <2>2. /\ Cardinality(Entries(peerIds[c])) \in Nat
          /\ Cardinality(Entries(peerIds'[c])) \in Nat
          /\ Cardinality(Entries(peerIds[c])) <= UserLimit
      BY <2>1, EntriesFinite DEF UserLimitRespected, RoomLen
    <2>3. ASSUME NEW p \in Peers, JoinCommit(p), loc[p].chan = c
          PROVE  Cardinality(Entries(peerIds'[c])) <= UserLimit
      <3>1. /\ Cardinality(Entries(peerIds[c])) < UserLimit
            /\ peerIds[c][p] < MaxListings
        BY <2>3 DEF JoinCommit, CanEnter, RoomLen
      <3>2. peerIds'[c] = [ peerIds[c] EXCEPT ![p] = @ + 1 ]
        BY <2>3 DEF JoinCommit, VoiceInv, TypeOK, RoomsOK
      <3>3. Cardinality(Entries(peerIds'[c])) = Cardinality(Entries(peerIds[c])) + 1
        BY <2>1, <3>1, <3>2, OneMoreEntry
      <3> QED
        BY <2>2, <3>1, <3>3, BoundsAssumption
    <2>4. CASE ~ \E p \in Peers : JoinCommit(p) /\ loc[p].chan = c
      <3>1. Cardinality(Entries(peerIds'[c])) <= Cardinality(Entries(peerIds[c]))
        BY <2>1, <2>4, OnlyJoinsLengthen, ShorterList
      <3> QED
        BY <2>2, <3>1, BoundsAssumption
    <2> QED
      BY <2>3, <2>4
  <1> QED
    BY <1>1, <1>2, TypeCorrect, VoiceInvariant, PTL DEF Spec
-----------------------------------------------------------------------------
(* The handlers of different peers are apart: a step of one leaves the     *)
(* program counters and locals of the others alone.                        *)
LEMMA HandlersApart ==
    ASSUME TypeOK, NEW p \in Peers, Request(p) \/ Proceed(p)
    PROVE  OthersStay(p)
  <1>0. /\ \A step, l : Goto(p, step, l) => OthersStay(p)
        /\ Finish(p) => OthersStay(p)
        /\ UNCHANGED Control => OthersStay(p)
    BY DEF Goto, Finish, Control, OthersStay, TypeOK, ControlOK
  <1>1. /\ Continue(p) => OthersStay(p)
        /\ \A todo : ResetLater(p, todo) => OthersStay(p)
        /\ DropBegin(p) => OthersStay(p)
    BY <1>0 DEF Continue, ResetLater, DropBegin
  <1>2. CASE Request(p)
    BY <1>0, <1>1, <1>2
    DEF Request, Connect, CreateRoom, JoinRoom, LeaveRoom, StartShare, StopShare,
        JoinChannel, LeaveChannel, CreateSpace, JoinSpace, LeaveSpace, DeleteSpace,
        CreateChannel, DeleteChannel, Kick, SwitchIdentity, Hangup
  <1>3. CASE Proceed(p)
    BY <1>0, <1>1, <1>3
    DEF Proceed, JoinRoomCommit, JoinCommit, JoinRefused, LeaveBegin, LeaveNothing,
        LeaveUnlist, JoinSpaceCommit, SpaceUnmember, CreateChannelCommit, Reset,
        DropUnlist, DropForget
  <1> QED
    BY <1>2, <1>3

(* Only handle_leave_channel goes on to take a peer off a channel's list. *)
LEMMA OnlyLeaveBeginUnlists ==
    ASSUME VoiceInv, NEW p \in Peers, Request(p) \/ Proceed(p), pc'[p] = "leaveUnlist"
    PROVE  LeaveBegin(p) \/ (pc'[p] = pc[p] /\ loc'[p] = loc[p])
  <1>0. ControlOK /\ LocalsKept
    BY DEF VoiceInv, VoiceSupport, TypeOK
  <1>1. /\ \A step, l : Goto(p, step, l) => step = "leaveUnlist"
        /\ ~Finish(p)
        /\ UNCHANGED Control => pc'[p] = pc[p] /\ loc'[p] = loc[p]
    BY <1>0 DEF ControlOK, Goto, Finish, Control
  <1>2. ~Continue(p) /\ (\A todo : ~ResetLater(p, todo)) /\ ~DropBegin(p)
    BY <1>0, <1>1 DEF Continue, ResetLater, DropBegin, LocalsKept
  <1>3. CASE Request(p)
    BY <1>1, <1>2, <1>3
    DEF Request, Connect, CreateRoom, JoinRoom, LeaveRoom, StartShare, StopShare,
        JoinChannel, LeaveChannel, CreateSpace, JoinSpace, LeaveSpace, DeleteSpace,
        CreateChannel, DeleteChannel, Kick, SwitchIdentity, Hangup
  <1>4. CASE Proceed(p)
    BY <1>1, <1>2, <1>4
    DEF Proceed, JoinRoomCommit, JoinCommit, JoinRefused, LeaveNothing,
        LeaveUnlist, JoinSpaceCommit, SpaceUnmember, CreateChannelCommit, Reset,
        DropUnlist, DropForget
  <1> QED
    BY <1>3, <1>4

(* The inductive invariant of RoomsOccupied: a stand-alone room that is    *)
(* there lists somebody, and handle_leave_channel, which removes no room,  *)
(* leaves channels only.                                                   *)
Occupied ==
    /\ \A r \in Codes \cap rooms : peerIds[r] # NewRoom
    /\ \A p \in Peers : pc[p] = "leaveUnlist" => loc[p].room \in Channels

LEMMA OccupiedNext ==
    ASSUME VoiceInv, Occupied, [Next]_vars
    PROVE  Occupied'
  <1>0. TypeOK /\ LocalsKept
    BY DEF VoiceInv, VoiceSupport
  <1>1. ASSUME NEW q \in Peers, pc'[q] = "leaveUnlist" PROVE loc'[q].room \in Channels
    <2>1. CASE UNCHANGED Control
      BY <1>1, <2>1 DEF Control, Occupied
    <2>2. ASSUME NEW p \in Peers, Request(p) \/ Proceed(p) PROVE loc'[q].room \in Channels
      <3>1. CASE p # q
        BY <1>0, <1>1, <2>2, <3>1, HandlersApart DEF OthersStay, Occupied
      <3>2. CASE p = q /\ LeaveBegin(q)
        BY <1>0, <3>2 DEF LeaveBegin, Goto, TypeOK, ControlOK, Locals
      <3> QED
        BY <1>1, <2>2, <3>1, <3>2, OnlyLeaveBeginUnlists DEF Occupied
    <2> QED
      BY <2>1, <2>2 DEF Next, Sweep, vars, Control
  <1>2. ASSUME NEW r \in Codes, r \in rooms' PROVE peerIds'[r] # NewRoom
    <2>0. r \notin Channels /\ r \in Rooms
      BY IdsAssumption
    <2>1. CASE UNCHANGED <<rooms, peerIds>>
      BY <1>2, <2>1 DEF Occupied
    <2>2. ASSUME NEW gone, RemoveRooms(gone) PROVE peerIds'[r] # NewRoom
      BY <1>2, <2>0, <2>2 DEF RemoveRooms, Occupied
    <2>3. ASSUME NEW p \in Peers, ChangesRooms(p) PROVE peerIds'[r] # NewRoom
      <3>1. CASE CreateRoom(p)
        <4>1. PICK n \in Codes \ rooms :
                 /\ rooms' = rooms \cup {n}
                 /\ peerIds' = [ peerIds EXCEPT ![n] = [ NewRoom EXCEPT ![p] = 1 ] ]
          BY <3>1 DEF CreateRoom
        <4>2. [ NewRoom EXCEPT ![p] = 1 ] # NewRoom
          BY DEF NewRoom
        <4>3. peerIds'[r] = IF r = n THEN [ NewRoom EXCEPT ![p] = 1 ] ELSE peerIds[r]
          BY <1>0, <4>1, <2>0 DEF TypeOK, RoomsOK
        <4> QED
          BY <1>2, <4>1, <4>2, <4>3 DEF Occupied
      <3>2. CASE JoinRoomCommit(p)
        <4>1. CASE loc[p].room = r
          <5>1. peerIds'[r][p] = peerIds[r][p] + 1 /\ peerIds[r][p] \in Nat
            BY <1>0, <1>2, <2>0, <3>2, <4>1 DEF JoinRoomCommit, TypeOK, RoomsOK
          <5> QED
            BY <5>1 DEF NewRoom
        <4>2. CASE loc[p].room # r
          BY <1>0, <1>2, <2>0, <3>2, <4>2 DEF JoinRoomCommit, TypeOK, RoomsOK, Occupied
        <4> QED
          BY <4>1, <4>2
      <3>3. CASE JoinCommit(p)
        <4>1. loc[p].chan \in Channels
          BY <1>0, <3>3 DEF JoinCommit, CanEnter, TypeOK, SpacesOK
        <4> QED
          BY <1>0, <1>2, <2>0, <3>3, <4>1 DEF JoinCommit, Occupied, TypeOK, RoomsOK
      <3>4. CASE LeaveUnlist(p)
        <4>1. loc[p].room # r
          BY <2>0, <3>4 DEF LeaveUnlist, Occupied
        <4> QED
          BY <1>0, <1>2, <2>0, <3>4, <4>1 DEF LeaveUnlist, Without, Occupied, TypeOK, RoomsOK
      <3>5. CASE DropUnlist(p)
        <4>1. CASE loc[p].room = r
          BY <1>2, <3>5, <4>1 DEF DropUnlist
        <4>2. CASE loc[p].room # r
          BY <1>0, <1>2, <2>0, <3>5, <4>2 DEF DropUnlist, Without, Occupied, TypeOK, RoomsOK
        <4> QED
          BY <4>1, <4>2
      <3>6. CASE CreateSpace(p)
        BY <1>2, <2>0, <3>6 DEF CreateSpace, Occupied
      <3>7. CASE DeleteSpace(p)
        BY <2>2, <3>7 DEF DeleteSpace
      <3>8. CASE CreateChannelCommit(p)
        BY <1>2, <2>0, <3>8 DEF CreateChannelCommit, Occupied
      <3>9. CASE DeleteChannel(p)
        BY <2>2, <3>9 DEF DeleteChannel
      <3> QED
        BY <2>3, <3>1, <3>2, <3>3, <3>4, <3>5, <3>6, <3>7, <3>8, <3>9 DEF ChangesRooms
    <2>4. CASE Sweep
      BY <2>2, <2>4 DEF Sweep
    <2> QED
      BY <2>1, <2>3, <2>4, RoomWriters
  <1> QED
    BY <1>1, <1>2 DEF Occupied, NewRoom

(* A stand-alone room never outlives its last listing, so the sweeper has  *)
(* none of them to remove: whoever is taken off the list as its last entry *)
(* takes the room along in the same critical section.                      *)
THEOREM RoomsStayOccupied == Spec => []RoomsOccupied
  <1>1. Init => Occupied
    BY DEF Init, Occupied
  <1>2. VoiceInv /\ Occupied /\ [Next]_vars => Occupied'
    BY OccupiedNext
  <1>3. TypeOK /\ Occupied => RoomsOccupied
    BY ListType, SomebodyListed DEF Occupied, RoomsOccupied, RoomLen
  <1> QED
    BY <1>1, <1>2, <1>3, TypeCorrect, VoiceInvariant, PTL DEF Spec

-----------------------------------------------------------------------------
(* Clients that are Orderly (see Membership): the room codes, the lists    *)
(* and the sharing slots then say the same of every peer, hearing is       *)
(* mutual, and the server implements VoicePresence.                        *)

LEMMA Ids ==
    /\ None \notin Peers /\ None \notin Channels /\ None \notin Codes /\ None \notin Spaces
    /\ \A c \in Channels : c \notin Codes /\ c \in Rooms
  BY IdsAssumption

-----------------------------------------------------------------------------
(* The inductive invariant, peer by peer: the lists name a peer exactly    *)
(* where its room code says, handlers about to unlist it still know that   *)
(* room, and handlers that went past that have no room to remember.        *)
TidyControl(p) ==
    /\ pc[p] \notin {"roomCommit", "reset"}
    /\ conn[p] \in {"new", "gone"} => pc[p] = "idle" /\ roomCode[p] = None
    /\ conn[p] = "closing" => pc[p] \in {"dropUnlist", "dropForget"}
    /\ pc[p] \in {"leaveUnlist", "dropUnlist"}
           => roomCode[p] # None /\ loc[p].room = roomCode[p]
    /\ pc[p] \in {"joinCommit", "spaceUnmember", "dropForget"} => roomCode[p] = None

TidyLists(p) ==
    /\ roomCode[p] \notin Codes
    /\ \A r \in Rooms : peerIds[r][p] > 0 <=> roomCode[p] = r
    /\ \A c \in Channels : activeShare[c] = p => roomCode[p] = c

Tidy == \A p \in Peers : TidyControl(p) /\ TidyLists(p)

(* What else a handler of one peer leaves alone: everything of the others. *)
OthersKeep(p) ==
    \A q \in Peers \ {p} :
        /\ conn'[q] = conn[q] /\ roomCode'[q] = roomCode[q]
        /\ \A r \in Rooms : peerIds'[r][q] = peerIds[r][q]
        /\ \A c \in Channels : activeShare'[c] = q => activeShare[c] = q

LEMMA TidyElsewhere ==
    ASSUME Tidy, NEW p \in Peers, OthersStay(p), OthersKeep(p)
    PROVE  \A q \in Peers \ {p} : TidyControl(q)' /\ TidyLists(q)'
  BY DEF Tidy, TidyControl, TidyLists, OthersStay, OthersKeep

(* What no client asks for does not happen. *)
LEMMA OrderlyRequests ==
    ASSUME Orderly, NEW p \in Peers, Request(p)
    PROVE  \/ Connect(p)      \/ LeaveRoom(p)   \/ StartShare(p)  \/ StopShare(p)
           \/ JoinChannel(p)  \/ LeaveChannel(p) \/ CreateSpace(p) \/ JoinSpace(p)
           \/ LeaveSpace(p)   \/ CreateChannel(p) \/ Hangup(p)
  BY DEF Orderly, Request, CreateRoom, JoinRoom, DeleteSpace, DeleteChannel, Kick,
         SwitchIdentity

LEMMA TidyApart ==
    ASSUME Orderly, TypeOK, Tidy, NEW p \in Peers, Request(p) \/ Proceed(p)
    PROVE  OthersKeep(p)
  <1>1. \A r : StopShareIn(r, p) => \A c \in Channels, q \in Peers \ {p} :
                                       activeShare'[c] = q => activeShare[c] = q
    BY IdsAssumption DEF StopShareIn, TypeOK, RoomsOK
  <1>2. \A r : peerIds' = Without(p, r) => \A s \in Rooms, q \in Peers \ {p} :
                                              peerIds'[s][q] = peerIds[s][q]
    BY DEF Without, TypeOK, RoomsOK
  <1>3. UNCHANGED <<conn, roomCode, peerIds, activeShare>> => OthersKeep(p)
    BY DEF OthersKeep
  <1>4. CASE Request(p)
    <2>1. CASE Connect(p) \/ LeaveRoom(p) \/ Hangup(p) \/ StopShare(p)
      BY <1>1, <2>1
      DEF OthersKeep, Connect, LeaveRoom, Hangup, StopShare, DropBegin, peerVars, roomVars,
          TypeOK, PeersOK
    <2>2. CASE StartShare(p)
      BY <2>2 DEF OthersKeep, StartShare, peerVars, TypeOK, RoomsOK
    <2>3. CASE JoinChannel(p) \/ LeaveChannel(p) \/ CreateSpace(p) \/ JoinSpace(p)
                 \/ LeaveSpace(p) \/ CreateChannel(p)
      BY <1>3, <2>3
      DEF JoinChannel, LeaveChannel, CreateSpace, JoinSpace, LeaveSpace, CreateChannel,
          peerVars, roomVars
    <2> QED
      BY <1>4, <2>1, <2>2, <2>3, OrderlyRequests
  <1>5. CASE JoinCommit(p)
    BY <1>5 DEF OthersKeep, JoinCommit, TypeOK, PeersOK, RoomsOK
  <1>6. CASE DropUnlist(p)
    <2>1. \A c \in Channels, q \in Peers : activeShare'[c] = q => activeShare[c] = q
      BY <1>6, IdsAssumption DEF DropUnlist, TypeOK, RoomsOK
    <2> QED
      BY <1>2, <1>6, <2>1 DEF OthersKeep, DropUnlist, TypeOK, PeersOK
  <1>7. CASE LeaveUnlist(p)
    BY <1>2, <1>7 DEF OthersKeep, LeaveUnlist, TypeOK, PeersOK
  <1>8. CASE LeaveBegin(p)
    BY <1>1, <1>8 DEF OthersKeep, LeaveBegin, peerVars
  <1>9. CASE DropForget(p)
    BY <1>9 DEF OthersKeep, DropForget, roomVars, TypeOK, PeersOK
  <1>10. CASE JoinRefused(p) \/ LeaveNothing(p) \/ JoinSpaceCommit(p) \/ SpaceUnmember(p)
                \/ CreateChannelCommit(p)
    BY <1>3, <1>10
    DEF JoinRefused, LeaveNothing, JoinSpaceCommit, SpaceUnmember, CreateChannelCommit,
        peerVars, roomVars
  <1>11. ~JoinRoomCommit(p) /\ ~Reset(p)
    BY DEF Tidy, TidyControl, JoinRoomCommit, Reset
  <1> QED
    BY <1>4, <1>5, <1>6, <1>7, <1>8, <1>9, <1>10, <1>11 DEF Proceed

(* A step that leaves the room code, the listings and the slots of its own *)
(* peer as they are. *)
SameLists(p) ==
    /\ roomCode'[p] = roomCode[p]
    /\ \A r \in Rooms : peerIds'[r][p] = peerIds[r][p]
    /\ \A c \in Channels : activeShare'[c] = p => activeShare[c] = p

LEMMA SameListsTidy ==
    ASSUME NEW p \in Peers, TidyLists(p), SameLists(p)
    PROVE  TidyLists(p)'
  BY DEF TidyLists, SameLists

LEMMA StopShareSameLists ==
    ASSUME TypeOK, NEW p \in Peers, NEW r, StopShareIn(r, p), UNCHANGED <<roomCode, peerIds>>
    PROVE  SameLists(p)
  BY IdsAssumption DEF SameLists, StopShareIn, TypeOK, RoomsOK

(* Taking a peer off the list of the room its code names, and clearing the *)
(* code, leaves it on no list. *)
LEMMA UnlistTidy ==
    ASSUME TypeOK, NEW p \in Peers, TidyLists(p), roomCode[p] # None,
           activeShare[roomCode[p]] # p,
           peerIds' = Without(p, roomCode[p]), roomCode'[p] = None,
           \A c \in Channels : activeShare'[c] = p => activeShare[c] = p
    PROVE  TidyLists(p)'
  <1>1. \A r \in Rooms : peerIds'[r][p] = IF r = roomCode[p] THEN 0 ELSE peerIds[r][p]
    BY DEF Without, TypeOK, RoomsOK
  <1>2. \A r \in Rooms : ~(peerIds'[r][p] > 0)
    BY <1>1 DEF TidyLists
  <1> QED
    BY <1>2, Ids DEF TidyLists

(* Where the handler of p is after a step. *)
LEMMA WhereNext ==
    ASSUME TypeOK, NEW p \in Peers
    PROVE  /\ \A step, l : Goto(p, step, l) => pc'[p] = step /\ loc'[p] = l
           /\ Finish(p) => pc'[p] = "idle" /\ loc'[p] = NoLocals
           /\ UNCHANGED Control => pc'[p] = pc[p] /\ loc'[p] = loc[p]
  BY DEF Goto, Finish, Control, TypeOK, ControlOK

LEMMA WhereContinues ==
    ASSUME TypeOK, LocalsKept, NEW p \in Peers, Continue(p)
    PROVE  /\ pc'[p] = loc[p].next
           /\ pc'[p] \in {"idle", "joinCommit", "spaceUnmember"}
           /\ loc'[p].space = IF pc'[p] = "idle" THEN None ELSE loc[p].space
  <1>1. loc[p] \in Locals
    BY DEF TypeOK, ControlOK
  <1>2. CASE loc[p].next = "idle"
    <2>1. pc'[p] = "idle" /\ loc'[p] = NoLocals
      BY <1>2, WhereNext DEF Continue
    <2> QED
      BY <1>2, <2>1 DEF NoLocals
  <1>3. CASE loc[p].next # "idle"
    <2>1. /\ pc'[p] = loc[p].next
          /\ loc'[p] = [ loc[p] EXCEPT !.room = None, !.next = "idle" ]
      BY <1>3, WhereNext DEF Continue
    <2>2. loc'[p].space = loc[p].space
      BY <1>1, <2>1 DEF Locals
    <2> QED
      BY <1>3, <2>1, <2>2 DEF LocalsKept
  <1> QED
    BY <1>2, <1>3

LEMMA DropBeginTidy ==
    ASSUME TypeOK, Tidy, NEW p \in Peers, DropBegin(p), conn'[p] \in {"up", "closing"}
    PROVE  TidyControl(p)' /\ TidyLists(p)'
  <1>1. TidyLists(p)'
    BY StopShareSameLists, SameListsTidy DEF DropBegin, Tidy
  <1>2. CASE roomCode[p] = None
    BY <1>1, <1>2, WhereNext DEF DropBegin, TidyControl
  <1>3. CASE roomCode[p] # None
    <2>1. pc'[p] = "dropUnlist" /\ loc'[p].room = roomCode[p]
      BY <1>3, WhereNext DEF DropBegin, NoLocals
    <2> QED
      BY <1>1, <1>3, <2>1 DEF DropBegin, TidyControl
  <1> QED
    BY <1>1, <1>2, <1>3

LEMMA TidyRequest ==
    ASSUME Orderly, VoiceInv, Tidy, NEW p \in Peers, Request(p)
    PROVE  TidyControl(p)' /\ TidyLists(p)'
  <1>0. TypeOK /\ TidyControl(p) /\ TidyLists(p)
    BY DEF VoiceInv, Tidy
  <1> USE <1>0
  <1>1. CASE Connect(p)
    <2>1. SameLists(p) /\ conn'[p] = "up" /\ pc'[p] = "idle"
      BY <1>1 DEF Connect, SameLists, roomVars, Control, TidyControl, TypeOK, PeersOK
    <2> QED
      BY <2>1, SameListsTidy DEF TidyControl
  <1>2. CASE LeaveRoom(p)
    BY <1>2, DropBeginTidy DEF LeaveRoom, Idle
  <1>3. CASE Hangup(p)
    BY <1>3, DropBeginTidy DEF Hangup, TypeOK, PeersOK
  <1>4. CASE StartShare(p)
    <2>1. roomCode[p] \in Rooms
      BY <1>4 DEF StartShare, TypeOK, RoomsOK
    <2>2. TidyLists(p)'
      BY <1>4, <2>1 DEF StartShare, TidyLists, peerVars, TypeOK, RoomsOK
    <2> QED
      BY <1>4, <2>2 DEF StartShare, Idle, TidyControl, peerVars, Control
  <1>5. CASE StopShare(p)
    <2>1. TidyLists(p)'
      BY <1>5, StopShareSameLists, SameListsTidy DEF StopShare, peerVars
    <2> QED
      BY <1>5, <2>1 DEF StopShare, Idle, TidyControl, peerVars, Control
  <1>6. ASSUME UNCHANGED <<conn, roomCode, peerIds, activeShare>>, conn[p] = "up",
               pc'[p] \in {"idle", "leaveBegin", "spaceCommit", "channelCommit"}
        PROVE  TidyControl(p)' /\ TidyLists(p)'
    BY <1>6 DEF TidyControl, TidyLists
  <1>7. CASE JoinChannel(p) \/ LeaveChannel(p) \/ LeaveSpace(p) \/ JoinSpace(p)
               \/ CreateChannel(p)
    <2>1. conn[p] = "up" /\ UNCHANGED <<conn, roomCode, peerIds, activeShare>>
      BY <1>7
      DEF JoinChannel, LeaveChannel, LeaveSpace, JoinSpace, CreateChannel, Idle, peerVars, roomVars
    <2>2. pc'[p] \in {"leaveBegin", "spaceCommit", "channelCommit"}
      BY <1>7, WhereNext DEF JoinChannel, LeaveChannel, LeaveSpace, JoinSpace, CreateChannel
    <2> QED
      BY <1>6, <2>1, <2>2
  <1>8. CASE CreateSpace(p)
    <2>1. conn[p] = "up" /\ pc'[p] = "idle" /\ UNCHANGED <<conn, roomCode, peerIds, activeShare>>
      BY <1>8 DEF CreateSpace, Idle, Control
    <2> QED
      BY <1>6, <2>1
  <1> QED
    BY <1>1, <1>2, <1>3, <1>4, <1>5, <1>7, <1>8, OrderlyRequests

LEMMA TidyProceed ==
    ASSUME Orderly, VoiceInv, Tidy, NEW p \in Peers, Proceed(p)
    PROVE  TidyControl(p)' /\ TidyLists(p)'
  <1>0. /\ TypeOK /\ LocalsKept /\ TidyControl(p) /\ TidyLists(p)
        /\ pc[p] # "idle" => conn[p] = "up" \/ pc[p] \in {"dropUnlist", "dropForget"}
    BY DEF VoiceInv, VoiceSupport, Tidy, TidyControl, TypeOK, PeersOK
  <1> USE <1>0
  <1>1. CASE JoinCommit(p)
    <2> DEFINE c == loc[p].chan
    <2>0. c \in Channels
      BY <1>1 DEF JoinCommit, CanEnter, TypeOK, SpacesOK
    <2>1. c \in Channels /\ c \in Rooms /\ roomCode[p] = None
      BY <1>1, <2>0, Ids DEF JoinCommit, TidyControl
    <2>2. \A r \in Rooms : peerIds'[r][p] = IF r = c THEN peerIds[r][p] + 1 ELSE peerIds[r][p]
      BY <1>1, <2>1 DEF JoinCommit, TypeOK, RoomsOK
    <2>3. \A r \in Rooms : peerIds[r][p] \in Nat /\ ~(peerIds[r][p] > 0)
      BY <2>1, IdsAssumption DEF TidyLists, TypeOK, RoomsOK
    <2>4. roomCode'[p] = c
      BY <1>1 DEF JoinCommit, TypeOK, PeersOK
    <2>5. \A r \in Rooms : peerIds'[r][p] > 0 <=> roomCode'[p] = r
      BY <2>2, <2>3, <2>4
    <2>6. \A d \in Channels : activeShare'[d] # p
      BY <1>1, <2>1, Ids DEF JoinCommit, TidyLists
    <2>7. pc'[p] = "idle" /\ conn'[p] = "up"
      BY <1>1, WhereNext DEF JoinCommit
    <2> QED
      BY <2>1, <2>4, <2>5, <2>6, <2>7, Ids DEF TidyLists, TidyControl
  <1>2. ASSUME UNCHANGED <<conn, roomCode, peerIds, activeShare>>, conn[p] = "up",
               pc'[p] = "idle"
        PROVE  TidyControl(p)' /\ TidyLists(p)'
    BY <1>2 DEF TidyControl, TidyLists
  <1>3. CASE JoinRefused(p) \/ JoinSpaceCommit(p) \/ SpaceUnmember(p) \/ CreateChannelCommit(p)
    <2>1. /\ UNCHANGED <<conn, roomCode, peerIds, activeShare>>
          /\ pc[p] \in {"joinCommit", "spaceCommit", "spaceUnmember", "channelCommit"}
          /\ Finish(p)
      BY <1>3
      DEF JoinRefused, JoinSpaceCommit, SpaceUnmember, CreateChannelCommit, peerVars, roomVars
    <2> QED
      BY <1>2, <2>1, WhereNext
  <1>4. CASE LeaveBegin(p)
    <2>1. pc'[p] = "leaveUnlist" /\ loc'[p].room = roomCode[p] /\ conn'[p] = "up"
      BY <1>4, WhereNext DEF LeaveBegin, peerVars, TypeOK, ControlOK, Locals
    <2>2. roomCode'[p] = roomCode[p] /\ roomCode[p] # None
      BY <1>4, Ids DEF LeaveBegin, peerVars
    <2>3. TidyLists(p)'
      BY <1>4, StopShareSameLists, SameListsTidy DEF LeaveBegin, peerVars
    <2> QED
      BY <2>1, <2>2, <2>3 DEF TidyControl
  <1>5. CASE LeaveNothing(p)
    <2>1. roomCode[p] = None
      BY <1>5 DEF LeaveNothing, TidyLists, TypeOK, PeersOK
    <2>2. /\ UNCHANGED <<conn, roomCode, peerIds, activeShare>> /\ conn[p] = "up"
          /\ pc'[p] \in {"idle", "joinCommit", "spaceUnmember"}
      BY <1>5, WhereContinues DEF LeaveNothing, peerVars, roomVars
    <2> QED
      BY <2>1, <2>2 DEF TidyControl, TidyLists
  <1>6. CASE LeaveUnlist(p)
    <2>1. roomCode[p] # None /\ loc[p].room = roomCode[p] /\ conn'[p] = "up"
      BY <1>6 DEF LeaveUnlist, TidyControl
    <2>2. activeShare[roomCode[p]] # p
      BY <1>6, <2>1 DEF LeaveUnlist, VoiceInv, VoiceSupport, SharerLeaving, TidyLists, TypeOK, PeersOK
    <2>3. roomCode'[p] = None
      BY <1>6 DEF LeaveUnlist, TypeOK, PeersOK
    <2>4. TidyLists(p)'
      BY <1>6, <2>1, <2>2, <2>3, UnlistTidy DEF LeaveUnlist
    <2>5. pc'[p] \in {"idle", "joinCommit", "spaceUnmember"}
      BY <1>6, WhereContinues DEF LeaveUnlist
    <2> QED
      BY <2>1, <2>3, <2>4, <2>5 DEF TidyControl
  <1>7. CASE DropUnlist(p)
    <2>1. /\ roomCode[p] # None /\ loc[p].room = roomCode[p] /\ roomCode[p] \in Channels
          /\ loc[p].room \notin Codes
      BY <1>7 DEF DropUnlist, TidyControl, TidyLists, TypeOK, PeersOK
    <2>2. activeShare[roomCode[p]] # p
      BY <1>7, <2>1 DEF DropUnlist, VoiceInv, VoiceSupport, SharerLeaving
    <2>3. roomCode'[p] = None
      BY <1>7, <2>1 DEF DropUnlist, TypeOK, PeersOK
    <2>4. TidyLists(p)'
      BY <1>7, <2>1, <2>2, <2>3, UnlistTidy DEF DropUnlist
    <2>5. pc'[p] = "dropForget" /\ conn'[p] = conn[p] /\ conn[p] \in {"up", "closing"}
      BY <1>7, WhereNext DEF DropUnlist, TidyControl, TypeOK, PeersOK
    <2> QED
      BY <2>3, <2>4, <2>5 DEF TidyControl
  <1>8. CASE DropForget(p)
    <2>1. roomCode[p] = None /\ roomCode'[p] = None
      BY <1>8 DEF DropForget, TidyControl, TypeOK, PeersOK
    <2>2. TidyLists(p)'
      BY <1>8, <2>1 DEF DropForget, TidyLists, roomVars
    <2>3. pc'[p] = "idle" /\ conn'[p] # "closing"
      BY <1>8, WhereNext DEF DropForget, TypeOK, PeersOK
    <2> QED
      BY <2>1, <2>2, <2>3 DEF TidyControl
  <1>9. ~JoinRoomCommit(p) /\ ~Reset(p)
    BY DEF TidyControl, JoinRoomCommit, Reset
  <1> QED
    BY <1>1, <1>3, <1>4, <1>5, <1>6, <1>7, <1>8, <1>9 DEF Proceed

LEMMA TidyNext ==
    ASSUME Orderly, VoiceInv, Tidy, [Next]_vars
    PROVE  Tidy'
  <1>1. ASSUME NEW p \in Peers, Request(p) \/ Proceed(p) PROVE Tidy'
    <2>1. \A q \in Peers \ {p} : TidyControl(q)' /\ TidyLists(q)'
      BY <1>1, HandlersApart, TidyApart, TidyElsewhere DEF VoiceInv
    <2>2. TidyControl(p)' /\ TidyLists(p)'
      BY <1>1, TidyRequest, TidyProceed
    <2> QED
      BY <2>1, <2>2 DEF Tidy
  <1>2. CASE Sweep
    <2>1. PICK old \in SUBSET { r \in rooms : peerIds[r] = NewRoom } : RemoveRooms(old)
      BY <1>2 DEF Sweep
    <2>2. UNCHANGED <<pc, loc, conn, roomCode>>
      BY <1>2 DEF Sweep, Control, peerVars
    <2>3. \A r \in Rooms, p \in Peers : peerIds'[r][p] = peerIds[r][p]
      BY <2>1 DEF RemoveRooms, NewRoom
    <2>4. \A c \in Channels, p \in Peers : activeShare'[c] = p => activeShare[c] = p
      BY <2>1, RemoveRoomsTakesNone
    <2> QED
      BY <2>2, <2>3, <2>4 DEF Tidy, TidyControl, TidyLists
  <1>3. CASE UNCHANGED vars
    BY <1>3 DEF vars, peerVars, roomVars, Tidy, TidyControl, TidyLists
  <1> QED
    BY <1>1, <1>2, <1>3 DEF Next

LEMMA TidyInit == Init => Tidy
  BY Ids DEF Init, Tidy, TidyControl, TidyLists, NewRoom

LEMMA AlwaysTidy == Orderly => (Spec => []Tidy)
  <1> SUFFICES ASSUME Orderly PROVE Spec => []Tidy
    OBVIOUS
  <1>1. VoiceInv /\ Tidy /\ [Next]_vars => Tidy'
    BY TidyNext
  <1> QED
    BY <1>1, TidyInit, VoiceInvariant, PTL DEF Spec

-----------------------------------------------------------------------------
(* What Tidy says of a state. *)

LEMMA TidyListed ==
    ASSUME TypeOK, Tidy, NEW p \in Peers, NEW r \in Rooms
    PROVE  Listed(p, r) <=> roomCode[p] = r
  <1>1. peerIds[r][p] > 0 => r \in rooms
    BY DEF TypeOK, RoomsOK, NewRoom
  <1> QED
    BY <1>1 DEF Listed, Tidy, TidyLists

LEMMA TidyConnected ==
    ASSUME TypeOK, Tidy, NEW p \in Peers, roomCode[p] # None
    PROVE  p \in Connected /\ roomCode[p] \in Channels
  BY DEF Tidy, TidyControl, TidyLists, Connected, TypeOK, PeersOK

(* Orderly clients hear whom they are heard by: no list keeps, or misses,  *)
(* a peer that the other side's room code says is in the room.             *)
THEOREM HearingStaysMutual == Orderly => (Spec => []HearingIsMutual)
  <1> SUFFICES ASSUME Orderly PROVE Spec => []HearingIsMutual
    OBVIOUS
  <1>1. TypeOK /\ Tidy => HearingIsMutual
    <2> SUFFICES ASSUME TypeOK, Tidy, NEW p \in Peers, NEW q \in Peers, q \in Recipients(p)
                 PROVE  p \in Recipients(q)
      BY DEF HearingIsMutual
    <2>1. /\ q # p /\ roomCode[p] # None
          /\ Listed(q, roomCode[p]) /\ roomCode[p] \in Rooms
      BY DEF Recipients, TypeOK, PeersOK
    <2>2. roomCode[q] = roomCode[p] /\ Listed(p, roomCode[p]) /\ p \in Connected
      BY <2>1, TidyListed, TidyConnected
    <2> QED
      BY <2>1, <2>2 DEF Recipients
  <1> QED
    BY <1>1, AlwaysTidy, TypeCorrect, PTL

(* Nobody hears a room after it left it. *)
THEOREM NoAudioAfterLeaving == Orderly => (Spec => []NoRoomNoAudio)
  <1> SUFFICES ASSUME Orderly PROVE Spec => []NoRoomNoAudio
    OBVIOUS
  <1>1. TypeOK /\ Tidy => NoRoomNoAudio
    <2> SUFFICES ASSUME TypeOK, Tidy, NEW p \in Peers, NEW q \in Peers,
                        roomCode[q] = None, q \in Recipients(p)
                 PROVE  FALSE
      BY DEF NoRoomNoAudio
    <2>1. roomCode[p] \in Rooms /\ Listed(q, roomCode[p])
      BY DEF Recipients, TypeOK, PeersOK
    <2>2. roomCode[q] = roomCode[p]
      BY <2>1, TidyListed
    <2> QED
      BY <2>1, <2>2, Ids
  <1> QED
    BY <1>1, AlwaysTidy, TypeCorrect, PTL

(* A sharing slot is held by a peer that is connected and in the channel:  *)
(* on its way out, whichever handler takes it there, a sharer gives the    *)
(* slot back before its connection or its listing goes.                    *)
THEOREM SharersStayPresent == Orderly => (Spec => []SharerPresent)
  <1> SUFFICES ASSUME Orderly PROVE Spec => []SharerPresent
    OBVIOUS
  <1>1. VoiceInv /\ Tidy => SharerPresent
    <2> SUFFICES ASSUME VoiceInv, Tidy, NEW c \in Channels, NEW p \in Peers, activeShare[c] = p
                 PROVE  conn[p] = "up" /\ roomCode[p] = c
      BY DEF SharerPresent
    <2>1. roomCode[p] = c /\ c # None
      BY Ids DEF Tidy, TidyLists
    <2>2. pc[p] # "dropUnlist" /\ pc[p] # "dropForget"
      BY <2>1 DEF VoiceInv, VoiceSupport, SharerLeaving, Tidy, TidyControl
    <2>3. conn[p] \in {"new", "up", "closing", "gone"}
      BY DEF VoiceInv, TypeOK, PeersOK
    <2> QED
      BY <2>1, <2>2, <2>3 DEF Tidy, TidyControl
  <1> QED
    BY <1>1, AlwaysTidy, VoiceInvariant, PTL

-----------------------------------------------------------------------------
(* The refinement.  Seen through the room codes and the slots, a step is   *)
(* one of VoicePresence or none.                                           *)
Where == [ p \in Peers |-> IF roomCode[p] \in Channels THEN roomCode[p] ELSE None ]
Slot == [ c \in Channels |-> activeShare[c] ]

Abstract == <<Where, Slot>>

LEMMA WhereIs ==
    ASSUME Tidy, TypeOK
    PROVE  \A p \in Peers : Where[p] = roomCode[p]
  BY DEF Where, Tidy, TidyLists, TypeOK, PeersOK

LEMMA StopShareImplements ==
    ASSUME TypeOK, Tidy, NEW p \in Peers, StopShareIn(roomCode[p], p), UNCHANGED roomCode
    PROVE  Presence!FreeSlot(p) \/ UNCHANGED Abstract
  <1>1. CASE UNCHANGED activeShare
    BY <1>1 DEF Abstract, Where, Slot
  <1>2. CASE activeShare' # activeShare
    <2> DEFINE c == roomCode[p]
    <2>1. /\ c \in rooms /\ activeShare[c] = p
          /\ activeShare' = [ activeShare EXCEPT ![c] = None ]
      BY <1>2 DEF StopShareIn
    <2>2. c \in Channels /\ c # None
      BY <2>1, Ids DEF Tidy, TidyLists, TypeOK, PeersOK, RoomsOK
    <2>3. Where[p] = c /\ Where' = Where
      BY <2>2 DEF Where
    <2>4. Slot[c] = p /\ Slot' = [ Slot EXCEPT ![c] = None ]
      BY <2>1, <2>2, Ids DEF Slot, TypeOK, RoomsOK
    <2> HIDE DEF c
    <2> QED
      BY <2>2, <2>3, <2>4 DEF Presence!FreeSlot, Where, Slot
  <1> QED
    BY <1>1, <1>2

(* The room code of p is cleared, and p held no slot where it was. *)
LEMMA LeaveImplements ==
    ASSUME TypeOK, Tidy, NEW p \in Peers, roomCode[p] # None,
           activeShare[roomCode[p]] # p,
           roomCode' = [ roomCode EXCEPT ![p] = None ],
           \A c \in Channels : activeShare'[c] = activeShare[c]
    PROVE  Presence!Leave(p)
  <1>1. roomCode[p] \in Channels
    BY TidyConnected
  <1>2. Where[p] = roomCode[p] /\ Slot[roomCode[p]] = activeShare[roomCode[p]]
    BY <1>1 DEF Where, Slot
  <1>3. Where' = [ Where EXCEPT ![p] = None ]
    BY <1>1, Ids DEF Where, TypeOK, PeersOK
  <1>4. Slot' = Slot
    BY DEF Slot
  <1> QED
    BY <1>1, <1>2, <1>3, <1>4 DEF Presence!Leave, Where, Slot

(* The peers in a channel are no more than its list is long. *)
LEMMA OccupantsListed ==
    ASSUME TypeOK, Tidy, NEW c \in Channels
    PROVE  Cardinality(Presence!Occupants(c)) <= RoomLen(c) /\ RoomLen(c) \in Nat
           /\ Cardinality(Presence!Occupants(c)) \in Nat
  <1> DEFINE S == Presence!Occupants(c)
             T == Entries(peerIds[c])
             f == [ p \in S |-> <<p, 1>> ]
  <1>1. c \in Rooms /\ c # None
    BY Ids
  <1>2. \A p \in S : p \in Peers /\ roomCode[p] = c
    BY <1>1 DEF Presence!Occupants, Where
  <1>3. \A p \in S : <<p, 1>> \in T
    BY <1>1, <1>2, BoundsAssumption DEF Entries, Tidy, TidyLists, TypeOK, RoomsOK
  <1>4. f \in Injection(S, T)
    BY <1>3 DEF Injection, IsInjective
  <1>5. IsFiniteSet(T) /\ Cardinality(T) \in Nat
    BY <1>1, ListType, EntriesFinite
  <1>6. IsFiniteSet(S) /\ Cardinality(S) <= Cardinality(T)
    BY <1>4, <1>5, FS_Injection
  <1> QED
    BY <1>5, <1>6, FS_CardinalityType DEF RoomLen

LEMMA SameCardinality == \A S : Presence!Cardinality(S) = Cardinality(S)
  BY DEF Cardinality, Presence!Cardinality

LEMMA JoinImplements ==
    ASSUME TypeOK, Tidy, NEW p \in Peers, JoinCommit(p), NEW c \in Channels, c = loc[p].chan
    PROVE  Presence!Enter(p, c)
  <1>1. c # None /\ roomCode[p] = None
    BY Ids DEF JoinCommit, Tidy, TidyControl
  <1>2. UserLimit > 0 => Cardinality(Presence!Occupants(c)) < UserLimit
    BY OccupantsListed, BoundsAssumption DEF JoinCommit, CanEnter
  <1>3. roomCode' = [ roomCode EXCEPT ![p] = c ]
    BY DEF JoinCommit
  <1>4. Slot' = Slot
    BY DEF JoinCommit, Slot
  <1>5. Where[p] = None /\ Where' = [ Where EXCEPT ![p] = c ]
    BY <1>1, <1>3, Ids DEF Where, TypeOK, PeersOK
  <1> QED
    BY <1>2, <1>4, <1>5, SameCardinality DEF Presence!Enter, Where, Slot

LEMMA StartImplements ==
    ASSUME TypeOK, Tidy, NEW p \in Peers, StartShare(p)
    PROVE  Presence!TakeSlot(p) \/ UNCHANGED Abstract
  <1> DEFINE c == roomCode[p]
  <1>1. /\ c \in rooms /\ activeShare[c] \in {None, p}
        /\ activeShare' = [ activeShare EXCEPT ![c] = p ]
        /\ UNCHANGED roomCode
    BY DEF StartShare, peerVars
  <1>2. c \in Channels /\ c # None
    BY <1>1, Ids DEF Tidy, TidyLists, TypeOK, PeersOK, RoomsOK
  <1>3. Where[p] = c /\ Where' = Where
    BY <1>1, <1>2 DEF Where
  <1> HIDE DEF c
  <1>4. Slot[c] = activeShare[c] /\ Slot' = [ Slot EXCEPT ![c] = p ]
    BY <1>1, <1>2, Ids DEF Slot, TypeOK, RoomsOK
  <1>5. CASE activeShare[c] = p
    BY <1>2, <1>3, <1>4, <1>5 DEF Abstract, Slot
  <1>6. CASE activeShare[c] = None
    BY <1>2, <1>3, <1>4, <1>6 DEF Presence!TakeSlot, Where, Slot
  <1> QED
    BY <1>1, <1>5, <1>6

LEMMA StepImplements ==
    ASSUME Orderly, VoiceInv, Tidy, [Next]_vars
    PROVE  (\E p \in Peers : \/ \E c \in Channels : Presence!Enter(p, c)
                             \/ Presence!Leave(p) \/ Presence!TakeSlot(p)
                             \/ Presence!FreeSlot(p))
           \/ UNCHANGED Abstract
  <1>0. TypeOK
    BY DEF VoiceInv
  <1> DEFINE Step == \E p \in Peers : \/ \E c \in Channels : Presence!Enter(p, c)
                                      \/ Presence!Leave(p) \/ Presence!TakeSlot(p)
                                      \/ Presence!FreeSlot(p)
  <1>1. UNCHANGED <<roomCode, activeShare>> => UNCHANGED Abstract
    BY DEF Abstract, Where, Slot
  <1>2. ASSUME NEW p \in Peers, Presence!Leave(p) \/ Presence!TakeSlot(p) \/ Presence!FreeSlot(p)
        PROVE  Step
    BY <1>2
  <1>3. ASSUME NEW p \in Peers, Request(p) PROVE Step \/ UNCHANGED Abstract
    <2>1. CASE StartShare(p)
      BY <1>0, <1>2, <2>1, StartImplements
    <2>2. CASE StopShare(p) \/ LeaveRoom(p) \/ Hangup(p)
      <3>1. StopShareIn(roomCode[p], p) /\ UNCHANGED roomCode
        BY <2>2 DEF StopShare, LeaveRoom, Hangup, DropBegin, peerVars
      <3> QED
        BY <1>0, <1>2, <3>1, StopShareImplements
    <2>3. CASE Connect(p) \/ JoinChannel(p) \/ LeaveChannel(p) \/ CreateSpace(p)
                 \/ JoinSpace(p) \/ LeaveSpace(p) \/ CreateChannel(p)
      <3>1. UNCHANGED <<roomCode, activeShare>>
        BY <2>3
        DEF Connect, JoinChannel, LeaveChannel, CreateSpace, JoinSpace, LeaveSpace,
            CreateChannel, peerVars, roomVars
      <3> QED
        BY <1>1, <3>1
    <2> QED
      BY <1>3, <2>1, <2>2, <2>3, OrderlyRequests
  <1>4. ASSUME NEW p \in Peers, Proceed(p) PROVE Step \/ UNCHANGED Abstract
    <2>1. CASE JoinCommit(p)
      <3>1. PICK c \in Channels : c = loc[p].chan
        BY <1>0, <2>1 DEF JoinCommit, CanEnter, TypeOK, SpacesOK
      <3>2. Presence!Enter(p, c)
        BY <1>0, <2>1, <3>1, JoinImplements
      <3> QED
        BY <3>2
    <2>2. CASE LeaveUnlist(p) \/ DropUnlist(p)
      <3>1. /\ roomCode[p] # None /\ loc[p].room = roomCode[p]
            /\ roomCode[p] \in Channels /\ roomCode[p] \notin Codes
        BY <1>0, <2>2, TidyConnected, Ids DEF Tidy, TidyControl, LeaveUnlist, DropUnlist
      <3>2. activeShare[roomCode[p]] # p
        BY <2>2, <3>1 DEF LeaveUnlist, DropUnlist, VoiceInv, VoiceSupport, SharerLeaving
      <3>3. roomCode' = [ roomCode EXCEPT ![p] = None ] /\ UNCHANGED activeShare
        BY <2>2, <3>1 DEF LeaveUnlist, DropUnlist
      <3> QED
        BY <1>0, <1>2, <3>1, <3>2, <3>3, LeaveImplements
    <2>3. CASE LeaveBegin(p)
      BY <1>0, <1>2, <2>3, StopShareImplements DEF LeaveBegin, peerVars
    <2>4. CASE DropForget(p)
      <3>1. roomCode' = roomCode /\ activeShare' = activeShare
        BY <1>0, <2>4 DEF DropForget, Tidy, TidyControl, TypeOK, PeersOK, roomVars
      <3> QED
        BY <1>1, <3>1
    <2>5. CASE JoinRefused(p) \/ LeaveNothing(p) \/ JoinSpaceCommit(p) \/ SpaceUnmember(p)
                 \/ CreateChannelCommit(p)
      BY <1>1, <2>5
      DEF JoinRefused, LeaveNothing, JoinSpaceCommit, SpaceUnmember, CreateChannelCommit,
          peerVars, roomVars
    <2>6. ~JoinRoomCommit(p) /\ ~Reset(p)
      BY DEF Tidy, TidyControl, JoinRoomCommit, Reset
    <2> QED
      BY <1>4, <2>1, <2>2, <2>3, <2>4, <2>5, <2>6 DEF Proceed
  <1>5. CASE Sweep
    <2>1. PICK old \in SUBSET { r \in rooms : peerIds[r] = NewRoom } : RemoveRooms(old)
      BY <1>5 DEF Sweep
    <2>2. ASSUME NEW c \in Channels PROVE activeShare'[c] = activeShare[c]
      <3>1. CASE c \in old
        <4>1. peerIds[c] = NewRoom
          BY <2>1, <3>1
        <4>2. activeShare[c] \in Peers \cup {None} /\ c \in Rooms
          BY <1>0, Ids DEF TypeOK, RoomsOK
        <4>3. activeShare[c] = None
          BY <4>1, <4>2 DEF VoiceInv, SharerListed, Listed, NewRoom
        <4> QED
          BY <2>1, <3>1, <4>2, <4>3 DEF RemoveRooms
      <3>2. CASE c \notin old
        BY <2>1, <3>2, Ids DEF RemoveRooms
      <3> QED
        BY <3>1, <3>2
    <2>3. Slot' = Slot /\ Where' = Where
      BY <1>5, <2>2 DEF Sweep, peerVars, Slot, Where
    <2> QED
      BY <2>3 DEF Abstract
  <1>6. CASE UNCHANGED vars
    BY <1>1, <1>6 DEF vars, peerVars, roomVars
  <1> QED
    BY <1>3, <1>4, <1>5, <1>6 DEF Next

(* For orderly clients the handlers, critical section by critical section, *)
(* implement VoicePresence: nobody is in two channels, no channel admits   *)
(* more than its limit, and no sharing slot outlives its holder's stay.    *)
THEOREM OrderlyImplementsPresence == Orderly => (Spec => ImplementsPresence)
  <1> SUFFICES ASSUME Orderly PROVE Spec => ImplementsPresence
    OBVIOUS
  <1>1. Init => Presence!Init
    BY Ids DEF Init, Presence!Init
  <1>2. VoiceInv /\ Tidy /\ [Next]_vars => [Presence!Next]_(Presence!vars)
    BY StepImplements DEF Presence!Next, Presence!vars, Abstract, Where, Slot
  <1> QED
    BY <1>1, <1>2, AlwaysTidy, VoiceInvariant, PTL DEF Spec, ImplementsPresence, Presence!Spec

-----------------------------------------------------------------------------
(* Members.  A peer whose space id names a space is one of its members, as *)
(* long as no space is full, and so is one whose handler read that id.     *)
Joining(p) ==
    \/ pc[p] = "joinCommit"
    \/ pc[p] \in {"leaveBegin", "leaveUnlist"} /\ loc[p].next = "joinCommit"

MemberOf(p, s) == s \in spaces /\ p \in memberIds[s]

TidyMember(p) ==
    /\ spaceId[p] # None => p \in Connected /\ MemberOf(p, spaceId[p])
    /\ pc[p] = "spaceCommit" => loc[p].space \in spaces
    /\ Joining(p) => MemberOf(p, loc[p].space)
    /\ \A s \in spaces : roomCode[p] \in channels[s] => p \in memberIds[s]

Members == \A p \in Peers : TidyMember(p)

(* What a step does to the spaces, as far as a connected peer q sees it:   *)
(* it stays a member, and the channel it is in stays where it is.          *)
SpacesKeep(q) ==
    /\ \A s \in spaces : s \in spaces' /\ (q \in memberIds[s] => q \in memberIds'[s])
    /\ \A s \in spaces' : roomCode[q] \in channels'[s] => s \in spaces /\ roomCode[q] \in channels[s]

LEMMA MembersElsewhere ==
    ASSUME TypeOK, SpacesOK', Tidy, NEW p \in Peers, NEW q \in Peers \ {p}, TidyMember(q),
           OthersStay(p), OthersKeep(p), spaceId'[q] = spaceId[q],
           q \in Connected => SpacesKeep(q)
    PROVE  TidyMember(q)'
  <1>1. /\ conn'[q] = conn[q] /\ roomCode'[q] = roomCode[q]
        /\ pc'[q] = pc[q] /\ loc'[q] = loc[q]
    BY DEF OthersStay, OthersKeep
  <1>2. CASE q \in Connected
    BY <1>1, <1>2 DEF TidyMember, SpacesKeep, Joining, MemberOf, Connected
  <1>3. CASE q \notin Connected
    <2>1. pc[q] = "idle" /\ roomCode[q] = None
      BY <1>3 DEF Tidy, TidyControl, Connected, TypeOK, PeersOK
    <2>2. \A s \in spaces' : roomCode'[q] \notin channels'[s]
      BY <1>1, <2>1, Ids DEF SpacesOK
    <2> QED
      BY <1>1, <1>3, <2>1, <2>2 DEF TidyMember, Joining, Connected
  <1> QED
    BY <1>2, <1>3

(* Every step of another peer lets a connected peer be what it is. *)
LEMMA SpacesApart ==
    ASSUME Orderly, VoiceInv, Silent, Tidy, NEW p \in Peers, Request(p) \/ Proceed(p),
           NEW q \in Peers \ {p}
    PROVE  spaceId'[q] = spaceId[q] /\ (q \in Connected => SpacesKeep(q))
  <1>0. TypeOK /\ IdsAllocated
    BY DEF VoiceInv, VoiceSupport
  <1> USE <1>0
  <1>1. UNCHANGED <<spaceId, spaces, channels, memberIds>>
            => spaceId'[q] = spaceId[q] /\ SpacesKeep(q)
    BY DEF SpacesKeep
  <1>2. ASSUME NEW s, memberIds' = [ memberIds EXCEPT ![s] = @ \ {p} ],
               spaceId' = [ spaceId EXCEPT ![p] = None ], UNCHANGED <<spaces, channels>>
        PROVE  spaceId'[q] = spaceId[q] /\ SpacesKeep(q)
    BY <1>2 DEF SpacesKeep, TypeOK, PeersOK, SpacesOK
  <1>3. CASE Request(p)
    <2>1. CASE Connect(p) \/ LeaveRoom(p) \/ Hangup(p) \/ StartShare(p) \/ StopShare(p)
                 \/ JoinChannel(p) \/ LeaveChannel(p) \/ JoinSpace(p) \/ LeaveSpace(p)
                 \/ CreateChannel(p)
      BY <1>1, <2>1
      DEF Connect, LeaveRoom, Hangup, StartShare, StopShare, JoinChannel, LeaveChannel,
          JoinSpace, LeaveSpace, CreateChannel, DropBegin, peerVars, spaceVars
    <2>2. CASE CreateSpace(p)
      <3>1. PICK s \in Spaces \ allocated, c \in Channels \ allocated :
               /\ spaceId' = [ spaceId EXCEPT ![p] = s ]
               /\ spaces' = spaces \cup {s}
               /\ channels' = [ channels EXCEPT ![s] = {c} ]
               /\ memberIds' = [ memberIds EXCEPT ![s] = {p} ]
        BY <2>2 DEF CreateSpace
      <3>2. s \notin spaces
        BY DEF Silent
      <3>3. roomCode[q] # c
        BY DEF IdsAllocated
      <3>4. \A t \in spaces : memberIds'[t] = memberIds[t] /\ channels'[t] = channels[t]
        BY <3>1, <3>2 DEF TypeOK, SpacesOK
      <3>5. channels'[s] = {c} /\ spaceId'[q] = spaceId[q]
        BY <3>1 DEF TypeOK, PeersOK, SpacesOK
      <3> QED
        BY <3>1, <3>3, <3>4, <3>5 DEF SpacesKeep
    <2> QED
      BY <1>3, <2>1, <2>2, OrderlyRequests
  <1>4. CASE Proceed(p)
    <2>1. CASE JoinCommit(p) \/ JoinRefused(p) \/ LeaveBegin(p) \/ LeaveNothing(p)
                 \/ LeaveUnlist(p) \/ DropUnlist(p)
      BY <1>1, <2>1
      DEF JoinCommit, JoinRefused, LeaveBegin, LeaveNothing, LeaveUnlist, DropUnlist,
          peerVars, spaceVars
    <2>2. CASE JoinSpaceCommit(p)
      <3> DEFINE s == loc[p].space
                 present == memberIds[s] \cap Connected
      <3>1. /\ spaceId' = [ spaceId EXCEPT ![p] = s ] /\ UNCHANGED <<roomCode, spaces, channels>>
            /\ memberIds' = IF s \in spaces
                            THEN [ memberIds EXCEPT ![s] =
                                     IF Cardinality(present) < MaxMembers
                                     THEN present \cup {p} ELSE present ]
                            ELSE memberIds
        BY <2>2 DEF JoinSpaceCommit
      <3>2. \A t \in spaces : q \in Connected /\ q \in memberIds[t] => q \in memberIds'[t]
        BY <3>1 DEF TypeOK, SpacesOK
      <3> HIDE DEF s, present
      <3> QED
        BY <3>1, <3>2 DEF SpacesKeep, TypeOK, PeersOK
    <2>3. CASE SpaceUnmember(p)
      BY <1>2, <2>3 DEF SpaceUnmember
    <2>4. CASE DropForget(p)
      <3>1. CASE spaceId[p] = None
        BY <2>4, <3>1 DEF DropForget, SpacesKeep, TypeOK, PeersOK
      <3>2. CASE spaceId[p] # None
        BY <1>2, <2>4, <3>2 DEF DropForget
      <3> QED
        BY <3>1, <3>2
    <2>5. CASE CreateChannelCommit(p)
      <3>1. PICK c \in Channels \ allocated :
               channels' = IF loc[p].space \in spaces
                           THEN [ channels EXCEPT ![loc[p].space] = @ \cup {c} ]
                           ELSE channels
        BY <2>5 DEF CreateChannelCommit
      <3>2. roomCode[q] # c
        BY DEF IdsAllocated
      <3>3. \A t \in spaces : channels'[t] \subseteq channels[t] \cup {c}
        BY <3>1 DEF TypeOK, SpacesOK
      <3>4. UNCHANGED <<spaceId, spaces, memberIds>>
        BY <2>5 DEF CreateChannelCommit, peerVars
      <3> QED
        BY <3>2, <3>3, <3>4 DEF SpacesKeep
    <2>6. ~JoinRoomCommit(p) /\ ~Reset(p)
      BY DEF Tidy, TidyControl, JoinRoomCommit, Reset
    <2> QED
      BY <1>4, <2>1, <2>2, <2>3, <2>4, <2>5, <2>6 DEF Proceed
  <1> QED
    BY <1>3, <1>4

(* A space that is never full admits everybody. *)
LEMMA NobodyRefused ==
    ASSUME NeverFull, NEW p \in Peers, NEW present \in SUBSET Peers,
           ~(Cardinality(present) < MaxMembers)
    PROVE  p \in present
  <1>1. /\ IsFiniteSet(Peers) /\ Cardinality(Peers) \in Nat
        /\ Cardinality(present) <= Cardinality(Peers) /\ Cardinality(present) \in Nat
        /\ Cardinality(Peers) = Cardinality(present) => Peers = present
    BY BoundsAssumption, FS_Subset, FS_CardinalityType
  <1> QED
    BY <1>1, BoundsAssumption DEF NeverFull

(* The peer neither is in a channel nor about to join one. *)
LEMMA NowhereTidy ==
    ASSUME SpacesOK', NEW p \in Peers, roomCode'[p] = None, ~Joining(p)',
           pc'[p] # "spaceCommit",
           spaceId'[p] = None \/ (p \in Connected /\ MemberOf(p, spaceId[p]))'
    PROVE  TidyMember(p)'
  BY Ids DEF TidyMember, SpacesOK

LEMMA MemberRequest ==
    ASSUME Orderly, VoiceInv, SpacesOK', Silent, Tidy, NEW p \in Peers, TidyMember(p), Request(p)
    PROVE  TidyMember(p)'
  <1>0. TypeOK /\ TidyControl(p)
    BY DEF VoiceInv, Tidy
  <1> USE <1>0
  <1>1. CASE Connect(p)
    <2>1. spaceId'[p] = None /\ roomCode'[p] = None /\ pc'[p] = "idle"
      BY <1>1 DEF Connect, TidyMember, TidyControl, Connected, Control
    <2> QED
      BY <2>1, NowhereTidy DEF Joining
  <1>2. ASSUME UNCHANGED <<roomCode, spaceId, spaces, channels, memberIds>>,
               p \in Connected, p \in Connected', ~Joining(p)', pc'[p] # "spaceCommit"
        PROVE  TidyMember(p)'
    BY <1>2 DEF TidyMember, MemberOf
  <1>3. CASE LeaveRoom(p) \/ Hangup(p)
    <2>1. pc'[p] \in {"dropForget", "dropUnlist"}
      BY <1>3, WhereNext DEF LeaveRoom, Hangup, DropBegin
    <2>2. p \in Connected /\ p \in Connected'
      BY <1>3 DEF LeaveRoom, Hangup, Idle, Connected, TypeOK, PeersOK
    <2> QED
      BY <1>2, <1>3, <2>1, <2>2 DEF LeaveRoom, Hangup, DropBegin, Joining, spaceVars
  <1>4. CASE StartShare(p) \/ StopShare(p)
    <2>1. pc'[p] = "idle" /\ p \in Connected /\ p \in Connected'
      BY <1>4 DEF StartShare, StopShare, Idle, Control, peerVars, Connected
    <2> QED
      BY <1>2, <1>4, <2>1 DEF StartShare, StopShare, Joining, peerVars, spaceVars
  <1>5. CASE JoinChannel(p)
    <2>1. /\ UNCHANGED <<conn, roomCode, spaceId, spaces, channels, memberIds>>
          /\ spaceId[p] # None /\ pc'[p] = "leaveBegin"
      BY <1>5, WhereNext DEF JoinChannel, peerVars, spaceVars
    <2>2. PICK c \in Channels :
             Goto(p, "leaveBegin", [ NoLocals EXCEPT !.space = spaceId[p],
                                                     !.chan = c, !.next = "joinCommit" ])
      BY <1>5 DEF JoinChannel
    <2>3. loc'[p] = [ NoLocals EXCEPT !.space = spaceId[p], !.chan = c, !.next = "joinCommit" ]
      BY <2>2, WhereNext
    <2>4. loc'[p].space = spaceId[p]
      BY <2>3 DEF NoLocals
    <2> QED
      BY <2>1, <2>4 DEF TidyMember, MemberOf, Joining, Connected
  <1>6. CASE LeaveChannel(p) \/ LeaveSpace(p) \/ CreateChannel(p)
    <2>1. /\ pc'[p] \in {"leaveBegin", "channelCommit"}
          /\ loc'[p] \in { NoLocals, [ NoLocals EXCEPT !.space = spaceId[p] ],
                           [ NoLocals EXCEPT !.space = spaceId[p], !.next = "spaceUnmember" ] }
      BY <1>6, WhereNext DEF LeaveChannel, LeaveSpace, CreateChannel
    <2>2. loc'[p].next # "joinCommit"
      <3>1. NoLocals.next = "idle" /\ [ NoLocals EXCEPT !.space = spaceId[p] ].next = "idle"
        BY DEF NoLocals
      <3>2. [ NoLocals EXCEPT !.space = spaceId[p], !.next = "spaceUnmember" ].next = "spaceUnmember"
        BY DEF NoLocals
      <3> QED
        BY <2>1, <3>1, <3>2
    <2>3. ~Joining(p)' /\ pc'[p] # "spaceCommit"
      BY <2>1, <2>2 DEF Joining
    <2>4. p \in Connected /\ p \in Connected'
      BY <1>6 DEF LeaveChannel, LeaveSpace, CreateChannel, Idle, peerVars, Connected
    <2> QED
      BY <1>2, <1>6, <2>3, <2>4 DEF LeaveChannel, LeaveSpace, CreateChannel, peerVars, spaceVars
  <1>7. CASE JoinSpace(p)
    <2>1. PICK s \in spaces : Goto(p, "spaceCommit", [ NoLocals EXCEPT !.space = s ])
      BY <1>7 DEF JoinSpace
    <2>2. pc'[p] = "spaceCommit" /\ loc'[p].space = s
      BY <2>1, WhereNext DEF NoLocals
    <2>3. UNCHANGED <<conn, roomCode, spaceId, spaces, channels, memberIds>>
      BY <1>7 DEF JoinSpace, peerVars, spaceVars
    <2> QED
      BY <2>2, <2>3 DEF TidyMember, MemberOf, Joining, Connected
  <1>8. CASE CreateSpace(p)
    <2>1. PICK s \in Spaces \ allocated, c \in Channels \ allocated :
             /\ spaceId' = [ spaceId EXCEPT ![p] = s ]
             /\ spaces' = spaces \cup {s}
             /\ channels' = [ channels EXCEPT ![s] = {c} ]
             /\ memberIds' = [ memberIds EXCEPT ![s] = {p} ]
      BY <1>8 DEF CreateSpace
    <2>2. spaceId'[p] = s /\ s \in spaces' /\ memberIds'[s] = {p}
      BY <2>1 DEF TypeOK, PeersOK, SpacesOK
    <2>3. \A t \in spaces \ {s} : memberIds'[t] = memberIds[t] /\ channels'[t] = channels[t]
      BY <2>1 DEF TypeOK, SpacesOK
    <2>4. pc'[p] = "idle" /\ p \in Connected' /\ roomCode' = roomCode
      BY <1>8 DEF CreateSpace, Idle, Control, Connected
    <2> QED
      BY <2>1, <2>2, <2>3, <2>4 DEF TidyMember, MemberOf, Joining
  <1> QED
    BY <1>1, <1>3, <1>4, <1>5, <1>6, <1>7, <1>8, OrderlyRequests

LEMMA MemberProceed ==
    ASSUME Orderly, NeverFull, VoiceInv, SpacesOK', Tidy, NEW p \in Peers, TidyMember(p), Proceed(p)
    PROVE  TidyMember(p)'
  <1>0. /\ TypeOK /\ TidyControl(p) /\ LocalsKept /\ ChannelsDisjoint
        /\ pc[p] # "idle" => p \in Connected
    BY DEF VoiceInv, VoiceSupport, Tidy, TidyControl, TypeOK, PeersOK, Connected
  <1> USE <1>0
  <1>1. CASE JoinCommit(p)
    <2> DEFINE c == loc[p].chan
               s == loc[p].space
    <2>1. s \in spaces /\ c \in channels[s] /\ p \in memberIds[s]
      BY <1>1 DEF JoinCommit, CanEnter, TidyMember, Joining, MemberOf
    <2>2. \A t \in spaces : c \in channels[t] => t = s
      BY <2>1 DEF ChannelsDisjoint, TypeOK, SpacesOK
    <2>3. roomCode'[p] = c /\ pc'[p] = "idle"
      BY <1>1, WhereNext DEF JoinCommit, TypeOK, PeersOK
    <2>4. UNCHANGED <<conn, spaceId, spaces, channels, memberIds>>
      BY <1>1 DEF JoinCommit, spaceVars
    <2> HIDE DEF c, s
    <2> QED
      BY <2>1, <2>2, <2>3, <2>4 DEF TidyMember, MemberOf, Joining, Connected
  <1>2. CASE JoinRefused(p)
    <2>1. pc'[p] = "idle"
      BY <1>2, WhereNext DEF JoinRefused
    <2> QED
      BY <1>2, <2>1
      DEF JoinRefused, TidyMember, MemberOf, Joining, Connected, peerVars, spaceVars
  <1>3. CASE LeaveBegin(p)
    <2>1. /\ pc'[p] = "leaveUnlist" /\ loc'[p].space = loc[p].space
          /\ loc'[p].next = loc[p].next
      BY <1>3, WhereNext DEF LeaveBegin, TypeOK, ControlOK, Locals
    <2>2. Joining(p)' => Joining(p)
      BY <1>3, <2>1 DEF Joining, LeaveBegin
    <2> QED
      BY <1>3, <2>1, <2>2 DEF LeaveBegin, TidyMember, MemberOf, Connected, peerVars, spaceVars
  <1>4. CASE LeaveNothing(p) \/ LeaveUnlist(p)
    <2>1. /\ pc'[p] \in {"idle", "joinCommit", "spaceUnmember"}
          /\ pc'[p] = "joinCommit" => Joining(p) /\ loc'[p].space = loc[p].space
      BY <1>4, WhereContinues DEF LeaveNothing, LeaveUnlist, Joining
    <2>2. /\ UNCHANGED <<conn, spaceId, spaces, channels, memberIds>>
          /\ roomCode'[p] \in {roomCode[p], None}
      BY <1>4 DEF LeaveNothing, LeaveUnlist, peerVars, spaceVars, TypeOK, PeersOK
    <2>3. \A s \in spaces : None \notin channels[s]
      BY Ids DEF TypeOK, SpacesOK
    <2> QED
      BY <2>1, <2>2, <2>3 DEF TidyMember, MemberOf, Joining, Connected
  <1>5. CASE JoinSpaceCommit(p)
    <2> DEFINE s == loc[p].space
               present == memberIds[s] \cap Connected
    <2>1. s \in spaces /\ s \in Spaces /\ p \in Connected
      BY <1>5 DEF JoinSpaceCommit, TidyMember, TypeOK, SpacesOK
    <2>2. memberIds' = [ memberIds EXCEPT ![s] =
              IF Cardinality(present) < MaxMembers THEN present \cup {p} ELSE present ]
      BY <1>5, <2>1 DEF JoinSpaceCommit
    <2>3. present \in SUBSET Peers
      BY DEF Connected
    <2>4. p \in memberIds'[s]
      BY <2>1, <2>2, <2>3, NobodyRefused DEF TypeOK, SpacesOK
    <2>5. \A t \in spaces : p \in memberIds[t] => p \in memberIds'[t]
      BY <2>2, <2>4 DEF TypeOK, SpacesOK
    <2>6. /\ spaceId'[p] = s /\ pc'[p] = "idle"
          /\ UNCHANGED <<conn, roomCode, spaces, channels>>
      BY <1>5, WhereNext DEF JoinSpaceCommit, TypeOK, PeersOK
    <2> HIDE DEF s, present
    <2> QED
      BY <2>1, <2>4, <2>5, <2>6 DEF TidyMember, MemberOf, Joining, Connected
  <1>6. CASE SpaceUnmember(p) \/ DropForget(p)
    <2>1. roomCode'[p] = None /\ spaceId'[p] = None /\ pc'[p] = "idle"
      BY <1>6, WhereNext DEF SpaceUnmember, DropForget, TidyControl, TypeOK, PeersOK
    <2> QED
      BY <2>1, NowhereTidy DEF Joining
  <1>7. CASE CreateChannelCommit(p)
    <2>1. PICK c \in Channels \ allocated :
             channels' = IF loc[p].space \in spaces
                         THEN [ channels EXCEPT ![loc[p].space] = @ \cup {c} ]
                         ELSE channels
      BY <1>7 DEF CreateChannelCommit
    <2>2. roomCode[p] # c
      BY DEF VoiceInv, VoiceSupport, IdsAllocated
    <2>3. \A t \in spaces : roomCode[p] \in channels'[t] => roomCode[p] \in channels[t]
      BY <2>1, <2>2 DEF TypeOK, SpacesOK
    <2>4. pc'[p] = "idle" /\ UNCHANGED <<conn, roomCode, spaceId, spaces, memberIds>>
      BY <1>7, WhereNext DEF CreateChannelCommit, peerVars
    <2> QED
      BY <2>3, <2>4 DEF TidyMember, MemberOf, Joining, Connected
  <1>8. CASE DropUnlist(p)
    <2>1. roomCode'[p] = None /\ pc'[p] = "dropForget"
      BY <1>8, WhereNext, TidyConnected DEF DropUnlist, TidyControl, TypeOK, PeersOK
    <2>2. UNCHANGED <<conn, spaceId, spaces, channels, memberIds>>
      BY <1>8 DEF DropUnlist, spaceVars
    <2> QED
      BY <2>1, <2>2, NowhereTidy DEF TidyMember, MemberOf, Joining, Connected
  <1>9. ~JoinRoomCommit(p) /\ ~Reset(p)
    BY DEF TidyControl, JoinRoomCommit, Reset
  <1> QED
    BY <1>1, <1>2, <1>3, <1>4, <1>5, <1>6, <1>7, <1>8, <1>9 DEF Proceed

LEMMA MembersTidyNext ==
    ASSUME Orderly, NeverFull, VoiceInv, TypeOK', Silent, Tidy, Members, [Next]_vars
    PROVE  Members'
  <1>0. TypeOK /\ SpacesOK'
    BY DEF VoiceInv, TypeOK
  <1>1. ASSUME NEW p \in Peers, Request(p) \/ Proceed(p) PROVE Members'
    <2>1. ASSUME NEW q \in Peers \ {p} PROVE TidyMember(q)'
      BY <1>0, <1>1, HandlersApart, TidyApart, SpacesApart, MembersElsewhere DEF Members
    <2>2. TidyMember(p)'
      BY <1>0, <1>1, MemberRequest, MemberProceed DEF Members
    <2> QED
      BY <2>1, <2>2 DEF Members
  <1>2. CASE Sweep
    <2>1. /\ UNCHANGED <<pc, loc, conn, roomCode, spaceId, spaces, channels>>
          /\ memberIds' = [ s \in Spaces |-> memberIds[s] \cap Connected ]
      BY <1>2 DEF Sweep, Control, peerVars
    <2>2. ASSUME NEW p \in Peers PROVE TidyMember(p)'
      <3>1. Joining(p) \/ roomCode[p] # None => p \in Connected
        BY <1>0 DEF Tidy, TidyControl, Joining, Connected, TypeOK, PeersOK
      <3>2. \A s \in spaces : s \in Spaces /\ None \notin channels[s]
        BY <1>0, Ids DEF TypeOK, SpacesOK
      <3> QED
        BY <2>1, <3>1, <3>2 DEF Members, TidyMember, MemberOf, Joining, Connected
    <2> QED
      BY <2>2 DEF Members
  <1>3. CASE UNCHANGED vars
    BY <1>3
    DEF vars, peerVars, roomVars, spaceVars, Members, TidyMember, MemberOf, Joining, Connected
  <1> QED
    BY <1>1, <1>2, <1>3 DEF Next

(* Orderly clients, spaces that are never full: whoever is in a voice      *)
(* channel is a member of its space, through every interleaving of joins   *)
(* and leaves of channels and spaces, departures and sweeps.               *)
THEOREM OnlyMembersAreInVoice == Orderly /\ NeverFull => (Spec => []OnlyMembersInVoice)
  <1> SUFFICES ASSUME Orderly, NeverFull PROVE Spec => []OnlyMembersInVoice
    OBVIOUS
  <1>1. Init => Silent /\ Members
    BY DEF Init, Silent, DeletedChannelsSilent, Members, TidyMember, Joining
  <1>2. VoiceInv /\ Silent /\ [Next]_vars => Silent'
    BY SilentNext
  <1>3. TypeOK' /\ VoiceInv /\ Silent /\ Tidy /\ Members /\ [Next]_vars => Members'
    BY MembersTidyNext
  <1>4. Members => OnlyMembersInVoice
    BY DEF Members, TidyMember, OnlyMembersInVoice
  <1> QED
    BY <1>1, <1>2, <1>3, <1>4, AlwaysTidy, VoiceInvariant, TypeCorrect, PTL DEF Spec
=============================================================================
