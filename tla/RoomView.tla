------------------------------ MODULE RoomView ------------------------------
(***************************************************************************)
(* Who is in the call, as one client (Self) shows it: the list of          *)
(* participants and their mutes, in a stand-alone room (a lobby) or in a   *)
(* voice channel (a hall), against the server's lists.                     *)
(*                                                                         *)
(* A client is given the list when it enters and changes to it after; the  *)
(* server takes the list under its guard, sends RoomJoined before it gives *)
(* the guard back and every other message after, so messages of different  *)
(* handlers overtake each other.  A click spawns a task, and the client    *)
(* shows that it has left before the server knows.                         *)
(***************************************************************************)
EXTENDS Integers, Sequences

CONSTANTS
    Self,          \* the client that is looked at
    Guests,        \* the others
    Lobbies,       \* codes of stand-alone rooms
    Halls,         \* voice channels of the space everybody starts in
    Nobody,        \* no room, no channel
    MaxMoves       \* bound: clicks of the client and requests of the others

(* The server's codes are not those of channels; the words are steps here. *)
ASSUME RoomAssumption ==
    /\ Self \notin Guests /\ Lobbies \cap Halls = {} /\ Nobody \notin Lobbies \cup Halls
    /\ { "stay", "left", "gone" } \cap Halls = {}

VARIABLES
    codeOf,        \* Peer.room_code
    members,       \* Room.peer_ids: how often each peer is listed; a lobby
                   \* without members is not there
    opened,        \* the codes drawn so far: a code is not drawn again
    spaced,        \* the peers the server has in the space
    muteOf,        \* Peer.is_muted
    doing,         \* the step each peer's handler is at
    wanted,        \* requests in tasks of the client
    inbox,         \* sent to the client
    call,          \* room_code, participants (the mutes of the entries each
                   \* peer has), in_space_channel, active_channel_id
    late,          \* history: whose news overtook the list of the client
    moves          \* counter of the bound

roomServer == << codeOf, members, opened, spaced, muteOf, doing, late >>
callVars == << roomServer, wanted, inbox, call, moves >>

Everybody == Guests \cup { Self }
Rest == [ at |-> "rest" ]
Want(kind, of) == [ kind |-> kind, of |-> of ]

NobodyListed == [ p \in Everybody |-> 0 ]
NobodyShown == [ p \in Everybody |-> << >> ]

NoCall == [ code |-> Nobody, who |-> NobodyShown, inHall |-> FALSE, active |-> Nobody ]

RoomInit ==
    /\ codeOf = [ p \in Everybody |-> Nobody ] /\ members = [ r \in Lobbies \cup Halls |-> NobodyListed ]
    /\ opened = {} /\ spaced = Everybody /\ muteOf = [ p \in Everybody |-> FALSE ]
    /\ doing = [ p \in Everybody |-> Rest ] /\ wanted = {} /\ inbox = << >> /\ call = NoCall
    /\ late = {} /\ moves = 0

-----------------------------------------------------------------------------
(* The server.                                                             *)

Info(p) == [ id |-> p, muted |-> muteOf[p] ]

(* How often a broadcast in the room comes to the client: a peer that      *)
(* joined twice is listed twice.                                           *)
Copies(r, p) == IF p = Self THEN 0 ELSE members[r][Self]

Present(r) == [ p \in Everybody |-> [ i \in 1 .. members[r][p] |-> muteOf[p] ] ]

Becomes(p, step) == doing' = [ doing EXCEPT ![p] = step ]

(* About to send k times sig to the client, then to go on with then.       *)
Sending(k, sig, then) == [ at |-> "tell", k |-> k, sig |-> sig, then |-> then ]

Entering(r) == [ at |-> "enter", of |-> r ]

(* The others are collected, then the peer is removed, then they are told. *)
Leaving(p, then) == [ at |-> "remove", of |-> codeOf[p], k |-> Copies(codeOf[p], p), then |-> then ]

(* The client's requests come from its tasks, the others' from nowhere.    *)
Requested(p, kind, of) ==
    /\ doing[p] = Rest
    /\ IF p = Self THEN /\ Want(kind, of) \in wanted /\ wanted' = wanted \ { Want(kind, of) }
                        /\ UNCHANGED moves
       ELSE moves < MaxMoves /\ moves' = moves + 1 /\ UNCHANGED wanted

(* RoomCreated is sent when the guard is gone.                             *)
OpenLobby(p, r) ==
    /\ Requested(p, "create", Nobody) /\ r \notin opened /\ opened' = opened \cup { r }
    /\ codeOf' = [ codeOf EXCEPT ![p] = r ] /\ members' = [ members EXCEPT ![r] = [ NobodyListed EXCEPT ![p] = 1 ] ]
    /\ late' = IF p = Self THEN {} ELSE late
    /\ Becomes(p, IF p = Self THEN Sending(1, [ sig |-> "RoomCreated", of |-> r, who |-> NobodyShown ], "stay")
                  ELSE Rest)
    /\ UNCHANGED << spaced, muteOf, inbox >>

(* Looked at first, joined after, though the room may be gone by then.     *)
KnockLobby(p, r) ==
    /\ Requested(p, "join", r)
    /\ \/ members[r] # NobodyListed /\ Becomes(p, Entering(r))
       \/ UNCHANGED doing                         \* not there, full, not the password
    /\ UNCHANGED << codeOf, members, opened, spaced, muteOf, inbox, late >>

Joins(p, r) ==
    /\ codeOf' = [ codeOf EXCEPT ![p] = r ]
    /\ members' = IF members[r] = NobodyListed /\ r \in Lobbies THEN members
                  ELSE [ members EXCEPT ![r][p] = @ + 1 ]
    /\ late' = IF p = Self THEN {} ELSE late

(* What the client is told when it enters, and of the others that do.      *)
Arrival(p, r, sig) ==
    IF p = Self THEN Sending(1, [ sig |-> sig, of |-> r, who |-> Present(r) ], "stay")
    ELSE Sending(Copies(r, p), [ sig |-> "PeerJoined", of |-> Info(p) ], "stay")

EnterLobbyTellingLater(p) ==
    /\ doing[p].at = "enter" /\ doing[p].of \in Lobbies
    /\ Joins(p, doing[p].of) /\ Becomes(p, Arrival(p, doing[p].of, "RoomJoined"))
    /\ UNCHANGED << opened, spaced, muteOf, wanted, inbox, moves >>

(* The one that joins a room is told while the guard is held.              *)
EnterLobby(p) ==
    /\ doing[p].at = "enter" /\ doing[p].of \in Lobbies
    /\ Joins(p, doing[p].of)
    /\ LET a == Arrival(p, doing[p].of, "RoomJoined")
       IN IF p = Self THEN inbox' = Append(inbox, a.sig) /\ Becomes(p, Rest)
          ELSE Becomes(p, a) /\ UNCHANGED inbox
    /\ UNCHANGED << opened, spaced, muteOf, wanted, moves >>

(* JoinChannel leaves the channel the peer is in, but not its room.        *)
KnockHall(p, h) ==
    /\ Requested(p, "joinHall", h)
    /\ IF p \notin spaced THEN UNCHANGED doing
       ELSE Becomes(p, IF codeOf[p] \in Halls THEN Leaving(p, h) ELSE Entering(h))
    /\ UNCHANGED << codeOf, members, opened, spaced, muteOf, inbox, late >>

EnterHall(p) ==
    /\ doing[p].at = "enter" /\ doing[p].of \in Halls
    /\ \/ Joins(p, doing[p].of) /\ Becomes(p, Arrival(p, doing[p].of, "ChannelJoined"))
       \/ Becomes(p, Rest) /\ UNCHANGED << codeOf, members, late >>   \* full, deleted
    /\ UNCHANGED << opened, spaced, muteOf, wanted, inbox, moves >>

LeaveHall(p) ==
    /\ Requested(p, "leaveHall", Nobody)
    /\ IF codeOf[p] \in Halls THEN Becomes(p, Leaving(p, "left")) ELSE UNCHANGED doing
    /\ UNCHANGED << codeOf, members, opened, spaced, muteOf, inbox, late >>

(* LeaveRoom is handled as a disconnection: the space is left too.         *)
LeaveLobby(p) ==
    /\ Requested(p, "leave", Nobody)
    /\ IF codeOf[p] = Nobody THEN spaced' = spaced \ { p } /\ UNCHANGED doing
       ELSE Becomes(p, Leaving(p, "gone")) /\ UNCHANGED spaced
    /\ UNCHANGED << codeOf, members, opened, muteOf, inbox, late >>

RemoveFromRoom(p) ==
    /\ doing[p].at = "remove"
    /\ members' = [ members EXCEPT ![doing[p].of][p] = 0 ]
    /\ Becomes(p, Sending(doing[p].k, [ sig |-> "PeerLeft", of |-> p ], doing[p].then))
    /\ UNCHANGED << codeOf, opened, spaced, muteOf, wanted, inbox, late, moves >>

(* A flag is stored, then the others in the room are collected.            *)
SetMute(p) ==
    /\ p # Self /\ Requested(p, "mute", Nobody)
    /\ muteOf' = [ muteOf EXCEPT ![p] = ~@ ]
    /\ IF codeOf[p] = Nobody THEN UNCHANGED doing
       ELSE Becomes(p, [ at |-> "mute", of |-> codeOf[p] ])
    /\ UNCHANGED << codeOf, members, opened, spaced, inbox, late >>

CollectForMute(p) ==
    /\ doing[p].at = "mute"
    /\ Becomes(p, Sending(Copies(doing[p].of, p), [ sig |-> "PeerMuteChanged", of |-> Info(p) ], "stay"))
    /\ UNCHANGED << codeOf, members, opened, spaced, muteOf, wanted, inbox, late, moves >>

(* The client has a list on its way that was taken before.                 *)
ListPending == doing[Self].at = "tell" /\ doing[Self].sig.sig \in { "RoomCreated", "ChannelJoined" }

Tell(p) ==
    /\ doing[p].at = "tell"
    /\ LET d == doing[p]
           leftHall == d.then = "left" \/ d.then \in Halls
       IN /\ inbox' = inbox \o [ i \in 1 .. d.k |-> d.sig ]
                            \o (IF p = Self /\ leftHall THEN << [ sig |-> "ChannelLeft" ] >> ELSE << >>)
          /\ codeOf' = IF d.then = "stay" THEN codeOf ELSE [ codeOf EXCEPT ![p] = Nobody ]
          /\ spaced' = IF d.then = "gone" THEN spaced \ { p } ELSE spaced
          /\ late' = IF p # Self /\ d.k > 0 /\ ListPending THEN late \cup { p } ELSE late
          /\ Becomes(p, IF d.then \in Halls THEN Entering(d.then) ELSE Rest)
    /\ UNCHANGED << members, opened, muteOf, wanted, moves >>

RoomServe(p) ==
    \/ \E r \in Lobbies : OpenLobby(p, r) \/ KnockLobby(p, r)
    \/ EnterLobby(p)
    \/ \E h \in Halls : KnockHall(p, h)
    \/ EnterHall(p)
    \/ LeaveHall(p)
    \/ LeaveLobby(p)
    \/ RemoveFromRoom(p)
    \/ SetMute(p)
    \/ CollectForMute(p)
    \/ Tell(p)

-----------------------------------------------------------------------------
(* The client's buttons.  Leaving a call is a LeaveChannel if the window   *)
(* says that the call is a channel, whatever room has been joined since.   *)

WantCall(w) == wanted' = wanted \cup { w } /\ UNCHANGED call

ClickLeave ==
    /\ call.code # Nobody
    /\ IF call.inHall
       THEN call' = NoCall /\ wanted' = wanted \cup { Want("leaveHall", Nobody) }
       ELSE /\ call' = [ call EXCEPT !.code = Nobody, !.who = NobodyShown ]
            /\ wanted' = wanted \cup { Want("leave", Nobody) }

RoomClick ==
    /\ moves < MaxMoves /\ moves' = moves + 1
    /\ \/ WantCall(Want("create", Nobody))
       \/ \E r \in Lobbies : WantCall(Want("join", r))
       \/ \E h \in Halls : WantCall(Want("joinHall", h))
       \/ ClickLeave
    /\ UNCHANGED << roomServer, inbox >>

-----------------------------------------------------------------------------
(* The client's handlers.                                                  *)

RoomEntered(e) == call' = [ call EXCEPT !.code = e.of, !.who = e.who ]

HallEntered(e) == call' = [ code |-> e.of, who |-> e.who, inHall |-> TRUE, active |-> e.of ]

PeerArrived(q) == call' = [ call EXCEPT !.who[q.id] = Append(@, q.muted) ]

PeerGone(p) == call' = [ call EXCEPT !.who[p] = << >> ]

(* The first entry of the peer, if there is one.                           *)
PeerMuted(q) ==
    call' = IF call.who[q.id] = << >> THEN call ELSE [ call EXCEPT !.who[q.id][1] = q.muted ]

(* Ignored by a client that has left already.                              *)
HallLeft == call' = IF call.active = Nobody THEN call ELSE NoCall

RoomReceive ==
    /\ inbox # << >> /\ inbox' = Tail(inbox)
    /\ LET e == Head(inbox)
       IN \/ e.sig \in { "RoomCreated", "RoomJoined" } /\ RoomEntered(e)
          \/ e.sig = "ChannelJoined" /\ HallEntered(e)
          \/ e.sig = "PeerJoined" /\ PeerArrived(e.of)
          \/ e.sig = "PeerLeft" /\ PeerGone(e.of)
          \/ e.sig = "PeerMuteChanged" /\ PeerMuted(e.of)
          \/ e.sig = "ChannelLeft" /\ HallLeft
    /\ UNCHANGED << roomServer, wanted, moves >>

RoomNext ==
    \/ (\E p \in Everybody : RoomServe(p)) /\ UNCHANGED call
    \/ RoomClick
    \/ RoomReceive

RoomSpec == RoomInit /\ [][RoomNext]_callVars

-----------------------------------------------------------------------------
(* When everything that was asked and sent has been dealt with, a client   *)
(* that shows the room it is in shows everybody else that is there, with   *)
(* the mute they have.  It may show more: a peer that was leaving when the *)
(* client entered stays, one that came back is there twice.  Left out are  *)
(* those whose news were sent between the list and the ChannelJoined or    *)
(* RoomCreated that carries it.  (handle_join_room, handle_join_channel,   *)
(* handle_leave_channel, handle_disconnect, handle_mute_changed, and the   *)
(* client's handlers of what they send.)                                   *)
CallSettled ==
    /\ wanted = {} /\ inbox = << >> /\ \A p \in Everybody : doing[p] = Rest
    /\ call.code # Nobody /\ call.code = codeOf[Self]

NobodyMissing ==
    CallSettled =>
        \A p \in Guests \ late :
            codeOf[p] = call.code /\ members[call.code][p] > 0
                => \E i \in DOMAIN call.who[p] : call.who[p][i] = muteOf[p]
=============================================================================
