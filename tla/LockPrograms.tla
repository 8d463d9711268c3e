---------------------------- MODULE LockPrograms ----------------------------
(***************************************************************************)
(* The lock operations of the server's handlers, read off the code: each   *)
(* is a sequence of critical sections, on the path that makes the most of  *)
(* them.  The operations are explained in StateLock.                       *)
(***************************************************************************)
EXTENDS Sequences

Read == << "read", "free" >>
Write == << "write", "free" >>

(* relay_audio: one read guard for the sender, the room and its peers. *)
Relay == Read

(* Mutant: a helper of the sweeper takes a guard of its own. *)
SweeperNested == << "write", "read", "free", "free" >>

(* The sweeper's turn, all under one write guard. *)
Sweeper == Write

(* stop_screen_share_in_room, then collect_room_others, then the list. *)
StopAndUnlist == Write \o Read \o Write

(* Mutant: the guard that read the room code is kept over the broadcast. *)
LeaveChannelNested ==
    Read \o StopAndUnlist \o << "read", "read", "free", "free" >> \o Read

(* handle_leave_channel: the room code is read, the share stopped, the     *)
(* list updated, the code cleared, the space and the peer itself told.     *)
LeaveChannel == Read \o StopAndUnlist \o Read \o Read \o Read

(* handle_join_channel: the channel is looked up under the write guard;    *)
(* when there is none, the guard is dropped before the error is sent.      *)
JoinChannel ==
    Read \o LeaveChannel \o << "write", "lookup", "free" >> \o Read \o Read
JoinChannelMissing == << "free" >>

(* handle_delete_space: space id, identity, then the removal. *)
DeleteSpace == Read \o Read \o << "write", "remove", "free" >>

(* handle_delete_channel: space id, role (identity and membership),        *)
(* permissions, name, then the removal, then the peers to tell.  When the  *)
(* space is gone, send_error takes a read guard under the write guard.     *)
DeleteChannel ==
    Read \o Read \o Read \o Read \o Read
         \o << "write", "lookup", "free" >> \o Read
DeleteChannelMissing == << "read", "free", "free" >>

(* handle_get_thread: the space is looked up under a read guard, and when  *)
(* it is gone send_error takes another one under it.                       *)
GetThread == Read \o << "read", "lookup", "free" >>
GetThreadMissing == << "read", "free", "free" >>

(* handle_disconnect of a peer in a voice channel, and the removal of the  *)
(* peer.  The "if let" that clears the room code keeps its read guard      *)
(* while broadcast_to_space takes another one.  Then: space id, typing     *)
(* state, member list, broadcast, space id cleared, typing state, room     *)
(* code cleared, peer removed.                                             *)
Disconnect ==
    Read \o StopAndUnlist
         \o << "read", "read", "free", "free" >>
         \o Read \o Read \o Write \o Read \o Read \o Read \o Read \o Write

Programs ==
    [ relay |-> Relay, sweeper |-> Sweeper,
      leaveChannel |-> LeaveChannel, joinChannel |-> JoinChannel,
      deleteSpace |-> DeleteSpace, deleteChannel |-> DeleteChannel,
      getThread |-> GetThread, disconnect |-> Disconnect ]

MissingPrograms ==
    [ h \in DOMAIN Programs |->
        CASE h = "joinChannel"   -> JoinChannelMissing
          [] h = "deleteChannel" -> DeleteChannelMissing
          [] h = "getThread"     -> GetThreadMissing
          [] OTHER               -> << "free" >> ]
=============================================================================
