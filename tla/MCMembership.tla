---------------------------- MODULE MCMembership ----------------------------
(***************************************************************************)
(* Instances of Membership for TLC.                                        *)
(***************************************************************************)
EXTENDS Membership, TLC

CONSTANTS p1, p2, p3, r1, c1, c2, s1, s2

(* Channels and spaces, everything that touches them. *)
ChannelRequests ==
    { "StartShare", "JoinChannel", "LeaveChannel", "CreateSpace", "JoinSpace",
      "LeaveSpace", "DeleteSpace", "CreateChannel", "DeleteChannel", "Kick",
      "SwitchIdentity", "Hangup" }

(* Stand-alone rooms, a channel one can go to from there, and a text       *)
(* channel beside it, so that channels can be deleted.  (Shares are left   *)
(* to the other instances.)                                                *)
RoomRequests ==
    { "CreateRoom", "JoinRoom", "LeaveRoom",
      "CreateSpace", "JoinSpace", "JoinChannel", "CreateChannel", "DeleteChannel", "DeleteSpace",
      "Kick", "SwitchIdentity", "Hangup" }

(* Channels and spaces, and no request whose handler clears the fields of  *)
(* a peer that is on a list.                                               *)
VoiceRequests ==
    { "StartShare", "StopShare", "JoinChannel", "LeaveChannel", "CreateSpace",
      "JoinSpace", "LeaveSpace", "CreateChannel", "Hangup" }

(* As few requests as it takes to look at the limit of stand-alone rooms,  *)
(* and at a change of identity in a voice channel.                         *)
CapacityRequests == { "CreateRoom", "JoinRoom" }
IdentityRequests == { "CreateSpace", "JoinSpace", "JoinChannel", "SwitchIdentity" }

(* Channel ids are interchangeable; the peers are not, one is a moderator. *)
ChannelSymmetry == Permutations({c1, c2})
=============================================================================
