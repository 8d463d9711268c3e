------------------------------- MODULE Social -------------------------------
(***************************************************************************)
(* Friends, blocks, and to whom a direct message goes.                     *)
(*                                                                         *)
(* Friend requests, friendships and blocks are rows.  A handler looks them *)
(* up and changes them by several statements, each with the connection to  *)
(* the database for itself, and nothing around them: another handler's may *)
(* come in between.  Who has blocked a user is cached on its connection    *)
(* (Peer.blocked_by): loaded when it authenticates, and changed by the     *)
(* blockers.                                                               *)
(*                                                                         *)
(* A peer is a connection, and a user may have several.  Its requests are  *)
(* handled one at a time: doing[p] says how far its handler is, and with[p] *)
(* which other user it is about.                                           *)
(***************************************************************************)
EXTENDS Integers, FiniteSets, People

CONSTANTS
    Companions,   \* friends at first: sets of two users
    MaxRequests   \* bound on the requests of a behaviour

ASSUME SocialAssumption ==
    /\ \A pair \in Companions : \E u, v \in Users : u # v /\ pair = {u, v}
    /\ MaxRequests \in Nat

VARIABLES
    asked,      \* friend_requests: <<from, to>>
    friends,    \* friendships: sets of two users
    blocks,     \* user_blocks: <<who blocks, who is blocked>>
    online,     \* connections that have authenticated
    blockedBy,  \* Peer.blocked_by
    doing,      \* how far the handler of each connection is
    with,       \* the other user it is about
    count,      \* requests made so far
    willing,    \* history: <<u, v>>: u has asked v, or agreed to v's request
    crossed,    \* history: pairs of users about whom two handlers ran at once
    reached     \* history: <<from, to>>: a message delivered although to has blocked from

friendVars == << asked, friends >>
blockVars == << blocks, online, blockedBy >>
socialVars == << friendVars, blockVars, doing, with, count, willing, crossed, reached >>

SocialInit ==
    /\ asked = {} /\ friends = Companions
    /\ blocks = {} /\ online = {}
    /\ blockedBy = [ p \in Devices |-> {} ]
    /\ doing = [ p \in Devices |-> "idle" ]
    /\ with = [ p \in Devices |-> UserOf[p] ]
    /\ count = 0
    /\ willing = { t \in Users \X Users : { t[1], t[2] } \in Companions }
    /\ crossed = {} /\ reached = {}

Me(p) == UserOf[p]

Pair(p) == { Me(p), with[p] }

FriendSteps == { "checkFriends", "checkAsked", "checkBack", "checkAnswer", "drop", "befriend", "ask" }

(* A request of p about v begins.  (A pair is crossed when another handler *)
(* is at the same pair's friendship.)                                      *)
About(p, v, step) ==
    /\ doing[p] = "idle" /\ p \in online /\ count < MaxRequests
    /\ v \in Users \ {Me(p)}
    /\ doing' = [ doing EXCEPT ![p] = step ]
    /\ with' = [ with EXCEPT ![p] = v ]
    /\ count' = count + 1
    /\ crossed' = IF step \in FriendSteps \cup {"idle"}
                     /\ \E q \in Devices : doing[q] \in FriendSteps /\ Pair(q) = { Me(p), v }
                  THEN crossed \cup {{ Me(p), v }} ELSE crossed

Then(p, step) == doing' = [ doing EXCEPT ![p] = step ]

-----------------------------------------------------------------------------
(* Friends.  A statement that changes nothing else: *)
Looked == UNCHANGED << friendVars, blockVars, with, count, willing, crossed, reached >>

(* handle_send_friend_request: the requester is willing from here on. *)
SendFriendRequest(p, v) ==
    /\ About(p, v, "checkFriends")
    /\ willing' = willing \cup {<< Me(p), v >>}
    /\ UNCHANGED << friendVars, blockVars, reached >>

FriendshipExists(p) ==
    /\ doing[p] = "checkFriends"
    /\ Then(p, IF Pair(p) \in friends THEN "idle" ELSE "checkAsked")
    /\ Looked

AlreadyAsked(p) ==
    /\ doing[p] = "checkAsked"
    /\ Then(p, IF << Me(p), with[p] >> \in asked THEN "idle" ELSE "checkBack")
    /\ Looked

(* Mutant: the other's request is not looked for. *)
AskedBackNever(p) ==
    /\ doing[p] = "checkBack"
    /\ Then(p, "ask")
    /\ Looked

(* A request the other way round is taken as accepted. *)
AskedBack(p) ==
    /\ doing[p] = "checkBack"
    /\ Then(p, IF << with[p], Me(p) >> \in asked THEN "drop" ELSE "ask")
    /\ Looked

SaveFriendRequest(p) ==
    /\ doing[p] = "ask"
    /\ asked' = asked \cup {<< Me(p), with[p] >>}
    /\ Then(p, "idle")
    /\ UNCHANGED << friends, blockVars, with, count, willing, crossed, reached >>

(* handle_respond_friend_request, accepting: its sender agrees. *)
AcceptFriendRequest(p, v) ==
    /\ About(p, v, "checkAnswer")
    /\ willing' = willing \cup {<< Me(p), v >>}
    /\ UNCHANGED << friendVars, blockVars, reached >>

(* Mutant: whether there is such a request is not asked. *)
AnswerUnasked(p) ==
    /\ doing[p] = "checkAnswer"
    /\ Then(p, "drop")
    /\ Looked

(* The request that is answered must be pending. *)
Answer(p) ==
    /\ doing[p] = "checkAnswer"
    /\ Then(p, IF << with[p], Me(p) >> \in asked THEN "drop" ELSE "idle")
    /\ Looked

DropRequest(p) ==
    /\ doing[p] = "drop"
    /\ asked' = asked \ {<< with[p], Me(p) >>}
    /\ Then(p, "befriend")
    /\ UNCHANGED << friends, blockVars, with, count, willing, crossed, reached >>

SaveFriendship(p) ==
    /\ doing[p] = "befriend"
    /\ friends' = friends \cup {Pair(p)}
    /\ Then(p, "idle")
    /\ UNCHANGED << asked, blockVars, with, count, willing, crossed, reached >>

(* A statement fails: the handler ends, and what it did before stays done. *)
StatementFails(p) ==
    /\ doing[p] \in FriendSteps
    /\ Then(p, "idle")
    /\ Looked

(* Declining is looking and deleting, which is deleting; so is cancelling  *)
(* a request of one's own, and removing a friend.  These are one statement *)
(* that others may still come between two of theirs with.                  *)
Forget(p, v, requests, pairs) ==
    /\ About(p, v, "idle")
    /\ asked' = asked \ requests
    /\ friends' = friends \ pairs
    /\ UNCHANGED << blockVars, willing, reached >>

DeclineFriendRequest(p, v) == Forget(p, v, {<< v, Me(p) >>}, {})

CancelFriendRequest(p, v) == Forget(p, v, {<< Me(p), v >>}, {})

RemoveFriend(p, v) == Forget(p, v, {}, {{ Me(p), v }})

-----------------------------------------------------------------------------
(* Blocks.  handle_authenticate: the identity is there, then the cache is  *)
(* loaded by an awaited query; one that fails makes it empty.              *)
Authenticate(p) ==
    /\ p \notin online /\ doing[p] = "idle"
    /\ online' = online \cup {p}
    /\ Then(p, "load")
    /\ UNCHANGED << friendVars, blocks, blockedBy, with, count, willing, crossed, reached >>

LoadBlocks(p) ==
    /\ doing[p] = "load"
    /\ \E known \in { { u \in Users : << u, Me(p) >> \in blocks }, {} } :
          blockedBy' = [ blockedBy EXCEPT ![p] = known ]
    /\ Then(p, "idle")
    /\ UNCHANGED << friendVars, blocks, online, with, count, willing, crossed, reached >>

(* handle_block_user and handle_unblock_user: the row, then the cache of   *)
(* the first connection of the other user, unless its lock is taken.       *)
SaveBlock(p, v) ==
    /\ About(p, v, "cacheBlock")
    /\ blocks' = blocks \cup {<< Me(p), v >>}
    /\ UNCHANGED << friendVars, online, blockedBy, willing, reached >>

DeleteBlock(p, v) ==
    /\ About(p, v, "cacheUnblock")
    /\ blocks' = blocks \ {<< Me(p), v >>}
    /\ UNCHANGED << friendVars, online, blockedBy, willing, reached >>

CacheBlock(p) ==
    /\ doing[p] \in { "cacheBlock", "cacheUnblock" }
    /\ \/ \E q \in online :
             /\ UserOf[q] = with[p]
             /\ blockedBy' = [ blockedBy EXCEPT ![q] =
                                 IF doing[p] = "cacheBlock" THEN @ \cup {Me(p)} ELSE @ \ {Me(p)} ]
       \/ UNCHANGED blockedBy
    /\ Then(p, "idle")
    /\ UNCHANGED << friendVars, blocks, online, with, count, willing, crossed, reached >>

-----------------------------------------------------------------------------
(* For the property: v has blocked the user of p, and every connection of  *)
(* that user has it in its cache.                                          *)
BlockKnown(p, v) ==
    /\ << v, Me(p) >> \in blocks
    /\ \A q \in online : Me(q) = Me(p) => v \in blockedBy[q]

(* handle_send_direct_message: friends?, and the row (see Chat); then it   *)
(* is delivered to all connections of both, unless the cache of one of the *)
(* target's holds the sender.                                              *)
SendDirect(p, v) ==
    /\ {Me(p), v} \in friends
    /\ About(p, v, IF BlockKnown(p, v) THEN "deliverBlocked" ELSE "deliver")
    /\ UNCHANGED << friendVars, blockVars, willing, reached >>

(* The check as it is written asks who has blocked the target. *)
Withheld(p) == \E q \in online : UserOf[q] = with[p] /\ Me(p) \in blockedBy[q]

Deliver(p) ==
    /\ doing[p] \in { "deliver", "deliverBlocked" }
    /\ reached' = IF doing[p] = "deliverBlocked" /\ ~Withheld(p)
                     /\ \E q \in online : UserOf[q] = with[p]
                  THEN reached \cup {<< Me(p), with[p] >>} ELSE reached
    /\ Then(p, "idle")
    /\ UNCHANGED << friendVars, blockVars, with, count, willing, crossed >>

-----------------------------------------------------------------------------
FriendStep(p) ==
    \/ \E v \in Users : \/ SendFriendRequest(p, v) \/ AcceptFriendRequest(p, v)
                        \/ DeclineFriendRequest(p, v) \/ CancelFriendRequest(p, v)
                        \/ RemoveFriend(p, v)
    \/ FriendshipExists(p) \/ AlreadyAsked(p) \/ AskedBack(p) \/ SaveFriendRequest(p)
    \/ Answer(p) \/ DropRequest(p) \/ SaveFriendship(p) \/ StatementFails(p)

BlockStep(p) ==
    \/ Authenticate(p) \/ LoadBlocks(p)
    \/ \E v \in Users : SaveBlock(p, v) \/ DeleteBlock(p, v) \/ SendDirect(p, v)
    \/ CacheBlock(p) \/ Deliver(p)

SocialNext == \E p \in Devices : FriendStep(p) \/ BlockStep(p)

SocialSpec == SocialInit /\ [][SocialNext]_socialVars

-----------------------------------------------------------------------------
(* Properties. *)

(* Nobody is the friend of a user it never asked nor agreed with, whatever *)
(* requests, answers and cancellations of several connections meet.        *)
FriendsByConsent ==
    \A pair \in friends : \A u, v \in pair : u # v => << u, v >> \in willing

(* Between two users there is a friendship, or a request one way, or the   *)
(* other: more than one of these only after two handlers were at the same  *)
(* pair at once.                                                           *)
OneTieUnlessCrossed ==
    \A u, v \in Users : << u, v >> \in asked =>
        (<< v, u >> \notin asked /\ {u, v} \notin friends) \/ {u, v} \in crossed

(* A message does not reach a user that had blocked its sender before it   *)
(* was sent, with the block in the caches of all the sender's connections. *)
BlockedIsNotReached == reached = {}
=============================================================================
