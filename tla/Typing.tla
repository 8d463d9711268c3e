------------------------------- MODULE Typing -------------------------------
(***************************************************************************)
(* Who is typing: what the server keeps of the others, what it announces   *)
(* to one client, and the names that client shows.                         *)
(*                                                                         *)
(* A start is announced once per channel and a stop only by those who can  *)
(* still be asked for their space and their name, so a client cannot count *)
(* on a stop for each start: it also remembers when a start came (tTicks), *)
(* and a check that runs every second drops what is too old.               *)
(***************************************************************************)
EXTENDS Integers, Sequences

CONSTANTS
    Typists,       \* the others, members of the space
    Pens,          \* display names
    Pages,         \* the text channels of the space
    TypingLimit,   \* TYPING_TIMEOUT_TICKS in checks, 5
    MaxStrokes     \* bound: what the typists and the client do

NoPage == "none"

ASSUME TypingAssumption == NoPage \notin Pages /\ TypingLimit \in Nat \ {0}

VARIABLES
    typingIn,      \* Peer.typing_channel_id of the others
    typingTo,      \* Peer.typing_dm_user_id: whether it is the client's user
    named,         \* Peer.name
    inside,        \* the others the server has in the space
    attends,       \* whether the server has the client in the space
    wire,          \* sent to the client
    listed,        \* the client is in the space, as it knows
    tUsers,        \* typing_users: pairs of a channel and a name
    tTicks,        \* typing_ticks: the age of each pair, -1 for none
    dUsers,        \* direct_typing_users: pairs of a friend and a name
    dTicks,        \* direct_typing_ticks: the age of each friend, -1 for none
    strokes        \* counter of the bound

typingServer == << typingIn, typingTo, named, inside, attends >>
typingClient == << listed, tUsers, tTicks, dUsers, dTicks >>
typingVars == << typingServer, wire, typingClient, strokes >>

NoTicks == [ k \in Pages \X Pens |-> -1 ]

TypingInit ==
    /\ typingIn = [ q \in Typists |-> NoPage ] /\ typingTo = [ q \in Typists |-> FALSE ]
    /\ named \in [ Typists -> Pens ] /\ inside = Typists /\ attends = TRUE /\ wire = << >>
    /\ listed = TRUE /\ tUsers = {} /\ tTicks = NoTicks
    /\ dUsers = {} /\ dTicks = [ q \in Typists |-> -1 ] /\ strokes = 0

-----------------------------------------------------------------------------
(* The server.  The steps of a handler are one: what it sends to a client  *)
(* follows each other, and a connection has one handler at a time.         *)

In(q, c, on) == [ sig |-> "typing", of |-> << c, named[q] >>, on |-> on ]
To(q, on) == [ sig |-> "direct", of |-> << q, named[q] >>, on |-> on ]

Announced(signals) == wire' = wire \o signals

(* clear_typing_for_peer: what is taken is announced in the space the peer *)
(* is in, if it is in one.                                                 *)
ClearedIn(q) ==
    IF typingIn[q] # NoPage /\ q \in inside /\ attends THEN << In(q, typingIn[q], FALSE) >> ELSE << >>
ClearedTo(q) == IF typingTo[q] THEN << To(q, FALSE) >> ELSE << >>

SetTyping(q, c) ==
    /\ q \in inside
    /\ typingTo' = [ typingTo EXCEPT ![q] = FALSE ]
    /\ typingIn' = [ typingIn EXCEPT ![q] = c ]
    /\ Announced(ClearedTo(q) \o
         (IF typingIn[q] = c THEN << >>            \* announced already
          ELSE ClearedIn(q) \o (IF attends THEN << In(q, c, TRUE) >> ELSE << >>)))
    /\ UNCHANGED << named, inside, attends >>

SetDirectTyping(q) ==
    /\ typingIn' = [ typingIn EXCEPT ![q] = NoPage ]
    /\ typingTo' = [ typingTo EXCEPT ![q] = TRUE ]
    /\ Announced(ClearedIn(q) \o (IF typingTo[q] THEN << >> ELSE << To(q, TRUE) >>))
    /\ UNCHANGED << named, inside, attends >>

(* A stop, a channel or a friend selected, a space left, a disconnection.  *)
StopTyping(q, leaves) ==
    /\ typingIn' = [ typingIn EXCEPT ![q] = NoPage ]
    /\ typingTo' = [ typingTo EXCEPT ![q] = FALSE ]
    /\ inside' = IF leaves THEN inside \ { q } ELSE inside
    /\ Announced(ClearedIn(q) \o ClearedTo(q))
    /\ UNCHANGED << named, attends >>

(* A message ends the typing, and carries the name too.                    *)
SendMessage(q, c) ==
    /\ q \in inside
    /\ typingIn' = [ typingIn EXCEPT ![q] = NoPage ]
    /\ Announced(ClearedIn(q) \o (IF attends THEN << [ sig |-> "message", of |-> << c, named[q] >> ] >> ELSE << >>))
    /\ UNCHANGED << typingTo, named, inside, attends >>

(* Removed by a moderator: nobody announces a stop.                        *)
RemoveTypist(q) ==
    /\ inside' = inside \ { q } /\ UNCHANGED << typingIn, typingTo, named, attends, wire >>

(* One that comes back is not announced again in the channel it typed in.  *)
ReturnTypist(q) ==
    /\ inside' = inside \cup { q } /\ UNCHANGED << typingIn, typingTo, named, attends, wire >>

Rename(q, n) ==
    /\ named' = [ named EXCEPT ![q] = n ] /\ UNCHANGED << typingIn, typingTo, inside, attends, wire >>

DeletePage(c) ==
    /\ Announced(IF attends THEN << [ sig |-> "gone", of |-> c ] >> ELSE << >>)
    /\ UNCHANGED typingServer

(* The client joins the space, which it may be in already.                 *)
Attend ==
    /\ attends' = TRUE /\ Announced(<< [ sig |-> "joined" ] >>)
    /\ UNCHANGED << typingIn, typingTo, named, inside >>

ServerStroke ==
    /\ strokes < MaxStrokes /\ strokes' = strokes + 1
    /\ \/ \E q \in Typists :
            \/ \E c \in Pages : SetTyping(q, c) \/ SendMessage(q, c)
            \/ SetDirectTyping(q)
            \/ \E leaves \in BOOLEAN : StopTyping(q, leaves)
            \/ RemoveTypist(q)
            \/ ReturnTypist(q)
            \/ \E n \in Pens : Rename(q, n)
       \/ \E c \in Pages : DeletePage(c)
       \/ Attend
    /\ UNCHANGED typingClient

(* The client leaves: its own state is gone at once.                       *)
Unattend ==
    /\ strokes < MaxStrokes /\ strokes' = strokes + 1 /\ listed
    /\ attends' = FALSE /\ listed' = FALSE /\ tUsers' = {} /\ tTicks' = NoTicks
    /\ dUsers' = {} /\ UNCHANGED << typingIn, typingTo, named, inside, wire, dTicks >>

-----------------------------------------------------------------------------
(* The client's handlers.                                                  *)

TypingIn(k, on) ==
    /\ tUsers' = IF ~listed THEN tUsers ELSE IF on THEN tUsers \cup { k } ELSE tUsers \ { k }
    /\ tTicks' = IF ~listed THEN tTicks ELSE [ tTicks EXCEPT ![k] = IF on THEN 0 ELSE -1 ]
    /\ UNCHANGED << listed, dUsers, dTicks >>

(* A friend's age is not told apart by name.                               *)
DirectTypingIn(k, on) ==
    /\ dUsers' = IF on THEN dUsers \cup { k } ELSE dUsers \ { k }
    /\ dTicks' = [ dTicks EXCEPT ![k[1]] = IF on THEN 0 ELSE -1 ]
    /\ UNCHANGED << listed, tUsers, tTicks >>

(* A message and a deleted channel take names away and leave their ages.   *)
MessageStops(k) ==
    /\ tUsers' = tUsers \ { k } /\ UNCHANGED << listed, tTicks, dUsers, dTicks >>

PageGone(c) ==
    /\ tUsers' = { k \in tUsers : k[1] # c }
    /\ UNCHANGED << listed, tTicks, dUsers, dTicks >>

(* SpaceJoined: names and ages are kept if it is the same space.           *)
JoinedKeeping(ages) ==
    /\ listed' = TRUE /\ dUsers' = {}
    /\ tTicks' = IF listed THEN ages ELSE NoTicks
    /\ UNCHANGED << tUsers, dTicks >>

JoinedForgettingAges == JoinedKeeping(NoTicks)
Joined == JoinedKeeping(tTicks)

TypingReceive ==
    /\ wire # << >> /\ wire' = Tail(wire)
    /\ LET e == Head(wire)
       IN \/ e.sig = "typing" /\ TypingIn(e.of, e.on)
          \/ e.sig = "direct" /\ DirectTypingIn(e.of, e.on)
          \/ e.sig = "message" /\ MessageStops(e.of)
          \/ e.sig = "gone" /\ PageGone(e.of)
          \/ e.sig = "joined" /\ Joined
    /\ UNCHANGED << typingServer, strokes >>

(* expire_stale_typing, once a second.                                     *)
Aged(t) == IF t = -1 \/ t + 1 >= TypingLimit THEN -1 ELSE t + 1
TooOld(t) == t # -1 /\ t + 1 >= TypingLimit

ExpireStaleTyping ==
    /\ (\E k \in Pages \X Pens : tTicks[k] # -1) \/ (\E q \in Typists : dTicks[q] # -1)
    /\ tTicks' = [ k \in Pages \X Pens |-> Aged(tTicks[k]) ]
    /\ tUsers' = { k \in tUsers : ~TooOld(tTicks[k]) }
    /\ dTicks' = [ q \in Typists |-> Aged(dTicks[q]) ]
    /\ dUsers' = { k \in dUsers : ~TooOld(dTicks[k[1]]) }
    /\ UNCHANGED << typingServer, wire, listed, strokes >>

TypingNext == ServerStroke \/ Unattend \/ TypingReceive \/ ExpireStaleTyping

TypingSpec == TypingInit /\ [][TypingNext]_typingVars

-----------------------------------------------------------------------------
(* Every name shown in a channel has an age, so that the check drops it    *)
(* five seconds after it was announced, whatever stop was never sent; and  *)
(* nobody is shown typing outside of the space.  (handle_typing_state and  *)
(* the four handlers that touch one of the two maps.)                      *)
TypistsTimed ==
    /\ \A k \in tUsers : tTicks[k] \in 0 .. TypingLimit - 1
    /\ ~listed => tUsers = {}
=============================================================================
