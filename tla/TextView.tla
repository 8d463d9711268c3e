------------------------------ MODULE TextView ------------------------------
(***************************************************************************)
(* The conversation a client shows: a text channel of the space it is in,  *)
(* a friend or a group, the messages on display, and what is written there *)
(* - seen from one client, whose server also serves others.                *)
(*                                                                         *)
(* A click spawns a task that sends a request, so requests leave in any    *)
(* order (asks).  The server handles those of a connection one by one: it  *)
(* reads a history under its guard and sends the answer after (reply).     *)
(* What the others write is stored first and sent after (news).  What was  *)
(* sent arrives in order (lane).                                           *)
(*                                                                         *)
(* The client keeps the window's fields (win: what the header says, what   *)
(* is written goes by) and AppState's (app: what incoming messages go by), *)
(* and the two are set by different handlers.                              *)
(***************************************************************************)
EXTENDS Integers, Sequences

CONSTANTS
    Boards,        \* text channels
    Buddies,       \* friends one writes to directly
    Groups,        \* groups of friends
    HomeOf,        \* the space of each text channel
    Nowhere,       \* no conversation, no space
    MaxEvents      \* bound: what the user and the others do

(* Channels, groups and spaces are something.                              *)
ASSUME TextAssumption ==
    Nowhere \notin Boards \cup Groups /\ \A b \in Boards : HomeOf[b] # Nowhere

VARIABLES
    nextId,        \* the server's next message id
    kept,          \* the server's messages of each conversation
    places,        \* the spaces there are
    ended,         \* the spaces there were: an id is not used again
    boards,        \* the text channels there are
    groups,        \* the groups there are
    here,          \* Peer.space_id of the client
    memberOf,      \* the spaces that list the client: joining leaves none
    asks,          \* requests in tasks of the client
    reply,         \* the answer the client's handler is about to send
    news,          \* stored by the others' handlers, about to be sent
    lane,          \* sent to the client
    win,           \* the window: view, space and chat_channel_id, is_direct, group_id
    app,           \* AppState: view, the space's list, what is open, unread
    shown,         \* chat_messages: of each id in the list its rows, first to last
    events,        \* counter of the bound
    refused,       \* history: a selection was refused
    raced          \* history: conversations a change of which overlapped
                   \* a reading, or another change

viewWorld == << places, ended, boards, groups >>
viewServer == << nextId, kept, viewWorld, here, memberOf, reply, news, raced >>
viewClient == << win, app, shown >>
viewCounts == << events, refused >>
textVars == << viewServer, asks, lane, viewClient, viewCounts >>

Places == { HomeOf[b] : b \in Boards }
BoardsOf(s) == { b \in Boards : HomeOf[b] = s }
Board(b) == << "board", b >>
Talks == { Board(b) : b \in Boards } \cup { << "direct", x >> : x \in Buddies }
            \cup { << "group", g >> : g \in Groups }

Message(id, mine) == [ id |-> id, mine |-> mine, edited |-> FALSE, pinned |-> FALSE, likes |-> 0 ]

NoReply == [ sig |-> "none" ]
Ask(kind, of) == [ kind |-> kind, of |-> of ]

(* A list that has each of the messages once.                              *)
Ids(messages) == { m.id : m \in messages }
Listing(messages) ==
    [ id \in Ids(messages) |-> << CHOOSE m \in messages : m.id = id >> ]

(* The client has settled on a text channel of a space it joined.          *)
TextInit ==
    /\ nextId = 1 /\ kept = [ t \in Talks |-> {} ] /\ groups \in { {}, Groups } /\ ended = {}
    /\ places \in SUBSET Places /\ boards = { b \in Boards : HomeOf[b] \in places }
    /\ asks = {} /\ reply = NoReply /\ news = {} /\ lane = << >>
    /\ \E b \in boards :
        /\ here = HomeOf[b] /\ memberOf = { here }
        /\ win = [ chat |-> TRUE, space |-> here, chan |-> b, direct |-> FALSE, group |-> Nowhere ]
        /\ app = [ chat |-> TRUE, space |-> here, known |-> BoardsOf(here), selected |-> b,
                   direct |-> Nowhere, group |-> Nowhere, groups |-> groups, unread |-> {} ]
    /\ shown = Listing({}) /\ events = 0 /\ refused = FALSE /\ raced = {}

-----------------------------------------------------------------------------
(* The user.  Where what is written goes is decided by three fields.       *)

Written ==
    IF win.group # Nowhere THEN << "group", win.group >>
    ELSE IF win.direct THEN << "direct", win.chan >> ELSE Board(win.chan)

(* Edits, pins, deletions and reactions do not know about groups.          *)
Pointed == IF win.direct THEN << "direct", win.chan >> ELSE Board(win.chan)

(* prepare_text_channel_open: everything but the group.                    *)
Prepared(b) ==
    /\ win' = [ win EXCEPT !.chat = TRUE, !.chan = b, !.direct = FALSE ]
    /\ app' = [ app EXCEPT !.chat = TRUE, !.selected = b, !.direct = Nowhere, !.group = Nowhere,
                           !.unread = @ \ { Board(b) } ]
    /\ shown' = Listing({})

ClickBoard(b) ==
    /\ b \in app.known /\ Prepared(b) /\ asks' = asks \cup { Ask("select", Board(b)) }

ClickDirect(x) ==
    /\ asks' = asks \cup { Ask("select", << "direct", x >>) } /\ UNCHANGED viewClient

(* The group written to is set at once, the rest when the answer is in.    *)
ClickGroup(g) ==
    /\ g \in app.groups
    /\ win' = [ win EXCEPT !.group = g ]
    /\ app' = [ app EXCEPT !.direct = Nowhere, !.group = Nowhere, !.unread = @ \ { << "group", g >> } ]
    /\ asks' = asks \cup { Ask("select", << "group", g >>) } /\ UNCHANGED shown

(* The quick switcher shows the chat view before there is an answer.       *)
Switch(t) ==
    /\ t[1] = "board" => t[2] \in app.known
    /\ t[1] = "group" => t[2] \in app.groups
    /\ win' = [ win EXCEPT !.chat = TRUE, !.group = IF t[1] = "group" THEN t[2] ELSE @ ]
    /\ asks' = asks \cup { Ask("select", t) } /\ UNCHANGED << app, shown >>

Navigate ==
    /\ win' = [ win EXCEPT !.chat = ~@ ] /\ app' = [ app EXCEPT !.chat = ~win.chat ]
    /\ UNCHANGED << asks, shown >>

SelectSpace(s) ==
    /\ win' = [ win EXCEPT !.chat = FALSE, !.space = s ] /\ app' = [ app EXCEPT !.chat = FALSE ]
    /\ asks' = IF app.space = s THEN asks ELSE asks \cup { Ask("join", s) }
    /\ UNCHANGED shown

UseInvite(s) == asks' = asks \cup { Ask("join", s) } /\ UNCHANGED viewClient
MakeSpace(s) == asks' = asks \cup { Ask("create", s) } /\ UNCHANGED viewClient
MakeGroup == asks' = asks \cup { Ask("group", Nowhere) } /\ UNCHANGED viewClient

(* What leaving, being removed and the end of a space have in common: the  *)
(* header is emptied, the group written to and the messages are not.       *)
Emptied ==
    /\ win' = [ win EXCEPT !.chat = FALSE, !.space = Nowhere, !.chan = Nowhere, !.direct = FALSE ]
    /\ app' = [ app EXCEPT !.chat = FALSE, !.space = Nowhere, !.known = {}, !.selected = Nowhere,
                           !.direct = Nowhere, !.group = Nowhere,
                           !.unread = { t \in @ : t[1] # "board" } ]
    /\ UNCHANGED shown

QuitSpace ==
    /\ app.space # Nowhere /\ Emptied /\ asks' = asks \cup { Ask("leave", Nowhere) }

Write ==
    /\ win.chat /\ (win.chan # Nowhere \/ win.group # Nowhere)
    /\ asks' = asks \cup { Ask("write", Written) } /\ UNCHANGED viewClient

(* Something is done to a message on display; in a group nothing happens.  *)
Touch(id, how) ==
    /\ win.chat /\ win.chan # Nowhere
    /\ asks' = asks \cup { [ kind |-> how, of |-> Pointed, id |-> id ] }
    /\ UNCHANGED viewClient

ClickEdit(id) == Touch(id, "edit")
ClickPin(id) == ~win.direct /\ Touch(id, "pin")
ClickDelete(id) == Touch(id, "delete")
ClickReact(id) == Touch(id, "like")

Touches == { "edit", "pin", "like", "delete" }

ViewClick ==
    /\ events < MaxEvents /\ events' = events + 1
    /\ \/ \E b \in Boards : ClickBoard(b)
       \/ \E x \in Buddies : ClickDirect(x)
       \/ \E g \in Groups : ClickGroup(g)
       \/ \E t \in Talks : Switch(t)
       \/ Navigate
       \/ \E s \in Places : SelectSpace(s) \/ UseInvite(s)
       \/ \E s \in Places \ (places \cup ended) : MakeSpace(s)
       \/ MakeGroup
       \/ QuitSpace
       \/ Write
       \/ \E id \in DOMAIN shown : ClickEdit(id) \/ ClickPin(id) \/ ClickDelete(id) \/ ClickReact(id)
    /\ UNCHANGED << viewServer, lane, refused >>

-----------------------------------------------------------------------------
(* The server.                                                             *)

Events == news \cup { reply }
About(e) == IF e.sig \in { "posted", "edit", "pin", "like", "delete", "selected" } THEN { e.of } ELSE {}
Busy(t) == \E e \in Events : t \in About(e)

Posted(t, m) == [ sig |-> "posted", of |-> t, message |-> m ]

Touched(m, how) ==
    CASE how = "edit" -> [ m EXCEPT !.edited = TRUE ]
      [] how = "pin"  -> [ m EXCEPT !.pinned = TRUE ]
      [] how = "like" -> [ m EXCEPT !.likes = 1 - @ ]     \* one who reacts, and takes it back

(* Storing a change to conversation t.                                     *)
Stored(t, messages) ==
    /\ kept' = [ kept EXCEPT ![t] = messages ]
    /\ raced' = IF Busy(t) THEN raced \cup { t } ELSE raced

StoreMessage(t, m) == Stored(t, kept[t] \cup { m }) /\ nextId' = nextId + 1

StoreTouch(t, m, how) ==
    /\ Stored(t, (kept[t] \ { m }) \cup (IF how = "delete" THEN {} ELSE { Touched(m, how) }))
    /\ UNCHANGED nextId

(* Whether the client may be in conversation t.                            *)
Reaches(t) ==
    CASE t[1] = "board"  -> t[2] \in boards /\ HomeOf[t[2]] = here
      [] t[1] = "direct" -> TRUE
      [] t[1] = "group"  -> t[2] \in groups

HandleSelect(t) ==
    IF Reaches(t)
    THEN /\ reply' = [ sig |-> "selected", of |-> t, history |-> kept[t] ]
         /\ raced' = IF Busy(t) THEN raced \cup { t } ELSE raced
         /\ UNCHANGED << nextId, kept, refused >>
    ELSE refused' = TRUE /\ UNCHANGED << nextId, kept, reply, raced >>

SelectTextChannel(b) == HandleSelect(Board(b))
SelectDirectMessage(x) == HandleSelect(<< "direct", x >>)
SelectGroupDM(g) == HandleSelect(<< "group", g >>)

HandleWrite(t) ==
    IF Reaches(t)
    THEN /\ StoreMessage(t, Message(nextId, TRUE)) /\ reply' = Posted(t, Message(nextId, TRUE))
         /\ UNCHANGED refused
    ELSE UNCHANGED << nextId, kept, reply, raced, refused >>

(* Only its author edits a message.                                        *)
HandleTouch(a) ==
    IF \E m \in kept[a.of] : m.id = a.id /\ Reaches(a.of) /\ (a.kind = "edit" => m.mine)
    THEN /\ \E m \in kept[a.of] : m.id = a.id /\ StoreTouch(a.of, m, a.kind)
         /\ reply' = [ sig |-> a.kind, of |-> a.of, id |-> a.id ]
         /\ UNCHANGED refused
    ELSE UNCHANGED << nextId, kept, reply, raced, refused >>

Serve(a) ==
    /\ \/ a.kind = "select" /\ \/ a.of[1] = "board" /\ SelectTextChannel(a.of[2])
                               \/ a.of[1] = "direct" /\ SelectDirectMessage(a.of[2])
                               \/ a.of[1] = "group" /\ SelectGroupDM(a.of[2])
       \/ a.kind = "write" /\ HandleWrite(a.of)
       \/ a.kind \in Touches /\ HandleTouch(a)
    /\ UNCHANGED << viewWorld, here, memberOf >>

(* join_space enters the member, then reads the list; the answer is later. *)
HandleJoin(s) ==
    /\ IF s \in places
       THEN /\ here' = s /\ memberOf' = memberOf \cup { s }
            /\ reply' = [ sig |-> "joined", of |-> s, list |-> boards \cap BoardsOf(s) ]
       ELSE reply' = [ sig |-> "unknown" ] /\ UNCHANGED << here, memberOf >>
    /\ UNCHANGED viewWorld

(* A new space has a voice channel and no text channel.                    *)
HandleCreate(s) ==
    /\ IF s \in places \cup ended THEN UNCHANGED << places, here, memberOf, reply >>
       ELSE /\ places' = places \cup { s } /\ here' = s /\ memberOf' = memberOf \cup { s }
            /\ reply' = [ sig |-> "made", of |-> s ]
    /\ UNCHANGED << ended, boards, groups >>

HandleLeave ==
    /\ here' = Nowhere /\ memberOf' = memberOf \ { here } /\ UNCHANGED << viewWorld, reply >>

HandleGroup ==
    /\ \/ \E g \in Groups \ groups :
            groups' = groups \cup { g } /\ reply' = [ sig |-> "grouped", of |-> g ]
       \/ UNCHANGED << groups, reply >>          \* not friends with all of them
    /\ UNCHANGED << places, ended, boards, here, memberOf >>

ServeElse(a) ==
    /\ \/ a.kind = "join" /\ HandleJoin(a.of)
       \/ a.kind = "create" /\ HandleCreate(a.of)
       \/ a.kind = "leave" /\ HandleLeave
       \/ a.kind = "group" /\ HandleGroup
    /\ UNCHANGED << nextId, kept, raced, refused >>

ViewHandle(a) ==
    /\ reply = NoReply /\ asks' = asks \ { a } /\ (Serve(a) \/ ServeElse(a))
    /\ UNCHANGED << news, lane, viewClient, events >>

Answer ==
    /\ reply # NoReply /\ reply' = NoReply /\ lane' = Append(lane, reply)
    /\ UNCHANGED << nextId, kept, viewWorld, here, memberOf, asks, news, raced, viewClient, viewCounts >>

(* The others: they write, change what was written, delete a channel or a  *)
(* space, make a group, put the client out of a space.  Whoever is put out *)
(* of one has no space, whichever it was in.                               *)
OthersWrite(t) ==
    /\ t[1] = "board" => t[2] \in boards
    /\ t[1] = "group" => t[2] \in groups
    /\ StoreMessage(t, Message(nextId, FALSE)) /\ news' = news \cup { Posted(t, Message(nextId, FALSE)) }
    /\ UNCHANGED << viewWorld, here, memberOf >>

OthersTouch(t, m, how) ==
    /\ t[1] # "group" /\ (how = "edit" => ~m.mine) /\ (how = "pin" => t[1] = "board")
    /\ StoreTouch(t, m, how) /\ news' = news \cup { [ sig |-> how, of |-> t, id |-> m.id ] }
    /\ UNCHANGED << viewWorld, here, memberOf >>

Announcing(e) == news' = news \cup { e } /\ UNCHANGED << nextId, kept, raced >>

OthersDelete(b) ==
    /\ b \in boards /\ boards' = boards \ { b }
    /\ IF HomeOf[b] \in memberOf THEN Announcing([ sig |-> "gone", of |-> b ])
       ELSE UNCHANGED << news, nextId, kept, raced >>
    /\ UNCHANGED << places, ended, groups, here, memberOf >>

OthersGroup(g) ==
    /\ g \notin groups /\ groups' = groups \cup { g } /\ Announcing([ sig |-> "grouped", of |-> g ])
    /\ UNCHANGED << places, ended, boards, here, memberOf >>

OthersPutOut(s) ==
    /\ s \in memberOf /\ memberOf' = memberOf \ { s } /\ here' = Nowhere
    /\ Announcing([ sig |-> "out", of |-> s ]) /\ UNCHANGED viewWorld

OthersClose(s) ==
    /\ s \in memberOf /\ memberOf' = memberOf \ { s } /\ here' = Nowhere
    /\ places' = places \ { s } /\ ended' = ended \cup { s } /\ boards' = boards \ BoardsOf(s)
    /\ Announcing([ sig |-> "closed", of |-> s ]) /\ UNCHANGED groups

ViewNews ==
    /\ events < MaxEvents /\ events' = events + 1
    /\ \/ \E t \in Talks : OthersWrite(t) \/ \E m \in kept[t], how \in Touches : OthersTouch(t, m, how)
       \/ \E b \in Boards : OthersDelete(b)
       \/ \E g \in Groups : OthersGroup(g)
       \/ \E s \in Places : OthersPutOut(s) \/ OthersClose(s)
    /\ UNCHANGED << reply, asks, lane, viewClient, refused >>

(* What is written in a channel goes to the members the space has by then. *)
Addressed(e) ==
    (e.sig \in Touches \cup { "posted" } /\ e.of[1] = "board") => HomeOf[e.of[2]] \in memberOf

Broadcast(e) ==
    /\ news' = news \ { e } /\ lane' = IF Addressed(e) THEN Append(lane, e) ELSE lane
    /\ UNCHANGED << nextId, kept, viewWorld, here, memberOf, reply, raced, asks, viewClient, viewCounts >>

-----------------------------------------------------------------------------
(* The client's handlers.                                                  *)

BoardSelectedKeepingGroup(b, history) ==
    /\ win' = [ win EXCEPT !.chat = TRUE, !.chan = b, !.direct = FALSE ]
    /\ app' = [ app EXCEPT !.chat = TRUE, !.direct = Nowhere, !.group = Nowhere,
                           !.selected = IF app.space = Nowhere THEN @ ELSE b,
                           !.unread = @ \ { Board(b) } ]
    /\ shown' = Listing(history) /\ UNCHANGED asks

BoardSelected(b, history) ==
    /\ win' = [ win EXCEPT !.chat = TRUE, !.chan = b, !.direct = FALSE, !.group = Nowhere ]
    /\ app' = [ app EXCEPT !.chat = TRUE, !.direct = Nowhere, !.group = Nowhere,
                           !.selected = IF app.space = Nowhere THEN @ ELSE b,
                           !.unread = @ \ { Board(b) } ]
    /\ shown' = Listing(history) /\ UNCHANGED asks

(* The group that was open stays open for the messages that come.          *)
ReadDirect(x) == [ app EXCEPT !.direct = x, !.unread = @ \ { << "direct", x >> } ]

DirectSelected(x, history) ==
    /\ win' = [ win EXCEPT !.chat = TRUE, !.chan = x, !.direct = TRUE, !.group = Nowhere ]
    /\ app' = [ ReadDirect(x) EXCEPT !.chat = TRUE ]
    /\ shown' = Listing(history) /\ UNCHANGED asks

GroupOpened(g) ==
    /\ win' = [ win EXCEPT !.chat = TRUE, !.chan = Nowhere, !.direct = TRUE, !.group = g ]
    /\ app' = [ app EXCEPT !.chat = TRUE, !.direct = Nowhere, !.group = g, !.groups = @ \cup { g },
                           !.unread = @ \ { << "group", g >> } ]
    /\ UNCHANGED asks

GroupSelected(g, history) == GroupOpened(g) /\ shown' = Listing(history)

(* A group somebody made opens itself, over the messages on display.       *)
GroupCreated(g) == GroupOpened(g) /\ UNCHANGED shown

(* Whether an incoming message belongs to what is on display.              *)
BoardOpen(b) == win.chat /\ ~win.direct /\ win.chan = b
Open(t) ==
    CASE t[1] = "board"  -> BoardOpen(t[2])
      [] t[1] = "direct" -> win.chat /\ win.direct /\ app.direct = t[2]
      [] t[1] = "group"  -> app.group = t[2]

Counted(t, m) ==
    CASE t[1] = "board"  -> t[2] \in app.known /\ ~m.mine
      [] t[1] = "direct" -> ~m.mine
      [] t[1] = "group"  -> t[2] \in app.groups

Appended(m) ==
    [ id \in DOMAIN shown \cup { m.id } |->
        IF id # m.id THEN shown[id] ELSE IF id \in DOMAIN shown THEN Append(shown[id], m) ELSE << m >> ]

MessageIn(t, m) ==
    /\ shown' = IF Open(t) THEN Appended(m) ELSE shown
    /\ app' = [ app EXCEPT !.unread = IF ~Open(t) /\ Counted(t, m) THEN @ \cup { t }
                                      ELSE IF t[1] = "direct" THEN @ \ { t } ELSE @ ]
    /\ UNCHANGED << asks, win >>

(* The handlers of changes compare the channel with the window's fields,   *)
(* whatever the view is, and stop at the first row of the message.         *)
OnDisplay(e, after) ==
    /\ shown' = IF Pointed = e.of /\ e.id \in DOMAIN shown THEN after ELSE shown
    /\ UNCHANGED << asks, win, app >>

EditedIn(e) == OnDisplay(e, [ shown EXCEPT ![e.id][1] = Touched(@, "edit") ])
PinnedIn(e) == OnDisplay(e, [ shown EXCEPT ![e.id][1] = Touched(@, "pin") ])

(* The pills of a message keep a number and no names, so that a reaction   *)
(* taken back adds one.                                                    *)
LikedIn(e) == OnDisplay(e, [ shown EXCEPT ![e.id][1].likes = @ + 1 ])

DeletedIn(e) ==
    OnDisplay(e, IF Len(shown[e.id]) > 1 THEN [ shown EXCEPT ![e.id] = Tail(@) ]
                 ELSE [ id \in DOMAIN shown \ { e.id } |-> shown[id] ])

BoardGone(b) ==
    /\ app' = [ app EXCEPT !.known = @ \ { b }, !.unread = @ \ { Board(b) },
                           !.selected = IF @ = b THEN Nowhere ELSE @,
                           !.chat = @ /\ ~(app.selected = b /\ ~win.direct) ]
    /\ win' = IF app.selected # b \/ win.direct THEN win
              ELSE [ win EXCEPT !.chan = Nowhere, !.chat = @ /\ ~app.chat ]
    /\ UNCHANGED << asks, shown >>

(* SpaceJoined: the client may be where it was, after a reconnection or an *)
(* invite used again, and stays there; or a text channel is restored, the  *)
(* one remembered or the first one, and its history is asked for.          *)
Stays(s, list) == app.space = s /\ app.selected \in list
Restored(s, list) ==
    IF Stays(s, list) THEN { app.selected } ELSE IF list = {} THEN { Nowhere } ELSE list

SpaceIn(s, list) ==
    LET keeps == Stays(s, list) /\ win.space = s
    IN \E b \in Restored(s, list) :
         /\ win' = [ win EXCEPT !.space = s,
                                !.chat = IF keeps THEN app.chat ELSE b # Nowhere,
                                !.chan = IF keeps THEN @ ELSE b,
                                !.direct = keeps /\ @ ]
         /\ app' = [ app EXCEPT !.space = s, !.known = list, !.selected = b,
                                !.chat = IF keeps THEN @ ELSE b # Nowhere,
                                !.direct = Nowhere, !.group = Nowhere,
                                !.unread = IF win.space = s /\ app.space = s THEN @
                                           ELSE { t \in @ : t[1] # "board" } ]
         /\ asks' = IF b = Nowhere THEN asks ELSE asks \cup { Ask("select", Board(b)) }
         /\ UNCHANGED shown

(* SpaceCreated: nothing to restore.                                       *)
SpaceMade(s) ==
    /\ win' = [ win EXCEPT !.chat = FALSE, !.space = s, !.chan = Nowhere, !.direct = FALSE ]
    /\ app' = [ app EXCEPT !.chat = FALSE, !.space = s, !.known = {}, !.selected = Nowhere,
                           !.direct = Nowhere, !.group = Nowhere,
                           !.unread = { t \in @ : t[1] # "board" } ]
    /\ UNCHANGED << asks, shown >>

(* A saved space that is no more, if it is the one on display.             *)
SpaceUnknown ==
    /\ \/ /\ ~win.chat /\ app.space = Nowhere
          /\ win' = [ win EXCEPT !.space = Nowhere ] /\ app' = [ app EXCEPT !.chat = FALSE ]
       \/ UNCHANGED << win, app >>
    /\ UNCHANGED << asks, shown >>

SpaceGone == Emptied /\ UNCHANGED asks
Kicked == Emptied /\ UNCHANGED asks

ViewReceive ==
    /\ lane # << >> /\ lane' = Tail(lane)
    /\ LET e == Head(lane)
       IN \/ e.sig = "selected" /\ e.of[1] = "board" /\ BoardSelected(e.of[2], e.history)
          \/ e.sig = "selected" /\ e.of[1] = "direct" /\ DirectSelected(e.of[2], e.history)
          \/ e.sig = "selected" /\ e.of[1] = "group" /\ GroupSelected(e.of[2], e.history)
          \/ e.sig = "grouped" /\ GroupCreated(e.of)
          \/ e.sig = "posted" /\ MessageIn(e.of, e.message)
          \/ e.sig = "edit" /\ EditedIn(e)
          \/ e.sig = "pin" /\ PinnedIn(e)
          \/ e.sig = "like" /\ LikedIn(e)
          \/ e.sig = "delete" /\ DeletedIn(e)
          \/ e.sig = "gone" /\ BoardGone(e.of)
          \/ e.sig = "joined" /\ SpaceIn(e.of, e.list)
          \/ e.sig = "made" /\ SpaceMade(e.of)
          \/ e.sig = "unknown" /\ SpaceUnknown
          \/ e.sig = "closed" /\ SpaceGone
          \/ e.sig = "out" /\ Kicked
    /\ UNCHANGED << viewServer, viewCounts >>

TextNext ==
    \/ ViewClick
    \/ \E a \in asks : ViewHandle(a)
    \/ Answer
    \/ ViewNews
    \/ \E e \in news : Broadcast(e)
    \/ ViewReceive

TextSpec == TextInit /\ [][TextNext]_textVars

-----------------------------------------------------------------------------
(* Nothing is asked or on its way, and nothing of the kind that a client   *)
(* cannot put right has happened.                                          *)
Quiet == asks = {} /\ reply = NoReply /\ news = {} /\ lane = << >>
Settled == Quiet /\ ~refused /\ here = app.space /\ here # Nowhere

Faces(m) == [ m EXCEPT !.likes = 0 ]

(* When a client has settled on a text channel, what is written goes to    *)
(* the channel the header names, and the messages on display are that      *)
(* channel's.  Unless changes overlapped, they are what the server has,    *)
(* each once; and one of another member that is missing has marked the     *)
(* channel unread.  (handle_text_channel_selected and the handlers of      *)
(* incoming messages, which look at different fields.)                     *)
ChannelViewTrue ==
    Settled /\ win.chat /\ ~win.direct /\ win.chan # Nowhere =>
        LET t == Board(win.chan)
            seen == { Faces(shown[id][1]) : id \in DOMAIN shown }
            known == { Faces(m) : m \in kept[t] }
        IN /\ Written = t
           /\ t \notin raced =>
                /\ seen \subseteq known
                /\ \A id \in DOMAIN shown : Len(shown[id]) = 1
                /\ \A m \in known \ seen : m.mine \/ t \in app.unread
=============================================================================
