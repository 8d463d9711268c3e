---------------------------- MODULE Persistence ----------------------------
(***************************************************************************)
(* The statements of the database, as far as they change a table.          *)
(*                                                                         *)
(* A table is a set of rows, a row a record, and db a record of tables:    *)
(* each operator takes the tables before a statement to those after it.    *)
(* A method of Database holds the lock of the one connection throughout,   *)
(* so each is one step.  Foreign keys are enforced (open turns them on):   *)
(* a message needs the row of its channel, and goes with it.  Reactions,   *)
(* attachments, scheduled messages and read marks refer to a message or a  *)
(* channel without a foreign key, and stay when it goes.                   *)
(***************************************************************************)
LOCAL INSTANCE Naturals

Ids(table) == { row.id : row \in table }

-----------------------------------------------------------------------------
(* Channels and the messages in them. *)

(* INSERT OR REPLACE: a row of the same id is deleted first, and with it   *)
(* go its messages; the new one has auto_delete_hours 0.                   *)
SaveChannel(db, id) ==
    [ db EXCEPT !.channels = @ \cup {id},
                !.expiring = @ \ {id},
                !.messages = { m \in @ : m.chan # id } ]

DeleteChannelRow(db, id) ==
    [ db EXCEPT !.channels = @ \ {id},
                !.expiring = @ \ {id},
                !.messages = { m \in @ : m.chan # id } ]

(* Refused without the channel, and when the id is taken. *)
Storable(db, row) == row.chan \in db.channels /\ row.id \notin Ids(db.messages)

SaveMessage(db, row) ==
    IF Storable(db, row) THEN [ db EXCEPT !.messages = @ \cup {row} ] ELSE db

UpdateMessage(db, id) ==
    [ db EXCEPT !.messages = { IF m.id = id THEN [ m EXCEPT !.edited = TRUE ] ELSE m : m \in @ } ]

SetMessagePinned(db, id, pinned) ==
    [ db EXCEPT !.messages = { IF m.id = id THEN [ m EXCEPT !.pinned = pinned ] ELSE m : m \in @ } ]

(* The row, its reactions, and its attachment unless another row names it. *)
DeleteMessageRow(db, id) ==
    LET gone == { m \in db.messages : m.id = id }
        left == db.messages \ gone
    IN  [ db EXCEPT !.reactions = { r \in @ : r.msg # id },
                    !.messages = left,
                    !.attachments = @ \ ({ m.att : m \in gone } \ { m.att : m \in left }) ]

(* Mutant: every channel is swept. *)
DeleteExpiredAnywhere(db, cutoff) ==
    [ db EXCEPT !.messages = { m \in @ : m.ts >= cutoff } ]

(* Rows older than the cutoff, of the channels that have one: expiring are *)
(* those with auto_delete_hours > 0.                                       *)
DeleteExpired(db, cutoff) ==
    [ db EXCEPT !.messages = { m \in @ : m.chan \notin db.expiring \/ m.ts >= cutoff } ]

AddReaction(db, id, user) ==
    [ db EXCEPT !.reactions = @ \cup {[ msg |-> id, user |-> user ]} ]

RemoveReaction(db, id, user) ==
    [ db EXCEPT !.reactions = @ \ {[ msg |-> id, user |-> user ]} ]

(* The reactions of a channel, joined with the messages that are there. *)
LoadReactions(db, id) == { r.user : r \in { r \in db.reactions : r.msg = id } }

InsertAttachment(db, id) == [ db EXCEPT !.attachments = @ \cup {id} ]

(* The last mark wins. *)
UpsertLastRead(db, user, chan, id) ==
    [ db EXCEPT !.reads = { r \in @ : r.user # user \/ r.chan # chan }
                          \cup {[ user |-> user, chan |-> chan, msg |-> id ]} ]

-----------------------------------------------------------------------------
(* Direct messages: a pair of users is a set of two. *)
SaveDirect(db, row) ==
    IF row.id \in Ids(db.directs) THEN db ELSE [ db EXCEPT !.directs = @ \cup {row} ]

UpdateDirect(db, id) ==
    [ db EXCEPT !.directs = { IF m.id = id THEN [ m EXCEPT !.edited = TRUE ] ELSE m : m \in @ } ]

DeleteDirectRow(db, id) ==
    [ db EXCEPT !.dmReactions = { r \in @ : r.msg # id },
                !.directs = { m \in @ : m.id # id } ]

AddDmReaction(db, id, user) ==
    [ db EXCEPT !.dmReactions = @ \cup {[ msg |-> id, user |-> user ]} ]

RemoveDmReaction(db, id, user) ==
    [ db EXCEPT !.dmReactions = @ \ {[ msg |-> id, user |-> user ]} ]

(* Groups: refused when the id is taken. *)
CreateGroupConversation(db, id, members) ==
    IF id \in Ids(db.groups) THEN db
    ELSE [ db EXCEPT !.groups = @ \cup {[ id |-> id, members |-> members ]} ]

IsGroupMember(db, id, user) == \E g \in db.groups : g.id = id /\ user \in g.members

SaveGroupMessage(db, row) ==
    IF row.id \in Ids(db.groupMessages) THEN db
    ELSE [ db EXCEPT !.groupMessages = @ \cup {row} ]

-----------------------------------------------------------------------------
(* Scheduled messages. *)
ScheduleRow(db, row) == [ db EXCEPT !.scheduled = @ \cup {row} ]

(* cancel_scheduled_message and delete_scheduled_message. *)
Unschedule(db, id) == [ db EXCEPT !.scheduled = { r \in @ : r.id # id } ]

DueScheduled(db, now) == { r \in db.scheduled : r.at <= now }

-----------------------------------------------------------------------------
(* max_id_suffix: n is the largest id in use, or 0. *)
IsMaxId(n, ids) == n \in ids \cup {0} /\ \A i \in ids : i <= n
=============================================================================
