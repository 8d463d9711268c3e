-------------------------------- MODULE Chat --------------------------------
(***************************************************************************)
(* Messages: channels, direct conversations, groups, and what is stored.   *)
(*                                                                         *)
(* A channel's last messages are kept in memory (Space.text_messages, one  *)
(* queue per channel) and all of them in the database.  A handler changes  *)
(* the memory under the state lock and hands the statement that stores the *)
(* change to a task of the blocking pool (spawn_blocking) which nobody     *)
(* awaits: tasks runs them one at a time and in any order.  Direct and     *)
(* group messages are in the database alone, and their statements are      *)
(* awaited.  A crash loses the memory and the tasks; the restart loads the *)
(* memory from the tables and takes the id allocators past them.           *)
(*                                                                         *)
(* A peer is an authenticated connection of a user of its own, in the one  *)
(* space there is.  Its requests are handled one at a time: pc[p] says how *)
(* far its handler is, loc[p] what it keeps.  Ids are the numbers behind   *)
(* "m" and "c".  A content is whether it was edited, and what automod says *)
(* of it a choice.                                                         *)
(***************************************************************************)
EXTENDS Integers, Sequences, FiniteSets, Persistence

CONSTANTS
    Peers,        \* connections, each the user behind it
    Managers,     \* those with MANAGE_MESSAGES and MANAGE_CHANNELS, and the owner
    Silenced,     \* <<p, c>>: p is timed out, or below the min_role of c
    Friends,      \* friendships: sets of two peers
    Mixes,        \* what the clients of a behaviour do, see Mix
    Expiring,     \* channels with auto_delete_hours at first
    MaxAge,       \* auto_delete_hours, in seconds of the clock
    SlowChannels, \* channels in slow mode at first
    SlowSecs,     \* slow_mode_secs of these
    StampLife,    \* the cleanup drops slow-mode stamps of this age: 300 s
    MaxMessages,  \* LIMITS.max_channel_messages
    MaxBlobs,     \* max_total_storage_bytes, in attachments of one size
    FirstChannels,\* bound: the channels there are at first, 1 .. n
    MaxChannel,   \* bound on channel ids
    MaxId,        \* bound on message ids
    MaxClock,     \* bound on the clock
    MaxCrashes,   \* bound on crashes
    MaxTasks      \* bound on the tasks under way when a request begins

(* The bounds of a behaviour: the kinds of request, who makes them and in  *)
(* which channels, how many message ids are given out, how long it takes.  *)
Mix == [ asks : SUBSET STRING, peers : SUBSET Peers, chans : SUBSET (1 .. MaxChannel),
         ids : 0 .. MaxId, seconds : 0 .. MaxClock ]

ASSUME ChatAssumption ==
    /\ Mixes \subseteq Mix
    /\ IsFiniteSet(Peers) /\ Peers # {} /\ Managers \subseteq Peers
    /\ MaxMessages \in Nat \ {0} /\ MaxClock \in Nat /\ MaxId \in Nat /\ MaxBlobs \in Nat
    /\ FirstChannels \in Nat \ {0} /\ MaxChannel \in Nat /\ FirstChannels <= MaxChannel
    /\ SlowSecs \in Nat /\ StampLife \in Nat /\ MaxAge \in Nat
    /\ SlowSecs <= StampLife
    /\ SlowChannels \subseteq 1 .. FirstChannels /\ Expiring \subseteq 1 .. FirstChannels

VARIABLES
    mix,          \* what the clients of this behaviour do
    db,           \* the tables
    live,         \* Space.channels: the ids of its text channels
    mem,          \* Space.text_messages, by channel id
    slow,         \* slow_mode_secs, by channel id
    stamps,       \* Space.slow_mode_timestamps: <<chan, peer>> |-> second
    nextId,       \* ServerState.next_message_id
    nextChan,     \* ServerState.next_channel_id
    tasks,        \* statements handed to the blocking pool and not run yet
    pc, loc,      \* the handler of each peer: where it is, what it keeps
    sweeper,      \* the auto-delete task: "idle", or "purge" after its statement
    due,          \* the scheduler: rows it fetched and has not delivered yet
    clock,        \* now_epoch_secs
    crashes,      \* how often the server has crashed
    requests,     \* history: <<p, at>>: what became of a scheduled message
    paced,        \* history: messages sent under slow mode, by <<chan, peer>>
    refused,      \* history: ids whose row was refused for want of its channel
    abandoned     \* history: attachments whose upload was given up

memVars == <<live, mem, slow, stamps>>
idVars == <<nextId, nextChan>>
control == <<pc, loc>>
background == <<sweeper, due>>
world == <<mix, clock, crashes>>
history == <<requests, paced, refused, abandoned>>
vars == <<db, memVars, idVars, tasks, control, background, world, history>>

Chans == 1 .. MaxChannel

Schedules == Peers \X (1 .. MaxClock)

Steps == { "idle", "sending", "budgeted", "numbered", "forwarding", "direct", "group",
           "newGroup", "toggle" }

Nobody == [ kind |-> "none" ]

Message(id, p, reply, att) ==
    [ id |-> id, sender |-> p, edited |-> FALSE, pinned |-> FALSE, reply |-> reply,
      att |-> att, ts |-> clock, reacts |-> {} ]

(* The row of a message in memory. *)
RowOf(m, c) ==
    [ id |-> m.id, chan |-> c, sender |-> m.sender, edited |-> m.edited,
      pinned |-> m.pinned, reply |-> m.reply, att |-> m.att, ts |-> m.ts ]

Init ==
    /\ mix \in Mixes
    /\ db = [ channels |-> 1 .. FirstChannels, expiring |-> Expiring, messages |-> {}, reactions |-> {},
              attachments |-> {}, reads |-> {}, directs |-> {}, dmReactions |-> {},
              groups |-> {}, groupMessages |-> {}, scheduled |-> {} ]
    /\ live = 1 .. FirstChannels
    /\ mem = [ c \in Chans |-> <<>> ]
    /\ slow = [ c \in Chans |-> IF c \in SlowChannels THEN SlowSecs ELSE 0 ]
    /\ stamps = [ cp \in Chans \X Peers |-> -1 ]
    /\ nextId = 1
    /\ nextChan = FirstChannels + 1
    /\ tasks = {}
    /\ pc = [ p \in Peers |-> "idle" ]
    /\ loc = [ p \in Peers |-> Nobody ]
    /\ sweeper = "idle" /\ due = {}
    /\ clock = 0 /\ crashes = 0
    /\ requests = [ s \in Schedules |-> "none" ]
    /\ paced = [ cp \in Chans \X Peers |-> 0 ]
    /\ refused = {} /\ abandoned = {}

-----------------------------------------------------------------------------
(* What the handlers read and do alike. *)

(* p's next request is of this kind. *)
Asks(p, kind) ==
    /\ kind \in mix.asks /\ p \in mix.peers /\ pc[p] = "idle"
    /\ Cardinality(tasks) < MaxTasks

Goto(p, step, locals) ==
    /\ pc' = [ pc EXCEPT ![p] = step ]
    /\ loc' = [ loc EXCEPT ![p] = locals ]

Finish(p) == Goto(p, "idle", Nobody)

(* alloc_message_id *)
Allocate == nextId <= mix.ids /\ nextId' = nextId + 1

Spawn(op, args) == tasks' = tasks \cup {[ op |-> op, args |-> args ]}

IdsIn(c) == { mem[c][i].id : i \in DOMAIN mem[c] }

Place(c, id) == CHOOSE i \in DOMAIN mem[c] : mem[c][i].id = id

MessageIn(c, id) == mem[c][Place(c, id)]

(* The members of S, each behind those it is paired with in before.        *)
(* (Without recursion, unlike SetToSortSeq and SelectSeq: proofs about it  *)
(* need to see what is at each place.)                                     *)
Ordered(S, before) ==
    [ i \in 1 .. Cardinality(S) |->
        CHOOSE x \in S : Cardinality({ y \in S : <<y, x>> \in before }) = i - 1 ]

(* retain and remove: what is at these places of the queue. *)
Retained(queue, places) ==
    LET kept == Ordered(places, { ij \in places \X places : ij[1] < ij[2] })
    IN  [ i \in 1 .. Cardinality(places) |-> queue[kept[i]] ]

(* push_back, and pop_front when there are too many. *)
Push(c, m) ==
    mem' = [ mem EXCEPT ![c] = IF Len(@) < MaxMessages THEN Append(@, m) ELSE Append(Tail(@), m) ]

(* The message of this id becomes f of it. *)
Change(c, id, f(_)) ==
    mem' = [ mem EXCEPT ![c] = [ i \in DOMAIN @ |-> IF @[i].id = id THEN f(@[i]) ELSE @[i] ] ]

Waited(p, c) == stamps[<<c, p>>] = -1 \/ clock >= stamps[<<c, p>>] + slow[c]

(* The slow-mode check, under the write lock: a request that is let        *)
(* through is stamped, whatever becomes of it.                             *)
Stamp(p, c) ==
    /\ slow[c] > 0 => Waited(p, c)
    /\ stamps' = IF slow[c] > 0 THEN [ stamps EXCEPT ![<<c, p>>] = clock ] ELSE stamps

-----------------------------------------------------------------------------
(* handle_send_text_message, handle_upload_attachment and                  *)
(* handle_send_voice_note begin with the same checks: the timeout and the  *)
(* role the channel asks for, then the slow mode.  Only a text message     *)
(* asks whether the channel is there.  (The checks that only read are one  *)
(* step with the one that stamps: reading them later would be the same as  *)
(* reading them now, and a change in between as one that follows.)         *)
BeginSend(p, kind, c) ==
    /\ Asks(p, kind)
    /\ <<p, c>> \notin Silenced
    /\ Stamp(p, c)
    /\ Goto(p, "sending", [ kind |-> kind, chan |-> c ])
    /\ UNCHANGED <<db, live, mem, slow, idVars, tasks, background, world, history>>

BeginText(p, c) == c \in live /\ BeginSend(p, "Text", c)

BeginUpload(p, c) == BeginSend(p, "Upload", c)

BeginVoiceNote(p, c) == BeginSend(p, "VoiceNote", c)

(* check_automod, an awaited query, blocks the message; or its reply has   *)
(* no target; or the storage is full.  The stamp stays.                    *)
SendRefused(p) ==
    /\ pc[p] = "sending"
    /\ Finish(p)
    /\ UNCHANGED <<db, memVars, idVars, tasks, background, world, history>>

(* The reply is resolved in memory, and the id taken.  (The target may go  *)
(* in between; nothing looks at it again.)                                 *)
ResolveText(p) ==
    /\ pc[p] = "sending" /\ loc[p].kind = "Text"
    /\ Allocate
    /\ \E reply \in IdsIn(loc[p].chan) \cup {0} :
          Goto(p, "numbered", [ kind |-> "Text", chan |-> loc[p].chan,
                                msg |-> Message(nextId, p, reply, 0) ])
    /\ UNCHANGED <<db, memVars, nextChan, tasks, background, world, history>>

Paced(p, c) == paced' = IF slow[c] > 0 THEN [ paced EXCEPT ![<<c, p>>] = @ + 1 ] ELSE paced

(* The message goes into memory whether or not the channel is still there, *)
(* and a task is to store it.                                              *)
StoreMessage(p) ==
    /\ pc[p] = "numbered"
    /\ LET c == loc[p].chan   m == loc[p].msg IN
          /\ Push(c, m)
          /\ Spawn("SaveMessage", RowOf(m, c))
          /\ Paced(p, c)
    /\ Finish(p)
    /\ UNCHANGED <<db, live, slow, stamps, idVars, background, world, requests, refused, abandoned>>

(* A voice note is broadcast under an id of its own, and kept nowhere. *)
SendVoiceNote(p) ==
    /\ pc[p] = "sending" /\ loc[p].kind = "VoiceNote"
    /\ Allocate
    /\ Paced(p, loc[p].chan)
    /\ Finish(p)
    /\ UNCHANGED <<db, memVars, nextChan, tasks, background, world, requests, refused, abandoned>>

(* An upload looks at what is stored, which is awaited. *)
BudgetLoose == Cardinality(db.attachments) <= MaxBlobs   \* mutant

WithinBudget == Cardinality(db.attachments) + 1 <= MaxBlobs

CheckBudget(p) ==
    /\ pc[p] = "sending" /\ loc[p].kind = "Upload"
    /\ WithinBudget
    /\ Goto(p, "budgeted", loc[p])
    /\ UNCHANGED <<db, memVars, idVars, tasks, background, world, history>>

(* Mutant: nobody waits for the attachment to be stored. *)
InsertBlobDetached(p) ==
    /\ pc[p] = "budgeted"
    /\ Allocate
    /\ Spawn("InsertAttachment", nextId)
    /\ Goto(p, "numbered", [ kind |-> "Upload", chan |-> loc[p].chan,
                             msg |-> Message(nextId, p, 0, nextId) ])
    /\ UNCHANGED <<db, memVars, nextChan, background, world, history>>

(* Then it takes an id and stores the attachment, and waits for that.  The *)
(* attachment's own id is random; here it is that of its message.          *)
InsertBlob(p) ==
    /\ pc[p] = "budgeted"
    /\ Allocate
    /\ db' = InsertAttachment(db, nextId)
    /\ Goto(p, "numbered", [ kind |-> "Upload", chan |-> loc[p].chan,
                             msg |-> Message(nextId, p, 0, nextId) ])
    /\ UNCHANGED <<memVars, nextChan, tasks, background, world, history>>

(* It waits no longer than DB_TIMEOUT; the statement may yet run. *)
GiveUpBlob(p) ==
    /\ pc[p] = "budgeted"
    /\ Allocate
    /\ Spawn("InsertAttachment", nextId)
    /\ abandoned' = abandoned \cup {nextId}
    /\ Finish(p)
    /\ UNCHANGED <<db, memVars, nextChan, background, world, requests, paced, refused>>

-----------------------------------------------------------------------------
(* handle_edit_text_message, handle_pin_message, handle_delete_text_message *)
(* and handle_react_to_message: one critical section, then a task.         *)
EditText(p, c, id) ==
    /\ Asks(p, "Edit")
    /\ id \in IdsIn(c) /\ MessageIn(c, id).sender = p
    /\ Change(c, id, LAMBDA m : [ m EXCEPT !.edited = TRUE ])
    /\ Spawn("UpdateMessage", id)
    /\ UNCHANGED <<db, live, slow, stamps, idVars, control, background, world, history>>

MayManage(p, c, id) == id \in IdsIn(c) /\ (p \in Managers \/ MessageIn(c, id).sender = p)

Pin(p, c, id, pinned) ==
    /\ Asks(p, "Pin")
    /\ MayManage(p, c, id)
    /\ Change(c, id, LAMBDA m : [ m EXCEPT !.pinned = pinned ])
    /\ Spawn("SetPinned", <<id, pinned>>)
    /\ UNCHANGED <<db, live, slow, stamps, idVars, control, background, world, history>>

DeleteText(p, c, id) ==
    /\ Asks(p, "Delete")
    /\ MayManage(p, c, id)
    /\ mem' = [ mem EXCEPT ![c] = Retained(@, DOMAIN @ \ {Place(c, id)}) ]
    /\ Spawn("DeleteMessage", id)
    /\ UNCHANGED <<db, live, slow, stamps, idVars, control, background, world, history>>

(* A reaction is toggled.  (There is one emoji here.) *)
React(p, c, id) ==
    /\ Asks(p, "React")
    /\ id \in IdsIn(c)
    /\ LET reacts == MessageIn(c, id).reacts IN
          /\ Change(c, id, LAMBDA m : [ m EXCEPT !.reacts = IF p \in @ THEN @ \ {p} ELSE @ \cup {p} ])
          /\ Spawn(IF p \in reacts THEN "RemoveReaction" ELSE "AddReaction", <<id, p>>)
    /\ UNCHANGED <<db, live, slow, stamps, idVars, control, background, world, history>>

(* handle_forward_message: none of the checks of BeginSend.  The source is *)
(* copied, then an id taken; then the copy goes into a channel that nobody *)
(* asks for.  Its row names no attachment, unlike the copy in memory.      *)
BeginForward(p, c, id, target) ==
    /\ Asks(p, "Forward")
    /\ id \in IdsIn(c)
    /\ Allocate
    /\ Goto(p, "forwarding", [ kind |-> "Forward", chan |-> target,
                               msg |-> Message(nextId, p, 0, MessageIn(c, id).att) ])
    /\ UNCHANGED <<db, memVars, nextChan, tasks, background, world, history>>

StoreForward(p) ==
    /\ pc[p] = "forwarding"
    /\ LET c == loc[p].chan   m == loc[p].msg IN
          /\ Push(c, m)
          /\ Spawn("SaveMessage", [ RowOf(m, c) EXCEPT !.att = 0 ])
    /\ Finish(p)
    /\ UNCHANGED <<db, live, slow, stamps, idVars, background, world, history>>

(* handle_mark_channel_read *)
MarkRead(p, c, id) ==
    /\ Asks(p, "MarkRead")
    /\ Spawn("UpsertLastRead", <<p, c, id>>)
    /\ UNCHANGED <<db, memVars, idVars, control, background, world, history>>

-----------------------------------------------------------------------------
(* handle_create_channel and handle_delete_channel, as far as messages go. *)
CreateChannel(p) ==
    /\ Asks(p, "CreateChannel") /\ p \in Managers
    /\ nextChan <= MaxChannel
    /\ live' = live \cup {nextChan}
    /\ nextChan' = nextChan + 1
    /\ Spawn("SaveChannel", nextChan)
    /\ UNCHANGED <<db, mem, slow, stamps, nextId, control, background, world, history>>

DeleteChannel(p, c) ==
    /\ Asks(p, "DeleteChannel") /\ p \in Managers
    /\ c \in live /\ Cardinality(live) > 1
    /\ live' = live \ {c}
    /\ mem' = [ mem EXCEPT ![c] = <<>> ]
    /\ slow' = [ slow EXCEPT ![c] = 0 ]
    /\ Spawn("DeleteChannel", c)
    /\ UNCHANGED <<db, stamps, idVars, control, background, world, history>>

-----------------------------------------------------------------------------
(* handle_send_direct_message takes an id first.  Then one awaited closure *)
(* of three statements: friends, the reply's target, the row.  (Friends do *)
(* not change here, and a target that goes after it was found leaves the   *)
(* row as it would be.)                                                    *)
BeginDirect(p, q) ==
    /\ Asks(p, "Direct") /\ p # q
    /\ Allocate
    /\ Goto(p, "direct", [ kind |-> "Direct", to |-> q, id |-> nextId ])
    /\ UNCHANGED <<db, memVars, nextChan, tasks, background, world, history>>

StoreDirect(p) ==
    /\ pc[p] = "direct"
    /\ LET pair == {p, loc[p].to} IN
          \E reply \in { m.id : m \in { m \in db.directs : m.pair = pair } } \cup {0} :
              db' = IF pair \in Friends
                    THEN SaveDirect(db, [ id |-> loc[p].id, pair |-> pair, sender |-> p,
                                          edited |-> FALSE, reply |-> reply ])
                    ELSE db
    /\ Finish(p)
    /\ UNCHANGED <<memVars, idVars, tasks, background, world, history>>

OwnDirect(p, id) == \E m \in db.directs : m.id = id /\ m.sender = p

(* handle_edit_direct_message and handle_delete_direct_message.  The row   *)
(* is looked up first: one that goes in between is left as it is.          *)
EditDirect(p, id) ==
    /\ Asks(p, "EditDirect")
    /\ OwnDirect(p, id)
    /\ db' = UpdateDirect(db, id)
    /\ UNCHANGED <<memVars, idVars, tasks, control, background, world, history>>

DeleteDirect(p, id) ==
    /\ Asks(p, "DeleteDirect")
    /\ OwnDirect(p, id)
    /\ db' = DeleteDirectRow(db, id)
    /\ UNCHANGED <<memVars, idVars, tasks, control, background, world, history>>

(* handle_react_to_direct_message: whether the row is there, then its      *)
(* toggle, by two statements.  The message is not looked at.               *)
ProbeReaction(p, id) ==
    /\ Asks(p, "ReactDirect")
    /\ Goto(p, "toggle", [ kind |-> "Toggle", id |-> id,
                           there |-> [ msg |-> id, user |-> p ] \in db.dmReactions ])
    /\ UNCHANGED <<db, memVars, idVars, tasks, background, world, history>>

ToggleReaction(p) ==
    /\ pc[p] = "toggle"
    /\ db' = IF loc[p].there THEN RemoveDmReaction(db, loc[p].id, p)
                             ELSE AddDmReaction(db, loc[p].id, p)
    /\ Finish(p)
    /\ UNCHANGED <<memVars, idVars, tasks, background, world, history>>

(* handle_create_group_dm: all are friends of the creator, then an id of   *)
(* the same allocator, then the rows.                                      *)
BeginGroup(p, others) ==
    /\ Asks(p, "CreateGroup")
    /\ others # {} /\ \A q \in others : {p, q} \in Friends
    /\ Allocate
    /\ Goto(p, "newGroup", [ kind |-> "NewGroup", id |-> nextId, members |-> others \cup {p} ])
    /\ UNCHANGED <<db, memVars, nextChan, tasks, background, world, history>>

StoreGroup(p) ==
    /\ pc[p] = "newGroup"
    /\ db' = CreateGroupConversation(db, loc[p].id, loc[p].members)
    /\ Finish(p)
    /\ UNCHANGED <<memVars, idVars, tasks, background, world, history>>

(* handle_send_group_message *)
BeginGroupSend(p, g) ==
    /\ Asks(p, "Group")
    /\ Allocate
    /\ Goto(p, "group", [ kind |-> "Group", to |-> g, id |-> nextId ])
    /\ UNCHANGED <<db, memVars, nextChan, tasks, background, world, history>>

StoreGroupMessage(p) ==
    /\ pc[p] = "group"
    /\ db' = IF IsGroupMember(db, loc[p].to, p)
             THEN SaveGroupMessage(db, [ id |-> loc[p].id, group |-> loc[p].to, sender |-> p ])
             ELSE db
    /\ Finish(p)
    /\ UNCHANGED <<memVars, idVars, tasks, background, world, history>>

-----------------------------------------------------------------------------
(* handle_schedule_message stores the row before it answers; a request is  *)
(* known by its sender and its time here.                                  *)
Schedule(p, c, at) ==
    /\ Asks(p, "Schedule")
    /\ at > clock /\ requests[<<p, at>>] = "none"
    /\ db' = ScheduleRow(db, [ id |-> <<p, at>>, chan |-> c, sender |-> p, at |-> at ])
    /\ requests' = [ requests EXCEPT ![<<p, at>>] = "waiting" ]
    /\ UNCHANGED <<memVars, idVars, tasks, control, background, world, paced, refused, abandoned>>

(* handle_cancel_scheduled_message: its sender only.  Its two statements   *)
(* are one step: a row that is fetched or deleted between them has the     *)
(* same fate as one fetched or deleted before them.                        *)
CancelScheduled(p, id) ==
    /\ Asks(p, "Cancel")
    /\ \E r \in db.scheduled : r.id = id /\ r.sender = p
    /\ db' = Unschedule(db, id)
    /\ requests' = [ requests EXCEPT ![id] = IF @ = "waiting" THEN "cancelled" ELSE @ ]
    /\ UNCHANGED <<memVars, idVars, tasks, control, background, world, paced, refused, abandoned>>

(* Mutant: the rows are deleted when they are fetched. *)
FetchDueTaking ==
    /\ due = {}
    /\ due' = DueScheduled(db, clock) /\ due' # {}
    /\ db' = [ db EXCEPT !.scheduled = @ \ due' ]
    /\ UNCHANGED <<memVars, idVars, tasks, control, sweeper, world, history>>

(* The scheduler, every 30 s: the rows that are due ... *)
FetchDue ==
    /\ due = {}
    /\ due' = DueScheduled(db, clock) /\ due' # {}
    /\ UNCHANGED <<db, memVars, idVars, tasks, control, sweeper, world, history>>

(* Mutant: nothing is posted in a channel that is gone. *)
DeliverLive(r) ==
    /\ Allocate
    /\ LET m == Message(nextId, r.sender, 0, 0) IN
          IF r.chan \in live
          THEN /\ Push(r.chan, m)
               /\ tasks' = tasks \cup { [ op |-> "SaveMessage", args |-> RowOf(m, r.chan) ],
                                        [ op |-> "Unschedule", args |-> r.id ] }
               /\ requests' = [ requests EXCEPT ![r.id] = "posted" ]
          ELSE /\ Spawn("Unschedule", r.id)
               /\ UNCHANGED <<mem, requests>>
    /\ due' = due \ {r}
    /\ UNCHANGED <<db, live, slow, stamps, nextChan, control, sweeper, world,
                   paced, refused, abandoned>>

(* ... one after the other: an id, the memory, a task that stores the      *)
(* message, the broadcast, a task that deletes the row.  (The id is taken  *)
(* in a critical section of its own; StoreMessage shows what may happen    *)
(* after it.)                                                              *)
Deliver(r) ==
    /\ Allocate
    /\ LET m == Message(nextId, r.sender, 0, 0) IN
          /\ Push(r.chan, m)
          /\ tasks' = tasks \cup { [ op |-> "SaveMessage", args |-> RowOf(m, r.chan) ],
                                   [ op |-> "Unschedule", args |-> r.id ] }
    /\ due' = due \ {r}
    /\ requests' = [ requests EXCEPT ![r.id] = IF @ = "waiting" THEN "posted" ELSE @ ]
    /\ UNCHANGED <<db, live, slow, stamps, nextChan, control, sweeper, world, paced, refused, abandoned>>

-----------------------------------------------------------------------------
(* The auto-delete task, every 10 minutes: the rows, then the memory, by   *)
(* the clock of that moment.  Channels created later have no such setting. *)
SweepRows ==
    /\ "Sweep" \in mix.asks /\ sweeper = "idle"
    /\ db' = DeleteExpired(db, clock - MaxAge)
    /\ sweeper' = "purge"
    /\ UNCHANGED <<memVars, idVars, tasks, control, due, world, history>>

(* (A channel that is live has in memory the setting its row has.) *)
SweepMemory ==
    /\ sweeper = "purge"
    /\ mem' = [ c \in Chans |->
                  IF c \in db.expiring \cap live
                  THEN Retained(mem[c], { i \in DOMAIN mem[c] : mem[c][i].ts >= clock - MaxAge })
                  ELSE mem[c] ]
    /\ sweeper' = "idle"
    /\ UNCHANGED <<db, live, slow, stamps, idVars, tasks, control, due, world, history>>

CleanupAll == stamps' = [ cp \in DOMAIN stamps |-> -1 ]     \* mutant

CleanupStamps ==
    stamps' = [ cp \in DOMAIN stamps |-> IF clock - stamps[cp] < StampLife THEN stamps[cp] ELSE -1 ]

(* The cleanup, every minute. *)
Cleanup ==
    /\ CleanupStamps /\ stamps' # stamps
    /\ UNCHANGED <<db, live, mem, slow, idVars, tasks, control, background, world, history>>

Tick ==
    /\ "Tick" \in mix.asks /\ clock < mix.seconds
    /\ clock' = clock + 1
    /\ UNCHANGED <<db, memVars, idVars, tasks, control, background, mix, crashes, history>>

-----------------------------------------------------------------------------
(* A task of the blocking pool runs. *)
Applied(t) ==
    CASE t.op = "SaveMessage"      -> SaveMessage(db, t.args)
      [] t.op = "UpdateMessage"    -> UpdateMessage(db, t.args)
      [] t.op = "SetPinned"        -> SetMessagePinned(db, t.args[1], t.args[2])
      [] t.op = "DeleteMessage"    -> DeleteMessageRow(db, t.args)
      [] t.op = "AddReaction"      -> AddReaction(db, t.args[1], t.args[2])
      [] t.op = "RemoveReaction"   -> RemoveReaction(db, t.args[1], t.args[2])
      [] t.op = "InsertAttachment" -> InsertAttachment(db, t.args)
      [] t.op = "UpsertLastRead"   -> UpsertLastRead(db, t.args[1], t.args[2], t.args[3])
      [] t.op = "SaveChannel"      -> SaveChannel(db, t.args)
      [] t.op = "DeleteChannel"    -> DeleteChannelRow(db, t.args)
      [] t.op = "Unschedule"       -> Unschedule(db, t.args)

RunTask(t) ==
    /\ db' = Applied(t)
    /\ tasks' = tasks \ {t}
    /\ refused' = IF t.op = "SaveMessage" /\ t.args.chan \notin db.channels
                  THEN refused \cup {t.args.id} ELSE refused
    /\ UNCHANGED <<memVars, idVars, control, background, world, requests, paced, abandoned>>

(* ORDER BY timestamp.  (Rows of the same second are taken in the order of *)
(* their ids.)                                                             *)
Earlier(rows) ==
    { ab \in rows \X rows : \/ ab[1].ts < ab[2].ts
                            \/ ab[1].ts = ab[2].ts /\ ab[1].id < ab[2].id }

Restored(r) ==
    [ id |-> r.id, sender |-> r.sender, edited |-> r.edited, pinned |-> r.pinned,
      reply |-> r.reply, att |-> r.att, ts |-> r.ts, reacts |-> LoadReactions(db, r.id) ]

(* load_messages_for_channel: the last messages by their time. *)
Loaded(c) ==
    LET rows == { m \in db.messages : m.chan = c }
        sorted == Ordered(rows, Earlier(rows))
        skipped == IF Len(sorted) <= MaxMessages THEN 0 ELSE Len(sorted) - MaxMessages
    IN  [ i \in 1 .. Len(sorted) - skipped |-> Restored(sorted[skipped + i]) ]

(* Mutant: nothing is restored. *)
RestoreNever == nextId' = 1

(* The allocator is taken past the messages and the direct messages.       *)
RestoreMessageIds ==
    \E n \in 0 .. MaxId :
        IsMaxId(n, Ids(db.messages) \cup Ids(db.directs)) /\ nextId' = n + 1

(* A crash, and the restart: what was in memory and the tasks are lost,    *)
(* everyone connects again, and main loads what was stored.  The slow mode *)
(* of a channel is not stored.                                             *)
Crash ==
    /\ "Crash" \in mix.asks /\ crashes < MaxCrashes
    /\ crashes' = crashes + 1
    /\ live' = db.channels
    /\ mem' = [ c \in Chans |-> IF c \in db.channels THEN Loaded(c) ELSE <<>> ]
    /\ slow' = [ c \in Chans |-> 0 ]
    /\ stamps' = [ cp \in Chans \X Peers |-> -1 ]
    /\ RestoreMessageIds
    /\ \E n \in 0 .. MaxChannel : IsMaxId(n, db.channels) /\ nextChan' = n + 1
    /\ tasks' = {}
    /\ pc' = [ p \in Peers |-> "idle" ]
    /\ loc' = [ p \in Peers |-> Nobody ]
    /\ sweeper' = "idle" /\ due' = {}
    /\ UNCHANGED <<db, mix, clock, history>>

-----------------------------------------------------------------------------
Send(p) ==
    \/ \E c \in mix.chans : BeginText(p, c) \/ BeginUpload(p, c) \/ BeginVoiceNote(p, c)
    \/ SendRefused(p)
    \/ ResolveText(p)
    \/ CheckBudget(p) \/ InsertBlob(p) \/ GiveUpBlob(p)
    \/ StoreMessage(p)
    \/ SendVoiceNote(p)
    \/ StoreForward(p)

OnMessage(p) ==
    \/ \E c \in Chans : \E id \in IdsIn(c) :
          \/ EditText(p, c, id)
          \/ \E pinned \in BOOLEAN : Pin(p, c, id, pinned)
          \/ DeleteText(p, c, id)
          \/ React(p, c, id)
          \/ \E target \in mix.chans : BeginForward(p, c, id, target)
          \/ MarkRead(p, c, id)

OnChannel(p) == CreateChannel(p) \/ \E c \in mix.chans : DeleteChannel(p, c)

Conversation(p) ==
    \/ \E q \in Peers : BeginDirect(p, q)
    \/ StoreDirect(p)
    \/ \E id \in 1 .. mix.ids : EditDirect(p, id) \/ DeleteDirect(p, id) \/ ProbeReaction(p, id)
    \/ ToggleReaction(p)
    \/ \E others \in SUBSET (Peers \ {p}) : BeginGroup(p, others)
    \/ \E g \in 1 .. mix.ids : BeginGroupSend(p, g)
    \/ StoreGroup(p) \/ StoreGroupMessage(p)

Scheduling(p) ==
    \/ \E c \in mix.chans, at \in 1 .. mix.seconds : Schedule(p, c, at)
    \/ \E id \in Schedules : CancelScheduled(p, id)

Request(p) == Send(p) \/ OnMessage(p) \/ OnChannel(p) \/ Conversation(p) \/ Scheduling(p)

Server == FetchDue \/ (\E r \in due : Deliver(r)) \/ SweepRows \/ SweepMemory \/ Cleanup

Next ==
    \/ \E p \in Peers : Request(p)
    \/ Server
    \/ \E t \in tasks : RunTask(t)
    \/ Tick \/ Crash

(* The scheduler's loop goes on, the blocking pool runs what it was given, *)
(* and time passes.                                                        *)
Fairness ==
    /\ WF_vars(FetchDue)
    /\ WF_vars(\E r \in due : Deliver(r))
    /\ WF_vars(\E t \in tasks : RunTask(t))
    /\ WF_vars(Tick)

Spec == Init /\ [][Next]_vars /\ Fairness

-----------------------------------------------------------------------------
(* Properties. *)

MessageOK(m) ==
    /\ m.id \in 1 .. MaxId /\ m.sender \in Peers /\ m.ts <= clock
    /\ m.reply \in 0 .. MaxId /\ m.att \in 0 .. MaxId /\ m.reacts \subseteq Peers

(* TypeOK: the shape of the state.  No queue is longer than it may be, not *)
(* after a restart either, and holds an id once.                           *)
TypeOK ==
    /\ \A c \in Chans : \A i \in DOMAIN mem[c] : MessageOK(mem[c][i])
    /\ \A c \in Chans : Len(mem[c]) <= MaxMessages /\ Cardinality(IdsIn(c)) = Len(mem[c])
    /\ \A c \in Chans \ live : slow[c] = 0
    /\ pc \in [ Peers -> Steps ]
    /\ \A p \in Peers : (pc[p] = "idle") = (loc[p] = Nobody)
    /\ nextId \in 1 .. MaxId + 1 /\ nextChan \in 1 .. MaxChannel + 1
    /\ live \subseteq 1 .. nextChan - 1
    /\ sweeper \in { "idle", "purge" }
    /\ due \subseteq { r \in due : r.at <= clock }

(* Saves of a message that are under way. *)
Saves == { t.args : t \in { t \in tasks : t.op = "SaveMessage" } }

(* An id means one message: the memory of a channel, the row and the save  *)
(* under way agree on whose it is and where it belongs, so that edits,     *)
(* pins, deletions and the check of who sent it meet the same message.     *)
OneMessagePerId ==
    \A c \in Chans : \A i \in DOMAIN mem[c] : \A r \in db.messages \cup Saves :
        r.id = mem[c][i].id => r.chan = c /\ r.sender = mem[c][i].sender

(* When no task is left to run, every message in memory has its row, as    *)
(* long as its channel has one: unless the channel's own row came too late *)
(* for the message's.                                                      *)
StoredWhenQuiet ==
    tasks = {} /\ sweeper = "idle" =>
        \A c \in db.channels : IdsIn(c) \subseteq Ids({ r \in db.messages : r.chan = c }) \cup refused

(* The attachment of a message is there as long as the message is, in      *)
(* memory or stored, and from before it could be seen.  (A forwarded copy  *)
(* is left out: it does not keep the attachment.)                          *)
OwnBlobPresent ==
    /\ \A r \in db.messages : r.att = r.id => r.att \in db.attachments
    /\ \A c \in Chans : \A i \in DOMAIN mem[c] :
          mem[c][i].att = mem[c][i].id => mem[c][i].att \in db.attachments

(* The budget of the storage is checked before the attachment is stored,   *)
(* and by each connection on its own: they can go over it, but by less     *)
(* than one attachment each.  (Those of uploads that were given up come on *)
(* top: their statement may run long after the check.)                     *)
BudgetKept ==
    Cardinality(db.attachments \ abandoned)
        + Cardinality({ p \in Peers : pc[p] = "budgeted" }) <= MaxBlobs + Cardinality(Peers) - 1

(* A connection sends no more under slow mode than its seconds allow,      *)
(* whichever of the three ways it sends by, also when a request is refused *)
(* after it was stamped, and when the cleanup drops stamps.                *)
SlowModePaces ==
    \A c \in Chans, p \in Peers : paced[<<c, p>>] > 0 =>
        paced[<<c, p>>] <= 1 + clock \div SlowSecs

(* A scheduled message that was accepted is neither cancelled nor          *)
(* broadcast only if its row is there, across crashes.                     *)
ScheduledNotLost ==
    \A s \in Schedules : requests[s] = "waiting" => s \in Ids(db.scheduled)

(* A scheduled message is broadcast in the end, or cancelled, even if the  *)
(* server crashes in between.                                              *)
DueDelivered ==
    \A s \in Schedules : requests[s] = "waiting" ~> requests[s] \in { "posted", "cancelled" }
=============================================================================
