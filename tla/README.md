# Voxlink: a TLA+ verification of its server and its desktop client

Voxlink is a voice chat system in Rust. A signaling server (`signaling_server`)
keeps rooms, spaces, channels, messages and accounts, and relays audio and screen
frames between the clients of a room. A desktop client (`app_desktop`, `ui_shell`)
talks to it over a WebSocket (`net_control`) and moves audio between devices, codec
and network (`audio_core`, `voice_engine`, `media_transport`).

This directory holds the specifications of both, their TLC instances and their
TLAPS proofs. Paths below are relative to `src/crates/`.

## 1. The system

### 1.1 Server

| Component | State | Operations | Interacts with |
|---|---|---|---|
| **Room and space membership** `handlers/{room,channel,space,moderation}.rs`, `types.rs` | `ServerState.rooms` (`peer_ids`, `active_screen_share_peer_id`, `created_at`), `ServerState.spaces` (`channels`, `member_ids`, `owner_id`), and per peer `room_code`, `space_id` | create / join / leave room; create / join / leave / delete space; create / delete / join / leave channel; start / stop share; kick; disconnect; the 60 s sweep of old empty rooms and stale members | audio relay (reads lists and codes), connection (teardown), auth (identity switch), persistence (spaces, channels) |
| **Shared state lock** `State = Arc<RwLock<ServerState>>` | who holds it, who queues | `read().await`, `write().await`, drop of a guard | every handler, the relays, the sweeper, the scheduler |
| **Connection and dispatch** `connection.rs`, `dispatch.rs` | the peer in `ServerState.peers`, its two outbound lanes, counters per IP | accept, one request after the other, ping, `handle_disconnect` | all handlers |
| **Outbound lanes** `outbound.rs` | a bounded control lane and a bounded media lane per peer | enqueue (drop or disconnect on overflow), drain | connection, relays |
| **Audio and screen relay** `relay/` | frame counters, UDP sessions, whisper target | relay a frame to the peers of the sender's room | membership, moderation (mutes, blocks) |
| **Rate limiting** `validation.rs` | two atomics per peer and kind | count a request, reset the window | dispatch |
| **Messages** `handlers/{chat,attachments}.rs` | per channel a bounded history in memory; the database; typing states | send, edit, delete, react, pin, forward, threads, direct and group messages, typing | persistence (write-behind tasks), permissions |
| **Scheduled messages, events, recording** | rows in the database, a 30 s poll | schedule, cancel, deliver, RSVP | chat, persistence |
| **Read state** `read_state.rs` | a mark per user and channel in the database | mark read, fetch | persistence tasks nobody awaits |
| **Accounts and sessions** `handlers/{auth,account}.rs` | accounts, session tokens, failed logins, per peer `user_id`, `authenticated` | login, create account, resume with token rotation, log out, revoke, switch identity | membership (clears codes), persistence |
| **Roles and permissions** `handlers/roles.rs` | role assignments in the database, tiers in memory, a cached mask per peer | assign, edit role, recompute the cache | every permission check |
| **Moderation** `handlers/{moderation,timeouts,whisper}.rs` | bans, server mutes, timeouts, invites | kick, ban, mute, time out | membership, relay |
| **Friends, calls, presence** | rows in the database, watchers, rooms made for calls | request, accept, remove, block; call, accept, decline | rooms (calls join one) |
| **Persistence** `persistence.rs` | SQLite behind one connection and a blocking pool | about 150 statements, migrations | all of the above |
| **Services** metrics, TLS, link previews, discovery | counters | HTTP | none |

### 1.2 Client

| Component | State | Operations |
|---|---|---|
| **Connection** `net_control` | `connected` flag, writer handle, reader tasks, UDP session, screen reassembly | connect, reconnect, send, receive |
| **Media** `media_transport`, `voice_engine` | `VoiceSession`, a pool of 12 frame buffers, a channel of 8 | take a buffer in the capture callback, send, give it back; mute, deafen, push to talk |
| **Audio engine** `audio_core` | streams of two devices, a ring per peer, the callback's copy of the list of rings, recovery counters | start, stop, swap, recover, push, pop |
| **Signal processing** `audio_core` | floating-point filters, codec state | process a frame |
| **Application** `app_desktop` | fields of the window, `AppState`, the outbox of unsent messages, tick loop | callbacks spawn tasks, signals are applied, checks every tick |
| **User interface**, **configuration**, **shared types** | views, a settings file, message types | layout, load and save, (de)serialise |

### 1.3 What is hard about it

*One fact in two places.* "p is in room r" is p's `room_code` (behind a lock of
p's own) and an entry in r's `peer_ids` (behind the state lock). Handlers update
the two under different locks, and handlers of other connections run in between:
a join checks a room and enters it later, a delete clears the codes of those it
found listed after it has dropped the lock, a kick clears fields of a peer that
may have moved on, and the sweeper removes rooms in the middle of everything.
The audio relay goes by the sender's `room_code` and the list of that room, so
what goes wrong here is somebody hearing what they should not, or not being heard.
The same holds for permissions (roles in the database, a mask on each connection),
tiers (memory, a table, managed roles), blocks (rows, a cache) and messages (memory,
rows).

*One lock.* tokio's `RwLock` is fair and not reentrant: a task that asks for a
read guard while it holds one waits for itself as soon as a writer queues between
the two. The server's helpers (`send_error`, `broadcast_to_space`,
`collect_room_others`) take a guard of their own; calling one under a guard is
easy to write, and needs a particular interleaving to hurt. The connection to the
database has the same problem behind a `std::sync::Mutex`.

*Checks before an await.* Limits, permissions, bans, budgets and passwords are
checked under one guard and acted on under a later one.

*Tasks nobody awaits.* Read marks, invite counts, message rows and deletions are
written by detached tasks: reordering, and loss at a crash. Statements may fail, or
time out and be made later.

*Lost and reordered packets.* Screen frames go over UDP in chunks, under sequence
numbers that wrap; the server and the viewer each decide what is old. Signals come
in order on one connection, but handlers of different peers overtake each other
before they send.

*Bounded buffers between threads.* Lanes, the buffer pool, rings, history.

*A client in three places.* The window's fields, `AppState` and the audio engine
are changed by callbacks, signals, ticks and spawned tasks, in any order; what is
written goes by one of them and what arrives is sorted by another.

*Connections that come and go.* A client that reconnects has an old reader that
still runs, and a token that may or may not have rotated.

Every place of this kind is listed in `PROJECT.json` under `hazards` with its line
and the properties that watch it, or a note why none does.

### 1.4 What makes each component correct

- Membership: a room code names a room that lists its peer; nobody is listed in
  what does not exist; limits hold under concurrent joins; the sharing slot
  belongs to somebody present; hearing is mutual; stale members go eventually.
- Locks: no task waits for a guard while it holds one; every handler ends.
- Lanes: a control message is delivered in order or the peer is disconnected;
  media never delays control.
- Screen frames: what is shown is a frame that was sent; the newest frame is not
  given up for an older one.
- Messages: memory and database agree once the writers are done; an id is one
  message, across restarts; a scheduled message is delivered in the end.
- Sessions: an identity without a password is not lost; what was revoked stays
  out; guessing is bounded.
- Permissions: the cached mask is that of the last change, once all is quiet.
- Moderation: a banned user is no member; a timeout outlives a reconnection.
- Friends: only by consent, and one tie between two users.
- Client: an open microphone means a call; a call has its devices; the ring plays
  in order; the capture callback always finds a buffer; what is on display is what
  the server has; nobody in the call is missing from the list.

## 2. The modules

| Module | What it is |
|---|---|
| `Membership` | rooms, channels, spaces and the handlers that change them |
| `VoicePresence` | the abstract promise of the voice channels |
| `StateLock`, `LockPrograms` | the fair lock, tasks that run lock programs, the programs of eight handlers |
| `ScreenChunks` | screen frames in chunks, from the sharer over the server to the viewer |
| `Persistence` | the statements that change messages and what belongs to them |
| `Chat` | messages in memory and in the database, scheduled messages, restarts |
| `DbConn` | the mutex around the connection to the database |
| `People` | users and their devices |
| `Social` | friend requests, friendships, blocks, delivery of direct messages |
| `Access` | tiers, roles, cached permissions, bans, timeouts, invites |
| `Accounts` | tokens and their rotation, accounts, logins |
| `AudioSession` | voice controls, the audio engine and the tasks between them |
| `SpscRing` | the lock-free ring of a peer's audio |
| `Playback` | the table of rings and the playback callback's copy of it |
| `FramePool` | the pooled buffers of captured audio |
| `ClientLink` | the client's connection: lost, given up, made anew |
| `TextView` | the conversation a client shows, and the server behind it |
| `Typing` | who is typing, on the server and on display |
| `RoomView` | who is in the call, on the server and on display |
| `MC…` | TLC instances: `MCMembership`, `MCStateLock`, `MCChat` (`Chat`, `StateLock`), `MCCommunity` (`Social`, `Access`, `Accounts`), `MCClient` (`ScreenChunks`, `AudioSession`, `SpscRing`, `Playback`, `FramePool`, `ClientLink`), `MCViews` (`Membership`, `TextView`, `Typing`, `RoomView`), `MCDbConn` |
| `…_proofs` | the theorems, section 4 |

Definitions whose comment says *Mutant* are deliberately wrong variants of a
definition, used to show that a property notices the bug; no specification uses
them.

Modules that share no state are checked in one run: the variable `focus` of the MC
module picks, in the initial state, whose steps a behaviour takes, so the states of
the modules add up and do not multiply.

### 2.1 Membership

*State.* One variable per field of the code: `conn` (the connection's life:
`new`, `up`, `closing` while its teardown runs, `gone`), `roomCode`, `spaceId` for
the peer's fields; `rooms`, `peerIds`, `activeShare` for `ServerState.rooms`;
`spaces`, `channels`, `ownerId`, `memberIds` for `ServerState.spaces`.
`peer_ids` is a `Vec` that a room join pushes to without looking, so `peerIds`
counts how often a peer is listed. Order in the list is never looked at.

*Rooms of channels.* The code keys the room of a channel by
`sp:<space>:ch:<channel>`; the mapping is one to one because channel ids come
from one counter, so a channel id stands for its room too. `allocated` holds the
ids that were ever given out.

*Control.* The messages of one connection are handled in order, each handler
awaited (`connection.rs`), so a peer runs at most one handler. `pc[p]` is the
critical section it enters next and `loc[p]` the locals that survive from one to
the next. An action is one critical section under the state lock; accesses to the
peer's own fields next to it are folded in where they commute with every other
step, and each action's comment says why they do. The folds matter: where an
access does *not* commute (the fields of other peers cleared after Kick,
DeleteChannel and DeleteSpace) it is an action of its own, `Reset`.

| Actions | Handler |
|---|---|
| `CreateRoom` | `handle_create_room` |
| `JoinRoom`, `JoinRoomCommit` | `handle_join_room`: check under read, entry under write |
| `StartShare`, `StopShare` | `handle_start_screen_share`, `handle_stop_screen_share` |
| `LeaveChannel`, `LeaveBegin`, `LeaveNothing`, `LeaveUnlist` | `handle_leave_channel`; also called by the two below |
| `JoinChannel`, `JoinCommit`, `JoinRefused` | `handle_join_channel` |
| `CreateSpace` | `handle_create_space` |
| `JoinSpace`, `JoinSpaceCommit` | `handle_join_space` |
| `LeaveSpace`, `SpaceUnmember` | `handle_leave_space` |
| `CreateChannel`, `CreateChannelCommit` | `handle_create_channel` |
| `DeleteChannel`, `DeleteSpace`, `Kick`, `Reset` | the handlers of these names and what they clear afterwards |
| `LeaveRoom`, `Hangup`, `DropUnlist`, `DropForget` | `handle_disconnect`, for the request and for the end of a connection |
| `SwitchIdentity` | `clear_session_state_on_identity_switch` |
| `Sweep` | the cleanup task of `main.rs` |

*Left out.* Passwords and names, which do not change who is where; mutes are in
`RoomView`, bans, timeouts and invites in `Access`. A fixed set of moderators
replaces roles. A crash of the server loses all of this state and restarts from
`Init` with spaces reloaded.

### 2.2 VoicePresence

What a user of the voice channels relies on: a peer is in at most one channel, a
channel admits up to its limit, and the sharing slot is taken, given back, and
given back before its holder goes. `Membership` implements it through the mapping
*where = the room code if it is a channel*, *slot = the active sharer*
(`ImplementsPresence`). This says something the invariants do not: between the
many small steps of a join that leaves another channel first, the visible state
moves only by whole, legal moves.

### 2.3 StateLock and LockPrograms, DbConn

`StateLock` is the lock as tokio documents it and the code relies on it: one queue,
first come first served, a reader behind a queued writer waits. A handler is the
sequence of its lock operations, written in `LockPrograms` from the code for
`relay_audio`, the sweeper, leave / join / delete channel, delete space, get
thread and disconnect, on the path with the most acquisitions, and with the path
taken when the space has gone. Data is left out, except for one bit: whether the
space is there, since two handlers take an extra guard exactly when it is not.
Acquiring the lock is two actions, `Ask` (join the queue) and the grant, since the
hazard is precisely a writer that joins the queue between two reads.

`DbConn` does the same for the mutex around the SQLite connection: threads of the
blocking pool run methods of `Database`, each a sequence of *lock*, *run*, *unlock*.
Most methods are `Statement`; the ones that call others (seeding of roles,
migrations, the description of a space) are written out. A panic drops the guards,
and `lock_conn` ignores the poison.

### 2.4 ScreenChunks

`up` and `down` are the packets on the two hops: sets, from which a packet may be
taken in any order, lost, or delivered and kept. `made` and `size` are the sharer's
(`net_control`, `next_screen_sequence`), `last` is the server's
`Peer.last_screen_chunk_sequence`, `asm` the viewer's `screen_chunks`, `hand` what a
reading task holds between `absorb_screen_chunk` and `store_latest_frame`, which use
two locks, and `latest` is `screen_latest`. Frames have true numbers in the model;
the code's comparisons see only `Seq`, the number modulo `Wrap`.

| Actions | Code |
|---|---|
| `SendFrame` | `send_screen_frame`, for a frame that needs chunks |
| `Relay`, `RelayRefuse` | `relay_screen_chunk` with `prepare_screen_relay`, `chunked_screen_sequence_state` and `screen_chunk_is_plausible` |
| `Absorb` | `absorb_screen_chunk`: time out, begin, ignore, store, complete |
| `StoreLatest`, `Show` | `store_latest_frame`, `try_recv_screen_frame` |
| `Expire`, `Forget` | `expire_stale_screen_chunks`; `try_reconnect` and `disconnect` |
| `LoseUp`, `LoseDown` | the network |

`hurt` and `done` are history: the last frame lost a chunk (or its assembler timed
out, or it is larger than the server allows, or was over the frame rate), and the
last frame was put together. A packet the server refuses as *stale* does not count
as lost: `NewestArrives` says that this never happens to the newest frame.

The network keeps packets for seconds and an assembler lives 1.5 s without a new
chunk, while the sequence number wraps after 2^32 frames: `NothingOld`, the guard of
`SendFrame`, says that a packet or an unfinished frame is less than `Lag <= Half`
frames old, and that the server has seen one of the last `Half` frames, if any. Left
out: the data of a chunk, frames of a single chunk, and whom a frame goes to, which
is in `Membership`.

### 2.5 Persistence and Chat

`Persistence` takes the tables before a statement to those after it: channels,
messages, reactions, attachments, read marks, direct and group messages, schedules.
It keeps what the statements do to *each other's* rows: foreign keys that refuse or
cascade, `INSERT OR REPLACE` that deletes first, an attachment that goes with the
last message that names it. A method holds the connection's lock throughout, so a
statement is one step.

`Chat` has the memory of the server (`mem`, `live`, `slow`, `stamps`, the two id
allocators), the tables `db`, and `tasks`, the statements handed to the blocking
pool: they run one at a time and in any order, since nobody awaits them. What *is*
awaited (attachments, direct and group messages) is a step of the handler, and may
time out and be made later.

| Actions | Code |
|---|---|
| `BeginText`, `ResolveText`, `StoreMessage` | `handle_send_text_message` |
| `BeginUpload`, `CheckBudget`, `InsertBlob`, `GiveUpBlob` | `handle_upload_attachment` |
| `BeginVoiceNote`, `SendVoiceNote`, `SendRefused` | `handle_send_voice_note`; the common refusals |
| `EditText`, `Pin`, `DeleteText`, `React`, `BeginForward`, `StoreForward`, `MarkRead` | the handlers of these names |
| `CreateChannel`, `DeleteChannel` | the handlers, as far as messages go |
| `BeginDirect` … `ToggleReaction`, `BeginGroup` … `StoreGroupMessage` | direct messages and groups |
| `Schedule`, `CancelScheduled`, `FetchDue`, `Deliver` | `handle_schedule_message`, `handle_cancel_scheduled_message`, the scheduler of `main.rs` |
| `SweepRows`, `SweepMemory`, `Cleanup` | the tasks that expire messages and slow-mode stamps |
| `RunTask` | the blocking pool |
| `Crash` | the end of the process, and what `main` loads when it starts again |

A retain is `Retained`, the queue at the places that stay; a restart sorts the rows by
`Ordered`. Both are written without recursion, by the number of those that come
before, so that the proofs can say what is at a place. `db.expiring` are the channels
with `auto_delete_hours`; the row of a channel that is written anew has none.

*Left out.* Threads, search and mentions, which only read; the text of messages
(a message was edited or not; what automod says is a choice); more than one space.

### 2.6 People, Social, Access, Accounts

`People` names users and the devices they connect with. `Social` has friend
requests, friendships and blocks as rows, and each handler as its statements, with
nothing around them: `AskedBack`, `DropRequest`, `SaveFriendship` and so on are
single statements of `friends.rs`, and `StatementFails` is an error or a timeout in
between. `blockedBy` is the cache `Peer.blocked_by`, filled at login (`LoadBlocks`)
and changed by the blocker (`CacheBlock`, with `try_lock`, so it may not happen).
`SendDirect` and `Deliver` are the check of `chat.rs:838` as it is written.

`Access` has the tiers (memory `tier`, table `tierRow`, managed roles in `holds`),
the role catalogue, and the mask of each connection. `refresh_peer_perms` is
`SeeSpace`, `LoadPerms`, `StorePerms` with the awaits between; `ListUser` and
`ListSpace` collect the connections it is done for, after every change of a role.
A join is `Join`, `CheckBan`, `RestoreTimeout`, `CheckInvite`, `Enter`, then a
refresh. `Kick`, `Ban`, `Unban`, `Timeout`, `SetInvite`, `SetTier`, `CreateRole`,
`UpdateRole`, `DeleteRole`, `AssignRole`, `UnassignRole` are the handlers, with a
step per statement; `Restart` is a restart with the migration of the tiers. Five
permissions stand for all: what everybody has, what moderates, what edits roles, all,
and the owner's. Channel overwrites are left out.

`Accounts` has the token of each user, the last token each client has received
(`wallet`), the answers on their way (`mail`), and the handlers of authentication,
account creation, login, log-out, revocation, change of address and deletion, step by
step, where each statement may succeed, fail, or time out and be made later (`Late`).
A password is right or wrong; limits per IP are left out.

### 2.7 AudioSession, SpscRing, Playback, FramePool

`AudioSession` has the controls (`voice`: `VoiceSession`), the window's fields that
decide something (`face`), the engine (`engine`), the recovery of devices
(`recovery`), and `jobs`: what callbacks, signals and ticks have spawned on a runtime
of two workers and has not run yet. Jobs may run in any order (`RunJob(i)`).
Code under `if let Some(w) = window_weak.upgrade()` in such a job never runs, since a
slint window can only be upgraded on its own thread; what goes through
`invoke_from_event_loop` does.

| Actions | Code |
|---|---|
| `EnterVoice`, `Wire`, `RunOpen` | `handle_room_entered`, `handle_channel_joined`, `start_audio_if_needed` |
| `LeaveVoice`, `LeaveSpaceToo`, `PutOut`, `LoseConnection`, `RunStop` | the ways out of a call |
| `ToggleMute`, `ToggleDeafen`, `ToggleMicMode`, `PttKey`, `RunControl` | the voice controls |
| `OpenSettings`, `LeaveSettings`, `TogglePreview`, `SpeakerTest`, `RunPreview`, `RunSpeaker`, `RunSpeakerEnd`, `RunRestart`, `ShowInWindow` | settings, mic check, speaker test |
| `DeviceFails`, `CheckAudioRecovery`, `Hotplug` | stream errors, the recovery check, a new default device |

`SpscRing` is `SpscRingBuf`, one step per access to a cursor or a cell. The cursors
are stored with Release and loaded with Acquire, so a cell seen through a cursor is
seen as written. `Playback` is the engine's table of rings, the list of them, the
generation counter, and the callback, which keeps its copy when it cannot get the
list's lock (`try_lock`). `FramePool` counts the pooled buffers of
`MediaSession::start`.

### 2.8 ClientLink

The connection of `net_control` as `check_connection` of the tick loop, the callbacks
and the startup use it: `sink` is the writer, `readers` the reader tasks that run (an
old one does not end when a new connection is made), `connected` the flag all of them
share. `Connect`, `Attempt`, `Disconnect`, `Restore`, `SetupUdp` are jobs;
`CheckUp`, `CheckLost`, `CheckDown` the three cases of the check with its cool-down,
backoff and jitter; `ReaderEnds`, `UdpFails` the network.

### 2.9 TextView, Typing, RoomView

These three put a client and its server into one module, since what can go wrong is
between the two: a click spawns a task (`asks`, `wanted`: sets, so requests leave in
any order, and an identical request made twice is one), the server handles those of a
connection one by one and sends the answer after it gave its guard back (`reply`,
`doing`), what others do is sent later than it is done (`news`), and what was sent
arrives in order (`lane`, `inbox`, `wire`).

`TextView`: the window's fields (`win`), which what is written goes by; the fields of
`AppState` (`app`), which what arrives is sorted by; the messages shown; on the other
side the spaces, channels, groups and messages there are, and the membership of the
client. `ClickBoard` … `ClickReact` are the callbacks of `app_desktop/callbacks`,
`HandleSelect` … `HandleGroup` the server's handlers of what they send,
`OthersWrite` … `OthersClose` what other members do, `BoardSelected` … `Kicked` the
client's `signal_handler`. Of each message on display the model keeps its rows in
their order (`shown`), since an edit, a pin, a reaction and a deletion stop at the first
row of the message they name; the order of different messages is not kept, and nothing
in the code depends on it. Left out: threads, mentions, attachments, link previews,
search, and channels created while the client looks on.

`Typing`: `Peer.typing_channel_id` and the announcements made of it on the server; on
the client the two maps of names and ages, and the check that drops the old.
`SetTyping`, `StopTyping`, `SendMessage`, `RemoveTypist`, `ReturnTypist`, `Rename`,
`DeletePage` are the handlers on the server.

`RoomView`: codes and lists of rooms and mutes on the server, the participants on the
client, and the steps of join, leave, disconnect and mute in the order in which they
take the list and send it (`Arrival`, `CollectForMute`, `Tell`). A list is kept as what
a client can tell of it: how often each peer is in it, and the mutes of a peer's entries
in their order; the order of different peers on the screen is not. Left out: screen shares as the
client shows them, deafening, kicks and deletions; a full room or a wrong password is
just a refusal.

## 3. The runs

| Run | Instance | Question | Result |
|---|---|---|---|
| `channels` | `Membership` with 2 peers (one a moderator), 2 channels, 1 space, limit 2, all requests on channels and spaces; `TextView` with 3 channels in 2 spaces, a friend and a group; `Typing` with 2 typists; `RoomView` with 2 others, 2 lobbies, 1 channel | do list and room code agree, are deleted channels silent, does the user limit hold, whatever interleaves? Is what a client shows, once all is quiet, what the server has? | passes |
| `rooms` | 2 peers, 1 stand-alone room, 1 voice and 1 text channel, 1 space of at most 1 member, no shares | the same with stand-alone rooms in play; are rooms removed with their last listing; does the member cap hold? Also checks the whole inductive invariant `VoiceInv` | passes |
| `voice` | 2 peers, 2 channels, 2 spaces, under fairness | mutual hearing, members only; stale members swept; the abstract specification | passes |
| `chat` | `Chat` with 2 users and 11 sets of requests; the lock with relay, sweeper, join channel, delete space | do memory, rows and ids fit together across crashes; are the budget, slow mode and schedules kept; do all handlers end? | passes |
| `community` | `Social` with 2 users, 3 devices, 4 requests; `Access` with 8 sets of requests; `Accounts` with 3 connections, 2 clients and 7 plans | are friends so by consent, is the mask fresh, does moderation hold, are tokens neither lost nor revived? | passes |
| `client` | 1 sharer with 6 frames of 2 or 3 chunks (3 are too many), 2 reading tasks; `AudioSession` with 3 sets of requests; a ring of 3; 2 peers heard; a pool of 4; 2 connections | are frames intact and the newest put together; is the microphone open in calls only, and then wired; do ring, list, pool and link hold? | passes |
| `capacity` | 3 peers, 1 room of 2 | does a full stand-alone room refuse the next peer? | **violated** |
| `identity` | 2 peers, 1 channel | does a peer that changed its identity stop receiving audio? | **violated** |
| `lock_disconnect` | sweeper and disconnect | does the teardown of a connection end? | **violated** |
| `blocks` | as `community` | does a block keep direct messages away? | **violated** |
| `db_description` | 2 threads, the methods of `DbConn` | does no method wait for itself? | **violated** |
| `voice_truth` | `AudioSession` as in `client` | does the engine follow `VoiceSession`? | **violated** |

*Bounds of Membership.* Two peers are enough for the hazards listed: each involves a handler
caught between two sections and *one* other actor (a second peer's handler or the
sweeper, which always runs). The user limit of 2 is reached by two peers because a
peer can be listed twice (a kick or an identity switch leaves a listing behind);
`MaxListings = 2` bounds how often. Two channels are needed for leave-then-join and
for deletions (the last channel of a space is never deleted), two spaces for a peer
that joins a second space without leaving the first. The member cap of 1 makes a
full space and a refused join happen with two peers. Ids are never reused, so the
number of channels and spaces also bounds how often they are created. The proofs
of section 4 have none of these bounds on peers, rooms, channels and spaces.

*Bounds of the others.* A behaviour of `Chat`, `Access`, `Accounts` or `AudioSession`
keeps to one set of requests (`Mixes`, `Scripts`, `Plans`, `VoiceMixes`), each of
which puts together the handlers that meet in the same state; all of them at once
would not end. Queues of two messages and channels of which one expires make history,
retention and the restart's ids matter; one crash and two ids per conversation are what the
hazards need. `TextView` has 3 clicks or deeds of others (`MaxEvents`), `RoomView` 4
moves, `Typing` 4 strokes and a limit of 2 checks for 5; `RoomView` also passes with 5.
`FramePool` has 4 buffers for a channel of 2, as the code has 12 for 8:
in both the channel, the sender and the callback need no more than there are.
`ClientLink` has delays of 2 to 6 checks for 3 to 30.

The screen frames wrap at frame 6, and with `Half = 3`, `Lag = 2` chunks of two
frames of a sharer mix on each hop; what is of another sharer is kept apart by a key
everywhere, so one sharer is enough. Section 4 proves their properties without bounds.

*Symmetry* is used for channels and lobbies in `channels`, and for the two reading
tasks in `client`, in runs without liveness: peers differ (one is a moderator) and are not symmetric.

*Restricted requests.* The properties of `voice` do not hold with Kick, deletions
and identity switches: these handlers clear a peer's fields and leave its listing.
They are left out of that run and kept in `channels` and `rooms`, whose properties
must, and do, survive them. The `identity` run shows what one of them does to
`NoRoomNoAudio`, and the code's own comment promises otherwise. `voice` also has room
for every peer in every space, since a full one leaves a space id behind (section 6).
The two restrictions are the premises `Orderly` and `NeverFull`
of the theorems of section 4.

*Exceptions in properties.* Some properties except what was `crossed`, `raced`,
`lapsed`, `odd`, `forsaken`, `late` or not `calm`: history variables that name,
narrowly, the interleavings in which the code does not keep the property, and which
each comment spells out. They are what the property says about those cases: outside
of them nothing goes wrong, and inside of them it can.

*Fairness.* `Membership!Fairness` gives weak fairness to the continuation of each
handler and to the sweeper. The first is what the runtime and the fair lock give: a
handler waits only for the lock and for bounded database calls, and `chat`
shows that every waiter gets the lock. The second is tokio's interval timer.
`Chat!Fairness` is weak fairness of the scheduler's loop (an interval timer), of the
blocking pool, and of the clock; requests and crashes have none.
`StateLock!FairLockSpec` gives weak fairness to each operation of each task and none to
`Start`. No request is fair anywhere: clients may stop at any time. In `chat` each
fairness condition is that of the part the behaviour takes the steps of.

*Deadlock* is checked in `rooms`, `voice`, `capacity` and `identity`. The other runs
turn it off because the requests of a behaviour are bounded and it ends when they are
used up; for the lock, `NoDeadlock` and `HandlersEnd` say what a deadlock check would,
and in `lock_disconnect` and `db_description` the deadlock is the finding.

### Findings

1. `capacity`: `handle_join_room` compares the room's size under the read lock and
   pushes under the write lock without a second look. Two joins that interleave
   overfill the room. A test says "11th peer should get an error"
   (`integration_tests/tests/server_tests.rs:680`); it joins one after the other.
2. `identity`: `clear_session_state_on_identity_switch` clears the room code "so the
   peer doesn't continue receiving relayed audio" (`auth.rs:337`) but leaves the
   peer in the room's list, which is what the relay goes by.
3. `lock_disconnect`: in `handle_disconnect` the guard of an `if let` lives through
   `broadcast_to_space`, which asks for another one (`connection.rs:309`, `317`). If
   the sweeper queues in between, both wait forever, and so does every later
   handler; line 365 promises that `handle_disconnect` "will clean up".
   `handle_delete_channel` and `handle_get_thread` have the same nesting on their
   error paths; their programs are in `LockPrograms`.
4. `blocks`: a direct message is withheld if the *sender* has blocked the target
   (`chat.rs:838`), where the comment says "if target has blocked sender"; a message to
   somebody who has blocked its sender is delivered. Group messages and the relays ask
   the same way round.
5. `db_description`: `set_space_description` (`persistence.rs:759`) locks the
   connection and calls `ensure_column`, which locks it again: the thread waits for
   itself, and the database is lost to everybody. The comment at line 649 of the same
   file warns of just this.
6. `voice_truth`: `start_capture` sets `is_capturing` (`audio_core/src/lib.rs:764`)
   whatever `VoiceSession` says, so a muted microphone captures again when a call is
   entered or a device is swapped; leaving a call resets `VoiceSession` and not the
   engine's `is_deafened`. `voice_engine` calls it the "single source of truth".

## 4. The proofs

All theorems are checked by TLAPS for any values of the constants, under the named
assumptions of the modules: `IdsAssumption` (codes and channels are different things,
`None` is none of them), `BoundsAssumption` (a finite set of peers, limits are
numbers), `ProgramAssumption` (programs are sequences of the five operations),
`WindowAssumption` and `NoneAssumption` (screen frames), `PeopleAssumption`,
`SocialAssumption` and `AccessAssumption` (each device has a user, and nothing is both;
friends at first are pairs; those listed at first have one connection each; custom
roles are not the managed ones), `ChatAssumption` and `AccountsAssumption` (finite sets
of peers and connections, limits are numbers, plans name connections there are, the
slow mode is not longer than the life of its stamps),
`RingAssumption` (a ring has a cell), `PoolAssumption` (a pool has two buffers more than
the channel has places: 12 and 8 in `media.rs`), `LinkAssumption` (delays are numbers,
the first one positive), `AudioAssumption` (what is asked for, and devices that never
fail fail no time), `TypingAssumption` (the limit of an age is positive, "none" is no
channel), `TextAssumption` (channels, groups and spaces are something). TLC evaluates
each on the run of its module.

**The voice channels** (`Membership_proofs`). `VoiceCodeListed`, a speaker is on the
list of the channel it speaks in, is not inductive: to keep it when a channel is
created, the new id must be nobody's room code (`IdsAllocated`); when a stand-alone
join commits, the locals of the handler must hold a stand-alone code
(`LocalsKept`); when a space is deleted, its channels must not be another space's
(`ChannelsDisjoint`). `SharerListed` needs that a handler about to take a peer off
a list has given the peer's slot back and cannot get it again (`SharerLeaving`).
`VoiceInv` is the conjunction of all of these with `TypeOK`; `VoiceInvNext` proves it
step by step, one case per action, over lemmas about the pieces that actions share
(`ListsUnlist`, `ListsRemoveRooms`, `GotoHarmless`, ...). Theorems: `TypeCorrect`,
`VoiceInvariant`, `VoiceCodesAreListed`, `SharersAreListed`, `ChannelsStayDisjoint`.

**Limits** (`Membership_proofs`). `MembersStayWithinCap`: members only grow in
two places, each under the cap. `DeletedChannelsStaySilent`: a channel that no space
has lists nobody; it rests on `VoiceInv`, since a removal must not leave a listing
that a later step could revive. `UserLimitsRespected`: the length of a list is the
number of its entries (`Entries`), so that one entry more is one more by the facts
about cardinality, and no sum is needed. `RoomsStayOccupied`: whoever takes the last
listing takes the room with it.

**Presence** (`Membership_proofs`). What these theorems say is false of the code at
large: five handlers clear a peer's room and leave it on the list, and a full space
leaves a space id behind (finding 2 and section 6). Their premises name exactly that:
`Orderly`, nobody uses the stand-alone rooms or one of these handlers, and `NeverFull`.
Both hold of instances of any size, and all the other handlers interleave freely.
`Tidy` is the invariant: the lists name a peer exactly where its room code says, a
sharing slot is held by a peer of that channel (`TidyLists`), and a handler that is to
unlist its peer still knows the room, one past that has none to remember
(`TidyControl`). From it follow `HearingStaysMutual`,
`NoAudioAfterLeaving` and `SharersStayPresent`. `OrderlyImplementsPresence` is the
refinement: every action, under `Tidy`, is a step of `VoicePresence` on the mapped
state or leaves it alone. `OnlyMembersAreInVoice` adds `Members`: a space id names a
space the peer is a member of, and so does what a join has read of it; what other
peers do takes no connected peer off (`SpacesKeep`).

**The lock** (`StateLock_proofs`). For *flat* programs (critical sections one after
the other, `Flat`) and any number of tasks, `LockInv` is inductive: nobody queues
twice, whoever queues is about to acquire, and a task holds one guard inside a
section and none outside. From it follow `NeverWaitsInside` and `NeverStuck`. `Flat`
is a premise of these theorems and a statement about the code: it holds of the four
programs of the run `chat`, and not of the three of finding 3.

**Screen frames** (`ScreenChunks_proofs`). `TypeCorrect`, `FramesStayIntact` and
`NewestFrameArrives`, for any sharers, frame sizes, number of frames, `Half` and
`Lag <= Half`. `MinusSeq` says what `wrapping_sub` gives for two numbers less than
`Wrap` apart, wherever the wrap is; `SeqNewer` and `RecentNewer` follow: among recent
frames the code's comparisons are those of the true numbers. `FramesIntact` is not
inductive, since the parts of an unfinished frame must already be its own
(`AssemblersProper`), and two frames must not share a number while both are around
(`PacketsRecent`), nor differ in size (`CountsAgree`). `NewestArrives` needs where
each chunk of the newest frame is: in flight or in its place (`LastComes`), and that
the server's number is recent (`LastRecent`), so that none is refused as stale
(`LastNotStale`). `Inv` is their conjunction, one lemma per action.

**Friends** (`Community_proofs`). `FriendsHaveConsented` rests on `Consent`: a row of a
request means that its sender was willing, so does a handler that is at a friendship,
and one about to make friends knows that both were. `TiesAreSingle` rests on what a
handler knows at each of its steps if it is alone at its pair (`Knows`, `Alone`):
"not friends", "not asked", "not asked back" stay true while nobody else is at the
pair, and every step of others is about other pairs (`OthersKnow`).

**Messages** (`Chat_proofs`). Lemmas on the statements say which leave the two tables
alone; `Calm` collects the actions that touch neither. `StorageIsBounded` counts the
uploads that have passed the check: attachments and those together exceed the
budget by less than one for each connection, provided that an attachment stored by a
detached task is one whose upload was given up (`BudgetInv`). `ScheduledIsStored` needs
`ScheduleInv`: a row that a detached task may delete is that of a message that was
posted or cancelled, and a row fetched as due was once accepted.

The other four rest on `Typed`, the types of everything a message passes through, and
on what happens to the places of a queue: `OrderedPlaces` shows by counting that a
sorted set has each member once, whence what a retain leaves (`RetainedPlaces`) and a
restart loads (`LoadedRows`). `SlowModeHolds`: while a channel is in slow mode, what a
peer has sent and is sending, times the seconds, is at most the last stamp and one more
(`SlowInv`); a stamp that the cleanup drops is old enough for that.
`IdsNameOneMessage` and `BlobsArePresent` share `IdInv`: the id a handler carries is
known nowhere else (`Unknown`), one being deleted is not in memory, memory and records
agree on the rest (`Letter`), and an attachment is there before anything names it
(`Carried`, `Record`). A deletion takes an attachment along, so it must also be known
that no save of the same id is still under way (`SaveInv`). Steps are sorted by what
they may do: nothing new (`Mild`), an id taken (`TakeStep`), a message posted
(`PostStep`); the deletion and the restart stand alone. `SeenIsStored` needs that every
message in the memory of a channel that is or will be stored is accounted for
(`KeptInv`): by a row or a save, by a refusal, by a deletion of its channel that is
under way, or by a sweep that has deleted the rows and not yet the memory. That needs
what the channel tasks may still do (`ChannelsInv`): the one that makes a channel
finds no row of it, and a channel that expires is live or being deleted. The premises
are those of `ChatAssumption`; of the bounds only `FirstChannels <= MaxChannel` and
that they are numbers are used.

**Roles and moderation** (`Access_proofs`). A handler is a job of one connection, and
what all actions do to the jobs is stated once (`Began`, `Goes`, `Moved`, `Alone`,
`Starts`); each of three invariants is then proved action by action.
`TiersStayTogether` rests on `TierInv`: while a handler is between the commit of a tier
and its last statement, nobody else is at that user, the row is written and the old
managed role is gone as far as the handler has come. `ModerationStands` rests on
`ModInv`: no connection of a banned user is past the look-up of the bans (`BanOfUser`),
the one that is listed is the one being removed (`OnceListed`), and a stored timeout is
on the connection (`SilentOf`), for everybody who is not excused by `raced`.
`CachesFollowRoles` rests on `CacheInv`: a cache is right, or some handler is still to
set it right: it is yet to list the user or the space, has the connection on its list,
or is about to store what the roles give (`Due`); an older computation that has not
been marked stale is followed by such a handler (`CacheOf`); and a role that is being
created is held by nobody (`Births`). The invariant is needed
because the roles are read, the cache is written, and the list of connections is made
at different times, and any of the other handlers may come between.

**Guessing** (`Community_proofs`). `GuessesAreBounded`: a wrong password that is
evaluated is counted later, so the count and the connections between the two
(`Failed`, `Looking`) stay within the limit and one for each other connection
(`Counted`).

**Tokens** (`Community_proofs`). Every step of a handler is first brought to one form:
what it does to its call, its answers and its identity (`Handles`), and what it writes,
at once or later (`Works`); types and invariants are shown for that form.
`RevokedAreOut` rests on `OutInv`: a token is with one client only, or on its way to it
(`Private`), and none that a client has is, or may become by a late statement or a
handler that saves, the token of a user the client is outside of (`Out`).
`TokensAreHeld` rests on `TokenInv`. Each token that matters is with a client, in its
answers, or with a handler about to answer (`Held`). An answer to authenticate takes the
place of the same token or of nobody's (`ChainedTo`). A handler whose client still
listens knows what the client will show when it has read its answers, and whose token
that is at most (`Hears`): that of the user it is rotating, so that the new token
replaces the old one and no other. A token kept for a row that is not there yet was
shown to nobody (`Reserved`), and a late statement gives no token to a user that is not
given up (`Stray`).

**The client** (`Client_proofs`). `RingInvariant`: cursors count what went in and out,
modulo the capacity (`CursorsCount`), the cells between them hold it (`Held`), the
consumer's count is of what is there (`TakingHeld`). The lemmas `AddMod`,
`CellsApart`, `Between` and `Around` deal with the wrap for every capacity; `InOrder`
follows. `CallbackNeverAllocates` counts the buffers: those in the pool, in the channel
and in hands are always all there are (`BuffersConserved`). `CopyStaysFresh` rests on
`CopyInv`: with nobody at work on the list, a callback that remembers the present
generation has copied the present list, and any other generation it remembers is
smaller. `AlwaysOneMoreAttempt` is inductive with the types, once the jitter is shown
to leave a positive delay (`JitteredIsPositive`). `LinkStaysOrderly` rests on `LinkInv`:
while no connection is opened over another, one reader at most runs, an attempt waits
only while there is no connection, and one that was noticed and not greeted has its
greeting among the jobs.
`DevicesLetGo` and `CallStaysWired` share `CalmInv`, about behaviours in which each
request finds no job of an earlier one: outside of calls whatever is open is shown as
open, or the one job under way lets go of it (`OutsideCalls`); in a call nothing of a
mic check is under way (`InCalls`), and either the first two jobs are still to wire it
or it is wired and none of the jobs there undoes that (`Sounding`). `TypistsAreTimed` is
inductive once signals are known to name channels there are (`TimedInv`).
`CallIsShown` rests on `RoomInv`. For each guest that is in the room with the client
(`Together`) and has not overtaken its list: it is about to tell the client that it
joined (`Announcing`), or it will be shown (`HasEntry`) and is about to correct its mute
(`Correcting`), or it will be shown with the mute it has (`HasInfo`). What the client
will show is said without running its handlers on its mail: there is a message, or what
it shows now, after which none takes the entry away (`EntryAfter`) or makes its mute
wrong (`InfoInMail`); a list that is about to be sent counts instead of the mail. Two
lemmas for each of the two say what a message at the end of the mail, and the client's
handling of the first, do to it (`EntryPosted`, `InfoPosted`, `EntryReceived`,
`InfoReceived`); a handler's step leaves all others where they are (`AloneIn`).

**The conversation on display** (`TextView_proofs`). `ViewIsTrue`: `ChannelViewTrue`,
which speaks of a quiet system only, follows from `TextInv`, which says at every moment
what is still to come. `Mail(p)` is what the client has not read once it is past place
`p` of the lane, together with what the handlers are about to send; `Due(t, p)` is the
part of it about conversation `t`. A list of messages is measured against the server's
and what is due (`Listed`, `Found`): each entry is the server's message, but for an edit
or a pin that is due, or its deletion is due; no entry is due again; and what the server
has is in the list or due. `MovesListed` and its like say that no step of the server
breaks this for any list, `ReadPosted`, `ReadTouch`, `ReadDelete` and `ReadNothing` that
no letter does when it is read. The invariant claims it of

- every history on the lane, at its own place (`LaneTrue`), so that the selection that
  is read may replace what was on display;
- what is on display, at place 0, while the client is at rest (`Rested`): it is on a
  text channel of its space, and neither a selection nor an arrival in a space is under
  way (`ShownTrue`), since these replace what is on display.

It needs more than that. A letter on the lane carries the message as it was written, so
that each message on the lane is an entry against what is due after it (`LanePosted`); of
a conversation where nothing overlapped (`raced`), the handlers hold one letter at most
(`Single`), since those leave in any order. A message that arrives while another view is
open marks its channel unread only if the client lists the channel; so a channel that it
does not list, or will not list once it has read what is on the lane, must be gone, and
no message of it may be due (`Buried`, `LostBy`). And `WindowTrue`: the fields that decide where one writes and those
that sort what arrives name the same channel, or a history is asked for, on its way or
was refused; this is why the steps that set only one of the two are harmless. The proof
has one lemma per handler of the client (`BoardSelectedInv` … `SpaceInInv`); the
handlers of the server are first brought to five forms (`Serves`: write, change, select,
announce, nothing). `TextInv` was checked on the instance of the run `channels` with
`MaxEvents = 3` before it was proved.

**Only model-checked.** `StaleMembersSwept`, `HandlersEnd` and `DueDelivered`: liveness
under fairness is beyond the prover. The properties of the runs that expect a violation
are false. Every safety property of the passing runs is a theorem; `LockInv` is only
proved.

## 5. Plan

What is left, in the order of what matters to users:

1. Outbound lanes: overflow of the lane of signals, which disconnects, against the
   teardown of `Membership`.
2. The outbox of unsent messages, on top of `ClientLink`.
3. Screen shares on the client, as a part of `RoomView`; presence and its watchers.
4. Direct calls, once a room of a call can be joined.
5. More lock programs, until every handler that takes two guards is one.
6. Channel overwrites in `Access`.

## 6. Not modelled, and why

Signal processing and codecs (floating point: `audio_core/codec.rs`, jitter
adaptation, volumes, ducking), the user interface and settings (layout and files),
metrics, TLS, discovery and link previews (I/O without shared state), message formats
(data without behaviour), queries that only read (search, threads, audit), calendar
events and the recording indicator (rows without consequences). Direct calls pass
three messages on and end in a room whose code `validate_room_code` refuses, so there
is no state to follow. Channel settings are one field under one lock each. The window
counter of the rate limits loses increments at a reset, by a little and without
consequence beyond the window; it is the one hazard without a property. The outbound
lanes, the outbox and presence are in the plan.

### Seen while modelling, and not the subject of a property

*Server.*
- `handle_join_space` sets the peer's space id (`space.rs:755`) before it looks at the
  cap (`784`), and a refusal does not take it back; joining a channel asks for a space
  id only (`channel.rs:385`), so whoever a full space refused speaks and listens in it
  without being a member. `Membership` has it, and the premise `NeverFull` excludes it.
- `min_role` and `auto_delete_hours` are stored though the request was refused
  (`dispatch.rs:367-416`); `user_limit`, slow mode and status are not stored at all.
- Leaving a channel after it was deleted is ignored by the client's state and sent all
  the same; the watch list is kept after a friendship ends.
- Revoking promises "all other sessions become invalid" (`auth.rs:829`); connections
  that are open keep their `user_id`, also after the account was deleted.
- A login sends the new token even if storing it failed.
- Deleting a role leaves its rows in `space_role_members`; a join that comes before the
  managed roles are seeded computes an empty mask; a ban acts on one connection of a user.
- `handle_authenticate` keeps a read guard on the state over a query (`auth.rs:119-134`).
- After a restart the id allocator ignores the ids of group messages; a reaction whose
  message is gone may meet a new message of its id; a forwarded attachment may dangle.
- A slow mode of more than 300 s is evaded through the cleanup of its stamps.
- A direct message is stored before the block is asked for.
- Making a space public updates memory and the database in two steps that may cross.

*Client.*
- A late `ScreenShareStopped` ends a newer share; leaving a channel does not reset the
  flag of a share; entering a room while sharing leaves the capture running; who joins
  late is not told of a running share.
- `in_space_channel` survives entering a stand-alone room: the leave button then sends
  a request which the server ignores.
- `ChannelJoined` and `RoomCreated` are sent after the guard is given back, so news of
  others may overtake them (`late` in `RoomView`); participants are collected before
  one is removed, which leaves ghosts; a stand-alone join does not leave the room
  before.
- A participant's deafening from before the join is not shown.
- A group somebody creates opens itself over the messages on display; leaving a space
  or being removed does not clear the group written to.
- A text channel's history that comes after its space was left opens the channel again.
- A reaction taken back adds one to the number shown.
- Somebody who types for longer than five seconds vanishes and is not announced again.
- Volumes are not restored (`app_desktop/src/signal_handler/room.rs:152-157`, against
  `CHANGELOG.md:651`).
- Disconnecting is taken for a loss, and the client connects again; an old reader that
  ends clears the flag of the new connection; rooms are not rejoined after a
  reconnection (the code is in a task that cannot upgrade the window); a failed
  connection at startup is not tried again.
- The commands `/mute` and `/deafen` change the window only.
- Settings are saved from several places without the lock made for it.
