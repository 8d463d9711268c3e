------------------------------ MODULE Chat_proofs ------------------------------
(***************************************************************************)
(* Proofs about Chat.                                                      *)
(*                                                                         *)
(* What the storage holds beyond its budget, and that a scheduled message  *)
(* is not lost: both are about one table each, so most statements are      *)
(* shown to leave it alone first.                                          *)
(*                                                                         *)
(* Then the types of all that messages pass through (Typed), and on them   *)
(* the pace of the slow mode (SlowInv), that an id is that of one message  *)
(* with its attachment (IdInv, SaveInv), and that what is in memory is     *)
(* stored (ChannelsInv, KeptInv).                                          *)
(***************************************************************************)
EXTENDS Chat, FiniteSetTheorems, TLAPS

Tables == { "channels", "expiring", "messages", "reactions", "attachments", "reads", "directs",
            "dmReactions", "groups", "groupMessages", "scheduled" }

(* The tables are a record of these. *)
Shaped(d) == d = [ t \in Tables |-> d[t] ]

(* Neither of the two tables is touched. *)
Beside(d, e) == Shaped(e) /\ e.attachments = d.attachments /\ e.scheduled = d.scheduled

LEMMA ChannelStatements ==
  ASSUME NEW d, Shaped(d), NEW x, NEW y, NEW z
  PROVE  /\ Beside(d, SaveChannel(d, x)) /\ Beside(d, DeleteChannelRow(d, x))
         /\ Beside(d, UpsertLastRead(d, x, y, z))
  BY DEF Shaped, Tables, Beside, SaveChannel, DeleteChannelRow, UpsertLastRead

LEMMA MessageStatements ==
  ASSUME NEW d, Shaped(d), NEW x, NEW y
  PROVE  /\ Beside(d, SaveMessage(d, x)) /\ Beside(d, UpdateMessage(d, x))
         /\ Beside(d, SetMessagePinned(d, x, y))
         /\ Beside(d, AddReaction(d, x, y)) /\ Beside(d, RemoveReaction(d, x, y))
         /\ Beside(d, DeleteExpired(d, x))
  BY DEF Shaped, Tables, Beside, SaveMessage, UpdateMessage, SetMessagePinned, AddReaction,
     RemoveReaction, DeleteExpired

LEMMA DirectStatements ==
  ASSUME NEW d, Shaped(d), NEW x, NEW y
  PROVE  /\ Beside(d, SaveDirect(d, x)) /\ Beside(d, UpdateDirect(d, x)) /\ Beside(d, DeleteDirectRow(d, x))
         /\ Beside(d, AddDmReaction(d, x, y)) /\ Beside(d, RemoveDmReaction(d, x, y))
         /\ Beside(d, CreateGroupConversation(d, x, y)) /\ Beside(d, SaveGroupMessage(d, x))
  BY DEF Shaped, Tables, Beside, SaveDirect, UpdateDirect, DeleteDirectRow, AddDmReaction,
     RemoveDmReaction, CreateGroupConversation, SaveGroupMessage

(* The statements that do touch them. *)
LEMMA AttachmentStatements ==
  ASSUME NEW d, Shaped(d), NEW x
  PROVE  /\ Shaped(InsertAttachment(d, x))
         /\ InsertAttachment(d, x).attachments = d.attachments \cup {x}
         /\ InsertAttachment(d, x).scheduled = d.scheduled
         /\ Shaped(DeleteMessageRow(d, x))
         /\ DeleteMessageRow(d, x).attachments \subseteq d.attachments
         /\ DeleteMessageRow(d, x).scheduled = d.scheduled
  BY DEF Shaped, Tables, InsertAttachment, DeleteMessageRow

LEMMA ScheduleStatements ==
  ASSUME NEW d, Shaped(d), NEW x
  PROVE  /\ Shaped(ScheduleRow(d, x)) /\ Shaped(Unschedule(d, x))
         /\ ScheduleRow(d, x).attachments = d.attachments
         /\ Unschedule(d, x).attachments = d.attachments
         /\ ScheduleRow(d, x).scheduled = d.scheduled \cup {x}
         /\ Unschedule(d, x).scheduled = { r \in d.scheduled : r.id # x }
  BY DEF Shaped, Tables, ScheduleRow, Unschedule

-----------------------------------------------------------------------------
(* The invariant. *)

(* The statements that tasks make: those that touch neither table, ...     *)
CalmOps == { "SaveMessage", "UpdateMessage", "SetPinned", "AddReaction", "RemoveReaction",
             "UpsertLastRead", "SaveChannel", "DeleteChannel" }

(* ... and those that do. *)
TaskOps == CalmOps \cup { "DeleteMessage", "InsertAttachment", "Unschedule" }

Shape ==
    /\ mix \in Mixes
    /\ Shaped(db)
    /\ pc \in [ Peers -> Steps ]
    /\ \A t \in tasks : t.op \in TaskOps

Budgeted == { p \in Peers : pc[p] = "budgeted" }

(* An attachment stored by a task is one that was given up. *)
BudgetInv ==
    /\ IsFiniteSet(db.attachments)
    /\ \A t \in tasks : t.op = "InsertAttachment" => t.args \in abandoned
    /\ BudgetKept

(* A row that may be deleted by a task is that of a message that was sent. *)
ScheduleInv ==
    /\ requests \in [ Schedules -> { "none", "waiting", "posted", "cancelled" } ]
    /\ \A r \in db.scheduled \cup due : r.id \in Schedules /\ requests[r.id] # "none"
    /\ \A t \in tasks : t.op = "Unschedule" =>
          t.args \in Schedules /\ requests[t.args] \in { "posted", "cancelled" }
    /\ ScheduledNotLost

ChatInv == Shape /\ BudgetInv /\ ScheduleInv

(* A step that touches none of this. *)
Calm ==
    /\ mix' = mix
    /\ Beside(db, db')
    /\ requests' = requests /\ abandoned' = abandoned /\ due' \subseteq due
    /\ \A t \in tasks' : t \in tasks \/ t.op \in CalmOps \cup { "DeleteMessage" }
    /\ pc' \in [ Peers -> Steps ] /\ \A p \in Peers : pc'[p] = "budgeted" => pc[p] = "budgeted"

LEMMA BudgetedFinite == IsFiniteSet(Budgeted) /\ IsFiniteSet(Peers)
  BY ChatAssumption, FS_Subset DEF ChatAssumption, Budgeted

(* The budget is kept when fewer attachments and uploads are under way. *)
LEMMA BudgetSmaller ==
  ASSUME ChatInv, db'.attachments \ abandoned' \subseteq db.attachments \ abandoned,
         Budgeted' \subseteq Budgeted
  PROVE  BudgetKept'
  <1> DEFINE A == db.attachments \ abandoned
  <1>1. IsFiniteSet(A) /\ Cardinality(A') <= Cardinality(A) /\ Cardinality(A) \in Nat /\ Cardinality(A') \in Nat
    <2>1. IsFiniteSet(A)
      BY FS_Subset DEF ChatInv, BudgetInv
    <2> QED
      BY <2>1, FS_Subset, FS_CardinalityType
  <1>2. Cardinality(Budgeted') <= Cardinality(Budgeted) /\ Cardinality(Budgeted) \in Nat
        /\ Cardinality(Budgeted') \in Nat
    BY BudgetedFinite, FS_Subset, FS_CardinalityType
  <1>3. Cardinality(A) + Cardinality(Budgeted) <= MaxBlobs + Cardinality(Peers) - 1
    BY DEF ChatInv, BudgetInv, BudgetKept, Budgeted
  <1>4. Cardinality(Peers) \in Nat /\ MaxBlobs \in Nat
    BY BudgetedFinite, FS_CardinalityType, ChatAssumption DEF ChatAssumption
  <1>5. Cardinality(A') + Cardinality(Budgeted') <= MaxBlobs + Cardinality(Peers) - 1
    <2> HIDE DEF A
    <2> QED
      BY <1>1, <1>2, <1>3, <1>4
  <1> QED
    BY <1>5 DEF BudgetKept, Budgeted

LEMMA CalmStep == ASSUME ChatInv, Calm PROVE ChatInv'
  <1>1. Shape'
    BY DEF ChatInv, Calm, Beside, Shape, TaskOps
  <1>2. BudgetInv'
    <2>1. Budgeted' \subseteq Budgeted
      BY DEF Calm, Budgeted
    <2>2. BudgetKept'
      BY <2>1, BudgetSmaller DEF Calm, Beside
    <2> QED
      BY <2>2 DEF ChatInv, BudgetInv, Calm, CalmOps, Beside
  <1>3. ScheduleInv'
    BY DEF ChatInv, ScheduleInv, ScheduledNotLost, Calm, CalmOps, Beside, Ids
  <1> QED
    BY <1>1, <1>2, <1>3 DEF ChatInv

-----------------------------------------------------------------------------
(* The calm steps: most requests ... *)

LEMMA BesideItself == ASSUME Shape PROVE Beside(db, db)
  BY DEF Shape, Beside

LEMMA GotoCalm ==
  ASSUME Shape, NEW p \in Peers, NEW step \in Steps \ {"budgeted"}, NEW locals, Goto(p, step, locals)
  PROVE  pc' \in [ Peers -> Steps ] /\ \A q \in Peers : pc'[q] = "budgeted" => pc[q] = "budgeted"
  BY DEF Shape, Goto

LEMMA FinishCalm ==
  ASSUME Shape, NEW p \in Peers, Finish(p)
  PROVE  pc' \in [ Peers -> Steps ] /\ \A q \in Peers : pc'[q] = "budgeted" => pc[q] = "budgeted"
  BY GotoCalm DEF Finish, Steps

LEMMA SpawnCalm ==
  ASSUME NEW op \in CalmOps \cup { "DeleteMessage" }, NEW args, Spawn(op, args)
  PROVE  \A t \in tasks' : t \in tasks \/ t.op \in CalmOps \cup { "DeleteMessage" }
  BY DEF Spawn

LEMMA SendCalm ==
  ASSUME Shape, NEW p \in Peers,
         \/ \E c \in mix.chans : BeginText(p, c) \/ BeginUpload(p, c) \/ BeginVoiceNote(p, c)
         \/ SendRefused(p) \/ ResolveText(p) \/ StoreMessage(p) \/ SendVoiceNote(p) \/ StoreForward(p)
  PROVE  Calm
  <1> USE BesideItself DEF background, history, world
  <1>1. CASE \E c \in mix.chans : BeginText(p, c) \/ BeginUpload(p, c) \/ BeginVoiceNote(p, c)
    BY <1>1, GotoCalm DEF BeginText, BeginUpload, BeginVoiceNote, BeginSend, Calm, Steps
  <1>2. CASE SendRefused(p)
    BY <1>2, FinishCalm DEF SendRefused, Calm
  <1>3. CASE ResolveText(p)
    BY <1>3, GotoCalm DEF ResolveText, Calm, Steps
  <1>4. CASE StoreMessage(p)
    BY <1>4, FinishCalm, SpawnCalm DEF StoreMessage, Calm, CalmOps
  <1>5. CASE SendVoiceNote(p)
    BY <1>5, FinishCalm DEF SendVoiceNote, Calm
  <1>6. CASE StoreForward(p)
    BY <1>6, FinishCalm, SpawnCalm DEF StoreForward, Calm, CalmOps
  <1> QED
    BY <1>1, <1>2, <1>3, <1>4, <1>5, <1>6

LEMMA OnMessageCalm == ASSUME Shape, NEW p \in Peers, OnMessage(p) PROVE Calm
  <1> USE BesideItself DEF background, history, world, control
  <1> PICK c \in Chans : \E id \in IdsIn(c) :
          \/ EditText(p, c, id)
          \/ \E pinned \in BOOLEAN : Pin(p, c, id, pinned)
          \/ DeleteText(p, c, id)
          \/ React(p, c, id)
          \/ \E target \in mix.chans : BeginForward(p, c, id, target)
          \/ MarkRead(p, c, id)
    BY DEF OnMessage
  <1> PICK id \in IdsIn(c) :
          \/ EditText(p, c, id)
          \/ \E pinned \in BOOLEAN : Pin(p, c, id, pinned)
          \/ DeleteText(p, c, id)
          \/ React(p, c, id)
          \/ \E target \in mix.chans : BeginForward(p, c, id, target)
          \/ MarkRead(p, c, id)
    OBVIOUS
  <1>1. CASE EditText(p, c, id)
    BY <1>1, SpawnCalm DEF EditText, Calm, CalmOps, Shape
  <1>2. CASE \E pinned \in BOOLEAN : Pin(p, c, id, pinned)
    BY <1>2, SpawnCalm DEF Pin, Calm, CalmOps, Shape
  <1>3. CASE DeleteText(p, c, id)
    BY <1>3, SpawnCalm DEF DeleteText, Calm, CalmOps, Shape
  <1>4. CASE React(p, c, id)
    BY <1>4, SpawnCalm DEF React, Calm, CalmOps, Shape
  <1>5. CASE \E target \in mix.chans : BeginForward(p, c, id, target)
    BY <1>5, GotoCalm DEF BeginForward, Calm, Steps
  <1>6. CASE MarkRead(p, c, id)
    BY <1>6, SpawnCalm DEF MarkRead, Calm, CalmOps, Shape
  <1> QED
    BY <1>1, <1>2, <1>3, <1>4, <1>5, <1>6

LEMMA OnChannelCalm == ASSUME Shape, NEW p \in Peers, OnChannel(p) PROVE Calm
  <1> USE BesideItself DEF background, history, world, control
  <1>1. CASE CreateChannel(p)
    BY <1>1, SpawnCalm DEF CreateChannel, Calm, CalmOps, Shape
  <1>2. CASE \E c \in mix.chans : DeleteChannel(p, c)
    BY <1>2, SpawnCalm DEF DeleteChannel, Calm, CalmOps, Shape
  <1> QED
    BY <1>1, <1>2 DEF OnChannel

LEMMA ConversationCalm == ASSUME Shape, NEW p \in Peers, Conversation(p) PROVE Calm
  <1> USE BesideItself, DirectStatements DEF background, history, world, control
  <1>1. CASE \E q \in Peers : BeginDirect(p, q)
    BY <1>1, GotoCalm DEF BeginDirect, Calm, Steps
  <1>2. CASE StoreDirect(p)
    BY <1>2, FinishCalm DEF StoreDirect, Calm, Shape
  <1>3. CASE \E id \in 1 .. mix.ids : EditDirect(p, id) \/ DeleteDirect(p, id)
    BY <1>3 DEF EditDirect, DeleteDirect, Calm, Shape
  <1>4. CASE \E id \in 1 .. mix.ids : ProbeReaction(p, id)
    BY <1>4, GotoCalm DEF ProbeReaction, Calm, Steps
  <1>5. CASE ToggleReaction(p)
    BY <1>5, FinishCalm DEF ToggleReaction, Calm, Shape
  <1>6. CASE \E others \in SUBSET (Peers \ {p}) : BeginGroup(p, others)
    BY <1>6, GotoCalm DEF BeginGroup, Calm, Steps
  <1>7. CASE \E g \in 1 .. mix.ids : BeginGroupSend(p, g)
    BY <1>7, GotoCalm DEF BeginGroupSend, Calm, Steps
  <1>8. CASE StoreGroup(p) \/ StoreGroupMessage(p)
    BY <1>8, FinishCalm DEF StoreGroup, StoreGroupMessage, Calm, Shape
  <1> QED
    BY <1>1, <1>2, <1>3, <1>4, <1>5, <1>6, <1>7, <1>8 DEF Conversation

(* ... the sweeps, and time; a crash, which ends every handler and task;   *)
(* and most tasks.                                                         *)

LEMMA WorldCalm ==
  ASSUME Shape, SweepRows \/ SweepMemory \/ Cleanup \/ Tick \/ Crash
  PROVE  Calm
  <1> USE BesideItself DEF background, history, world, control
  <1>1. CASE SweepRows
    BY <1>1, MessageStatements DEF SweepRows, Calm, Shape
  <1>2. CASE SweepMemory \/ Cleanup \/ Tick
    BY <1>2 DEF SweepMemory, Cleanup, Tick, Calm, Shape
  <1>3. CASE Crash
    BY <1>3 DEF Crash, Calm, Steps
  <1> QED
    BY <1>1, <1>2, <1>3

LEMMA TaskCalm == ASSUME Shape, NEW t \in tasks, RunTask(t), t.op \in CalmOps PROVE Calm
  <1>1. Beside(db, Applied(t))
    BY MessageStatements, ChannelStatements DEF Applied, Shape, CalmOps
  <1> QED
    BY <1>1 DEF RunTask, Calm, Shape, background, history, world, control

-----------------------------------------------------------------------------
(* The steps of an upload. *)

LEMMA CheckBudgetStep == ASSUME ChatInv, NEW p \in Peers, CheckBudget(p) PROVE ChatInv'
  <1>1. /\ mix' = mix /\ db' = db /\ tasks' = tasks /\ abandoned' = abandoned /\ requests' = requests /\ due' = due
        /\ pc' = [ pc EXCEPT ![p] = "budgeted" ] /\ WithinBudget
    BY DEF CheckBudget, Goto, history, background, world
  <1>2. Shape' /\ ScheduleInv'
    BY <1>1 DEF ChatInv, Shape, Steps, ScheduleInv, ScheduledNotLost
  <1>3. Cardinality(db.attachments \ abandoned) <= Cardinality(db.attachments)
        /\ Cardinality(db.attachments \ abandoned) \in Nat /\ Cardinality(db.attachments) \in Nat
    BY FS_Subset, FS_CardinalityType DEF ChatInv, BudgetInv
  <1>4. Cardinality(Budgeted') <= Cardinality(Peers) /\ Cardinality(Budgeted') \in Nat
        /\ Cardinality(Peers) \in Nat
    <2>1. Budgeted' \subseteq Peers
      BY DEF Budgeted
    <2> QED
      BY <2>1, BudgetedFinite, FS_Subset, FS_CardinalityType
  <1>5. Cardinality(db.attachments \ abandoned) + Cardinality(Budgeted') <= MaxBlobs + Cardinality(Peers) - 1
    BY <1>1, <1>3, <1>4, ChatAssumption DEF WithinBudget, ChatAssumption
  <1>6. BudgetInv'
    BY <1>1, <1>5 DEF ChatInv, BudgetInv, BudgetKept, Budgeted
  <1> QED
    BY <1>2, <1>6 DEF ChatInv

LEMMA InsertBlobStep == ASSUME ChatInv, NEW p \in Peers, InsertBlob(p) PROVE ChatInv'
  <1>1. /\ mix' = mix /\ db' = InsertAttachment(db, nextId)
        /\ tasks' = tasks /\ abandoned' = abandoned /\ requests' = requests /\ due' = due
        /\ pc' = [ pc EXCEPT ![p] = "numbered" ] /\ pc[p] = "budgeted"
    BY DEF InsertBlob, Goto, history, background, world
  <1>2. Shaped(db') /\ db'.attachments = db.attachments \cup {nextId} /\ db'.scheduled = db.scheduled
    BY <1>1, AttachmentStatements DEF ChatInv, Shape
  <1>3. Shape' /\ ScheduleInv'
    BY <1>1, <1>2 DEF ChatInv, Shape, Steps, ScheduleInv, ScheduledNotLost
  <1> DEFINE A == db.attachments \ abandoned
  <1>4. IsFiniteSet(A) /\ Cardinality(A) \in Nat /\ Cardinality(A \cup {nextId}) \in Nat
        /\ Cardinality(A \cup {nextId}) <= Cardinality(A) + 1 /\ IsFiniteSet(A \cup {nextId})
    <2>1. IsFiniteSet(A)
      BY FS_Subset DEF ChatInv, BudgetInv
    <2> HIDE DEF A
    <2>2. IsFiniteSet(A \cup {nextId})
          /\ Cardinality(A \cup {nextId}) = IF nextId \in A THEN Cardinality(A) ELSE Cardinality(A) + 1
      BY <2>1, FS_AddElement
    <2>3. Cardinality(A) \in Nat /\ Cardinality(A \cup {nextId}) \in Nat
      BY <2>1, <2>2, FS_CardinalityType
    <2> QED
      BY <2>1, <2>2, <2>3
  <1>5. Cardinality(A') \in Nat /\ Cardinality(A') <= Cardinality(A) + 1
    <2>1. A' \subseteq A \cup {nextId}
      BY <1>1, <1>2
    <2>2. Cardinality(A') <= Cardinality(A \cup {nextId}) /\ Cardinality(A') \in Nat
      BY <2>1, <1>4, FS_Subset, FS_CardinalityType
    <2> HIDE DEF A
    <2> QED
      BY <2>2, <1>4
  <1>6. Cardinality(Budgeted') = Cardinality(Budgeted) - 1 /\ Cardinality(Budgeted) \in Nat
    <2>1. Budgeted' = Budgeted \ {p} /\ p \in Budgeted
      BY <1>1 DEF Budgeted, ChatInv, Shape
    <2> QED
      BY <2>1, BudgetedFinite, FS_RemoveElement, FS_CardinalityType
  <1>7. Cardinality(A) + Cardinality(Budgeted) <= MaxBlobs + Cardinality(Peers) - 1
        /\ MaxBlobs \in Nat /\ Cardinality(Peers) \in Nat
    BY BudgetedFinite, FS_CardinalityType, ChatAssumption
    DEF ChatInv, BudgetInv, BudgetKept, Budgeted, ChatAssumption
  <1>8. Cardinality(A') + Cardinality(Budgeted') <= MaxBlobs + Cardinality(Peers) - 1
    <2> HIDE DEF A
    <2> QED
      BY <1>4, <1>5, <1>6, <1>7
  <1>9. IsFiniteSet(db'.attachments)
    BY <1>2, FS_AddElement DEF ChatInv, BudgetInv
  <1>10. BudgetInv'
    BY <1>1, <1>8, <1>9 DEF ChatInv, BudgetInv, BudgetKept, Budgeted
  <1> QED
    BY <1>3, <1>10 DEF ChatInv

LEMMA GiveUpBlobStep == ASSUME ChatInv, NEW p \in Peers, GiveUpBlob(p) PROVE ChatInv'
  <1>1. /\ mix' = mix /\ db' = db /\ requests' = requests /\ due' = due
        /\ tasks' = tasks \cup {[ op |-> "InsertAttachment", args |-> nextId ]}
        /\ abandoned' = abandoned \cup {nextId}
        /\ pc' = [ pc EXCEPT ![p] = "idle" ]
    BY DEF GiveUpBlob, Spawn, Finish, Goto, background, world
  <1>2. Shape' /\ ScheduleInv'
    BY <1>1 DEF ChatInv, Shape, Steps, TaskOps, ScheduleInv, ScheduledNotLost
  <1>3. Budgeted' \subseteq Budgeted
    BY <1>1 DEF Budgeted, ChatInv, Shape
  <1>4. BudgetKept'
    BY <1>1, <1>3, BudgetSmaller
  <1> QED
    BY <1>1, <1>2, <1>4 DEF ChatInv, BudgetInv

-----------------------------------------------------------------------------
(* The steps of scheduled messages. *)

LEMMA SameBudget ==
  ASSUME ChatInv, db'.attachments = db.attachments, abandoned' = abandoned, pc' = pc,
         \A t \in tasks' : t \in tasks \/ t.op # "InsertAttachment"
  PROVE  BudgetInv'
  <1>1. BudgetKept'
    BY BudgetSmaller DEF Budgeted
  <1> QED
    BY <1>1 DEF ChatInv, BudgetInv

LEMMA ScheduleStep ==
  ASSUME ChatInv, NEW p \in Peers, NEW c, NEW at \in 1 .. mix.seconds, Schedule(p, c, at)
  PROVE  ChatInv'
  <1> DEFINE row == [ id |-> << p, at >>, chan |-> c, sender |-> p, at |-> at ]
  <1>1. /\ mix' = mix /\ db' = ScheduleRow(db, row) /\ requests[<< p, at >>] = "none"
        /\ requests' = [ requests EXCEPT ![<< p, at >>] = "waiting" ]
        /\ tasks' = tasks /\ pc' = pc /\ due' = due /\ abandoned' = abandoned
    BY DEF Schedule, control, background, world
  <1>2. Shaped(db') /\ db'.attachments = db.attachments /\ db'.scheduled = db.scheduled \cup {row}
    BY <1>1, ScheduleStatements DEF ChatInv, Shape
  <1>3. << p, at >> \in Schedules
    <2>1. mix.seconds \in 0 .. MaxClock
      BY ChatAssumption DEF ChatInv, Shape, ChatAssumption, Mix
    <2> QED
      BY <2>1, ChatAssumption DEF Schedules, ChatAssumption
  <1>4. row.id = << p, at >>
    OBVIOUS
  <1>5. Shape'
    BY <1>1, <1>2 DEF ChatInv, Shape
  <1>6. BudgetInv'
    BY <1>1, <1>2, SameBudget
  <1>7. ScheduleInv'
    <2> DEFINE s == << p, at >>
    <2> HIDE DEF row
    <2>0. s \in Schedules /\ requests[s] = "none" /\ requests' = [ requests EXCEPT ![s] = "waiting" ]
          /\ row.id = s
      BY <1>1, <1>3, <1>4
    <2> HIDE DEF s
    <2>1. requests' \in [ Schedules -> { "none", "waiting", "posted", "cancelled" } ]
      BY <2>0 DEF ChatInv, ScheduleInv
    <2>2. \A r \in db'.scheduled \cup due' : r.id \in Schedules /\ requests'[r.id] # "none"
      BY <1>1, <1>2, <2>0 DEF ChatInv, ScheduleInv
    <2>3. \A t \in tasks' : t.op = "Unschedule" =>
              t.args \in Schedules /\ requests'[t.args] \in { "posted", "cancelled" }
      BY <1>1, <2>0 DEF ChatInv, ScheduleInv
    <2>4. ScheduledNotLost'
      <3> SUFFICES ASSUME NEW x \in Schedules, requests'[x] = "waiting" PROVE \E r \in db'.scheduled : r.id = x
        BY DEF ScheduledNotLost, Ids
      <3>1. CASE x = s
        BY <3>1, <1>2, <2>0
      <3>2. CASE x # s
        BY <3>2, <1>2, <2>0 DEF ChatInv, ScheduleInv, ScheduledNotLost, Ids
      <3> QED
        BY <3>1, <3>2
    <2> QED
      BY <2>1, <2>2, <2>3, <2>4 DEF ScheduleInv
  <1> QED
    BY <1>5, <1>6, <1>7 DEF ChatInv

LEMMA CancelStep ==
  ASSUME ChatInv, NEW p \in Peers, NEW id \in Schedules, CancelScheduled(p, id)
  PROVE  ChatInv'
  <1>1. /\ mix' = mix /\ db' = Unschedule(db, id)
        /\ requests' = [ requests EXCEPT ![id] = IF @ = "waiting" THEN "cancelled" ELSE @ ]
        /\ tasks' = tasks /\ pc' = pc /\ due' = due /\ abandoned' = abandoned
    BY DEF CancelScheduled, control, background, world
  <1>2. Shaped(db') /\ db'.attachments = db.attachments
        /\ db'.scheduled = { r \in db.scheduled : r.id # id }
    BY <1>1, ScheduleStatements DEF ChatInv, Shape
  <1>3. Shape'
    BY <1>1, <1>2 DEF ChatInv, Shape
  <1>4. BudgetInv'
    BY <1>1, <1>2, SameBudget
  <1>5. ScheduleInv'
    BY <1>1, <1>2 DEF ChatInv, ScheduleInv, ScheduledNotLost, Ids
  <1> QED
    BY <1>3, <1>4, <1>5 DEF ChatInv

LEMMA FetchDueStep == ASSUME ChatInv, FetchDue PROVE ChatInv'
  <1>1. /\ mix' = mix /\ db' = db /\ requests' = requests /\ abandoned' = abandoned
        /\ tasks' = tasks /\ pc' = pc /\ due' \subseteq db.scheduled
    BY DEF FetchDue, DueScheduled, control, world, history
  <1>2. Shape'
    BY <1>1 DEF ChatInv, Shape
  <1>3. BudgetInv'
    BY <1>1, SameBudget
  <1>4. ScheduleInv'
    BY <1>1 DEF ChatInv, ScheduleInv, ScheduledNotLost
  <1> QED
    BY <1>2, <1>3, <1>4 DEF ChatInv

LEMMA DeliverStep == ASSUME ChatInv, NEW r \in due, Deliver(r) PROVE ChatInv'
  <1>1. PICK row :
        /\ mix' = mix /\ db' = db /\ abandoned' = abandoned /\ pc' = pc /\ due' = due \ {r}
        /\ tasks' = tasks \cup { [ op |-> "SaveMessage", args |-> row ], [ op |-> "Unschedule", args |-> r.id ] }
        /\ requests' = [ requests EXCEPT ![r.id] = IF @ = "waiting" THEN "posted" ELSE @ ]
    BY DEF Deliver, control, world
  <1>2. Shape'
    BY <1>1 DEF ChatInv, Shape, TaskOps, CalmOps
  <1>3. BudgetInv'
    BY <1>1, SameBudget
  <1>4. r.id \in Schedules /\ requests[r.id] \in { "waiting", "posted", "cancelled" }
    BY DEF ChatInv, ScheduleInv
  <1>5. ScheduleInv'
    BY <1>1, <1>4 DEF ChatInv, ScheduleInv, ScheduledNotLost
  <1> QED
    BY <1>2, <1>3, <1>5 DEF ChatInv

-----------------------------------------------------------------------------
(* The tasks that touch the two tables. *)

LEMMA TaskStep == ASSUME ChatInv, NEW t \in tasks, RunTask(t) PROVE ChatInv'
  <1>1. /\ mix' = mix /\ db' = Applied(t) /\ requests' = requests /\ abandoned' = abandoned
        /\ tasks' \subseteq tasks /\ pc' = pc /\ due' = due
    BY DEF RunTask, control, background, world
  <1>2. CASE t.op \in CalmOps
    BY <1>2, TaskCalm, CalmStep DEF ChatInv
  <1>3. CASE t.op = "DeleteMessage"
    <2>1. db' = DeleteMessageRow(db, t.args)
      BY <1>1, <1>3 DEF Applied
    <2>2. Shaped(db') /\ db'.attachments \subseteq db.attachments /\ db'.scheduled = db.scheduled
      BY <2>1, AttachmentStatements DEF ChatInv, Shape
    <2>3. BudgetKept'
      BY <1>1, <2>2, BudgetSmaller DEF Budgeted
    <2>4. IsFiniteSet(db'.attachments)
      BY <2>2, FS_Subset DEF ChatInv, BudgetInv
    <2> QED
      BY <1>1, <2>2, <2>3, <2>4 DEF ChatInv, Shape, BudgetInv, ScheduleInv, ScheduledNotLost
  <1>4. CASE t.op = "InsertAttachment"
    <2>1. db' = InsertAttachment(db, t.args) /\ t.args \in abandoned
      BY <1>1, <1>4 DEF Applied, ChatInv, BudgetInv
    <2>2. Shaped(db') /\ db'.attachments = db.attachments \cup {t.args} /\ db'.scheduled = db.scheduled
      BY <2>1, AttachmentStatements DEF ChatInv, Shape
    <2>3. BudgetKept'
      BY <1>1, <2>1, <2>2, BudgetSmaller DEF Budgeted
    <2>4. IsFiniteSet(db'.attachments)
      BY <2>2, FS_AddElement DEF ChatInv, BudgetInv
    <2> QED
      BY <1>1, <2>2, <2>3, <2>4 DEF ChatInv, Shape, BudgetInv, ScheduleInv, ScheduledNotLost
  <1>5. CASE t.op = "Unschedule"
    <2>1. db' = Unschedule(db, t.args) /\ requests[t.args] \in { "posted", "cancelled" }
      BY <1>1, <1>5 DEF Applied, ChatInv, ScheduleInv
    <2>2. Shaped(db') /\ db'.attachments = db.attachments
          /\ db'.scheduled = { r \in db.scheduled : r.id # t.args }
      BY <2>1, ScheduleStatements DEF ChatInv, Shape
    <2>3. BudgetInv'
      BY <1>1, <2>2, SameBudget
    <2>4. ScheduleInv'
      BY <1>1, <2>1, <2>2 DEF ChatInv, ScheduleInv, ScheduledNotLost, Ids
    <2> QED
      BY <1>1, <2>2, <2>3, <2>4 DEF ChatInv, Shape
  <1> QED
    BY <1>2, <1>3, <1>4, <1>5 DEF ChatInv, Shape, TaskOps

-----------------------------------------------------------------------------
LEMMA InitChat == Init => ChatInv
  <1> SUFFICES ASSUME Init PROVE ChatInv
    OBVIOUS
  <1>1. Shape
    BY DEF Init, Shape, Shaped, Tables, Steps
  <1>2. BudgetInv
    <2>1. db.attachments = {} /\ tasks = {} /\ abandoned = {} /\ \A p \in Peers : pc[p] = "idle"
      BY DEF Init
    <2>2. { p \in Peers : pc[p] = "budgeted" } = {} /\ db.attachments \ abandoned = {}
      BY <2>1
    <2>3. MaxBlobs \in Nat
      BY ChatAssumption DEF ChatAssumption
    <2>4. Cardinality({}) = 0 /\ IsFiniteSet({})
      BY FS_EmptySet
    <2>5. Cardinality(Peers) \in Nat /\ Cardinality(Peers) # 0
      BY BudgetedFinite, FS_CardinalityType, FS_EmptySet, ChatAssumption DEF ChatAssumption
    <2> DEFINE a == Cardinality(db.attachments \ abandoned)
               b == Cardinality({ p \in Peers : pc[p] = "budgeted" })
               n == Cardinality(Peers)
    <2>6. a = 0 /\ b = 0 /\ n \in Nat /\ n # 0
      BY <2>2, <2>4, <2>5
    <2>7. a + b <= MaxBlobs + n - 1
      <3> HIDE DEF a, b, n
      <3> QED
        BY <2>3, <2>6
    <2>8. BudgetKept
      BY <2>7 DEF BudgetKept
    <2> QED
      BY <2>1, <2>4, <2>8 DEF BudgetInv
  <1>3. ScheduleInv
    BY DEF Init, ScheduleInv, ScheduledNotLost, Ids
  <1> QED
    BY <1>1, <1>2, <1>3 DEF ChatInv

LEMMA StepChat == ASSUME ChatInv, Next PROVE ChatInv'
  <1>1. CASE \E p \in Peers : Send(p)
    BY <1>1, SendCalm, CalmStep, CheckBudgetStep, InsertBlobStep, GiveUpBlobStep DEF Send, ChatInv
  <1>2. CASE \E p \in Peers : OnMessage(p) \/ OnChannel(p) \/ Conversation(p)
    BY <1>2, OnMessageCalm, OnChannelCalm, ConversationCalm, CalmStep DEF ChatInv
  <1>3. CASE \E p \in Peers : Scheduling(p)
    BY <1>3, ScheduleStep, CancelStep DEF Scheduling
  <1>4. CASE Server
    BY <1>4, FetchDueStep, DeliverStep, WorldCalm, CalmStep DEF Server, ChatInv
  <1>5. CASE \E t \in tasks : RunTask(t)
    BY <1>5, TaskStep
  <1>6. CASE Tick \/ Crash
    BY <1>6, WorldCalm, CalmStep DEF ChatInv
  <1> QED
    BY <1>1, <1>2, <1>3, <1>4, <1>5, <1>6 DEF Next, Request

LEMMA StutterChat == ASSUME ChatInv, UNCHANGED vars PROVE ChatInv'
  BY DEF ChatInv, Shape, BudgetInv, BudgetKept, ScheduleInv, ScheduledNotLost, vars, control, background,
     world, history

LEMMA ChatInvariant == Spec => []ChatInv
  <1>1. ChatInv /\ [Next]_vars => ChatInv'
    BY StepChat, StutterChat
  <1> QED
    BY InitChat, <1>1, PTL DEF Spec

(* What is stored goes over the budget by less than one attachment for     *)
(* each connection, those of given-up uploads apart.                       *)
THEOREM StorageIsBounded == Spec => []BudgetKept
  <1>1. ChatInv => BudgetKept
    BY DEF ChatInv, BudgetInv
  <1> QED
    BY ChatInvariant, <1>1, PTL

(* A scheduled message that waits has its row. *)
THEOREM ScheduledIsStored == Spec => []ScheduledNotLost
  <1>1. ChatInv => ScheduledNotLost
    BY DEF ChatInv, ScheduleInv
  <1> QED
    BY ChatInvariant, <1>1, PTL

(* A relation that puts the members of S in one order. *)
Strict(S, before) ==
    /\ \A x \in S : << x, x >> \notin before
    /\ \A x, y \in S : x # y => << x, y >> \in before \/ << y, x >> \in before
    /\ \A x, y, z \in S : << x, y >> \in before /\ << y, z >> \in before => << x, z >> \in before

(* Then each of them has its place: as many are before it as before nobody *)
(* else, so some member has each number of them below it.                  *)
LEMMA OrderedPlaces ==
  ASSUME NEW S, IsFiniteSet(S), NEW before, Strict(S, before)
  PROVE  /\ Cardinality(S) \in Nat
         /\ Ordered(S, before) \in [ 1 .. Cardinality(S) -> S ]
         /\ \A i, j \in 1 .. Cardinality(S) : Ordered(S, before)[i] = Ordered(S, before)[j] => i = j
  <1> DEFINE n == Cardinality(S)
             Below(x) == { y \in S : << y, x >> \in before }
             rank == [ x \in S |-> Cardinality(Below(x)) ]
  <1>1. n \in Nat
    BY FS_CardinalityType
  <1>2. \A x \in S : IsFiniteSet(Below(x)) /\ Cardinality(Below(x)) \in 0 .. n - 1
    <2> SUFFICES ASSUME NEW x \in S PROVE IsFiniteSet(Below(x)) /\ Cardinality(Below(x)) \in 0 .. n - 1
      OBVIOUS
    <2>1. x \notin Below(x) /\ Below(x) \subseteq S
      BY DEF Strict
    <2> HIDE DEF Below
    <2>2. /\ IsFiniteSet(Below(x))
          /\ Cardinality(Below(x)) <= n
          /\ (n = Cardinality(Below(x)) => S = Below(x))
          /\ Cardinality(Below(x)) \in Nat
      BY <2>1, FS_Subset, FS_CardinalityType
    <2>3. Cardinality(Below(x)) # n
      BY <2>1, <2>2
    <2> QED
      BY <1>1, <2>2, <2>3
  <1>3. ASSUME NEW x \in S, NEW y \in S, << x, y >> \in before
        PROVE  Cardinality(Below(x)) < Cardinality(Below(y))
    <2>1. Below(x) \subseteq Below(y) /\ x \in Below(y) /\ x \notin Below(x)
      BY <1>3 DEF Strict
    <2>2. IsFiniteSet(Below(y)) /\ Cardinality(Below(x)) \in Nat /\ Cardinality(Below(y)) \in Nat
      BY <1>1, <1>2
    <2> HIDE DEF Below
    <2>3. /\ Cardinality(Below(x)) <= Cardinality(Below(y))
          /\ (Cardinality(Below(y)) = Cardinality(Below(x)) => Below(y) = Below(x))
      BY <2>1, <2>2, FS_Subset
    <2> QED
      BY <2>1, <2>2, <2>3
  <1>4. rank \in Injection(S, 0 .. n - 1)
    <2>1. rank \in [ S -> 0 .. n - 1 ]
      BY <1>2
    <2>2. ASSUME NEW x \in S, NEW y \in S, x # y PROVE rank[x] # rank[y]
      <3>1. Cardinality(Below(x)) < Cardinality(Below(y)) \/ Cardinality(Below(y)) < Cardinality(Below(x))
        <4>1. << x, y >> \in before \/ << y, x >> \in before
          BY <2>2 DEF Strict
        <4> HIDE DEF Below
        <4> QED
          BY <1>3, <4>1
      <3>2. Cardinality(Below(x)) \in Nat /\ Cardinality(Below(y)) \in Nat
        BY <1>1, <1>2
      <3> HIDE DEF Below
      <3> QED
        BY <3>1, <3>2
    <2> HIDE DEF rank
    <2> QED
      BY <2>1, <2>2 DEF Injection, IsInjective
  <1>5. rank \in Surjection(S, 0 .. n - 1)
    <2>1. IsFiniteSet(0 .. n - 1) /\ Cardinality(0 .. n - 1) = n
      BY <1>1, FS_Interval
    <2> HIDE DEF rank, n
    <2>2. S = S /\ Cardinality(S) = Cardinality(0 .. n - 1)
      BY <2>1 DEF n
    <2> QED
      BY <1>4, <2>1, <2>2, FS_Injection
  <1>6. \A i \in 1 .. n : \E x \in S : Cardinality(Below(x)) = i - 1
    <2> SUFFICES ASSUME NEW i \in 1 .. n PROVE \E x \in S : Cardinality(Below(x)) = i - 1
      OBVIOUS
    <2>1. i - 1 \in 0 .. n - 1
      BY <1>1
    <2>2. PICK x \in S : rank[x] = i - 1
      BY <1>5, <2>1 DEF Surjection
    <2> QED
      BY <2>2
  <1> DEFINE place == Ordered(S, before)
  <1>7. \A i \in 1 .. n : place[i] \in S /\ Cardinality(Below(place[i])) = i - 1
    BY <1>6 DEF Ordered
  <1> DEFINE seat(i) == CHOOSE x \in S : Cardinality(Below(x)) = i - 1
  <1>8. place = [ i \in 1 .. n |-> seat(i) ]
    BY DEF Ordered
  <1>9. \A i, j \in 1 .. n : place[i] = place[j] => i = j
    <2> HIDE DEF place, Below
    <2> QED
      BY <1>1, <1>7
  <1> QED
    <2> HIDE DEF place
    <2>1. place \in [ 1 .. n -> S ]
      <3> HIDE DEF n, seat
      <3> QED
        BY <1>7, <1>8
    <2> QED
      BY <1>1, <1>9, <2>1 DEF place

(* What is retained of a queue is in it, and is there once if it was.      *)
LEMMA RetainedPlaces ==
  ASSUME NEW M, NEW q \in Seq(M), NEW places, places \subseteq DOMAIN q
  PROVE  /\ Retained(q, places) \in Seq(M)
         /\ \A i \in DOMAIN Retained(q, places) : \E k \in places : Retained(q, places)[i] = q[k]
         /\ (\A i, j \in DOMAIN q : q[i].id = q[j].id => i = j) =>
              \A i, j \in DOMAIN Retained(q, places) :
                  Retained(q, places)[i].id = Retained(q, places)[j].id => i = j
  <1> DEFINE before == { ij \in places \X places : ij[1] < ij[2] }
             kept == Ordered(places, before)
             n == Cardinality(places)
  <1>1. DOMAIN q = 1 .. Len(q) /\ Len(q) \in Nat /\ \A i \in DOMAIN q : q[i] \in M
    OBVIOUS
  <1>2. IsFiniteSet(places)
    <2>1. IsFiniteSet(1 .. Len(q))
      BY <1>1, FS_Interval
    <2> QED
      BY <1>1, <2>1, FS_Subset
  <1>3. Strict(places, before)
    <2>1. \A x \in places : x \in Int
      BY <1>1
    <2> QED
      BY <2>1 DEF Strict
  <1>4. n \in Nat /\ kept \in [ 1 .. n -> places ] /\ \A i, j \in 1 .. n : kept[i] = kept[j] => i = j
    <2> HIDE DEF before
    <2> QED
      BY <1>2, <1>3, OrderedPlaces
  <1> DEFINE rest == [ i \in 1 .. n |-> q[kept[i]] ]
  <1>5. Retained(q, places) = rest
    BY DEF Retained
  <1> HIDE DEF kept, n, before
  <1>6. rest \in [ 1 .. n -> M ]
    BY <1>1, <1>4
  <1>7. rest \in Seq(M)
    <2> HIDE DEF rest
    <2> QED
      BY <1>4, <1>6
  <1>8. \A i \in DOMAIN rest : \E k \in places : rest[i] = q[k]
    BY <1>4
  <1>9. (\A i, j \in DOMAIN q : q[i].id = q[j].id => i = j) =>
              \A i, j \in DOMAIN rest : rest[i].id = rest[j].id => i = j
    BY <1>4
  <1> QED
    <2> HIDE DEF rest
    <2> QED
      BY <1>5, <1>7, <1>8, <1>9

-----------------------------------------------------------------------------
(* The types of what messages are made of.                                 *)

Posts ==
    [ id : Nat, sender : Peers, edited : BOOLEAN, pinned : BOOLEAN, reply : Nat, att : Nat,
      ts : Nat, reacts : SUBSET Peers ]

Rows ==
    [ id : Nat, chan : Chans, sender : Peers, edited : BOOLEAN, pinned : BOOLEAN, reply : Nat,
      att : Nat, ts : Nat ]

(* A table has one row for an id. *)
OneRowPerId(table) == \A r, q \in table : r.id = q.id => r = q

TypedCounts ==
    /\ mix \in Mixes
    /\ clock \in Nat /\ nextId \in Nat \ {0} /\ nextChan \in Nat \ {0}
    /\ live \subseteq Chans
    /\ slow \in [ Chans -> {0, SlowSecs} ]
    /\ stamps \in [ Chans \X Peers -> Int ]
    /\ paced \in [ Chans \X Peers -> Nat ]

TypedMem == mem \in [ Chans -> Seq(Posts) ]

TypedTables(d) ==
    /\ Shaped(d)
    /\ d.channels \subseteq Chans /\ d.expiring \subseteq Chans
    /\ d.messages \subseteq Rows /\ IsFiniteSet(d.messages) /\ OneRowPerId(d.messages)
    /\ d.reactions \subseteq [ msg : Nat, user : Peers ]

Duties(table) == \A r \in table : r.sender \in Peers /\ r.chan \in Chans

TypedTask(t) ==
    /\ t.op \in TaskOps
    /\ t.op = "SaveMessage" => t.args \in Rows
    /\ t.op \in { "UpdateMessage", "DeleteMessage", "InsertAttachment" } => t.args \in Nat
    /\ t.op = "SetPinned" => t.args \in Nat \X BOOLEAN
    /\ t.op \in { "AddReaction", "RemoveReaction" } => t.args \in Nat \X Peers
    /\ t.op \in { "SaveChannel", "DeleteChannel" } => t.args \in Chans

(* What a handler keeps. *)
TypedHandler(p) ==
    /\ pc[p] \in { "sending", "budgeted" } => loc[p].chan \in Chans
    /\ pc[p] \in { "numbered", "forwarding" } => loc[p].chan \in Chans /\ loc[p].msg \in Posts

TypedControl ==
    /\ pc \in [ Peers -> Steps ]
    /\ loc = [ p \in Peers |-> loc[p] ]
    /\ \A p \in Peers : TypedHandler(p)

Typed ==
    /\ TypedCounts
    /\ TypedMem
    /\ TypedTables(db)
    /\ Duties(db.scheduled) /\ Duties(due)
    /\ \A t \in tasks : TypedTask(t)
    /\ TypedControl

LEMMA ChansInMix == ASSUME mix \in Mixes PROVE mix.chans \subseteq Chans /\ mix.seconds \in Nat
  BY ChatAssumption DEF ChatAssumption, Mix, Chans

(* What the statements make of the tables that messages are in.            *)
LEMMA ChannelFields ==
  ASSUME NEW d, Shaped(d), NEW c
  PROVE  /\ SaveChannel(d, c).channels = d.channels \cup {c}
         /\ DeleteChannelRow(d, c).channels = d.channels \ {c}
         /\ \A e \in { SaveChannel(d, c), DeleteChannelRow(d, c) } :
               /\ Shaped(e)
               /\ e.expiring = d.expiring \ {c}
               /\ e.messages = { m \in d.messages : m.chan # c }
               /\ e.reactions = d.reactions /\ e.attachments = d.attachments
               /\ e.scheduled = d.scheduled
  BY DEF Shaped, Tables, SaveChannel, DeleteChannelRow

(* The statements keep the types of the tables.                            *)
LEMMA TypedUpdate ==
  ASSUME NEW d, TypedTables(d), NEW x
  PROVE  TypedTables(UpdateMessage(d, x))
  <1>1. Shaped(d) /\ IsFiniteSet(d.messages)
    BY DEF TypedTables
  <1> DEFINE after == { IF m.id = x THEN [ m EXCEPT !.edited = TRUE ] ELSE m : m \in d.messages }
             f == [ m \in d.messages |-> IF m.id = x THEN [ m EXCEPT !.edited = TRUE ] ELSE m ]
  <1>2. \A m \in d.messages : f[m] \in Rows /\ f[m].id = m.id
    BY DEF TypedTables, Rows
  <1>3. f \in Surjection(d.messages, after)
    BY DEF Surjection
  <1>4. IsFiniteSet(after)
    <2> HIDE DEF f, after
    <2> QED
      BY <1>1, <1>3, FS_Surjection
  <1>5. after \subseteq Rows /\ OneRowPerId(after)
    <2>1. \A r \in after : \E m \in d.messages : r = f[m]
      OBVIOUS
    <2> HIDE DEF f, after
    <2> QED
      BY <1>2, <2>1 DEF TypedTables, OneRowPerId
  <1>6. UpdateMessage(d, x) = [ d EXCEPT !.messages = after ]
    BY DEF UpdateMessage
  <1> HIDE DEF after
  <1> QED
    BY <1>4, <1>5, <1>6 DEF TypedTables, Shaped, Tables

LEMMA TypedPin ==
  ASSUME NEW d, TypedTables(d), NEW x, NEW b \in BOOLEAN
  PROVE  TypedTables(SetMessagePinned(d, x, b))
  <1>1. Shaped(d) /\ IsFiniteSet(d.messages)
    BY DEF TypedTables
  <1> DEFINE after == { IF m.id = x THEN [ m EXCEPT !.pinned = b ] ELSE m : m \in d.messages }
             f == [ m \in d.messages |-> IF m.id = x THEN [ m EXCEPT !.pinned = b ] ELSE m ]
  <1>2. \A m \in d.messages : f[m] \in Rows /\ f[m].id = m.id
    BY DEF TypedTables, Rows
  <1>3. f \in Surjection(d.messages, after)
    BY DEF Surjection
  <1>4. IsFiniteSet(after)
    <2> HIDE DEF f, after
    <2> QED
      BY <1>1, <1>3, FS_Surjection
  <1>5. after \subseteq Rows /\ OneRowPerId(after)
    <2>1. \A r \in after : \E m \in d.messages : r = f[m]
      OBVIOUS
    <2> HIDE DEF f, after
    <2> QED
      BY <1>2, <2>1 DEF TypedTables, OneRowPerId
  <1>6. SetMessagePinned(d, x, b) = [ d EXCEPT !.messages = after ]
    BY DEF SetMessagePinned
  <1> HIDE DEF after
  <1> QED
    BY <1>4, <1>5, <1>6 DEF TypedTables, Shaped, Tables

LEMMA TypedReactions ==
  ASSUME NEW d, TypedTables(d), NEW x \in Nat, NEW u \in Peers
  PROVE  TypedTables(AddReaction(d, x, u)) /\ TypedTables(RemoveReaction(d, x, u))
  <1>0. Shaped(d) /\ IsFiniteSet(d.messages)
    BY DEF TypedTables
  <1> DEFINE R == [ msg : Nat, user : Peers ]
             more == d.reactions \cup {[ msg |-> x, user |-> u ]}
             less == d.reactions \ {[ msg |-> x, user |-> u ]}
  <1>1. more \subseteq R /\ less \subseteq R
    BY DEF TypedTables
  <1>2. AddReaction(d, x, u) = [ d EXCEPT !.reactions = more ]
        /\ RemoveReaction(d, x, u) = [ d EXCEPT !.reactions = less ]
    BY DEF AddReaction, RemoveReaction
  <1> HIDE DEF more, less
  <1> QED
    BY <1>1, <1>2 DEF TypedTables, Shaped, Tables

LEMMA TypedChannels ==
  ASSUME NEW d, TypedTables(d), NEW c \in Chans
  PROVE  TypedTables(SaveChannel(d, c)) /\ TypedTables(DeleteChannelRow(d, c))
  <1>0. Shaped(d) /\ IsFiniteSet(d.messages)
    BY DEF TypedTables
  <1> DEFINE left == { m \in d.messages : m.chan # c }
  <1>1. IsFiniteSet(left) /\ left \subseteq d.messages
    BY <1>0, FS_Subset
  <1>3. left \subseteq Rows /\ OneRowPerId(left)
    BY <1>1 DEF TypedTables, OneRowPerId
  <1> HIDE DEF left
  <1>4. \A e \in { SaveChannel(d, c), DeleteChannelRow(d, c) } : e.messages = left
    BY <1>0, ChannelFields DEF left
  <1> QED
    BY <1>0, <1>1, <1>3, <1>4, ChannelFields DEF TypedTables

LEMMA TypedRemovals ==
  ASSUME NEW d, TypedTables(d), NEW x
  PROVE  /\ TypedTables(DeleteMessageRow(d, x)) /\ TypedTables(DeleteExpired(d, x))
         /\ TypedTables(InsertAttachment(d, x)) /\ TypedTables(Unschedule(d, x))
         /\ TypedTables(ScheduleRow(d, x))
  <1>1. TypedTables(DeleteMessageRow(d, x))
    <2> DEFINE left == d.messages \ { m \in d.messages : m.id = x }
               blobs == d.attachments \ ({ m.att : m \in { m \in d.messages : m.id = x } } \ { m.att : m \in left })
    <2>1. IsFiniteSet(left) /\ left \subseteq d.messages
      BY FS_Subset DEF TypedTables
    <2>2. DeleteMessageRow(d, x) = [ d EXCEPT !.reactions = { r \in @ : r.msg # x }, !.messages = left,
                                              !.attachments = blobs ]
      BY DEF DeleteMessageRow, TypedTables, Shaped, Tables
    <2> HIDE DEF left, blobs
    <2> QED
      BY <2>1, <2>2 DEF TypedTables, Shaped, Tables, OneRowPerId
  <1>2. TypedTables(DeleteExpired(d, x))
    <2> DEFINE left == { m \in d.messages : m.chan \notin d.expiring \/ m.ts >= x }
    <2>1. IsFiniteSet(left) /\ left \subseteq d.messages
      BY FS_Subset DEF TypedTables
    <2>2. DeleteExpired(d, x) = [ d EXCEPT !.messages = left ]
      BY DEF DeleteExpired
    <2> HIDE DEF left
    <2> QED
      BY <2>1, <2>2 DEF TypedTables, Shaped, Tables, OneRowPerId
  <1>3. /\ TypedTables(InsertAttachment(d, x)) /\ TypedTables(Unschedule(d, x))
        /\ TypedTables(ScheduleRow(d, x))
    BY DEF TypedTables, InsertAttachment, Unschedule, ScheduleRow, Shaped, Tables, OneRowPerId
  <1> QED
    BY <1>1, <1>2, <1>3

LEMMA TypedSave ==
  ASSUME NEW d, TypedTables(d), NEW row \in Rows
  PROVE  TypedTables(SaveMessage(d, row))
  <1>1. CASE ~Storable(d, row)
    BY <1>1 DEF SaveMessage
  <1>2. CASE Storable(d, row)
    <2> DEFINE all == d.messages \cup {row}
    <2>1. IsFiniteSet(all)
      BY FS_AddElement DEF TypedTables
    <2>2. all \subseteq Rows /\ OneRowPerId(all)
      BY <1>2 DEF TypedTables, OneRowPerId, Storable, Ids
    <2>3. SaveMessage(d, row) = [ d EXCEPT !.messages = all ]
      BY <1>2 DEF SaveMessage
    <2> HIDE DEF all
    <2> QED
      BY <2>1, <2>2, <2>3 DEF TypedTables, Shaped, Tables
  <1> QED
    BY <1>1, <1>2

(* Statements about conversations leave all of this alone.                 *)
MailTables == { "channels", "expiring", "messages", "reactions", "attachments", "scheduled" }

SameMail(d, e) == Shaped(e) /\ \A t \in MailTables : e[t] = d[t]

LEMMA ConversationStatements ==
  ASSUME NEW d, Shaped(d), NEW x, NEW y, NEW z
  PROVE  /\ SameMail(d, SaveDirect(d, x)) /\ SameMail(d, UpdateDirect(d, x))
         /\ SameMail(d, DeleteDirectRow(d, x)) /\ SameMail(d, AddDmReaction(d, x, y))
         /\ SameMail(d, RemoveDmReaction(d, x, y)) /\ SameMail(d, CreateGroupConversation(d, x, y))
         /\ SameMail(d, SaveGroupMessage(d, x)) /\ SameMail(d, UpsertLastRead(d, x, y, z))
         /\ SameMail(d, d)
  BY DEF SameMail, MailTables, Shaped, Tables, SaveDirect, UpdateDirect, DeleteDirectRow, AddDmReaction,
     RemoveDmReaction, CreateGroupConversation, SaveGroupMessage, UpsertLastRead

LEMMA SameMailFields ==
  ASSUME NEW d, NEW e, SameMail(d, e)
  PROVE  /\ e.channels = d.channels /\ e.expiring = d.expiring /\ e.messages = d.messages
         /\ e.reactions = d.reactions /\ e.attachments = d.attachments /\ e.scheduled = d.scheduled
         /\ Shaped(e)
         /\ TypedTables(d) => TypedTables(e)
  BY DEF SameMail, MailTables, TypedTables

-----------------------------------------------------------------------------
(* Every step keeps the types.                                             *)

LEMMA GotoTyped ==
  ASSUME TypedControl, NEW p \in Peers, NEW step \in Steps, NEW kept, Goto(p, step, kept),
         step \in { "sending", "budgeted", "numbered", "forwarding" } => kept.chan \in Chans,
         step \in { "numbered", "forwarding" } => kept.msg \in Posts
  PROVE  TypedControl'
  BY DEF Goto, TypedControl, TypedHandler

LEMMA FinishTyped == ASSUME TypedControl, NEW p \in Peers, Finish(p) PROVE TypedControl'
  BY GotoTyped DEF Finish, Steps

LEMMA SpawnTyped ==
  ASSUME \A t \in tasks : TypedTask(t), NEW op, NEW args, Spawn(op, args),
         TypedTask([ op |-> op, args |-> args ])
  PROVE  \A t \in tasks' : TypedTask(t)
  BY DEF Spawn

LEMMA LettersTyped ==
  ASSUME TypedMem, NEW c \in Chans
  PROVE  /\ mem[c] \in Seq(Posts) /\ Len(mem[c]) \in Nat /\ DOMAIN mem[c] = 1 .. Len(mem[c])
         /\ \A i \in DOMAIN mem[c] : mem[c][i] \in Posts
         /\ \A id \in IdsIn(c) :
               /\ id \in Nat
               /\ Place(c, id) \in DOMAIN mem[c]
               /\ MessageIn(c, id) = mem[c][Place(c, id)]
               /\ MessageIn(c, id) \in Posts /\ MessageIn(c, id).id = id
  <1>1. mem[c] \in Seq(Posts)
    BY DEF TypedMem
  <1>2. Len(mem[c]) \in Nat /\ DOMAIN mem[c] = 1 .. Len(mem[c]) /\ \A i \in DOMAIN mem[c] : mem[c][i] \in Posts
    BY <1>1
  <1>3. ASSUME NEW id \in IdsIn(c)
        PROVE  Place(c, id) \in DOMAIN mem[c] /\ mem[c][Place(c, id)].id = id
    <2>1. \E i \in DOMAIN mem[c] : mem[c][i].id = id
      BY <1>3 DEF IdsIn
    <2> QED
      BY <2>1 DEF Place
  <1>4. ASSUME NEW id \in IdsIn(c)
        PROVE  mem[c][Place(c, id)] \in Posts /\ id \in Nat
    BY <1>2, <1>3, <1>4 DEF Posts
  <1> QED
    BY <1>1, <1>2, <1>3, <1>4 DEF MessageIn

LEMMA MessageTyped ==
  ASSUME clock \in Nat, NEW id \in Nat, NEW p \in Peers, NEW reply \in Nat, NEW att \in Nat
  PROVE  Message(id, p, reply, att) \in Posts
  BY DEF Message, Posts

LEMMA RowTyped ==
  ASSUME NEW m \in Posts, NEW c \in Chans
  PROVE  RowOf(m, c) \in Rows /\ [ RowOf(m, c) EXCEPT !.att = 0 ] \in Rows
  BY DEF RowOf, Posts, Rows

LEMMA PushTyped == ASSUME TypedMem, NEW c \in Chans, NEW m \in Posts, Push(c, m) PROVE TypedMem'
  <1> DEFINE q == mem[c]
             r == IF Len(q) < MaxMessages THEN Append(q, m) ELSE Append(Tail(q), m)
  <1>1. mem' = [ mem EXCEPT ![c] = r ]
    BY DEF Push
  <1>2. q \in Seq(Posts)
    BY DEF TypedMem
  <1>3. MaxMessages \in Nat \ {0}
    BY ChatAssumption DEF ChatAssumption
  <1>4. r \in Seq(Posts)
    <2> HIDE DEF q
    <2>1. CASE Len(q) < MaxMessages
      BY <1>2, <2>1
    <2>2. CASE ~ Len(q) < MaxMessages
      <3>1. q # << >>
        BY <1>2, <1>3, <2>2
      <3>2. Tail(q) \in Seq(Posts)
        BY <1>2, <3>1
      <3> QED
        BY <2>2, <3>2
    <2> QED
      BY <2>1, <2>2
  <1> HIDE DEF r
  <1> QED
    BY <1>1, <1>4 DEF TypedMem

(* A queue that is changed in place. *)
LEMMA QueueTyped ==
  ASSUME TypedMem, NEW c \in Chans, NEW q, q \in Seq(Posts), mem' = [ mem EXCEPT ![c] = q ]
  PROVE  TypedMem'
  BY DEF TypedMem

(* What no change of a message touches. *)
Alike(m, k) == m.id = k.id /\ m.sender = k.sender /\ m.ts = k.ts /\ m.att = k.att

(* Messages of c are changed where they are. *)
Reworded(c) ==
    /\ mem' \in [ Chans -> Seq(Posts) ]
    /\ \A d \in Chans \ {c} : mem'[d] = mem[d]
    /\ DOMAIN mem'[c] = DOMAIN mem[c]
    /\ \A i \in DOMAIN mem[c] : Alike(mem[c][i], mem'[c][i])

LEMMA QueueReworded ==
  ASSUME TypedMem, NEW c \in Chans, NEW f, mem' = [ mem EXCEPT ![c] = [ i \in DOMAIN mem[c] |-> f[i] ] ],
         \A i \in DOMAIN mem[c] : f[i] \in Posts /\ Alike(mem[c][i], f[i])
  PROVE  Reworded(c)
  <1> DEFINE n == Len(mem[c])
             q == [ i \in 1 .. n |-> f[i] ]
  <1>1. n \in Nat /\ DOMAIN mem[c] = 1 .. n
    BY LettersTyped
  <1>2. q \in Seq(Posts)
    BY <1>1
  <1>3. mem' = [ mem EXCEPT ![c] = q ]
    BY <1>1
  <1>4. DOMAIN q = DOMAIN mem[c] /\ \A i \in DOMAIN mem[c] : Alike(mem[c][i], q[i])
    BY <1>1
  <1> HIDE DEF q
  <1> QED
    BY <1>2, <1>3, <1>4 DEF Reworded, TypedMem

LEMMA EditReworded ==
  ASSUME TypedMem, NEW c \in Chans, NEW id,
         Change(c, id, LAMBDA m : [ m EXCEPT !.edited = TRUE ])
  PROVE  Reworded(c)
  <1> DEFINE g(m) == [ m EXCEPT !.edited = TRUE ]
             f == [ i \in DOMAIN mem[c] |-> IF mem[c][i].id = id THEN g(mem[c][i]) ELSE mem[c][i] ]
  <1>1. mem' = [ mem EXCEPT ![c] = [ i \in DOMAIN mem[c] |-> f[i] ] ]
    BY DEF Change
  <1>2. \A m \in Posts : g(m) \in Posts /\ Alike(m, g(m))
    BY DEF Posts, Alike
  <1>3. \A i \in DOMAIN mem[c] : f[i] \in Posts /\ Alike(mem[c][i], f[i])
    <2> HIDE DEF g
    <2> QED
      BY <1>2, LettersTyped DEF Alike
  <1> HIDE DEF f
  <1> QED
    BY <1>1, <1>3, QueueReworded

LEMMA PinReworded ==
  ASSUME TypedMem, NEW c \in Chans, NEW id, NEW pinned \in BOOLEAN,
         Change(c, id, LAMBDA m : [ m EXCEPT !.pinned = pinned ])
  PROVE  Reworded(c)
  <1> DEFINE g(m) == [ m EXCEPT !.pinned = pinned ]
             f == [ i \in DOMAIN mem[c] |-> IF mem[c][i].id = id THEN g(mem[c][i]) ELSE mem[c][i] ]
  <1>1. mem' = [ mem EXCEPT ![c] = [ i \in DOMAIN mem[c] |-> f[i] ] ]
    BY DEF Change
  <1>2. \A m \in Posts : g(m) \in Posts /\ Alike(m, g(m))
    BY DEF Posts, Alike
  <1>3. \A i \in DOMAIN mem[c] : f[i] \in Posts /\ Alike(mem[c][i], f[i])
    <2> HIDE DEF g
    <2> QED
      BY <1>2, LettersTyped DEF Alike
  <1> HIDE DEF f
  <1> QED
    BY <1>1, <1>3, QueueReworded

LEMMA ReactReworded ==
  ASSUME TypedMem, NEW c \in Chans, NEW id, NEW p \in Peers,
         Change(c, id, LAMBDA m : [ m EXCEPT !.reacts = IF p \in @ THEN @ \ {p} ELSE @ \cup {p} ])
  PROVE  Reworded(c)
  <1> DEFINE g(m) == [ m EXCEPT !.reacts = IF p \in @ THEN @ \ {p} ELSE @ \cup {p} ]
             f == [ i \in DOMAIN mem[c] |-> IF mem[c][i].id = id THEN g(mem[c][i]) ELSE mem[c][i] ]
  <1>1. mem' = [ mem EXCEPT ![c] = [ i \in DOMAIN mem[c] |-> f[i] ] ]
    BY DEF Change
  <1>2. \A m \in Posts : g(m) \in Posts /\ Alike(m, g(m))
    BY DEF Posts, Alike
  <1>3. \A i \in DOMAIN mem[c] : f[i] \in Posts /\ Alike(mem[c][i], f[i])
    <2> HIDE DEF g
    <2> QED
      BY <1>2, LettersTyped DEF Alike
  <1> HIDE DEF f
  <1> QED
    BY <1>1, <1>3, QueueReworded

LEMMA SomeChange ==
  ASSUME TypedMem, NEW p \in Peers, NEW c \in Chans, NEW id,
         EditText(p, c, id) \/ (\E pinned \in BOOLEAN : Pin(p, c, id, pinned)) \/ React(p, c, id)
  PROVE  Reworded(c)
  <1>1. CASE EditText(p, c, id)
    BY <1>1, EditReworded DEF EditText
  <1>2. CASE \E pinned \in BOOLEAN : Pin(p, c, id, pinned)
    BY <1>2, PinReworded DEF Pin
  <1>3. CASE React(p, c, id)
    BY <1>3, ReactReworded DEF React
  <1> QED
    BY <1>1, <1>2, <1>3

LEMMA RewordedTyped == ASSUME NEW c, Reworded(c) PROVE TypedMem'
  BY DEF Reworded, TypedMem

(* What a restart loads of a channel is made of its rows. *)
LEMMA LoadedRows ==
  ASSUME TypedTables(db), NEW c \in Chans
  PROVE  /\ Loaded(c) \in Seq(Posts)
         /\ \A i \in DOMAIN Loaded(c) :
               \E r \in db.messages : r.chan = c /\ Loaded(c)[i] = Restored(r)
         /\ \A i, j \in DOMAIN Loaded(c) : Loaded(c)[i].id = Loaded(c)[j].id => i = j
  <1> DEFINE rows == { m \in db.messages : m.chan = c }
             sorted == Ordered(rows, Earlier(rows))
             n == Cardinality(rows)
             skipped == IF Len(sorted) <= MaxMessages THEN 0 ELSE Len(sorted) - MaxMessages
             last == Len(sorted) - skipped
             q == [ i \in 1 .. last |-> Restored(sorted[skipped + i]) ]
  <1>1. IsFiniteSet(rows) /\ rows \subseteq Rows /\ OneRowPerId(rows)
    BY FS_Subset DEF TypedTables, OneRowPerId
  <1>2. Strict(rows, Earlier(rows))
    <2>1. \A r \in rows : r.ts \in Nat /\ r.id \in Nat
      BY <1>1 DEF Rows
    <2>2. \A r, s \in rows : << r, s >> \in Earlier(rows) <=> r.ts < s.ts \/ (r.ts = s.ts /\ r.id < s.id)
      BY DEF Earlier
    <2>3. \A r, s \in rows : r # s => r.id # s.id
      BY <1>1 DEF OneRowPerId
    <2> HIDE DEF rows
    <2>4. \A r \in rows : << r, r >> \notin Earlier(rows)
      BY <2>1, <2>2
    <2>5. \A r, s \in rows : r # s => << r, s >> \in Earlier(rows) \/ << s, r >> \in Earlier(rows)
      BY <2>1, <2>2, <2>3
    <2>6. \A r, s, t \in rows : << r, s >> \in Earlier(rows) /\ << s, t >> \in Earlier(rows)
                                  => << r, t >> \in Earlier(rows)
      BY <2>1, <2>2
    <2> QED
      BY <2>4, <2>5, <2>6 DEF Strict
  <1>3. n \in Nat /\ sorted \in [ 1 .. n -> rows ] /\ \A i, j \in 1 .. n : sorted[i] = sorted[j] => i = j
    <2> HIDE DEF rows
    <2> QED
      BY <1>1, <1>2, OrderedPlaces
  <1>4. Loaded(c) = q
    BY DEF Loaded
  <1> HIDE DEF sorted, n
  <1>5. Len(sorted) = n /\ skipped \in Nat /\ last \in Nat /\ skipped + last = n
    <2>1. Len(sorted) = n
      BY <1>3
    <2>2. MaxMessages \in Nat
      BY ChatAssumption DEF ChatAssumption
    <2> QED
      BY <1>3, <2>1, <2>2
  <1> HIDE DEF skipped, last
  <1>6. \A i \in 1 .. last : skipped + i \in 1 .. n
    BY <1>3, <1>5
  <1>7. \A r \in rows : Restored(r) \in Posts /\ Restored(r).id = r.id
    <2>1. \A id : LoadReactions(db, id) \subseteq Peers
      BY DEF LoadReactions, TypedTables
    <2> QED
      BY <1>1, <2>1 DEF Restored, Posts, Rows
  <1>8. \A i \in 1 .. last : sorted[skipped + i] \in rows /\ q[i] = Restored(sorted[skipped + i]) /\ q[i] \in Posts
    <2> HIDE DEF rows
    <2> QED
      BY <1>3, <1>6, <1>7
  <1>9. q \in Seq(Posts) /\ DOMAIN q = 1 .. last
    <2>1. q = [ i \in 1 .. last |-> q[i] ]
      OBVIOUS
    <2> HIDE DEF q
    <2> QED
      BY <1>5, <1>8, <2>1
  <1>10. ASSUME NEW i \in 1 .. last, NEW j \in 1 .. last, q[i].id = q[j].id PROVE i = j
    <2>1. sorted[skipped + i].id = sorted[skipped + j].id
      BY <1>7, <1>8, <1>10
    <2>2. sorted[skipped + i] = sorted[skipped + j]
      BY <1>1, <1>8, <2>1 DEF OneRowPerId
    <2>3. skipped + i = skipped + j
      BY <1>3, <1>6, <2>2
    <2> QED
      BY <1>5, <2>3
  <1> HIDE DEF q
  <1> QED
    BY <1>4, <1>8, <1>9, <1>10

-----------------------------------------------------------------------------
LEMMA SendTyped == ASSUME Typed, NEW p \in Peers, Send(p) PROVE Typed'
  <1> USE DEF memVars, idVars, control, background, world, history
  <1>0. mix.chans \subseteq Chans
    BY ChansInMix DEF Typed, TypedCounts
  <1>1. ASSUME NEW kind, NEW c \in Chans, BeginSend(p, kind, c) PROVE Typed'
    <2>1. TypedControl'
      BY <1>1, GotoTyped DEF BeginSend, Steps, Typed
    <2>2. stamps' \in [ Chans \X Peers -> Int ]
      BY <1>1 DEF BeginSend, Stamp, Typed, TypedCounts
    <2> QED
      BY <1>1, <2>1, <2>2 DEF BeginSend, Typed, TypedCounts, TypedMem
  <1>2. CASE \E c \in mix.chans : BeginText(p, c) \/ BeginUpload(p, c) \/ BeginVoiceNote(p, c)
    BY <1>0, <1>1, <1>2 DEF BeginText, BeginUpload, BeginVoiceNote
  <1>3. CASE SendRefused(p)
    BY <1>3, FinishTyped DEF SendRefused, Typed, TypedCounts, TypedMem
  <1>4. CASE ResolveText(p)
    <2>1. PICK reply \in IdsIn(loc[p].chan) \cup {0} :
            Goto(p, "numbered", [ kind |-> "Text", chan |-> loc[p].chan, msg |-> Message(nextId, p, reply, 0) ])
      BY <1>4 DEF ResolveText
    <2>2. loc[p].chan \in Chans
      BY <1>4 DEF ResolveText, Typed, TypedControl, TypedHandler
    <2>3. Message(nextId, p, reply, 0) \in Posts
      BY <2>2, LettersTyped, MessageTyped DEF Typed, TypedCounts
    <2>4. TypedControl'
      BY <2>1, <2>2, <2>3, GotoTyped DEF Typed, Steps
    <2> QED
      BY <1>4, <2>4 DEF ResolveText, Allocate, Typed, TypedCounts, TypedMem
  <1>5. CASE CheckBudget(p)
    <2>1. TypedControl'
      BY <1>5, GotoTyped DEF CheckBudget, Typed, TypedControl, TypedHandler, Steps
    <2> QED
      BY <1>5, <2>1 DEF CheckBudget, Typed, TypedCounts, TypedMem
  <1>6. CASE InsertBlob(p)
    <2>2. loc[p].chan \in Chans
      BY <1>6 DEF InsertBlob, Typed, TypedControl, TypedHandler
    <2>3. Message(nextId, p, 0, nextId) \in Posts
      BY MessageTyped DEF Typed, TypedCounts
    <2>4. TypedControl'
      BY <1>6, <2>2, <2>3, GotoTyped DEF InsertBlob, Typed, Steps
    <2>5. TypedTables(db') /\ db'.scheduled = db.scheduled
      BY <1>6, TypedRemovals, AttachmentStatements DEF InsertBlob, Typed, TypedTables
    <2> QED
      BY <1>6, <2>4, <2>5 DEF InsertBlob, Allocate, Typed, TypedCounts, TypedMem, Duties
  <1>7. CASE GiveUpBlob(p)
    <2>1. TypedControl'
      BY <1>7, FinishTyped DEF GiveUpBlob, Typed
    <2>2. \A t \in tasks' : TypedTask(t)
      BY <1>7, SpawnTyped DEF GiveUpBlob, Typed, TypedTask, TypedCounts, TaskOps
    <2> QED
      BY <1>7, <2>1, <2>2 DEF GiveUpBlob, Allocate, Typed, TypedCounts, TypedMem
  <1>8. CASE StoreMessage(p)
    <2>1. loc[p].chan \in Chans /\ loc[p].msg \in Posts
      BY <1>8 DEF StoreMessage, Typed, TypedControl, TypedHandler
    <2>2. TypedMem'
      BY <1>8, <2>1, PushTyped DEF StoreMessage, Typed
    <2>3. \A t \in tasks' : TypedTask(t)
      <3>1. TypedTask([ op |-> "SaveMessage", args |-> RowOf(loc[p].msg, loc[p].chan) ])
        BY <2>1, RowTyped DEF TypedTask, TaskOps, CalmOps
      <3> QED
        BY <1>8, <3>1, SpawnTyped DEF StoreMessage, Typed
    <2>4. TypedControl'
      BY <1>8, FinishTyped DEF StoreMessage, Typed
    <2>5. paced' \in [ Chans \X Peers -> Nat ]
      BY <1>8, <2>1 DEF StoreMessage, Paced, Typed, TypedCounts
    <2> QED
      BY <1>8, <2>2, <2>3, <2>4, <2>5 DEF StoreMessage, Typed, TypedCounts
  <1>9. CASE SendVoiceNote(p)
    <2>4. TypedControl'
      BY <1>9, FinishTyped DEF SendVoiceNote, Typed
    <2>5. paced' \in [ Chans \X Peers -> Nat ]
      BY <1>9 DEF SendVoiceNote, Paced, Typed, TypedCounts, TypedControl, TypedHandler
    <2> QED
      BY <1>9, <2>4, <2>5 DEF SendVoiceNote, Allocate, Typed, TypedCounts, TypedMem
  <1>10. CASE StoreForward(p)
    <2>1. loc[p].chan \in Chans /\ loc[p].msg \in Posts
      BY <1>10 DEF StoreForward, Typed, TypedControl, TypedHandler
    <2>2. TypedMem'
      BY <1>10, <2>1, PushTyped DEF StoreForward, Typed
    <2>3. \A t \in tasks' : TypedTask(t)
      <3>1. TypedTask([ op |-> "SaveMessage", args |-> [ RowOf(loc[p].msg, loc[p].chan) EXCEPT !.att = 0 ] ])
        BY <2>1, RowTyped DEF TypedTask, TaskOps, CalmOps
      <3> QED
        BY <1>10, <3>1, SpawnTyped DEF StoreForward, Typed
    <2>4. TypedControl'
      BY <1>10, FinishTyped DEF StoreForward, Typed
    <2> QED
      BY <1>10, <2>2, <2>3, <2>4 DEF StoreForward, Typed, TypedCounts
  <1> QED
    BY <1>2, <1>3, <1>4, <1>5, <1>6, <1>7, <1>8, <1>9, <1>10 DEF Send

LEMMA OnMessageTyped == ASSUME Typed, NEW p \in Peers, OnMessage(p) PROVE Typed'
  <1> USE DEF memVars, idVars, control, background, world, history
  <1> PICK c \in Chans : \E i \in IdsIn(c) :
          \/ EditText(p, c, i)
          \/ \E pinned \in BOOLEAN : Pin(p, c, i, pinned)
          \/ DeleteText(p, c, i)
          \/ React(p, c, i)
          \/ \E target \in mix.chans : BeginForward(p, c, i, target)
          \/ MarkRead(p, c, i)
    BY DEF OnMessage
  <1> PICK id \in IdsIn(c) :
          \/ EditText(p, c, id)
          \/ \E pinned \in BOOLEAN : Pin(p, c, id, pinned)
          \/ DeleteText(p, c, id)
          \/ React(p, c, id)
          \/ \E target \in mix.chans : BeginForward(p, c, id, target)
          \/ MarkRead(p, c, id)
    OBVIOUS
  <1>0. id \in Nat /\ MessageIn(c, id) \in Posts
    BY LettersTyped DEF Typed
  <1>1. CASE EditText(p, c, id)
    <2>1. TypedMem'
      BY <1>1, SomeChange, RewordedTyped DEF Typed
    <2>2. TypedTask([ op |-> "UpdateMessage", args |-> id ])
      BY <1>0 DEF TypedTask, TaskOps, CalmOps
    <2>3. \A t \in tasks' : TypedTask(t)
      BY <1>1, <2>2, SpawnTyped DEF EditText, Typed
    <2> QED
      BY <1>1, <2>1, <2>3 DEF EditText, Typed, TypedCounts, TypedControl, TypedHandler
  <1>2. CASE \E pinned \in BOOLEAN : Pin(p, c, id, pinned)
    <2>0. PICK pinned \in BOOLEAN : Pin(p, c, id, pinned)
      BY <1>2
    <2>1. TypedMem'
      BY <1>2, SomeChange, RewordedTyped DEF Typed
    <2>2. TypedTask([ op |-> "SetPinned", args |-> << id, pinned >> ])
      BY <1>0 DEF TypedTask, TaskOps, CalmOps
    <2>3. \A t \in tasks' : TypedTask(t)
      BY <2>0, <2>2, SpawnTyped DEF Pin, Typed
    <2> QED
      BY <2>0, <2>1, <2>3 DEF Pin, Typed, TypedCounts, TypedControl, TypedHandler
  <1>3. CASE DeleteText(p, c, id)
    <2> DEFINE q == Retained(mem[c], DOMAIN mem[c] \ {Place(c, id)})
    <2>1. mem' = [ mem EXCEPT ![c] = q ]
      BY <1>3 DEF DeleteText
    <2>2. q \in Seq(Posts)
      BY LettersTyped, RetainedPlaces DEF Typed
    <2>3. TypedMem'
      <3> HIDE DEF q
      <3> QED
        BY <2>1, <2>2, QueueTyped DEF Typed
    <2>4. TypedTask([ op |-> "DeleteMessage", args |-> id ])
      BY <1>0 DEF TypedTask, TaskOps, CalmOps
    <2>5. \A t \in tasks' : TypedTask(t)
      BY <1>3, <2>4, SpawnTyped DEF DeleteText, Typed
    <2> QED
      BY <1>3, <2>3, <2>5 DEF DeleteText, Typed, TypedCounts, TypedControl, TypedHandler
  <1>4. CASE React(p, c, id)
    <2>1. TypedMem'
      BY <1>4, SomeChange, RewordedTyped DEF Typed
    <2>2. TypedTask([ op |-> "AddReaction", args |-> << id, p >> ])
          /\ TypedTask([ op |-> "RemoveReaction", args |-> << id, p >> ])
      BY <1>0 DEF TypedTask, TaskOps, CalmOps
    <2>3. \A t \in tasks' : TypedTask(t)
      BY <1>4, <2>2, SpawnTyped DEF React, Typed
    <2> QED
      BY <1>4, <2>1, <2>3 DEF React, Typed, TypedCounts, TypedControl, TypedHandler
  <1>5. CASE \E target \in mix.chans : BeginForward(p, c, id, target)
    <2>1. PICK target \in Chans : BeginForward(p, c, id, target)
      BY <1>5, ChansInMix DEF Typed, TypedCounts
    <2>2. Message(nextId, p, 0, MessageIn(c, id).att) \in Posts
      BY <1>0, MessageTyped DEF Typed, TypedCounts, Posts
    <2>3. TypedControl'
      BY <2>1, <2>2, GotoTyped DEF BeginForward, Typed, Steps
    <2> QED
      BY <2>1, <2>3 DEF BeginForward, Allocate, Typed, TypedCounts, TypedMem
  <1>6. CASE MarkRead(p, c, id)
    <2>1. \A t \in tasks' : TypedTask(t)
      BY <1>6, SpawnTyped DEF MarkRead, Typed, TypedTask, TaskOps, CalmOps
    <2> QED
      BY <1>6, <2>1 DEF MarkRead, Typed, TypedCounts, TypedMem, TypedControl, TypedHandler
  <1> QED
    BY <1>1, <1>2, <1>3, <1>4, <1>5, <1>6

LEMMA OnChannelTyped == ASSUME Typed, NEW p \in Peers, OnChannel(p) PROVE Typed'
  <1> USE DEF memVars, idVars, control, background, world, history
  <1>1. CASE CreateChannel(p)
    <2>1. nextChan \in Chans
      BY <1>1, ChatAssumption DEF CreateChannel, Chans, Typed, TypedCounts, ChatAssumption
    <2>2. \A t \in tasks' : TypedTask(t)
      <3>1. TypedTask([ op |-> "SaveChannel", args |-> nextChan ])
        BY <2>1 DEF TypedTask, TaskOps, CalmOps
      <3> QED
        BY <1>1, <3>1, SpawnTyped DEF CreateChannel, Typed
    <2> QED
      BY <1>1, <2>1, <2>2 DEF CreateChannel, Typed, TypedCounts, TypedMem, TypedControl, TypedHandler
  <1>2. CASE \E c \in mix.chans : DeleteChannel(p, c)
    <2>1. PICK c \in Chans : DeleteChannel(p, c)
      BY <1>2, ChansInMix DEF Typed, TypedCounts
    <2>2. \A t \in tasks' : TypedTask(t)
      <3>1. TypedTask([ op |-> "DeleteChannel", args |-> c ])
        BY DEF TypedTask, TaskOps, CalmOps
      <3> QED
        BY <2>1, <3>1, SpawnTyped DEF DeleteChannel, Typed
    <2>3. << >> \in Seq(Posts)
      OBVIOUS
    <2>4. TypedMem'
      BY <2>1, <2>3, QueueTyped DEF DeleteChannel, Typed
    <2> QED
      BY <2>1, <2>2, <2>4 DEF DeleteChannel, Typed, TypedCounts, TypedControl, TypedHandler
  <1> QED
    BY <1>1, <1>2 DEF OnChannel

LEMMA ConversationTyped == ASSUME Typed, NEW p \in Peers, Conversation(p) PROVE Typed'
  <1> USE DEF memVars, idVars, control, background, world, history
  <1>1. SameMail(db, db')
    BY ConversationStatements
    DEF Conversation, BeginDirect, StoreDirect, EditDirect, DeleteDirect, ProbeReaction, ToggleReaction,
        BeginGroup, StoreGroup, BeginGroupSend, StoreGroupMessage, Typed, TypedTables
  <1>2. TypedTables(db') /\ db'.scheduled = db.scheduled
    BY <1>1, SameMailFields DEF Typed
  <1>3. TypedControl'
    <2>1. CASE \E q \in Peers : BeginDirect(p, q)
      BY <2>1, GotoTyped DEF BeginDirect, Typed, Steps
    <2>2. CASE StoreDirect(p) \/ ToggleReaction(p) \/ StoreGroup(p) \/ StoreGroupMessage(p)
      BY <2>2, FinishTyped DEF StoreDirect, ToggleReaction, StoreGroup, StoreGroupMessage, Typed
    <2>3. CASE \E id \in 1 .. mix.ids : EditDirect(p, id) \/ DeleteDirect(p, id)
      BY <2>3 DEF EditDirect, DeleteDirect, Typed, TypedControl, TypedHandler
    <2>4. CASE \E id \in 1 .. mix.ids : ProbeReaction(p, id)
      BY <2>4, GotoTyped DEF ProbeReaction, Typed, Steps
    <2>5. CASE \E others \in SUBSET (Peers \ {p}) : BeginGroup(p, others)
      BY <2>5, GotoTyped DEF BeginGroup, Typed, Steps
    <2>6. CASE \E g \in 1 .. mix.ids : BeginGroupSend(p, g)
      BY <2>6, GotoTyped DEF BeginGroupSend, Typed, Steps
    <2> QED
      BY <2>1, <2>2, <2>3, <2>4, <2>5, <2>6 DEF Conversation
  <1>4. /\ UNCHANGED << mem, live, slow, stamps, nextChan, tasks, due, mix, clock, paced >>
        /\ nextId' \in { nextId, nextId + 1 }
    BY DEF Conversation, BeginDirect, StoreDirect, EditDirect, DeleteDirect, ProbeReaction, ToggleReaction,
        BeginGroup, StoreGroup, BeginGroupSend, StoreGroupMessage, Allocate
  <1> QED
    BY <1>2, <1>3, <1>4 DEF Typed, TypedCounts, TypedMem, Duties

LEMMA SchedulingTyped == ASSUME Typed, NEW p \in Peers, Scheduling(p) PROVE Typed'
  <1> USE DEF memVars, idVars, control, background, world, history
  <1>1. CASE \E c \in mix.chans, at \in 1 .. mix.seconds : Schedule(p, c, at)
    <2>1. PICK c \in Chans, at \in 1 .. mix.seconds : Schedule(p, c, at)
      BY <1>1, ChansInMix DEF Typed, TypedCounts
    <2>2. TypedTables(db') /\ db'.scheduled = db.scheduled \cup
              {[ id |-> <<p, at>>, chan |-> c, sender |-> p, at |-> at ]}
      BY <2>1, TypedRemovals, ScheduleStatements DEF Schedule, Typed, TypedTables
    <2>3. Duties(db'.scheduled)
      BY <2>2 DEF Duties, Typed
    <2> QED
      BY <2>1, <2>2, <2>3 DEF Schedule, Typed, TypedCounts, TypedMem, TypedControl, TypedHandler, Duties
  <1>2. CASE \E id \in Schedules : CancelScheduled(p, id)
    <2>1. PICK id \in Schedules : CancelScheduled(p, id)
      BY <1>2
    <2>2. TypedTables(db') /\ db'.scheduled \subseteq db.scheduled
      BY <2>1, TypedRemovals, ScheduleStatements DEF CancelScheduled, Typed, TypedTables
    <2> QED
      BY <2>1, <2>2 DEF CancelScheduled, Typed, TypedCounts, TypedMem, TypedControl, TypedHandler, Duties
  <1> QED
    BY <1>1, <1>2 DEF Scheduling

LEMMA DeliverTyped == ASSUME Typed, NEW r \in due, Deliver(r) PROVE Typed'
  <1> USE DEF memVars, idVars, control, background, world, history
  <1> DEFINE m == Message(nextId, r.sender, 0, 0)
  <1>1. r.chan \in Chans /\ m \in Posts
    BY MessageTyped DEF Typed, TypedCounts, Duties
  <1>2. TypedMem'
    BY <1>1, PushTyped DEF Deliver, Typed
  <1>3. \A t \in tasks' : TypedTask(t)
    <2>1. TypedTask([ op |-> "SaveMessage", args |-> RowOf(m, r.chan) ])
      BY <1>1, RowTyped DEF TypedTask, TaskOps, CalmOps
    <2>2. TypedTask([ op |-> "Unschedule", args |-> r.id ])
      BY DEF TypedTask, TaskOps
    <2> QED
      BY <2>1, <2>2 DEF Deliver, Typed
  <1> QED
    BY <1>2, <1>3 DEF Deliver, Allocate, Typed, TypedCounts, TypedControl, TypedHandler, Duties

(* The sweep of the memory. *)
Old(c) == { i \in DOMAIN mem[c] : mem[c][i].ts >= clock - MaxAge }

LEMMA SweepTyped ==
  ASSUME TypedMem, SweepMemory
  PROVE  /\ TypedMem'
         /\ \A c \in Chans : mem'[c] = IF c \in db.expiring \cap live THEN Retained(mem[c], Old(c)) ELSE mem[c]
  <1>1. \A c \in Chans : Old(c) \subseteq DOMAIN mem[c] /\ mem[c] \in Seq(Posts)
    BY LettersTyped DEF Old
  <1>2. \A c \in Chans : Retained(mem[c], Old(c)) \in Seq(Posts)
    BY <1>1, RetainedPlaces
  <1>3. mem' = [ c \in Chans |-> IF c \in db.expiring \cap live THEN Retained(mem[c], Old(c)) ELSE mem[c] ]
    BY DEF SweepMemory, Old
  <1> QED
    BY <1>1, <1>2, <1>3 DEF TypedMem

LEMMA ServerTyped == ASSUME Typed, Server PROVE Typed'
  <1> USE DEF memVars, idVars, control, background, world, history
  <1>1. CASE FetchDue
    BY <1>1 DEF FetchDue, DueScheduled, Typed, TypedCounts, TypedMem, TypedControl, TypedHandler, Duties
  <1>2. CASE SweepRows
    <2>1. TypedTables(db') /\ db'.scheduled = db.scheduled
      BY <1>2, TypedRemovals, MessageStatements DEF SweepRows, Typed, TypedTables, Beside
    <2> QED
      BY <1>2, <2>1 DEF SweepRows, Typed, TypedCounts, TypedMem, TypedControl, TypedHandler, Duties
  <1>3. CASE SweepMemory
    BY <1>3, SweepTyped DEF SweepMemory, Typed, TypedCounts, TypedControl, TypedHandler
  <1>4. CASE Cleanup
    BY <1>4 DEF Cleanup, CleanupStamps, Typed, TypedCounts, TypedMem, TypedControl, TypedHandler
  <1> QED
    BY <1>1, <1>2, <1>3, <1>4, DeliverTyped DEF Server

LEMMA TaskTyped == ASSUME Typed, NEW t \in tasks, RunTask(t) PROVE Typed'
  <1> USE DEF memVars, idVars, control, background, world, history
  <1>0. TypedTask(t) /\ db' = Applied(t) /\ TypedTables(db)
    BY DEF RunTask, Typed
  <1>1. TypedTables(Applied(t)) /\ Applied(t).scheduled \subseteq db.scheduled
    <2>0. Shaped(db)
      BY <1>0 DEF TypedTables
    <2>1. CASE t.op = "SaveMessage"
      BY <1>0, <2>0, <2>1, TypedSave, MessageStatements DEF Applied, TypedTask, Beside
    <2>2. CASE t.op = "UpdateMessage"
      BY <1>0, <2>0, <2>2, TypedUpdate, MessageStatements DEF Applied, TypedTask, Beside
    <2>3. CASE t.op = "SetPinned"
      BY <1>0, <2>0, <2>3, TypedPin, MessageStatements DEF Applied, TypedTask, Beside
    <2>4. CASE t.op = "DeleteMessage"
      BY <1>0, <2>0, <2>4, TypedRemovals, AttachmentStatements DEF Applied
    <2>5. CASE t.op \in { "AddReaction", "RemoveReaction" }
      BY <1>0, <2>0, <2>5, TypedReactions, MessageStatements DEF Applied, TypedTask, Beside
    <2>6. CASE t.op = "InsertAttachment"
      BY <1>0, <2>0, <2>6, TypedRemovals, AttachmentStatements DEF Applied
    <2>7. CASE t.op = "UpsertLastRead"
      BY <1>0, <2>0, <2>7, ConversationStatements, SameMailFields DEF Applied
    <2>8. CASE t.op \in { "SaveChannel", "DeleteChannel" }
      BY <1>0, <2>0, <2>8, TypedChannels, ChannelStatements DEF Applied, TypedTask, Beside
    <2>9. CASE t.op = "Unschedule"
      BY <1>0, <2>0, <2>9, TypedRemovals, ScheduleStatements DEF Applied
    <2> QED
      BY <1>0, <2>1, <2>2, <2>3, <2>4, <2>5, <2>6, <2>7, <2>8, <2>9 DEF TypedTask, TaskOps, CalmOps
  <1> QED
    BY <1>0, <1>1 DEF RunTask, Typed, TypedCounts, TypedMem, TypedControl, TypedHandler, Duties

LEMMA CrashTyped == ASSUME Typed, Crash PROVE Typed'
  <1>1. TypedMem'
    <2> DEFINE q(c) == IF c \in db.channels THEN Loaded(c) ELSE << >>
    <2>1. mem' = [ c \in Chans |-> q(c) ]
      BY DEF Crash
    <2>2. \A c \in Chans : Loaded(c) \in Seq(Posts) /\ << >> \in Seq(Posts)
      BY LoadedRows DEF Typed
    <2>3. \A c \in Chans : q(c) \in Seq(Posts)
      BY <2>2
    <2> HIDE DEF q
    <2> QED
      BY <2>1, <2>3 DEF TypedMem
  <1>2. nextId' \in Nat \ {0} /\ nextChan' \in Nat \ {0}
    BY ChatAssumption DEF ChatAssumption, Crash, RestoreMessageIds
  <1>3. TypedCounts'
    BY <1>2 DEF Crash, Typed, TypedCounts, TypedTables, history
  <1> QED
    BY <1>1, <1>3 DEF Crash, Typed, Duties, TypedControl, TypedHandler, Steps

LEMMA InitTyped == Init => Typed
  <1> SUFFICES ASSUME Init PROVE Typed
    OBVIOUS
  <1>1. FirstChannels \in Nat \ {0} /\ MaxChannel \in Nat /\ FirstChannels <= MaxChannel
        /\ Expiring \subseteq 1 .. FirstChannels /\ SlowSecs \in Nat
    BY ChatAssumption DEF ChatAssumption
  <1>2. 1 .. FirstChannels \subseteq Chans
    BY <1>1 DEF Chans
  <1>3. TypedCounts
    BY <1>1, <1>2 DEF Init, TypedCounts
  <1>4. TypedMem
    <2>1. << >> \in Seq(Posts)
      OBVIOUS
    <2> QED
      BY <2>1 DEF Init, TypedMem
  <1>5. TypedTables(db) /\ db.scheduled = {}
    BY <1>1, <1>2, FS_EmptySet DEF Init, TypedTables, Shaped, Tables, OneRowPerId
  <1>6. TypedControl
    BY DEF Init, TypedControl, TypedHandler, Steps
  <1> QED
    BY <1>3, <1>4, <1>5, <1>6 DEF Init, Typed, Duties

LEMMA TypedInvariant == Spec => []Typed
  <1>1. ASSUME Typed, Next PROVE Typed'
    <2>1. CASE Tick
      <3>1. TypedCounts'
        BY <1>1, <2>1 DEF Tick, Typed, TypedCounts, memVars, idVars, history
      <3> QED
        BY <1>1, <2>1, <3>1 DEF Tick, Typed, TypedCounts, TypedMem, TypedControl, TypedHandler, Duties, memVars, idVars,
                  control, background, history
    <2> QED
      BY <1>1, <2>1, SendTyped, OnMessageTyped, OnChannelTyped, ConversationTyped, SchedulingTyped,
         ServerTyped, TaskTyped, CrashTyped DEF Next, Request
  <1>2. ASSUME Typed, UNCHANGED vars PROVE Typed'
    BY <1>2 DEF Typed, TypedCounts, TypedMem, TypedControl, TypedHandler, Duties, vars, memVars, idVars,
                control, background, world, history
  <1> QED
    BY InitTyped, <1>1, <1>2, PTL DEF Spec

-----------------------------------------------------------------------------
(* The slow mode.  A request that was stamped counts until it is sent or   *)
(* given up: every message of a connection, and the request under way, was *)
(* stamped SlowSecs after the one before; and a stamp that was dropped is  *)
(* as old as that.                                                         *)

Paying(c, p) == pc[p] \in { "sending", "budgeted", "numbered" } /\ loc[p].chan = c

Taken(c, p) == paced[<<c, p>>] + IF Paying(c, p) THEN 1 ELSE 0

Pace(c, p) ==
    IF stamps[<<c, p>>] = -1
    THEN Taken(c, p) * SlowSecs <= clock
    ELSE /\ stamps[<<c, p>>] \in 0 .. clock
         /\ (Taken(c, p) - 1) * SlowSecs <= stamps[<<c, p>>]

Spaced(c, p) == paced[<<c, p>>] > 0 => SlowSecs > 0 /\ (paced[<<c, p>>] - 1) * SlowSecs <= clock

SlowInv ==
    \A c \in Chans, p \in Peers : (slow[c] > 0 => Pace(c, p)) /\ Spaced(c, p)

LEMMA Multiples ==
  /\ SlowSecs \in Nat /\ StampLife \in Nat /\ SlowSecs <= StampLife
  /\ \A n \in Int : n * SlowSecs \in Int /\ (n + 1) * SlowSecs = n * SlowSecs + SlowSecs
  /\ \A n, k \in Int : n <= k => n * SlowSecs <= k * SlowSecs
  <1>1. SlowSecs \in Nat /\ StampLife \in Nat /\ SlowSecs <= StampLife
    BY ChatAssumption DEF ChatAssumption
  <1>2. \A n \in Int : n * SlowSecs \in Int /\ (n + 1) * SlowSecs = n * SlowSecs + SlowSecs
    BY <1>1
  <1>3. ASSUME NEW n \in Int, NEW k \in Int, n <= k PROVE n * SlowSecs <= k * SlowSecs
    <2>1. k - n \in Nat /\ (k - n) * SlowSecs \in Nat
      BY <1>1, <1>3
    <2>2. k * SlowSecs = n * SlowSecs + (k - n) * SlowSecs
      BY <1>1
    <2> QED
      BY <1>1, <2>1, <2>2
  <1> QED
    BY <1>1, <1>2, <1>3

LEMMA CountsTyped ==
  ASSUME Typed, NEW c \in Chans, NEW p \in Peers
  PROVE  /\ clock \in Nat /\ slow[c] \in {0, SlowSecs} /\ stamps[<<c, p>>] \in Int
         /\ paced[<<c, p>>] \in Nat
         /\ Taken(c, p) \in { paced[<<c, p>>], paced[<<c, p>>] + 1 }
         /\ Paying(c, p) <=> Taken(c, p) = paced[<<c, p>>] + 1
  BY DEF Typed, TypedCounts, Taken

(* Nothing is stamped and nothing sent, but time may pass, requests may be *)
(* given up and channels may lose their slow mode.                         *)
LEMMA PaceCalm ==
  ASSUME Typed, Typed', SlowInv, clock' >= clock, paced' = paced,
         \A c \in Chans : slow'[c] > 0 => slow[c] > 0 /\ \A p \in Peers : stamps'[<<c, p>>] = stamps[<<c, p>>],
         \A c \in Chans, p \in Peers : Paying(c, p)' => Paying(c, p)
  PROVE  SlowInv'
  <1> SUFFICES ASSUME NEW c \in Chans, NEW p \in Peers PROVE (slow'[c] > 0 => Pace(c, p)') /\ Spaced(c, p)'
    BY DEF SlowInv
  <1> DEFINE n == paced[<<c, p>>]   k == Taken(c, p)   s == stamps[<<c, p>>]
  <1>1. clock \in Nat /\ clock' \in Nat /\ n \in Nat /\ k \in Nat /\ s \in Int /\ k' \in Nat
    BY CountsTyped, CountsTyped DEF Typed, TypedCounts, Taken
  <1>2. k' <= k /\ n' = n
    BY CountsTyped, <1>1 DEF Taken
  <1>3. Spaced(c, p)'
    <2>1. Spaced(c, p)
      BY DEF SlowInv
    <2>2. (n - 1) * SlowSecs \in Int
      BY <1>1, Multiples
    <2> QED
      BY <1>1, <2>1, <2>2 DEF Spaced
  <1>4. ASSUME slow'[c] > 0 PROVE Pace(c, p)'
    <2>1. Pace(c, p) /\ s' = s
      BY <1>4 DEF SlowInv
    <2>2. k * SlowSecs \in Int /\ k' * SlowSecs \in Int /\ (k - 1) * SlowSecs \in Int /\ (k' - 1) * SlowSecs \in Int
          /\ k' * SlowSecs <= k * SlowSecs /\ (k' - 1) * SlowSecs <= (k - 1) * SlowSecs
      <3> HIDE DEF k
      <3> QED
        BY <1>1, <1>2, Multiples
    <2> HIDE DEF k
    <2> QED
      BY <1>1, <2>1, <2>2 DEF Pace, k
  <1> QED
    BY <1>3, <1>4

(* A request is let through. *)
LEMMA BeginPace ==
  ASSUME Typed, Typed', SlowInv, NEW p \in Peers, NEW kind, NEW c \in Chans, BeginSend(p, kind, c)
  PROVE  SlowInv'
  <1>1. /\ clock' = clock /\ slow' = slow /\ paced' = paced /\ pc[p] = "idle"
        /\ pc' = [ pc EXCEPT ![p] = "sending" ]
        /\ loc' = [ loc EXCEPT ![p] = [ kind |-> kind, chan |-> c ] ]
        /\ slow[c] > 0 => Waited(p, c) /\ stamps' = [ stamps EXCEPT ![<<c, p>>] = clock ]
        /\ ~ slow[c] > 0 => stamps' = stamps
    BY DEF BeginSend, Stamp, Asks, Goto, world, history
  <1>2. /\ pc \in [ Peers -> Steps ] /\ loc = [ q \in Peers |-> loc[q] ]
        /\ stamps \in [ Chans \X Peers -> Int ]
    BY DEF Typed, TypedCounts, TypedControl
  <1> SUFFICES ASSUME NEW d \in Chans, NEW q \in Peers PROVE (slow'[d] > 0 => Pace(d, q)') /\ Spaced(d, q)'
    BY DEF SlowInv
  <1>3. Spaced(d, q)'
    BY <1>1 DEF SlowInv, Spaced
  <1>4. CASE d = c /\ q = p
    <2> SUFFICES ASSUME slow[c] > 0 PROVE Pace(c, p)'
      BY <1>1, <1>3, <1>4
    <2> DEFINE k == Taken(c, p)   s == stamps[<<c, p>>]
    <2>1. clock \in Nat /\ k \in Nat /\ s \in Int /\ slow[c] = SlowSecs
      BY CountsTyped
    <2>2. k' = k + 1
      BY <1>1, <1>2, CountsTyped DEF Taken, Paying
    <2>3. s' = clock /\ clock' = clock
      BY <1>1, <1>2
    <2>4. Pace(c, p) /\ (s = -1 \/ clock >= s + SlowSecs)
      BY <1>1, <2>1 DEF SlowInv, Waited
    <2>5. k * SlowSecs = (k - 1) * SlowSecs + SlowSecs /\ k * SlowSecs \in Int /\ (k - 1) * SlowSecs \in Int
      <3>1. k - 1 \in Int /\ k \in Int /\ (k - 1) + 1 = k
        BY <2>1
      <3> HIDE DEF k
      <3> QED
        BY <3>1, Multiples
    <2>6. k * SlowSecs <= clock
      <3> HIDE DEF k, s
      <3> QED
        BY <2>1, <2>4, <2>5, Multiples DEF Pace, k, s
    <2>7. k' - 1 = k
      BY <2>1, <2>2
    <2> HIDE DEF k, s
    <2> QED
      BY <2>1, <2>3, <2>6, <2>7 DEF Pace, k, s
  <1>5. CASE ~(d = c /\ q = p)
    <2>1. stamps'[<<d, q>>] = stamps[<<d, q>>]
      BY <1>1, <1>2, <1>5
    <2>2. Taken(d, q)' = Taken(d, q)
      BY <1>1, <1>2, <1>5 DEF Taken, Paying
    <2> QED
      BY <1>1, <1>3, <2>1, <2>2 DEF SlowInv, Pace
  <1> QED
    BY <1>4, <1>5

(* A message that was stamped is sent. *)
LEMMA SentPace ==
  ASSUME Typed, Typed', SlowInv, NEW p \in Peers, NEW c \in Chans, Paying(c, p), Finish(p), Paced(p, c),
         clock' = clock, slow' = slow, stamps' = stamps
  PROVE  SlowInv'
  <1>1. /\ pc' = [ pc EXCEPT ![p] = "idle" ] /\ loc' = [ loc EXCEPT ![p] = Nobody ]
        /\ paced' = IF slow[c] > 0 THEN [ paced EXCEPT ![<<c, p>>] = @ + 1 ] ELSE paced
    BY DEF Finish, Goto, Paced
  <1>2. /\ pc \in [ Peers -> Steps ] /\ loc = [ q \in Peers |-> loc[q] ]
        /\ paced \in [ Chans \X Peers -> Nat ]
    BY DEF Typed, TypedCounts, TypedControl
  <1> SUFFICES ASSUME NEW d \in Chans, NEW q \in Peers PROVE (slow'[d] > 0 => Pace(d, q)') /\ Spaced(d, q)'
    BY DEF SlowInv
  <1>3. CASE d = c /\ q = p /\ slow[c] > 0
    <2> DEFINE k == Taken(c, p)   s == stamps[<<c, p>>]   n == paced[<<c, p>>]
    <2>1. clock \in Nat /\ k \in Nat /\ s \in Int /\ n \in Nat /\ slow[c] = SlowSecs
      BY <1>3, CountsTyped
    <2>2. k = n + 1 /\ n' = n + 1 /\ k' = k
      <3>1. k = n + 1 /\ n' = n + 1 /\ ~Paying(c, p)'
        BY <1>1, <1>2, <1>3, <2>1 DEF Taken, Paying
      <3> QED
        BY <2>1, <3>1 DEF Taken
    <2>3. Pace(c, p)
      BY <1>3 DEF SlowInv
    <2>4. Pace(c, p)'
      BY <2>2, <2>3 DEF Pace
    <2>5. (k - 1) * SlowSecs <= clock
      <3>1. k * SlowSecs = (k - 1) * SlowSecs + SlowSecs /\ k * SlowSecs \in Int /\ (k - 1) * SlowSecs \in Int
        <4>1. k - 1 \in Int /\ k \in Int /\ (k - 1) + 1 = k
          BY <2>1
        <4> HIDE DEF k
        <4> QED
          BY <4>1, Multiples
      <3> HIDE DEF k, s
      <3> QED
        BY <2>1, <2>3, <3>1, Multiples DEF Pace, k, s
    <2>6. n' - 1 = k - 1 /\ SlowSecs > 0
      BY <1>3, <2>1, <2>2
    <2>7. Spaced(c, p)'
      <3> HIDE DEF k, n
      <3> QED
        BY <2>5, <2>6 DEF Spaced, n
    <2> QED
      BY <1>3, <2>4, <2>7
  <1>4. CASE d = c /\ q = p /\ ~ slow[c] > 0
    BY <1>1, <1>4 DEF SlowInv, Spaced
  <1>5. CASE ~(d = c /\ q = p)
    <2>1. paced'[<<d, q>>] = paced[<<d, q>>]
      BY <1>1, <1>2, <1>5
    <2>2. Paying(d, q)' => Paying(d, q)
      BY <1>1, <1>2 DEF Paying
    <2>3. CASE q # p
      <3>1. Taken(d, q)' = Taken(d, q)
        BY <1>1, <1>2, <2>1, <2>3 DEF Taken, Paying
      <3> QED
        BY <2>1, <3>1 DEF SlowInv, Pace, Spaced
    <2>4. CASE q = p
      <3>1. d # c /\ ~Paying(d, q)
        BY <1>5, <2>4 DEF Paying
      <3>2. Taken(d, q)' = Taken(d, q)
        BY <2>1, <2>2, <3>1 DEF Taken
      <3> QED
        BY <2>1, <3>2 DEF SlowInv, Pace, Spaced
    <2> QED
      BY <2>3, <2>4
  <1> QED
    BY <1>3, <1>4, <1>5

LEMMA CleanupPace == ASSUME Typed, Typed', SlowInv, Cleanup PROVE SlowInv'
  <1>1. /\ clock' = clock /\ slow' = slow /\ paced' = paced /\ pc' = pc /\ loc' = loc
        /\ \A cp \in DOMAIN stamps :
              stamps'[cp] = IF clock - stamps[cp] < StampLife THEN stamps[cp] ELSE -1
    BY DEF Cleanup, CleanupStamps, world, history, control
  <1> SUFFICES ASSUME NEW d \in Chans, NEW q \in Peers PROVE (slow'[d] > 0 => Pace(d, q)') /\ Spaced(d, q)'
    BY DEF SlowInv
  <1> DEFINE k == Taken(d, q)   s == stamps[<<d, q>>]
  <1>2. Spaced(d, q)' /\ k' = k
    BY <1>1 DEF SlowInv, Spaced, Taken, Paying
  <1>3. clock \in Nat /\ k \in Nat /\ s \in Int
    BY CountsTyped
  <1>4. s' = IF clock - s < StampLife THEN s ELSE -1
    BY <1>1 DEF Typed, TypedCounts
  <1>5. ASSUME Pace(d, q) PROVE Pace(d, q)'
    <2>1. k * SlowSecs = (k - 1) * SlowSecs + SlowSecs /\ k * SlowSecs \in Int /\ (k - 1) * SlowSecs \in Int
      <3>1. k - 1 \in Int /\ k \in Int /\ (k - 1) + 1 = k
        BY <1>3
      <3> HIDE DEF k
      <3> QED
        BY <3>1, Multiples
    <2> HIDE DEF k, s
    <2> QED
      BY <1>1, <1>2, <1>3, <1>4, <1>5, <2>1, Multiples DEF Pace, k, s
  <1> QED
    BY <1>1, <1>2, <1>5 DEF SlowInv

(* A handler goes on with the request it has, or with none that pays. *)
LEMMA GotoPaying ==
  ASSUME TypedControl, NEW p \in Peers, NEW step, NEW kept, Goto(p, step, kept),
         step \in { "sending", "budgeted", "numbered" } => pc[p] \in { "sending", "budgeted" }
                                                            /\ kept.chan = loc[p].chan
  PROVE  \A c \in Chans, q \in Peers : Paying(c, q)' => Paying(c, q)
  BY DEF TypedControl, Goto, Paying

LEMMA FinishPaying ==
  ASSUME TypedControl, NEW p \in Peers, Finish(p)
  PROVE  \A c \in Chans, q \in Peers : Paying(c, q)' => Paying(c, q)
  BY GotoPaying DEF Finish

LEMMA SamePaying ==
  ASSUME pc' = pc, loc' = loc
  PROVE  \A c \in Chans, q \in Peers : Paying(c, q)' => Paying(c, q)
  BY DEF Paying

LEMMA RequestPace ==
  ASSUME Typed, Typed', SlowInv, NEW p \in Peers, Request(p)
  PROVE  SlowInv'
  <1> USE DEF memVars, idVars, control, background, world, history
  <1>0. TypedControl /\ clock \in Nat /\ clock' \in Nat
    BY DEF Typed, TypedCounts
  <1>1. CASE \E c \in mix.chans : BeginText(p, c) \/ BeginUpload(p, c) \/ BeginVoiceNote(p, c)
    BY <1>1, BeginPace, ChansInMix DEF BeginText, BeginUpload, BeginVoiceNote, Typed, TypedCounts
  <1>2. CASE StoreMessage(p)
    <2>1. loc[p].chan \in Chans /\ Paying(loc[p].chan, p)
      BY <1>2 DEF StoreMessage, Paying, Typed, TypedControl, TypedHandler
    <2> QED
      BY <1>2, <2>1, SentPace DEF StoreMessage
  <1>3. CASE SendVoiceNote(p)
    <2>1. loc[p].chan \in Chans /\ Paying(loc[p].chan, p)
      BY <1>3 DEF SendVoiceNote, Paying, Typed, TypedControl, TypedHandler
    <2> QED
      BY <1>3, <2>1, SentPace DEF SendVoiceNote
  <1>4. CASE SendRefused(p) \/ GiveUpBlob(p) \/ StoreForward(p)
    BY <1>0, <1>4, FinishPaying, PaceCalm DEF SendRefused, GiveUpBlob, StoreForward
  <1>5. CASE ResolveText(p) \/ CheckBudget(p) \/ InsertBlob(p)
    <2>1. \A c \in Chans, q \in Peers : Paying(c, q)' => Paying(c, q)
      BY <1>0, <1>5, GotoPaying DEF ResolveText, CheckBudget, InsertBlob
    <2> QED
      BY <1>0, <1>5, <2>1, PaceCalm DEF ResolveText, CheckBudget, InsertBlob
  <1>6. CASE OnMessage(p)
    <2>1. /\ UNCHANGED << slow, stamps, clock, paced >>
          /\ \/ pc' = pc /\ loc' = loc
             \/ \E kept : Goto(p, "forwarding", kept)
      <3>0. PICK c \in Chans : \E id \in IdsIn(c) :
               \/ EditText(p, c, id) \/ (\E pinned \in BOOLEAN : Pin(p, c, id, pinned))
               \/ DeleteText(p, c, id) \/ React(p, c, id) \/ MarkRead(p, c, id)
               \/ \E target \in mix.chans : BeginForward(p, c, id, target)
        BY <1>6 DEF OnMessage
      <3>1. PICK id \in IdsIn(c) :
               \/ EditText(p, c, id) \/ (\E pinned \in BOOLEAN : Pin(p, c, id, pinned))
               \/ DeleteText(p, c, id) \/ React(p, c, id) \/ MarkRead(p, c, id)
               \/ \E target \in mix.chans : BeginForward(p, c, id, target)
        BY <3>0
      <3>2. CASE EditText(p, c, id) \/ \E pinned \in BOOLEAN : Pin(p, c, id, pinned)
        BY <3>2 DEF EditText, Pin
      <3>3. CASE DeleteText(p, c, id) \/ React(p, c, id) \/ MarkRead(p, c, id)
        BY <3>3 DEF DeleteText, React, MarkRead
      <3>4. CASE \E target \in mix.chans : BeginForward(p, c, id, target)
        BY <3>4 DEF BeginForward
      <3> QED
        BY <3>1, <3>2, <3>3, <3>4
    <2>2. \A c \in Chans, q \in Peers : Paying(c, q)' => Paying(c, q)
      BY <1>0, <2>1, GotoPaying, SamePaying
    <2> QED
      BY <1>0, <2>1, <2>2, PaceCalm
  <1>7. CASE CreateChannel(p) \/ Scheduling(p)
    <2>1. clock' = clock /\ paced' = paced /\ slow' = slow /\ stamps' = stamps /\ pc' = pc /\ loc' = loc
      BY <1>7 DEF CreateChannel, Scheduling, Schedule, CancelScheduled
    <2> QED
      BY <1>0, <2>1, SamePaying, PaceCalm
  <1>8. CASE \E c \in mix.chans : DeleteChannel(p, c)
    <2>1. PICK c \in Chans : DeleteChannel(p, c)
      BY <1>8, ChansInMix DEF Typed, TypedCounts
    <2>2. \A d \in Chans : slow'[d] > 0 => slow[d] > 0
      BY <2>1 DEF DeleteChannel, Typed, TypedCounts
    <2> QED
      BY <1>0, <2>1, <2>2, SamePaying, PaceCalm DEF DeleteChannel
  <1>9. CASE Conversation(p)
    <2>1. /\ UNCHANGED << slow, stamps, clock, paced >>
          /\ \/ pc' = pc /\ loc' = loc
             \/ \E step \in { "idle", "direct", "toggle", "newGroup", "group" } : \E kept : Goto(p, step, kept)
      <3>1. CASE StoreDirect(p) \/ ToggleReaction(p) \/ StoreGroup(p) \/ StoreGroupMessage(p)
        BY <3>1 DEF StoreDirect, ToggleReaction, StoreGroup, StoreGroupMessage, Finish
      <3>2. CASE \/ \E q \in Peers : BeginDirect(p, q)
                 \/ \E id \in 1 .. mix.ids : EditDirect(p, id) \/ DeleteDirect(p, id) \/ ProbeReaction(p, id)
                 \/ \E others \in SUBSET (Peers \ {p}) : BeginGroup(p, others)
                 \/ \E g \in 1 .. mix.ids : BeginGroupSend(p, g)
        BY <3>2 DEF BeginDirect, EditDirect, DeleteDirect, ProbeReaction, BeginGroup, BeginGroupSend
      <3> QED
        BY <1>9, <3>1, <3>2 DEF Conversation
    <2>2. \A c \in Chans, q \in Peers : Paying(c, q)' => Paying(c, q)
      BY <1>0, <2>1, GotoPaying, SamePaying
    <2> QED
      BY <1>0, <2>1, <2>2, PaceCalm
  <1> QED
    BY <1>1, <1>2, <1>3, <1>4, <1>5, <1>6, <1>7, <1>8, <1>9 DEF Request, Send, OnChannel

LEMMA SlowStep == ASSUME Typed, Typed', SlowInv, Next PROVE SlowInv'
  <1> USE DEF memVars, idVars, control, background, world, history
  <1>0. clock \in Nat /\ clock' \in Nat
    BY DEF Typed, TypedCounts
  <1>1. CASE FetchDue \/ (\E r \in due : Deliver(r)) \/ SweepRows \/ SweepMemory
    BY <1>0, <1>1, SamePaying, PaceCalm DEF FetchDue, Deliver, SweepRows, SweepMemory
  <1>2. CASE \E t \in tasks : RunTask(t)
    BY <1>0, <1>2, SamePaying, PaceCalm DEF RunTask
  <1>3. CASE Tick
    BY <1>0, <1>3, SamePaying, PaceCalm DEF Tick
  <1>4. CASE Crash
    <2>1. \A c \in Chans, q \in Peers : Paying(c, q)' => Paying(c, q)
      BY <1>4 DEF Crash, Paying
    <2>2. clock' = clock /\ paced' = paced /\ \A c \in Chans : slow'[c] = 0
      BY <1>4 DEF Crash
    <2>3. \A c \in Chans : ~ slow'[c] > 0
      BY <2>2
    <2> QED
      BY <1>0, <2>1, <2>2, <2>3, PaceCalm
  <1> QED
    BY <1>1, <1>2, <1>3, <1>4, RequestPace, CleanupPace DEF Next, Server

LEMMA SlowInvariant == Spec => []SlowInv
  <1>1. Init => SlowInv
    <2> SUFFICES ASSUME Init, NEW c \in Chans, NEW p \in Peers PROVE Pace(c, p) /\ Spaced(c, p)
      BY DEF SlowInv
    <2>1. stamps[<<c, p>>] = -1 /\ paced[<<c, p>>] = 0 /\ clock = 0 /\ ~Paying(c, p)
      BY DEF Init, Paying
    <2>2. SlowSecs \in Nat
      BY Multiples
    <2> QED
      BY <2>1, <2>2 DEF Pace, Spaced, Taken
  <1>2. ASSUME Typed, Typed', SlowInv, UNCHANGED vars PROVE SlowInv'
    <2>1. clock' = clock /\ paced' = paced /\ slow' = slow /\ stamps' = stamps /\ pc' = pc /\ loc' = loc
      BY <1>2 DEF vars, memVars, control, world, history
    <2> QED
      BY <1>2, <2>1 DEF SlowInv, Pace, Spaced, Taken, Paying
  <1> QED
    BY TypedInvariant, <1>1, <1>2, SlowStep, PTL DEF Spec

(* A connection sends no more under slow mode than its seconds allow.      *)
THEOREM SlowModeHolds == Spec => []SlowModePaces
  <1>1. ASSUME Typed, SlowInv PROVE SlowModePaces
    <2> SUFFICES ASSUME NEW c \in Chans, NEW p \in Peers, paced[<<c, p>>] > 0
                 PROVE  paced[<<c, p>>] <= 1 + clock \div SlowSecs
      BY DEF SlowModePaces
    <2> DEFINE n == paced[<<c, p>>]
    <2>1. n \in Nat /\ clock \in Nat /\ SlowSecs \in Nat
      BY <1>1, CountsTyped, Multiples
    <2>2. SlowSecs > 0 /\ (n - 1) * SlowSecs <= clock
      BY <1>1 DEF SlowInv, Spaced
    <2>3. n - 1 <= clock \div SlowSecs
      <3> DEFINE d == clock \div SlowSecs
      <3>1. d \in Int /\ clock < (d + 1) * SlowSecs
        BY <2>1, <2>2
      <3>2. ~ (d + 1 <= n - 1)
        <4> HIDE DEF d, n
        <4>1. SUFFICES ASSUME d + 1 <= n - 1 PROVE FALSE
          OBVIOUS
        <4>2. (d + 1) * SlowSecs <= (n - 1) * SlowSecs /\ (d + 1) * SlowSecs \in Int /\ (n - 1) * SlowSecs \in Int
          BY <2>1, <3>1, <4>1, Multiples
        <4> QED
          BY <2>1, <2>2, <3>1, <4>2
      <3>3. n - 1 <= d
        <4> HIDE DEF d, n
        <4> QED
          BY <2>1, <3>1, <3>2
      <3> QED
        BY <3>3
    <2> HIDE DEF n
    <2> QED
      BY <2>1, <2>2, <2>3 DEF n
  <1> QED
    BY TypedInvariant, SlowInvariant, <1>1, PTL

-----------------------------------------------------------------------------
(* Ids.  An id that was given out is carried by the handler that took it,  *)
(* then it is that of one message in memory, and of a row, or a save that  *)
(* will be one; a deletion that is under way is of none in memory.         *)

Gone == { t.args : t \in { t \in tasks : t.op = "DeleteMessage" } }

Known == db.messages \cup Saves

Carriers == { p \in Peers : pc[p] \in { "numbered", "forwarding" } }

Agree(c, m, r) == r.chan = c /\ r.sender = m.sender /\ r.ts = m.ts

(* A message m in the memory of c, below the next id n. *)
Letter(c, m, n, gone, known, blobs) ==
    /\ m.id \in 1 .. n - 1 /\ m.att < n
    /\ m.id \notin gone
    /\ \A r \in known : r.id = m.id => Agree(c, m, r)
    /\ m.att = m.id => m.att \in blobs

(* A row, or a save under way. *)
Record(r, n, blobs) ==
    /\ r.id \in 1 .. n - 1 /\ r.att \in {0, r.id}
    /\ r.att = r.id => r.att \in blobs

Once(memory) ==
    \A c, d \in Chans : \A i \in DOMAIN memory[c], j \in DOMAIN memory[d] :
        memory[c][i].id = memory[d][j].id => c = d /\ i = j

(* Nobody has heard of this id. *)
Unknown(id, memory, gone, known) ==
    /\ \A c \in Chans : \A i \in DOMAIN memory[c] : memory[c][i].id # id
    /\ \A r \in known : r.id # id
    /\ id \notin gone

(* A message that a handler carries. *)
Carried(m, step, n, blobs) ==
    /\ m.id \in 1 .. n - 1
    /\ m.att = m.id => m.att \in blobs
    /\ step = "numbered" => m.att \in {0, m.id}
    /\ step = "forwarding" => m.att < m.id

IdInv ==
    /\ Once(mem)
    /\ \A c \in Chans : \A i \in DOMAIN mem[c] : Letter(c, mem[c][i], nextId, Gone, Known, db.attachments)
    /\ \A r \in Known : Record(r, nextId, db.attachments)
    /\ \A id \in Gone : id \in 1 .. nextId - 1
    /\ \A p \in Carriers :
          /\ Carried(loc[p].msg, pc[p], nextId, db.attachments)
          /\ Unknown(loc[p].msg.id, mem, Gone, Known)
          /\ \A q \in Carriers : loc[p].msg.id = loc[q].msg.id => p = q

-----------------------------------------------------------------------------
AlikeRow(r, s) == r.id = s.id /\ r.chan = s.chan /\ r.sender = s.sender /\ r.ts = s.ts /\ r.att = s.att

(* No message, row or deletion is new, and no attachment is gone. *)
Mild ==
    /\ nextId' >= nextId
    /\ \A c \in Chans : \A i \in DOMAIN mem'[c] : \E j \in DOMAIN mem[c] : Alike(mem[c][j], mem'[c][i])
    /\ Once(mem')
    /\ \A r \in Known' : \E s \in Known : AlikeRow(s, r)
    /\ Gone' \subseteq Gone
    /\ db.attachments \subseteq db'.attachments

KeepsCarried(p) == p \in Carriers /\ pc'[p] = pc[p] /\ loc'[p].msg = loc[p].msg

LEMMA Farther == ASSUME NEW n \in Nat, NEW k \in Nat, k >= n, NEW x \in 1 .. n - 1 PROVE x \in 1 .. k - 1
  OBVIOUS

LEMMA LetterLater ==
  ASSUME NEW n \in Nat, NEW n2 \in Nat, n2 >= n, NEW gone, NEW gone2, NEW known, NEW known2,
         NEW blobs, NEW blobs2, blobs \subseteq blobs2,
         NEW c, NEW k \in Posts, NEW m, Alike(k, m), Letter(c, k, n, gone, known, blobs),
         m.id \notin gone2,
         \A r \in known2 : r.id = m.id => \E s \in known : AlikeRow(s, r)
  PROVE  Letter(c, m, n2, gone2, known2, blobs2)
  <1>1. m.id = k.id /\ m.att = k.att /\ m.sender = k.sender /\ m.ts = k.ts
    BY DEF Alike
  <1>2. m.id \in 1 .. n2 - 1
    BY <1>1, Farther DEF Letter
  <1>3. m.att < n2
    <2>1. k.att \in Nat /\ k.att < n
      BY DEF Letter, Posts
    <2> QED
      BY <1>1, <2>1
  <1>4. ASSUME NEW r \in known2, r.id = m.id PROVE Agree(c, m, r)
    <2>1. PICK s \in known : AlikeRow(s, r)
      BY <1>4
    <2>2. Agree(c, k, s)
      BY <1>1, <1>4, <2>1 DEF AlikeRow, Letter
    <2> QED
      BY <1>1, <2>1, <2>2 DEF Agree, AlikeRow
  <1>5. m.att = m.id => m.att \in blobs2
    BY <1>1 DEF Letter
  <1> QED
    BY <1>2, <1>3, <1>4, <1>5 DEF Letter

LEMMA RecordLater ==
  ASSUME NEW n \in Nat, NEW n2 \in Nat, n2 >= n, NEW blobs, NEW blobs2, blobs \subseteq blobs2,
         NEW r, NEW s, AlikeRow(s, r), Record(s, n, blobs)
  PROVE  Record(r, n2, blobs2)
  BY Farther DEF AlikeRow, Record

LEMMA CarriedLater ==
  ASSUME NEW n \in Nat, NEW n2 \in Nat, n2 >= n, NEW blobs, NEW blobs2, blobs \subseteq blobs2,
         NEW m, NEW step, Carried(m, step, n, blobs)
  PROVE  Carried(m, step, n2, blobs2)
  BY Farther DEF Carried

LEMMA UnknownLater == ASSUME Mild, NEW x, Unknown(x, mem, Gone, Known) PROVE Unknown(x, mem', Gone', Known')
  BY DEF Mild, Unknown, Alike, AlikeRow

LEMMA IdsGrow == ASSUME Typed, Typed', Mild PROVE nextId \in Nat /\ nextId' \in Nat /\ nextId' >= nextId
  BY DEF Typed, TypedCounts, Mild

(* All but the carriers is as it must be after such a step. *)
LEMMA MildBase ==
  ASSUME Typed, Typed', IdInv, Mild
  PROVE  /\ Once(mem')
         /\ \A c \in Chans : \A i \in DOMAIN mem'[c] :
               Letter(c, mem'[c][i], nextId', Gone', Known', db'.attachments)
         /\ \A r \in Known' : Record(r, nextId', db'.attachments)
         /\ \A x \in Gone' : x \in 1 .. nextId' - 1
  <1>1. ASSUME NEW c \in Chans, NEW i \in DOMAIN mem'[c]
        PROVE  Letter(c, mem'[c][i], nextId', Gone', Known', db'.attachments)
    <2>1. PICK j \in DOMAIN mem[c] : Alike(mem[c][j], mem'[c][i])
      BY DEF Mild
    <2>2. Letter(c, mem[c][j], nextId, Gone, Known, db.attachments) /\ mem[c][j] \in Posts
      BY LettersTyped DEF IdInv, Typed
    <2>3. mem'[c][i].id \notin Gone'
      BY <2>1, <2>2 DEF Mild, Letter, Alike
    <2> QED
      BY <2>1, <2>2, <2>3, IdsGrow, LetterLater DEF Mild
  <1>2. ASSUME NEW r \in Known' PROVE Record(r, nextId', db'.attachments)
    <2>1. PICK s \in Known : AlikeRow(s, r)
      BY DEF Mild
    <2> QED
      BY <2>1, IdsGrow, RecordLater DEF IdInv, Mild
  <1>3. ASSUME NEW x \in Gone' PROVE x \in 1 .. nextId' - 1
    BY IdsGrow, Farther DEF IdInv, Mild
  <1> QED
    BY <1>1, <1>2, <1>3 DEF Mild

LEMMA MildCarrier ==
  ASSUME Typed, Typed', IdInv, Mild, NEW p \in Carriers', KeepsCarried(p)
  PROVE  /\ Carried(loc'[p].msg, pc'[p], nextId', db'.attachments)
         /\ Unknown(loc'[p].msg.id, mem', Gone', Known')
  <1>1. Carried(loc[p].msg, pc[p], nextId, db.attachments) /\ Unknown(loc[p].msg.id, mem, Gone, Known)
    BY DEF IdInv, KeepsCarried
  <1>2. Carried(loc[p].msg, pc[p], nextId', db'.attachments)
    BY <1>1, IdsGrow, CarriedLater DEF Mild
  <1>3. Unknown(loc[p].msg.id, mem', Gone', Known')
    BY <1>1, UnknownLater
  <1> QED
    BY <1>2, <1>3 DEF KeepsCarried

LEMMA MildStep ==
  ASSUME Typed, Typed', IdInv, Mild, \A p \in Carriers' : KeepsCarried(p)
  PROVE  IdInv'
  <1>1. \A p, q \in Carriers' : loc'[p].msg.id = loc'[q].msg.id => p = q
    BY DEF KeepsCarried, IdInv
  <1> QED
    BY <1>1, MildBase, MildCarrier DEF IdInv

(* A handler takes an id. *)
LEMMA TakeStep ==
  ASSUME Typed, Typed', IdInv, Mild, nextId' = nextId + 1, NEW p \in Peers, p \in Carriers',
         loc'[p].msg.id = nextId,
         Carried(loc'[p].msg, pc'[p], nextId', db'.attachments),
         \A q \in Carriers' \ {p} : KeepsCarried(q)
  PROVE  IdInv'
  <1>0. nextId \in Nat
    BY DEF Typed, TypedCounts
  <1>1. Unknown(nextId, mem, Gone, Known)
    BY <1>0 DEF Unknown, IdInv, Letter, Record
  <1>2. Unknown(nextId, mem', Gone', Known')
    BY <1>1, UnknownLater
  <1>3. ASSUME NEW q \in Carriers' \ {p} PROVE loc'[q].msg.id # nextId
    <2>1. loc[q].msg.id \in 1 .. nextId - 1 /\ loc'[q].msg = loc[q].msg
      BY DEF IdInv, Carried, KeepsCarried
    <2> QED
      BY <1>0, <2>1
  <1>4. \A q, r \in Carriers' : loc'[q].msg.id = loc'[r].msg.id => q = r
    BY <1>3 DEF KeepsCarried, IdInv
  <1>5. \A q \in Carriers' : /\ Carried(loc'[q].msg, pc'[q], nextId', db'.attachments)
                             /\ Unknown(loc'[q].msg.id, mem', Gone', Known')
    BY <1>2, MildCarrier
  <1> QED
    BY <1>4, <1>5, MildBase DEF IdInv

(* What a queue is after a message was pushed. *)
LEMMA PushQueue ==
  ASSUME TypedMem, NEW c \in Chans, NEW m \in Posts, Push(c, m)
  PROVE  /\ \A d \in Chans \ {c} : mem'[d] = mem[d]
         /\ \E n \in Nat, k \in {0, 1} :
               /\ DOMAIN mem'[c] = 1 .. n + 1 /\ mem'[c][n + 1] = m
               /\ \A i \in 1 .. n : i + k \in DOMAIN mem[c] /\ mem'[c][i] = mem[c][i + k]
  <1> DEFINE q == mem[c]
             r == IF Len(q) < MaxMessages THEN Append(q, m) ELSE Append(Tail(q), m)
  <1>1. q \in Seq(Posts) /\ MaxMessages \in Nat \ {0}
    BY ChatAssumption DEF TypedMem, ChatAssumption
  <1>2. mem' = [ mem EXCEPT ![c] = r ]
    BY DEF Push
  <1>3. mem'[c] = r /\ \A d \in Chans \ {c} : mem'[d] = mem[d]
    <2> HIDE DEF r
    <2> QED
      BY <1>2 DEF TypedMem
  <1>4. \E n \in Nat, k \in {0, 1} :
               /\ DOMAIN r = 1 .. n + 1 /\ r[n + 1] = m
               /\ \A i \in 1 .. n : i + k \in DOMAIN q /\ r[i] = q[i + k]
    <2> HIDE DEF q
    <2>1. CASE Len(q) < MaxMessages
      <3>1. /\ Len(q) \in Nat /\ DOMAIN Append(q, m) = 1 .. Len(q) + 1 /\ Append(q, m)[Len(q) + 1] = m
            /\ \A i \in 1 .. Len(q) : i + 0 \in DOMAIN q /\ Append(q, m)[i] = q[i + 0]
        BY <1>1
      <3>2. r = Append(q, m)
        BY <2>1
      <3> HIDE DEF r
      <3> QED
        BY <3>1, <3>2
    <2>2. CASE ~ Len(q) < MaxMessages
      <3> DEFINE n == Len(q) - 1
      <3>0. q # << >> /\ n \in Nat /\ Len(Tail(q)) = n /\ Tail(q) \in Seq(Posts)
            /\ \A i \in 1 .. n : Tail(q)[i] = q[i + 1]
        BY <1>1, <2>2
      <3>1. /\ DOMAIN Append(Tail(q), m) = 1 .. n + 1 /\ Append(Tail(q), m)[n + 1] = m
            /\ \A i \in 1 .. n : i + 1 \in DOMAIN q /\ Append(Tail(q), m)[i] = q[i + 1]
        BY <1>1, <3>0
      <3>2. r = Append(Tail(q), m)
        BY <2>2
      <3> HIDE DEF r, n
      <3> QED
        BY <3>0, <3>1, <3>2
    <2> QED
      BY <2>1, <2>2
  <1> HIDE DEF r
  <1> QED
    BY <1>3, <1>4

LEMMA PushedLetters ==
  ASSUME TypedMem, NEW c \in Chans, NEW m \in Posts, Push(c, m)
  PROVE  /\ \A d \in Chans : \A i \in DOMAIN mem'[d] :
               (d = c /\ mem'[d][i] = m) \/ \E j \in DOMAIN mem[d] : mem'[d][i] = mem[d][j]
         /\ Once(mem) /\ (\A d \in Chans : \A i \in DOMAIN mem[d] : mem[d][i].id # m.id) => Once(mem')
  <1>1. \A d \in Chans \ {c} : mem'[d] = mem[d]
    BY PushQueue
  <1>2. PICK n \in Nat, k \in {0, 1} :
               /\ DOMAIN mem'[c] = 1 .. n + 1 /\ mem'[c][n + 1] = m
               /\ \A i \in 1 .. n : i + k \in DOMAIN mem[c] /\ mem'[c][i] = mem[c][i + k]
    BY PushQueue
  <1>3. \A i \in DOMAIN mem'[c] : i = n + 1 \/ i \in 1 .. n
    BY <1>2
  <1>4. \A d \in Chans : \A i \in DOMAIN mem'[d] :
               (d = c /\ mem'[d][i] = m) \/ \E j \in DOMAIN mem[d] : mem'[d][i] = mem[d][j]
    BY <1>1, <1>2, <1>3
  <1>5. ASSUME Once(mem), \A d \in Chans : \A i \in DOMAIN mem[d] : mem[d][i].id # m.id,
               NEW d \in Chans, NEW e \in Chans, NEW i \in DOMAIN mem'[d], NEW j \in DOMAIN mem'[e],
               mem'[d][i].id = mem'[e][j].id
        PROVE  d = e /\ i = j
    <2>1. CASE d # c /\ e # c
      BY <1>1, <1>5, <2>1 DEF Once
    <2>2. CASE d = c /\ e # c
      <3>1. mem'[e][j] = mem[e][j] /\ j \in DOMAIN mem[e]
        BY <1>1, <2>2
      <3>2. i \in 1 .. n
        BY <1>2, <1>3, <1>5, <2>2, <3>1
      <3> QED
        BY <1>2, <1>5, <2>2, <3>1, <3>2 DEF Once
    <2>3. CASE d # c /\ e = c
      <3>1. mem'[d][i] = mem[d][i] /\ i \in DOMAIN mem[d]
        BY <1>1, <2>3
      <3>2. j \in 1 .. n
        BY <1>2, <1>3, <1>5, <2>3, <3>1
      <3> QED
        BY <1>2, <1>5, <2>3, <3>1, <3>2 DEF Once
    <2>4. CASE d = c /\ e = c
      <3>1. CASE i = n + 1 /\ j = n + 1
        BY <2>4, <3>1
      <3>2. CASE i \in 1 .. n /\ j \in 1 .. n
        <4>1. i + k = j + k
          BY <1>2, <1>5, <2>4, <3>2 DEF Once
        <4> QED
          BY <2>4, <3>2, <4>1
      <3>3. CASE i = n + 1 /\ j \in 1 .. n
        BY <1>2, <1>5, <2>4, <3>3
      <3>4. CASE i \in 1 .. n /\ j = n + 1
        BY <1>2, <1>5, <2>4, <3>4
      <3> QED
        BY <1>3, <2>4, <3>1, <3>2, <3>3, <3>4
    <2> QED
      BY <2>1, <2>2, <2>3, <2>4
  <1> QED
    BY <1>4, <1>5 DEF Once

(* A message that nobody else has heard of goes into memory, and a task is *)
(* to save it.                                                             *)
LEMMA PostStep ==
  ASSUME Typed, Typed', IdInv, NEW c \in Chans, NEW m \in Posts, Push(c, m), NEW row \in Rows,
         row.id = m.id, Agree(c, m, row), row.att \in {0, m.id}, row.att = m.id => m.att = m.id,
         m.id \in 1 .. nextId' - 1, m.att < nextId',
         m.att = m.id => m.att \in db.attachments,
         Unknown(m.id, mem, Gone, Known),
         Known' = Known \cup {row}, Gone' = Gone, nextId' >= nextId, db' = db,
         \A p \in Carriers' : KeepsCarried(p) /\ loc[p].msg.id # m.id
  PROVE  IdInv'
  <1>1. nextId \in Nat /\ nextId' \in Nat
    BY DEF Typed, TypedCounts
  <1>2. Once(mem')
    BY PushedLetters DEF IdInv, Typed, Unknown
  <1>3. ASSUME NEW d \in Chans, NEW i \in DOMAIN mem'[d]
        PROVE  Letter(d, mem'[d][i], nextId', Gone', Known', db'.attachments)
    <2>1. CASE d = c /\ mem'[d][i] = m
      <3>1. \A r \in Known' : r.id = m.id => Agree(c, m, r)
        BY DEF Unknown
      <3> QED
        BY <2>1, <3>1 DEF Letter, Unknown
    <2>2. CASE \E j \in DOMAIN mem[d] : mem'[d][i] = mem[d][j]
      <3>1. PICK j \in DOMAIN mem[d] : mem'[d][i] = mem[d][j]
        BY <2>2
      <3> DEFINE k == mem[d][j]
      <3>2. Letter(d, k, nextId, Gone, Known, db.attachments) /\ k \in Posts /\ k.id # m.id
        BY LettersTyped DEF IdInv, Typed, Unknown
      <3>3. k.id \notin Gone' /\ Alike(k, k)
        BY <3>2 DEF Letter, Alike
      <3>4. \A r \in Known' : r.id = k.id => \E s \in Known : AlikeRow(s, r)
        BY <3>2 DEF AlikeRow
      <3> HIDE DEF k
      <3>5. Letter(d, k, nextId', Gone', Known', db'.attachments)
        BY <1>1, <3>2, <3>3, <3>4, LetterLater
      <3> QED
        BY <3>1, <3>5 DEF k
    <2> QED
      BY <2>1, <2>2, PushedLetters DEF Typed
  <1>4. ASSUME NEW r \in Known' PROVE Record(r, nextId', db'.attachments)
    <2>1. CASE r = row
      BY <2>1 DEF Record
    <2>2. CASE r \in Known
      <3>1. Record(r, nextId, db.attachments) /\ AlikeRow(r, r)
        BY <2>2 DEF IdInv, AlikeRow
      <3> QED
        BY <1>1, <3>1, RecordLater
    <2> QED
      BY <2>1, <2>2
  <1>5. \A x \in Gone' : x \in 1 .. nextId' - 1
    BY <1>1, Farther DEF IdInv
  <1>6. ASSUME NEW p \in Carriers'
        PROVE  /\ Carried(loc'[p].msg, pc'[p], nextId', db'.attachments)
               /\ Unknown(loc'[p].msg.id, mem', Gone', Known')
    <2> DEFINE x == loc[p].msg
    <2>1. Carried(x, pc[p], nextId, db.attachments) /\ Unknown(x.id, mem, Gone, Known) /\ x.id # m.id
      BY DEF IdInv, KeepsCarried
    <2>2. pc'[p] = pc[p] /\ loc'[p].msg = x
      BY DEF KeepsCarried
    <2> HIDE DEF x
    <2>3. Carried(x, pc[p], nextId', db'.attachments)
      BY <1>1, <2>1, CarriedLater
    <2>4. \A d \in Chans : \A i \in DOMAIN mem'[d] : mem'[d][i].id # x.id
      BY <2>1, PushedLetters DEF Unknown, Typed
    <2>5. Unknown(x.id, mem', Gone', Known')
      BY <2>1, <2>4 DEF Unknown
    <2> QED
      BY <2>2, <2>3, <2>5
  <1>7. \A p, q \in Carriers' : loc'[p].msg.id = loc'[q].msg.id => p = q
    BY DEF KeepsCarried, IdInv
  <1> QED
    BY <1>2, <1>3, <1>4, <1>5, <1>6, <1>7 DEF IdInv

(* Memories with no message of their own. *)
Derived == \A c \in Chans : \A i \in DOMAIN mem'[c] : \E j \in DOMAIN mem[c] : Alike(mem[c][j], mem'[c][i])

LEMMA OnceStill ==
  ASSUME Once(mem), Derived,
         \A c \in Chans : \A i, j \in DOMAIN mem'[c] : mem'[c][i].id = mem'[c][j].id => i = j
  PROVE  Once(mem')
  BY DEF Once, Derived, Alike

LEMMA SameMemory == ASSUME Once(mem), mem' = mem PROVE Derived /\ Once(mem')
  BY DEF Derived, Alike

LEMMA RewordedMemory ==
  ASSUME Once(mem), NEW c \in Chans, Reworded(c)
  PROVE  Derived /\ Once(mem')
  <1>1. \A d \in Chans : DOMAIN mem'[d] = DOMAIN mem[d] /\ \A i \in DOMAIN mem[d] : Alike(mem[d][i], mem'[d][i])
    BY DEF Reworded, Alike
  <1>2. Derived
    BY <1>1 DEF Derived
  <1>3. \A d \in Chans : \A i, j \in DOMAIN mem'[d] : mem'[d][i].id = mem'[d][j].id => i = j
    BY <1>1 DEF Alike, Once
  <1> QED
    BY <1>2, <1>3, OnceStill

LEMMA ThinnedMemory ==
  ASSUME TypedMem, Once(mem),
         \A c \in Chans : \/ mem'[c] = mem[c]
                          \/ mem'[c] = << >>
                          \/ \E places \in SUBSET DOMAIN mem[c] : mem'[c] = Retained(mem[c], places)
  PROVE  Derived /\ Once(mem')
  <1>1. ASSUME NEW c \in Chans
        PROVE  /\ \A i \in DOMAIN mem'[c] : \E j \in DOMAIN mem[c] : mem'[c][i] = mem[c][j]
               /\ \A i, j \in DOMAIN mem'[c] : mem'[c][i].id = mem'[c][j].id => i = j
    <2>0. mem[c] \in Seq(Posts) /\ \A i, j \in DOMAIN mem[c] : mem[c][i].id = mem[c][j].id => i = j
      BY DEF TypedMem, Once
    <2>1. CASE mem'[c] = mem[c]
      BY <2>0, <2>1
    <2>2. CASE mem'[c] = << >>
      BY <2>2
    <2>3. CASE \E places \in SUBSET DOMAIN mem[c] : mem'[c] = Retained(mem[c], places)
      <3>1. PICK places \in SUBSET DOMAIN mem[c] : mem'[c] = Retained(mem[c], places)
        BY <2>3
      <3> DEFINE q == mem[c]   r == Retained(mem[c], places)
      <3>2. /\ \A i \in DOMAIN r : \E k \in places : r[i] = q[k]
            /\ \A i, j \in DOMAIN r : r[i].id = r[j].id => i = j
        <4> HIDE DEF q
        <4>1. q \in Seq(Posts) /\ (\A i, j \in DOMAIN q : q[i].id = q[j].id => i = j) /\ places \subseteq DOMAIN q
          BY <2>0 DEF q
        <4> HIDE DEF r
        <4>2. r = Retained(q, places)
          BY DEF q, r
        <4> QED
          BY <4>1, <4>2, RetainedPlaces
      <3> HIDE DEF r
      <3>3. mem'[c] = r
        BY <3>1 DEF r
      <3> QED
        BY <3>2, <3>3
    <2> QED
      BY <2>1, <2>2, <2>3
  <1>2. Derived
    BY <1>1 DEF Derived, Alike
  <1> QED
    BY <1>1, <1>2, OnceStill

-----------------------------------------------------------------------------
(* A message is deleted from memory: its id is nowhere in it any more.     *)
LEMMA DeletedMemory ==
  ASSUME TypedMem, Once(mem), NEW c \in Chans, NEW id \in IdsIn(c),
         mem' = [ mem EXCEPT ![c] = Retained(mem[c], DOMAIN mem[c] \ {Place(c, id)}) ]
  PROVE  /\ Derived /\ Once(mem')
         /\ \A d \in Chans : \A i \in DOMAIN mem'[d] : mem'[d][i].id # id
  <1> DEFINE places == DOMAIN mem[c] \ {Place(c, id)}
  <1>1. mem'[c] = Retained(mem[c], places) /\ \A d \in Chans \ {c} : mem'[d] = mem[d]
    BY DEF TypedMem
  <1>2. Derived /\ Once(mem')
    BY <1>1, ThinnedMemory
  <1>3. Place(c, id) \in DOMAIN mem[c] /\ mem[c][Place(c, id)].id = id
    BY LettersTyped
  <1>4. \A i \in DOMAIN mem'[c] : \E k \in places : mem'[c][i] = mem[c][k]
    <2>1. mem[c] \in Seq(Posts)
      BY LettersTyped
    <2> QED
      BY <1>1, <2>1, RetainedPlaces
  <1>5. ASSUME NEW i \in DOMAIN mem'[c] PROVE mem'[c][i].id # id
    <2>1. PICK k \in places : mem'[c][i] = mem[c][k]
      BY <1>4
    <2>2. k \in DOMAIN mem[c] /\ k # Place(c, id)
      BY <2>1
    <2> HIDE DEF places
    <2> QED
      BY <1>3, <2>1, <2>2 DEF Once
  <1>6. \A d \in Chans \ {c} : \A i \in DOMAIN mem'[d] : mem'[d][i].id # id
    BY <1>1, <1>3 DEF Once
  <1> QED
    BY <1>2, <1>5, <1>6

LEMMA DeleteTextIds ==
  ASSUME Typed, Typed', IdInv, NEW p \in Peers, NEW c \in Chans, NEW id \in IdsIn(c), DeleteText(p, c, id)
  PROVE  IdInv'
  <1>1. /\ mem' = [ mem EXCEPT ![c] = Retained(mem[c], DOMAIN mem[c] \ {Place(c, id)}) ]
        /\ tasks' = tasks \cup {[ op |-> "DeleteMessage", args |-> id ]}
        /\ db' = db /\ nextId' = nextId /\ pc' = pc /\ loc' = loc
    BY DEF DeleteText, Spawn, idVars, control
  <1>2. /\ Derived /\ Once(mem')
        /\ \A d \in Chans : \A i \in DOMAIN mem'[d] : mem'[d][i].id # id
    BY <1>1, DeletedMemory DEF Typed, IdInv
  <1>3. Gone' = Gone \cup {id} /\ Known' = Known
    <2> DEFINE job == [ op |-> "DeleteMessage", args |-> id ]
    <2>1. job.op = "DeleteMessage" /\ job.args = id
      OBVIOUS
    <2> HIDE DEF job
    <2>2. tasks' = tasks \cup {job}
      BY <1>1 DEF job
    <2>3. Saves' = Saves
      BY <2>1, <2>2 DEF Saves
    <2>4. Gone' = Gone \cup {id}
      BY <2>1, <2>2 DEF Gone
    <2> QED
      BY <1>1, <2>3, <2>4 DEF Known
  <1>4. nextId \in Nat /\ nextId >= nextId
    BY DEF Typed, TypedCounts
  <1>5. PICK k \in DOMAIN mem[c] : mem[c][k].id = id
    BY DEF IdsIn
  <1>6. id \in 1 .. nextId - 1
    BY <1>5 DEF IdInv, Letter
  <1>7. ASSUME NEW d \in Chans, NEW i \in DOMAIN mem'[d]
        PROVE  Letter(d, mem'[d][i], nextId', Gone', Known', db'.attachments)
    <2>1. PICK j \in DOMAIN mem[d] : Alike(mem[d][j], mem'[d][i])
      BY <1>2 DEF Derived
    <2>2. Letter(d, mem[d][j], nextId, Gone, Known, db.attachments) /\ mem[d][j] \in Posts
      BY LettersTyped DEF IdInv, Typed
    <2>3. mem'[d][i].id \notin Gone'
      BY <1>2, <1>3, <2>1, <2>2 DEF Letter, Alike
    <2>4. \A r \in Known' : \E s \in Known : AlikeRow(s, r)
      BY <1>3 DEF AlikeRow
    <2> DEFINE m == mem[d][i]   k2 == mem[d][j]
    <2>5. Alike(k2, m') /\ Letter(d, k2, nextId, Gone, Known, db.attachments) /\ k2 \in Posts /\ m'.id \notin Gone'
      BY <2>1, <2>2, <2>3
    <2> HIDE DEF m, k2
    <2>6. Letter(d, m', nextId, Gone', Known', db.attachments)
      BY <1>4, <2>4, <2>5, LetterLater
    <2> QED
      BY <1>1, <2>6 DEF m
  <1>8. ASSUME NEW q \in Carriers
        PROVE  /\ Carried(loc[q].msg, pc[q], nextId, db.attachments)
               /\ Unknown(loc[q].msg.id, mem', Gone', Known')
    <2> DEFINE x == loc[q].msg.id
    <2>1. Unknown(x, mem, Gone, Known) /\ Carried(loc[q].msg, pc[q], nextId, db.attachments)
      BY DEF IdInv
    <2>2. x # id
      BY <1>5, <2>1 DEF Unknown
    <2> HIDE DEF x
    <2>3. Unknown(x, mem', Gone', Known')
      BY <1>2, <1>3, <2>1, <2>2 DEF Unknown, Derived, Alike
    <2> QED
      BY <2>1, <2>3 DEF x
  <1>9. Carriers' = Carriers
    BY <1>1 DEF Carriers
  <1> QED
    BY <1>1, <1>2, <1>3, <1>6, <1>7, <1>8, <1>9 DEF IdInv

-----------------------------------------------------------------------------
(* What a step's control and tasks say of the carriers and of what is      *)
(* under way.                                                              *)
LEMMA SpawnIds ==
  ASSUME NEW op, NEW args, Spawn(op, args), op # "SaveMessage", op # "DeleteMessage"
  PROVE  Saves' = Saves /\ Gone' = Gone
  <1> DEFINE job == [ op |-> op, args |-> args ]
  <1>1. job.op = op
    OBVIOUS
  <1>2. tasks' = tasks \cup {job}
    BY DEF Spawn
  <1> HIDE DEF job
  <1> QED
    BY <1>1, <1>2 DEF Saves, Gone

LEMMA SpawnSaveIds ==
  ASSUME NEW row, Spawn("SaveMessage", row)
  PROVE  Saves' = Saves \cup {row} /\ Gone' = Gone
  <1> DEFINE job == [ op |-> "SaveMessage", args |-> row ]
  <1>1. job.op = "SaveMessage" /\ job.args = row
    OBVIOUS
  <1>2. tasks' = tasks \cup {job}
    BY DEF Spawn
  <1> HIDE DEF job
  <1>3. Saves' = Saves \cup {row}
    BY <1>1, <1>2 DEF Saves
  <1>4. Gone' = Gone
    BY <1>1, <1>2 DEF Gone
  <1> QED
    BY <1>3, <1>4

LEMMA SameTasks == ASSUME tasks' = tasks PROVE Saves' = Saves /\ Gone' = Gone
  BY DEF Saves, Gone

LEMMA GotoCarriers ==
  ASSUME TypedControl, NEW p \in Peers, NEW step, NEW kept, Goto(p, step, kept)
  PROVE  /\ \A q \in Carriers' \ {p} : KeepsCarried(q)
         /\ step \notin { "numbered", "forwarding" } => p \notin Carriers'
         /\ step \in { "numbered", "forwarding" } => p \in Carriers'
         /\ pc'[p] = step /\ loc'[p] = kept
  BY DEF Goto, TypedControl, Carriers, KeepsCarried

LEMMA FinishCarriers ==
  ASSUME TypedControl, NEW p \in Peers, Finish(p)
  PROVE  p \notin Carriers' /\ \A q \in Carriers' : KeepsCarried(q)
  BY GotoCarriers DEF Finish

LEMMA SameCarriers == ASSUME UNCHANGED control PROVE \A q \in Carriers' : KeepsCarried(q)
  BY DEF control, Carriers, KeepsCarried

(* The tables and tasks say the same of messages. *)
LEMMA MildTables ==
  ASSUME Typed, nextId' = nextId \/ nextId' = nextId + 1, Derived, Once(mem'),
         Saves' = Saves, Gone' = Gone,
         db'.messages = db.messages, db.attachments \subseteq db'.attachments
  PROVE  Mild
  BY DEF Typed, TypedCounts, Mild, Derived, Known, AlikeRow

LEMMA BeginSendIds ==
  ASSUME Typed, Typed', IdInv, NEW p \in Peers, NEW kind, NEW c, BeginSend(p, kind, c)
  PROVE  IdInv'
  <1> USE DEF idVars, Asks
  <1>1. mem' = mem /\ db' = db /\ nextId' = nextId /\ Saves' = Saves /\ Gone' = Gone
    BY SameTasks DEF BeginSend
  <1>2. Mild
    BY <1>1, SameMemory, MildTables DEF IdInv
  <1>3. \A q \in Carriers' : KeepsCarried(q)
    BY GotoCarriers DEF BeginSend, Typed
  <1> QED
    BY <1>2, <1>3, MildStep

LEMMA ResolveIds ==
  ASSUME Typed, Typed', IdInv, NEW p \in Peers, ResolveText(p)
  PROVE  IdInv'
  <1>1. mem' = mem /\ db' = db /\ nextId' = nextId + 1 /\ Saves' = Saves /\ Gone' = Gone
    BY SameTasks DEF ResolveText, memVars, Allocate
  <1>2. Mild
    BY <1>1, SameMemory, MildTables DEF IdInv
  <1>3. PICK reply \in IdsIn(loc[p].chan) \cup {0} :
          Goto(p, "numbered", [ kind |-> "Text", chan |-> loc[p].chan,
                                msg |-> Message(nextId, p, reply, 0) ])
    BY DEF ResolveText
  <1>4. /\ \A q \in Carriers' \ {p} : KeepsCarried(q)
        /\ p \in Carriers' /\ pc'[p] = "numbered"
        /\ loc'[p].msg = Message(nextId, p, reply, 0)
    BY <1>3, GotoCarriers DEF Typed
  <1>5. nextId \in Nat \ {0}
    BY DEF Typed, TypedCounts
  <1>6. loc'[p].msg.id = nextId /\ loc'[p].msg.att = 0
    BY <1>4 DEF Message
  <1>7. Carried(loc'[p].msg, pc'[p], nextId', db'.attachments)
    BY <1>1, <1>4, <1>5, <1>6 DEF Carried
  <1> QED
    BY <1>1, <1>2, <1>4, <1>6, <1>7, TakeStep

LEMMA InsertBlobIds ==
  ASSUME Typed, Typed', IdInv, NEW p \in Peers, InsertBlob(p)
  PROVE  IdInv'
  <1>1. mem' = mem /\ nextId' = nextId + 1 /\ Saves' = Saves /\ Gone' = Gone
    BY SameTasks DEF InsertBlob, memVars, Allocate
  <1>2. db'.messages = db.messages /\ db'.attachments = db.attachments \cup {nextId}
    BY DEF InsertBlob, InsertAttachment, Typed, TypedTables, Shaped, Tables
  <1>3. Mild
    BY <1>1, <1>2, SameMemory, MildTables DEF IdInv
  <1>4. /\ \A q \in Carriers' \ {p} : KeepsCarried(q)
        /\ p \in Carriers' /\ pc'[p] = "numbered"
        /\ loc'[p].msg = Message(nextId, p, 0, nextId)
    BY GotoCarriers DEF InsertBlob, Typed
  <1>5. nextId \in Nat \ {0}
    BY DEF Typed, TypedCounts
  <1>6. loc'[p].msg.id = nextId /\ loc'[p].msg.att = nextId
    BY <1>4 DEF Message
  <1>7. Carried(loc'[p].msg, pc'[p], nextId', db'.attachments)
    BY <1>1, <1>2, <1>4, <1>5, <1>6 DEF Carried
  <1> QED
    BY <1>1, <1>3, <1>4, <1>6, <1>7, TakeStep

LEMMA StoreIds ==
  ASSUME Typed, Typed', IdInv, NEW p \in Peers, StoreMessage(p) \/ StoreForward(p)
  PROVE  IdInv'
  <1> DEFINE m == loc[p].msg   c == loc[p].chan
             row == IF pc[p] = "numbered" THEN RowOf(m, c) ELSE [ RowOf(m, c) EXCEPT !.att = 0 ]
  <1>1. m \in Posts /\ c \in Chans /\ p \in Carriers /\ pc[p] \in { "numbered", "forwarding" }
    BY DEF StoreMessage, StoreForward, Typed, TypedControl, TypedHandler, Carriers
  <1>2. Push(c, m) /\ Finish(p) /\ db' = db /\ nextId' = nextId
    BY DEF StoreMessage, StoreForward, idVars
  <1>3. Spawn("SaveMessage", row)
    BY DEF StoreMessage, StoreForward
  <1>4. row \in Rows
    BY <1>1, RowTyped
  <1>5. Carried(m, pc[p], nextId, db.attachments) /\ Unknown(m.id, mem, Gone, Known)
    BY <1>1 DEF IdInv
  <1>6. row.id = m.id /\ Agree(c, m, row) /\ row.att \in { IF pc[p] = "numbered" THEN m.att ELSE 0 }
    BY <1>1 DEF RowOf, Agree
  <1>7. row.att \in {0, m.id} /\ (row.att = m.id => m.att = m.id)
    BY <1>1, <1>5, <1>6 DEF Carried
  <1>8. nextId \in Nat /\ m.id \in 1 .. nextId - 1 /\ m.att < nextId
    <2>1. nextId \in Nat /\ m.id \in 1 .. nextId - 1 /\ m.att \in Nat
      BY <1>1, <1>5 DEF Carried, Typed, TypedCounts, Posts
    <2>2. m.att \in {0, m.id} \/ m.att < m.id
      BY <1>1, <1>5 DEF Carried
    <2> HIDE DEF m
    <2> QED
      BY <2>1, <2>2
  <1>9. Known' = Known \cup {row} /\ Gone' = Gone
    BY <1>2, <1>3, SpawnSaveIds DEF Known
  <1>10. \A q \in Carriers' : KeepsCarried(q) /\ loc[q].msg.id # m.id
    BY <1>1, <1>2, FinishCarriers DEF Typed, KeepsCarried, IdInv
  <1>11. m.att = m.id => m.att \in db.attachments
    BY <1>5 DEF Carried
  <1> HIDE DEF m, c, row
  <1> QED
    BY <1>1, <1>2, <1>4, <1>5, <1>6, <1>7, <1>8, <1>9, <1>10, <1>11, PostStep

LEMMA SendIds == ASSUME Typed, Typed', IdInv, NEW p \in Peers, Send(p) PROVE IdInv'
  <1>1. CASE \E c \in mix.chans : BeginText(p, c) \/ BeginUpload(p, c) \/ BeginVoiceNote(p, c)
    BY <1>1, BeginSendIds DEF BeginText, BeginUpload, BeginVoiceNote
  <1>2. CASE SendRefused(p) \/ CheckBudget(p) \/ SendVoiceNote(p) \/ GiveUpBlob(p)
    <2>1. /\ mem' = mem /\ db' = db
          /\ nextId' = nextId \/ nextId' = nextId + 1
      BY <1>2 DEF SendRefused, CheckBudget, SendVoiceNote, GiveUpBlob, memVars, idVars, Allocate
    <2>2. Saves' = Saves /\ Gone' = Gone
      BY <1>2, SameTasks, SpawnIds DEF SendRefused, CheckBudget, SendVoiceNote, GiveUpBlob
    <2>3. \A q \in Carriers' : KeepsCarried(q)
      BY <1>2, FinishCarriers, GotoCarriers DEF SendRefused, CheckBudget, SendVoiceNote, GiveUpBlob, Typed
    <2>4. Mild
      BY <2>1, <2>2, SameMemory, MildTables DEF IdInv
    <2> QED
      BY <2>3, <2>4, MildStep
  <1> QED
    BY <1>1, <1>2, ResolveIds, InsertBlobIds, StoreIds DEF Send

LEMMA ForwardIds ==
  ASSUME Typed, Typed', IdInv, NEW p \in Peers, NEW c \in Chans, NEW id \in IdsIn(c), NEW target,
         BeginForward(p, c, id, target)
  PROVE  IdInv'
  <1>1. mem' = mem /\ db' = db /\ nextId' = nextId + 1 /\ Saves' = Saves /\ Gone' = Gone
    BY SameTasks DEF BeginForward, memVars, Allocate
  <1>2. Mild
    BY <1>1, SameMemory, MildTables DEF IdInv
  <1> DEFINE m == Message(nextId, p, 0, MessageIn(c, id).att)
  <1>3. /\ \A q \in Carriers' \ {p} : KeepsCarried(q)
        /\ p \in Carriers' /\ pc'[p] = "forwarding"
        /\ loc'[p].msg = m
    BY GotoCarriers DEF BeginForward, Typed
  <1>4. nextId \in Nat \ {0}
    BY DEF Typed, TypedCounts
  <1>5. MessageIn(c, id).att \in Nat /\ MessageIn(c, id).att < nextId
    <2>1. /\ Place(c, id) \in DOMAIN mem[c] /\ MessageIn(c, id) = mem[c][Place(c, id)]
          /\ MessageIn(c, id) \in Posts
      BY LettersTyped DEF Typed
    <2> QED
      BY <2>1 DEF IdInv, Letter, Posts
  <1>6. m.id = nextId /\ m.att \in Nat /\ m.att < nextId
    BY <1>5 DEF Message
  <1> HIDE DEF m
  <1>7. Carried(m, "forwarding", nextId', db'.attachments)
    BY <1>1, <1>4, <1>6 DEF Carried
  <1> QED
    BY <1>1, <1>2, <1>3, <1>6, <1>7, TakeStep

LEMMA OnMessageIds == ASSUME Typed, Typed', IdInv, NEW p \in Peers, OnMessage(p) PROVE IdInv'
  <1> PICK c \in Chans : \E i \in IdsIn(c) :
          \/ EditText(p, c, i)
          \/ \E pinned \in BOOLEAN : Pin(p, c, i, pinned)
          \/ DeleteText(p, c, i)
          \/ React(p, c, i)
          \/ \E target \in mix.chans : BeginForward(p, c, i, target)
          \/ MarkRead(p, c, i)
    BY DEF OnMessage
  <1> PICK id \in IdsIn(c) :
          \/ EditText(p, c, id)
          \/ \E pinned \in BOOLEAN : Pin(p, c, id, pinned)
          \/ DeleteText(p, c, id)
          \/ React(p, c, id)
          \/ \E target \in mix.chans : BeginForward(p, c, id, target)
          \/ MarkRead(p, c, id)
    OBVIOUS
  <1>1. CASE EditText(p, c, id) \/ (\E pinned \in BOOLEAN : Pin(p, c, id, pinned)) \/ React(p, c, id)
    <2>1. Derived /\ Once(mem')
      BY <1>1, SomeChange, RewordedMemory DEF Typed, IdInv
    <2>2. db' = db /\ nextId' = nextId /\ UNCHANGED control
      BY <1>1 DEF EditText, Pin, React, idVars
    <2>3. Saves' = Saves /\ Gone' = Gone
      BY <1>1, SpawnIds DEF EditText, Pin, React
    <2>4. Mild
      BY <2>1, <2>2, <2>3, MildTables
    <2> QED
      BY <2>2, <2>4, SameCarriers, MildStep
  <1>2. CASE MarkRead(p, c, id)
    <2>1. mem' = mem /\ db' = db /\ nextId' = nextId /\ UNCHANGED control
      BY <1>2 DEF MarkRead, idVars, memVars
    <2>2. Saves' = Saves /\ Gone' = Gone
      BY <1>2, SpawnIds DEF MarkRead
    <2>3. Mild
      BY <2>1, <2>2, SameMemory, MildTables DEF IdInv
    <2> QED
      BY <2>1, <2>3, SameCarriers, MildStep
  <1> QED
    BY <1>1, <1>2, DeleteTextIds, ForwardIds

LEMMA OnChannelIds == ASSUME Typed, Typed', IdInv, NEW p \in Peers, OnChannel(p) PROVE IdInv'
  <1>1. Derived /\ Once(mem')
    <2>1. \A c \in Chans : mem'[c] = mem[c] \/ mem'[c] = << >>
      BY DEF OnChannel, CreateChannel, DeleteChannel, Typed, TypedMem
    <2> QED
      BY <2>1, ThinnedMemory DEF Typed, IdInv
  <1>2. db' = db /\ nextId' = nextId /\ UNCHANGED control
    BY DEF OnChannel, CreateChannel, DeleteChannel, idVars
  <1>3. Saves' = Saves /\ Gone' = Gone
    BY SpawnIds DEF OnChannel, CreateChannel, DeleteChannel
  <1>4. Mild
    BY <1>1, <1>2, <1>3, MildTables
  <1> QED
    BY <1>2, <1>4, SameCarriers, MildStep

LEMMA ConversationIds == ASSUME Typed, Typed', IdInv, NEW p \in Peers, Conversation(p) PROVE IdInv'
  <1> USE DEF memVars, idVars
  <1>1. SameMail(db, db')
    BY ConversationStatements
    DEF Conversation, BeginDirect, StoreDirect, EditDirect, DeleteDirect, ProbeReaction, ToggleReaction,
        BeginGroup, StoreGroup, BeginGroupSend, StoreGroupMessage, Typed, TypedTables
  <1>2. db'.messages = db.messages /\ db'.attachments = db.attachments
    BY <1>1, SameMailFields
  <1>3. /\ mem' = mem /\ tasks' = tasks
        /\ nextId' = nextId \/ nextId' = nextId + 1
    BY DEF Conversation, BeginDirect, StoreDirect, EditDirect, DeleteDirect, ProbeReaction, ToggleReaction,
        BeginGroup, StoreGroup, BeginGroupSend, StoreGroupMessage, Allocate
  <1>4. Mild
    BY <1>2, <1>3, SameTasks, SameMemory, MildTables DEF IdInv
  <1>5. \A q \in Carriers' : KeepsCarried(q)
    <2>1. CASE StoreDirect(p) \/ ToggleReaction(p) \/ StoreGroup(p) \/ StoreGroupMessage(p)
      BY <2>1, FinishCarriers DEF StoreDirect, ToggleReaction, StoreGroup, StoreGroupMessage, Typed
    <2>2. CASE \E id \in 1 .. mix.ids : EditDirect(p, id) \/ DeleteDirect(p, id)
      BY <2>2, SameCarriers DEF EditDirect, DeleteDirect
    <2>3. CASE \E q \in Peers : BeginDirect(p, q)
      BY <2>3, GotoCarriers DEF BeginDirect, Typed
    <2>6. CASE \E id \in 1 .. mix.ids : ProbeReaction(p, id)
      BY <2>6, GotoCarriers DEF ProbeReaction, Typed
    <2>4. CASE \E others \in SUBSET (Peers \ {p}) : BeginGroup(p, others)
      BY <2>4, GotoCarriers DEF BeginGroup, Typed
    <2>5. CASE \E g \in 1 .. mix.ids : BeginGroupSend(p, g)
      BY <2>5, GotoCarriers DEF BeginGroupSend, Typed
    <2> QED
      BY <2>1, <2>2, <2>3, <2>4, <2>5, <2>6 DEF Conversation
  <1> QED
    BY <1>4, <1>5, MildStep

LEMMA SchedulingIds == ASSUME Typed, Typed', IdInv, NEW p \in Peers, Scheduling(p) PROVE IdInv'
  <1>1. db'.messages = db.messages /\ db'.attachments = db.attachments
    BY DEF Scheduling, Schedule, CancelScheduled, ScheduleRow, Unschedule, Typed, TypedTables, Shaped, Tables
  <1>2. mem' = mem /\ tasks' = tasks /\ nextId' = nextId /\ UNCHANGED control
    BY DEF Scheduling, Schedule, CancelScheduled, memVars, idVars
  <1>3. Mild
    BY <1>1, <1>2, SameTasks, SameMemory, MildTables DEF IdInv
  <1> QED
    BY <1>2, <1>3, SameCarriers, MildStep

-----------------------------------------------------------------------------
(* The scheduler and the sweeper. *)
LEMMA NextUnknown ==
  ASSUME Typed, IdInv
  PROVE  Unknown(nextId, mem, Gone, Known) /\ \A p \in Carriers : loc[p].msg.id # nextId
  <1>1. nextId \in Nat
    BY DEF Typed, TypedCounts
  <1> QED
    BY <1>1 DEF Unknown, IdInv, Letter, Record, Carried

LEMMA DeliverIds == ASSUME Typed, Typed', IdInv, NEW r \in due, Deliver(r) PROVE IdInv'
  <1> DEFINE m == Message(nextId, r.sender, 0, 0)
             row == RowOf(m, r.chan)
             save == [ op |-> "SaveMessage", args |-> row ]
             done == [ op |-> "Unschedule", args |-> r.id ]
  <1>1. /\ Push(r.chan, m) /\ tasks' = tasks \cup { save, done }
        /\ db' = db /\ nextId' = nextId + 1 /\ UNCHANGED control
    BY DEF Deliver, Allocate
  <1>2. r.chan \in Chans /\ m \in Posts /\ row \in Rows /\ nextId \in Nat \ {0}
    BY MessageTyped, RowTyped DEF Typed, TypedCounts, Duties
  <1>3. m.id = nextId /\ m.att = 0 /\ row.id = m.id /\ row.att = 0 /\ Agree(r.chan, m, row)
    BY DEF Message, RowOf, Agree
  <1>4. save.op = "SaveMessage" /\ save.args = row /\ done.op = "Unschedule"
    OBVIOUS
  <1> HIDE DEF m, row, save, done
  <1>5. Saves' = Saves \cup {row}
    BY <1>1, <1>4 DEF Saves
  <1>6. Gone' = Gone
    BY <1>1, <1>4 DEF Gone
  <1>7. Known' = Known \cup {row}
    BY <1>1, <1>5 DEF Known
  <1>8. \A q \in Carriers' : KeepsCarried(q) /\ loc[q].msg.id # m.id
    BY <1>1, <1>3, SameCarriers, NextUnknown DEF KeepsCarried
  <1>9. row.att \in {0, m.id} /\ (row.att = m.id => m.att = m.id) /\ m.att # m.id
        /\ m.id \in 1 .. nextId' - 1 /\ m.att < nextId' /\ nextId' >= nextId
    BY <1>1, <1>2, <1>3
  <1>10. Unknown(m.id, mem, Gone, Known)
    BY <1>3, NextUnknown
  <1> QED
    BY <1>1, <1>2, <1>3, <1>6, <1>7, <1>8, <1>9, <1>10, PostStep

LEMMA ServerIds == ASSUME Typed, Typed', IdInv, Server PROVE IdInv'
  <1> USE DEF idVars, memVars
  <1>1. CASE FetchDue \/ Cleanup
    <2>1. mem' = mem /\ db' = db /\ tasks' = tasks /\ nextId' = nextId /\ UNCHANGED control
      BY <1>1 DEF FetchDue, Cleanup
    <2>2. Mild
      BY <2>1, SameTasks, SameMemory, MildTables DEF IdInv
    <2> QED
      BY <2>1, <2>2, SameCarriers, MildStep
  <1>2. CASE SweepRows
    <2>1. mem' = mem /\ tasks' = tasks /\ nextId' = nextId /\ UNCHANGED control
      BY <1>2 DEF SweepRows
    <2>2. db'.messages \subseteq db.messages /\ db'.attachments = db.attachments
      BY <1>2 DEF SweepRows, DeleteExpired, Typed, TypedTables, Shaped, Tables
    <2>3. nextId \in Nat
      BY DEF Typed, TypedCounts
    <2>4. Derived /\ Once(mem')
      BY <2>1, SameMemory DEF IdInv
    <2>5. Mild
      BY <2>1, <2>2, <2>3, <2>4, SameTasks DEF Mild, Derived, Known, AlikeRow
    <2> QED
      BY <2>1, <2>5, SameCarriers, MildStep
  <1>3. CASE SweepMemory
    <2>1. db' = db /\ tasks' = tasks /\ nextId' = nextId /\ UNCHANGED control
      BY <1>3 DEF SweepMemory
    <2>2. \A c \in Chans : Old(c) \subseteq DOMAIN mem[c]
      BY DEF Old
    <2>3. \A c \in Chans : mem'[c] = mem[c] \/ mem'[c] = Retained(mem[c], Old(c))
      BY <1>3, SweepTyped DEF Typed
    <2>4. Derived /\ Once(mem')
      BY <2>2, <2>3, ThinnedMemory DEF Typed, IdInv
    <2>5. Mild
      BY <2>1, <2>4, SameTasks, MildTables
    <2> QED
      BY <2>1, <2>5, SameCarriers, MildStep
  <1> QED
    BY <1>1, <1>2, <1>3, DeliverIds DEF Server

LEMMA TickIds == ASSUME Typed, Typed', IdInv, Tick PROVE IdInv'
  <1>1. mem' = mem /\ db' = db /\ tasks' = tasks /\ nextId' = nextId /\ UNCHANGED control
    BY DEF Tick, idVars, memVars
  <1>2. Mild
    BY <1>1, SameTasks, SameMemory, MildTables DEF IdInv
  <1> QED
    BY <1>1, <1>2, SameCarriers, MildStep

(* The restart. *)
LEMMA CrashIds == ASSUME Typed, Typed', IdInv, Crash PROVE IdInv'
  <1>1. tasks' = {} /\ db' = db /\ pc' = [ p \in Peers |-> "idle" ]
    BY DEF Crash
  <1>2. Gone' = {} /\ Saves' = {} /\ Known' = db.messages /\ Carriers' = {}
    BY <1>1 DEF Gone, Saves, Known, Carriers
  <1>3. \A r \in db.messages : r.id < nextId' /\ r \in Known /\ r \in Rows
    <2>1. PICK n \in 0 .. MaxId : IsMaxId(n, Ids(db.messages) \cup Ids(db.directs)) /\ nextId' = n + 1
      BY DEF Crash, RestoreMessageIds
    <2>2. MaxId \in Nat
      BY ChatAssumption DEF ChatAssumption
    <2>3. ASSUME NEW r \in db.messages PROVE r.id <= n /\ r.id \in Nat
      BY <2>1, <2>3 DEF IsMaxId, Ids, Typed, TypedTables, Rows
    <2> QED
      BY <2>1, <2>2, <2>3 DEF Known, Typed, TypedTables
  <1>4. nextId' \in Nat /\ nextId \in Nat
    BY DEF Typed, TypedCounts
  <1>5. \A r \in db.messages : Record(r, nextId', db.attachments)
    <2>1. ASSUME NEW r \in db.messages PROVE r.id \in 1 .. nextId' - 1
      <3>1. r.id \in 1 .. nextId - 1 /\ r.id < nextId'
        BY <1>3 DEF IdInv, Record
      <3> QED
        BY <1>4, <3>1
    <2> QED
      BY <1>3, <2>1 DEF IdInv, Record
  <1>6. ASSUME NEW c \in Chans, NEW i \in DOMAIN mem'[c]
        PROVE  \E r \in db.messages : r.chan = c /\ mem'[c][i] = Restored(r)
    <2>1. mem'[c] = IF c \in db.channels THEN Loaded(c) ELSE << >>
      BY DEF Crash
    <2>2. mem'[c] = Loaded(c)
      BY <2>1
    <2> QED
      BY <2>2, LoadedRows DEF Typed
  <1>7. \A c \in Chans : \A i, j \in DOMAIN mem'[c] : mem'[c][i].id = mem'[c][j].id => i = j
    <2> SUFFICES ASSUME NEW c \in Chans
                 PROVE  \A i, j \in DOMAIN mem'[c] : mem'[c][i].id = mem'[c][j].id => i = j
      OBVIOUS
    <2>1. mem'[c] = IF c \in db.channels THEN Loaded(c) ELSE << >>
      BY DEF Crash
    <2>2. CASE c \in db.channels
      BY <2>1, <2>2, LoadedRows DEF Typed
    <2>3. CASE c \notin db.channels
      BY <2>1, <2>3
    <2> QED
      BY <2>2, <2>3
  <1>8. Once(mem')
    <2> SUFFICES ASSUME NEW c \in Chans, NEW d \in Chans, NEW i \in DOMAIN mem'[c], NEW j \in DOMAIN mem'[d],
                        mem'[c][i].id = mem'[d][j].id
                 PROVE  c = d /\ i = j
      BY DEF Once
    <2>1. PICK r \in db.messages : r.chan = c /\ mem'[c][i] = Restored(r)
      BY <1>6
    <2>2. PICK s \in db.messages : s.chan = d /\ mem'[d][j] = Restored(s)
      BY <1>6
    <2>3. r = s
      BY <2>1, <2>2 DEF Restored, Typed, TypedTables, OneRowPerId
    <2> QED
      BY <1>7, <2>1, <2>2, <2>3
  <1>9. ASSUME NEW c \in Chans, NEW i \in DOMAIN mem'[c]
        PROVE  Letter(c, mem'[c][i], nextId', Gone', Known', db'.attachments)
    <2>1. PICK r \in db.messages : r.chan = c /\ mem'[c][i] = Restored(r)
      BY <1>6
    <2>2. /\ Restored(r).id = r.id /\ Restored(r).sender = r.sender /\ Restored(r).ts = r.ts
          /\ Restored(r).att = r.att
      BY DEF Restored
    <2>3. r.id \in 1 .. nextId' - 1 /\ r.att \in {0, r.id} /\ (r.att = r.id => r.att \in db.attachments)
      BY <1>5 DEF Record
    <2>4. r.att < nextId'
      BY <1>4, <2>3
    <2>5. \A s \in db.messages : s.id = r.id => s = r
      BY DEF Typed, TypedTables, OneRowPerId
    <2> DEFINE m == Restored(r)
    <2>6. m.id \in 1 .. nextId' - 1 /\ m.att < nextId' /\ (m.att = m.id => m.att \in db.attachments)
      BY <2>2, <2>3, <2>4
    <2>7. \A s \in Known' : s.id = m.id => Agree(c, m, s)
      BY <1>2, <2>1, <2>2, <2>5 DEF Agree
    <2> HIDE DEF m
    <2>8. Letter(c, m, nextId', Gone', Known', db'.attachments)
      BY <1>1, <1>2, <2>6, <2>7 DEF Letter
    <2> QED
      BY <2>1, <2>8 DEF m
  <1> QED
    BY <1>1, <1>2, <1>5, <1>8, <1>9 DEF IdInv

-----------------------------------------------------------------------------
(* A message is saved once: no two tasks save the same, and what is still  *)
(* to be saved has no row.                                                 *)
SaveInv ==
    /\ \A t \in tasks : t = [ op |-> t.op, args |-> t.args ]
    /\ \A r, q \in Saves : r.id = q.id => r = q
    /\ \A r \in Saves, q \in db.messages : r.id # q.id

(* A step that saves nothing. *)
Plain ==
    /\ db'.messages \subseteq db.messages
    /\ \A t \in tasks' \ tasks : t.op # "SaveMessage" /\ t = [ op |-> t.op, args |-> t.args ]

LEMMA PlainStep == ASSUME SaveInv, Plain PROVE SaveInv'
  <1>1. Saves' \subseteq Saves
    BY DEF Plain, Saves
  <1> QED
    BY <1>1 DEF Plain, SaveInv

LEMMA SpawnPlain ==
  ASSUME NEW op, NEW args, op # "SaveMessage", Spawn(op, args), db' = db
  PROVE  Plain
  <1> DEFINE job == [ op |-> op, args |-> args ]
  <1>1. job.op = op /\ job.args = args /\ job = [ op |-> job.op, args |-> job.args ]
    OBVIOUS
  <1>2. tasks' = tasks \cup {job}
    BY DEF Spawn
  <1> HIDE DEF job
  <1> QED
    BY <1>1, <1>2 DEF Plain

(* A step that posts a message: the second task, if any, is not a save. *)
LEMMA SavedOnce ==
  ASSUME SaveInv, NEW row, NEW jobs, NEW id, Unknown(id, mem, Gone, Known), row.id = id,
         db' = db, tasks' = tasks \cup {[ op |-> "SaveMessage", args |-> row ]} \cup jobs,
         \A t \in jobs : t.op # "SaveMessage" /\ t = [ op |-> t.op, args |-> t.args ]
  PROVE  SaveInv'
  <1> DEFINE save == [ op |-> "SaveMessage", args |-> row ]
  <1>1. save.op = "SaveMessage" /\ save.args = row /\ save = [ op |-> save.op, args |-> save.args ]
    OBVIOUS
  <1>2. tasks' = tasks \cup {save} \cup jobs
    OBVIOUS
  <1> HIDE DEF save
  <1>3. Saves' = Saves \cup {row}
    BY <1>1, <1>2 DEF Saves
  <1>4. \A t \in tasks' : t = [ op |-> t.op, args |-> t.args ]
    BY <1>1, <1>2 DEF SaveInv
  <1>5. \A r \in Known : r.id # row.id
    BY DEF Unknown
  <1>6. \A r, q \in Saves' : r.id = q.id => r = q
    BY <1>3, <1>5 DEF SaveInv, Known
  <1>7. \A r \in Saves', q \in db'.messages : r.id # q.id
    BY <1>3, <1>5 DEF SaveInv, Known
  <1> QED
    BY <1>4, <1>6, <1>7 DEF SaveInv

LEMMA RequestSaves == ASSUME Typed, IdInv, SaveInv, NEW p \in Peers, Request(p) PROVE SaveInv'
  <1> USE DEF memVars, idVars
  <1>1. CASE StoreMessage(p) \/ StoreForward(p)
    <2> DEFINE m == loc[p].msg
               row == IF pc[p] = "numbered" THEN RowOf(m, loc[p].chan) ELSE [ RowOf(m, loc[p].chan) EXCEPT !.att = 0 ]
    <2>1. p \in Carriers
      BY <1>1 DEF StoreMessage, StoreForward, Carriers
    <2>2. Unknown(m.id, mem, Gone, Known)
      BY <2>1 DEF IdInv
    <2>3. row.id = m.id
      BY DEF RowOf
    <2>4. db' = db /\ tasks' = tasks \cup {[ op |-> "SaveMessage", args |-> row ]}
      BY <1>1 DEF StoreMessage, StoreForward, Spawn
    <2> HIDE DEF m, row
    <2> DEFINE none == {}   id == m.id
    <2>5. tasks' = tasks \cup {[ op |-> "SaveMessage", args |-> row ]} \cup none
      BY <2>4
    <2>6. \A t \in none : t.op # "SaveMessage" /\ t = [ op |-> t.op, args |-> t.args ]
      OBVIOUS
    <2>7. db' = db
      BY <2>4
    <2>8. Unknown(id, mem, Gone, Known) /\ row.id = id
      BY <2>2, <2>3
    <2> HIDE DEF id, none
    <2> QED
      BY <2>5, <2>6, <2>7, <2>8, SavedOnce
  <1>2. CASE Send(p) /\ ~(StoreMessage(p) \/ StoreForward(p))
    <2>1. CASE GiveUpBlob(p)
      BY <2>1, SpawnPlain, PlainStep DEF GiveUpBlob
    <2>2. CASE ~GiveUpBlob(p)
      <3>1. tasks' = tasks /\ db'.messages = db.messages
        BY <1>2, <2>2 DEF Send, BeginText, BeginUpload, BeginVoiceNote, BeginSend, SendRefused, ResolveText,
           CheckBudget, InsertBlob, InsertAttachment, SendVoiceNote, Typed, TypedTables, Shaped, Tables
      <3> QED
        BY <3>1, PlainStep DEF Plain
    <2> QED
      BY <2>1, <2>2
  <1>3. CASE OnMessage(p)
    <2>1. CASE \E c \in Chans : \E id \in IdsIn(c) : \E target \in mix.chans : BeginForward(p, c, id, target)
      BY <2>1, PlainStep DEF BeginForward, Plain
    <2>2. CASE ~\E c \in Chans : \E id \in IdsIn(c) : \E target \in mix.chans : BeginForward(p, c, id, target)
      <3>1. Plain
        BY <1>3, <2>2, SpawnPlain DEF OnMessage, EditText, Pin, DeleteText, React, MarkRead
      <3> QED
        BY <3>1, PlainStep
    <2> QED
      BY <2>1, <2>2
  <1>4. CASE OnChannel(p)
    <2>1. Plain
      BY <1>4, SpawnPlain DEF OnChannel, CreateChannel, DeleteChannel
    <2> QED
      BY <2>1, PlainStep
  <1>5. CASE Conversation(p)
    <2>1. SameMail(db, db')
      BY <1>5, ConversationStatements
      DEF Conversation, BeginDirect, StoreDirect, EditDirect, DeleteDirect, ProbeReaction, ToggleReaction,
          BeginGroup, StoreGroup, BeginGroupSend, StoreGroupMessage, Typed, TypedTables
    <2>2. tasks' = tasks
      BY <1>5
      DEF Conversation, BeginDirect, StoreDirect, EditDirect, DeleteDirect, ProbeReaction, ToggleReaction,
          BeginGroup, StoreGroup, BeginGroupSend, StoreGroupMessage
    <2> QED
      BY <2>1, <2>2, SameMailFields, PlainStep DEF Plain
  <1>6. CASE Scheduling(p)
    <2>1. tasks' = tasks /\ db'.messages = db.messages
      BY <1>6 DEF Scheduling, Schedule, CancelScheduled, ScheduleRow, Unschedule, Typed, TypedTables, Shaped, Tables
    <2> QED
      BY <2>1, PlainStep DEF Plain
  <1> QED
    BY <1>1, <1>2, <1>3, <1>4, <1>5, <1>6 DEF Request

LEMMA ServerSaves == ASSUME Typed, IdInv, SaveInv, Server PROVE SaveInv'
  <1>1. CASE \E r \in due : Deliver(r)
    <2> PICK r \in due : Deliver(r)
      BY <1>1
    <2> DEFINE row == RowOf(Message(nextId, r.sender, 0, 0), r.chan)
               done == [ op |-> "Unschedule", args |-> r.id ]
    <2>1. db' = db /\ tasks' = tasks \cup {[ op |-> "SaveMessage", args |-> row ]} \cup { done }
      BY DEF Deliver
    <2>2. row.id = nextId /\ Unknown(nextId, mem, Gone, Known)
      BY NextUnknown DEF RowOf, Message
    <2>3. done.op # "SaveMessage" /\ done = [ op |-> done.op, args |-> done.args ]
      OBVIOUS
    <2> HIDE DEF row, done
    <2>4. \A t \in { done } : t.op # "SaveMessage" /\ t = [ op |-> t.op, args |-> t.args ]
      BY <2>3
    <2> QED
      BY <2>1, <2>2, <2>4, SavedOnce
  <1>2. CASE FetchDue \/ SweepRows \/ SweepMemory \/ Cleanup
    <2>1. tasks' = tasks /\ db'.messages \subseteq db.messages
      BY <1>2 DEF FetchDue, SweepRows, DeleteExpired, SweepMemory, Cleanup, Typed, TypedTables, Shaped, Tables
    <2> QED
      BY <2>1, PlainStep DEF Plain
  <1> QED
    BY <1>1, <1>2 DEF Server

-----------------------------------------------------------------------------
(* What the tasks' statements make of the messages and the attachments.    *)
LEMMA RewordedRows ==
  ASSUME NEW d, TypedTables(d), NEW x, NEW y \in BOOLEAN
  PROVE  \A e \in { UpdateMessage(d, x), SetMessagePinned(d, x, y) } :
            /\ e.attachments = d.attachments
            /\ \A r \in e.messages : \E s \in d.messages : AlikeRow(s, r)
            /\ \A s \in d.messages : \E r \in e.messages : AlikeRow(s, r)
  <1>1. Shaped(d) /\ d.messages \subseteq Rows
    BY DEF TypedTables
  <1>2. \A m \in Rows : AlikeRow(m, [ m EXCEPT !.edited = TRUE ]) /\ AlikeRow(m, [ m EXCEPT !.pinned = y ])
                        /\ AlikeRow(m, m)
    BY DEF Rows, AlikeRow
  <1>3. /\ UpdateMessage(d, x).messages =
              { IF m.id = x THEN [ m EXCEPT !.edited = TRUE ] ELSE m : m \in d.messages }
        /\ UpdateMessage(d, x).attachments = d.attachments
    BY <1>1 DEF Shaped, Tables, UpdateMessage
  <1>4. /\ SetMessagePinned(d, x, y).messages =
              { IF m.id = x THEN [ m EXCEPT !.pinned = y ] ELSE m : m \in d.messages }
        /\ SetMessagePinned(d, x, y).attachments = d.attachments
    BY <1>1 DEF Shaped, Tables, SetMessagePinned
  <1>5. \A r \in UpdateMessage(d, x).messages : \E s \in d.messages : AlikeRow(s, r)
    BY <1>1, <1>2, <1>3
  <1>6. \A r \in SetMessagePinned(d, x, y).messages : \E s \in d.messages : AlikeRow(s, r)
    BY <1>1, <1>2, <1>4
  <1>7. ASSUME NEW s \in d.messages
        PROVE  /\ \E r \in UpdateMessage(d, x).messages : AlikeRow(s, r)
               /\ \E r \in SetMessagePinned(d, x, y).messages : AlikeRow(s, r)
    <2> DEFINE a == IF s.id = x THEN [ s EXCEPT !.edited = TRUE ] ELSE s
               b == IF s.id = x THEN [ s EXCEPT !.pinned = y ] ELSE s
    <2>1. AlikeRow(s, a) /\ AlikeRow(s, b)
      BY <1>1, <1>2
    <2>2. a \in UpdateMessage(d, x).messages /\ b \in SetMessagePinned(d, x, y).messages
      BY <1>3, <1>4
    <2> HIDE DEF a, b
    <2> QED
      BY <2>1, <2>2
  <1> QED
    BY <1>3, <1>4, <1>5, <1>6, <1>7

(* Running a task takes it off the tasks, and saves what it saves only. *)
LEMMA TaskDone ==
  ASSUME SaveInv, NEW t \in tasks, tasks' = tasks \ {t}
  PROVE  /\ Saves' \subseteq Saves /\ Gone' \subseteq Gone
         /\ t.op # "SaveMessage" => Saves' = Saves
         /\ t.op = "SaveMessage" => t.args \in Saves /\ Saves' = Saves \ {t.args}
         /\ t.op = "DeleteMessage" => t.args \in Gone
  <1>1. \A s \in tasks : s.op = "SaveMessage" /\ t.op = "SaveMessage" /\ s.args = t.args => s = t
    BY DEF SaveInv
  <1>2. Saves' \subseteq Saves /\ Gone' \subseteq Gone
    BY DEF Saves, Gone
  <1>3. t.op # "SaveMessage" => Saves' = Saves
    BY DEF Saves
  <1>4. t.op = "SaveMessage" => t.args \in Saves /\ Saves' = Saves \ {t.args}
    BY <1>1 DEF Saves
  <1>5. t.op = "DeleteMessage" => t.args \in Gone
    BY DEF Gone
  <1> QED
    BY <1>2, <1>3, <1>4, <1>5

LEMMA TaskEffect ==
  ASSUME Shaped(db), NEW t
  PROVE  /\ t.op \in { "AddReaction", "RemoveReaction", "UpsertLastRead", "Unschedule" } =>
               Applied(t).messages = db.messages /\ Applied(t).attachments = db.attachments
         /\ t.op = "InsertAttachment" =>
               Applied(t).messages = db.messages /\ Applied(t).attachments = db.attachments \cup {t.args}
         /\ t.op \in { "SaveChannel", "DeleteChannel" } =>
               /\ Applied(t).messages = { m \in db.messages : m.chan # t.args }
               /\ Applied(t).attachments = db.attachments
         /\ t.op = "SaveMessage" =>
               /\ Applied(t).messages = IF Storable(db, t.args) THEN db.messages \cup {t.args} ELSE db.messages
               /\ Applied(t).attachments = db.attachments
         /\ t.op = "DeleteMessage" =>
               /\ Applied(t).messages = { m \in db.messages : m.id # t.args }
               /\ Applied(t).attachments =
                     db.attachments \ ({ m.att : m \in { m \in db.messages : m.id = t.args } }
                                       \ { m.att : m \in { m \in db.messages : m.id # t.args } })
  <1>1. ASSUME t.op \in { "AddReaction", "RemoveReaction", "UpsertLastRead", "Unschedule" }
        PROVE  Applied(t).messages = db.messages /\ Applied(t).attachments = db.attachments
    BY <1>1 DEF Applied, Shaped, Tables, AddReaction, RemoveReaction, UpsertLastRead, Unschedule
  <1>2. ASSUME t.op = "InsertAttachment"
        PROVE  Applied(t).messages = db.messages /\ Applied(t).attachments = db.attachments \cup {t.args}
    BY <1>2 DEF Applied, Shaped, Tables, InsertAttachment
  <1>3. ASSUME t.op \in { "SaveChannel", "DeleteChannel" }
        PROVE  /\ Applied(t).messages = { m \in db.messages : m.chan # t.args }
               /\ Applied(t).attachments = db.attachments
    <2>1. Applied(t) \in { SaveChannel(db, t.args), DeleteChannelRow(db, t.args) }
      BY <1>3 DEF Applied
    <2> QED
      BY <2>1, ChannelFields
  <1>4. ASSUME t.op = "SaveMessage"
        PROVE  /\ Applied(t).messages = IF Storable(db, t.args) THEN db.messages \cup {t.args} ELSE db.messages
               /\ Applied(t).attachments = db.attachments
    <2>1. Applied(t) = SaveMessage(db, t.args)
      BY <1>4 DEF Applied
    <2> QED
      BY <2>1 DEF Shaped, Tables, SaveMessage
  <1>5. ASSUME t.op = "DeleteMessage"
        PROVE  /\ Applied(t).messages = { m \in db.messages : m.id # t.args }
               /\ Applied(t).attachments =
                     db.attachments \ ({ m.att : m \in { m \in db.messages : m.id = t.args } }
                                       \ { m.att : m \in { m \in db.messages : m.id # t.args } })
    <2> DEFINE left == db.messages \ { m \in db.messages : m.id = t.args }
    <2>1. left = { m \in db.messages : m.id # t.args }
      OBVIOUS
    <2>2. Applied(t) = DeleteMessageRow(db, t.args)
      BY <1>5 DEF Applied
    <2>3. /\ Applied(t).messages = left
          /\ Applied(t).attachments =
               db.attachments \ ({ m.att : m \in { m \in db.messages : m.id = t.args } } \ { m.att : m \in left })
      BY <2>2 DEF Shaped, Tables, DeleteMessageRow
    <2> QED
      BY <2>1, <2>3
  <1> QED
    BY <1>1, <1>2, <1>3, <1>4, <1>5

LEMMA TaskSaves ==
  ASSUME Typed, SaveInv, NEW t \in tasks, RunTask(t)
  PROVE  SaveInv'
  <1>0. /\ db' = Applied(t) /\ tasks' = tasks \ {t} /\ TypedTask(t) /\ TypedTables(db) /\ Shaped(db)
    BY DEF RunTask, Typed, TypedTables
  <1>1. CASE t.op = "SaveMessage"
    <2>1. db'.messages \subseteq db.messages \cup {t.args}
      BY <1>0, <1>1, TaskEffect
    <2>2. t.args \in Saves /\ Saves' = Saves \ {t.args}
      BY <1>0, <1>1, TaskDone
    <2> QED
      BY <1>0, <2>1, <2>2 DEF SaveInv
  <1>2. CASE t.op # "SaveMessage"
    <2>1. \A r \in db'.messages : \E s \in db.messages : AlikeRow(s, r)
      <3>1. CASE t.op \in { "UpdateMessage", "SetPinned" }
        BY <1>0, <3>1, RewordedRows DEF Applied, TypedTask
      <3>2. CASE t.op \notin { "UpdateMessage", "SetPinned" }
        <4>1. db'.messages \subseteq db.messages
          BY <1>0, <1>2, <3>2, TaskEffect DEF TypedTask, TaskOps, CalmOps
        <4> QED
          BY <4>1 DEF AlikeRow
      <3> QED
        BY <3>1, <3>2
    <2>2. Saves' = Saves
      BY <1>0, <1>2, TaskDone
    <2> QED
      BY <1>0, <2>1, <2>2 DEF SaveInv, AlikeRow
  <1> QED
    BY <1>1, <1>2

(* A message is deleted from the tables: of all that is left none has its  *)
(* attachment.                                                             *)
LEMMA DeleteTaskIds ==
  ASSUME Typed, Typed', IdInv, SaveInv, NEW t \in tasks, RunTask(t), t.op = "DeleteMessage"
  PROVE  IdInv'
  <1> DEFINE x == t.args
             lost == { m.att : m \in { m \in db.messages : m.id = x } }
  <1>1. /\ tasks' = tasks \ {t} /\ db' = DeleteMessageRow(db, x) /\ UNCHANGED << mem, nextId, pc, loc >>
        /\ Shaped(db) /\ db' = Applied(t)
    BY DEF RunTask, Applied, memVars, idVars, control, Typed, TypedTables
  <1>2. /\ db'.messages = { m \in db.messages : m.id # x }
        /\ db.attachments \subseteq db'.attachments \cup lost
    BY <1>1, TaskEffect
  <1>3. Saves' = Saves /\ Gone' \subseteq Gone /\ x \in Gone
    BY <1>1, TaskDone
  <1>4. Known' \subseteq Known
    BY <1>2, <1>3 DEF Known
  <1>5. x # 0 /\ lost \subseteq {0, x}
    BY <1>3 DEF IdInv, Record, Known
  <1>6. \A b \in db.attachments : b # 0 /\ b # x => b \in db'.attachments
    BY <1>2, <1>5
  <1>7. \A r \in Known' : r.id # 0 /\ (r.id = x => r.att # x \/ x \in db'.attachments)
    <2>1. \A r \in Known' : r.id # 0
      BY <1>4 DEF IdInv, Record
    <2>2. ASSUME NEW r \in Saves, r.id = x, r.att = x PROVE x \in db'.attachments
      <3>1. lost = {}
        BY <2>2 DEF SaveInv
      <3>2. x \in db.attachments
        BY <2>2 DEF IdInv, Record, Known
      <3> QED
        BY <1>2, <3>1, <3>2
    <2>3. \A r \in db'.messages : r.id # x
      BY <1>2
    <2> QED
      BY <1>3, <2>1, <2>2, <2>3 DEF Known
  <1> HIDE DEF x, lost
  <1>8. ASSUME NEW r \in Known' PROVE Record(r, nextId, db'.attachments)
    <2>1. Record(r, nextId, db.attachments)
      BY <1>4 DEF IdInv
    <2> QED
      BY <1>6, <1>7, <2>1 DEF Record
  <1>9. ASSUME NEW c \in Chans, NEW i \in DOMAIN mem[c]
        PROVE  Letter(c, mem[c][i], nextId, Gone', Known', db'.attachments)
    <2>1. Letter(c, mem[c][i], nextId, Gone, Known, db.attachments)
      BY DEF IdInv
    <2>2. mem[c][i].id # 0 /\ mem[c][i].id # x
      BY <1>3, <2>1 DEF Letter
    <2> QED
      BY <1>3, <1>4, <1>6, <2>1, <2>2 DEF Letter
  <1>10. ASSUME NEW p \in Carriers
         PROVE  /\ Carried(loc[p].msg, pc[p], nextId, db'.attachments)
                /\ Unknown(loc[p].msg.id, mem, Gone', Known')
    <2>1. Carried(loc[p].msg, pc[p], nextId, db.attachments) /\ Unknown(loc[p].msg.id, mem, Gone, Known)
      BY DEF IdInv
    <2>2. loc[p].msg.id # 0 /\ loc[p].msg.id # x
      BY <1>3, <2>1 DEF Carried, Unknown
    <2> QED
      BY <1>3, <1>4, <1>6, <2>1, <2>2 DEF Carried, Unknown
  <1>11. Carriers' = Carriers
    BY <1>1 DEF Carriers
  <1> QED
    BY <1>1, <1>3, <1>8, <1>9, <1>10, <1>11 DEF IdInv

LEMMA TaskIds == ASSUME Typed, Typed', IdInv, SaveInv, NEW t \in tasks, RunTask(t) PROVE IdInv'
  <1>0. /\ db' = Applied(t) /\ tasks' = tasks \ {t} /\ TypedTask(t) /\ TypedTables(db) /\ Shaped(db)
        /\ mem' = mem /\ nextId' = nextId /\ UNCHANGED control /\ nextId \in Nat
    BY DEF RunTask, Typed, TypedTables, memVars, idVars, TypedCounts
  <1>1. CASE t.op # "DeleteMessage"
    <2>0. t.op \in { "UpdateMessage", "SetPinned" } =>
            /\ db'.attachments = db.attachments
            /\ \A r \in db'.messages : \E s \in db.messages : AlikeRow(s, r)
      <3>1. CASE t.op = "UpdateMessage"
        <4>1. Applied(t) = UpdateMessage(db, t.args)
          BY <3>1 DEF Applied
        <4> QED
          BY <1>0, <4>1, RewordedRows
      <3>2. CASE t.op = "SetPinned"
        <4>1. Applied(t) = SetMessagePinned(db, t.args[1], t.args[2]) /\ t.args[2] \in BOOLEAN
          BY <1>0, <3>2 DEF Applied, TypedTask
        <4> QED
          BY <1>0, <4>1, RewordedRows
      <3> QED
        BY <3>1, <3>2
    <2>1. Saves' \subseteq Saves /\ Gone' \subseteq Gone
      BY <1>0, TaskDone
    <2>2. \A r \in db'.messages : \E s \in Known : AlikeRow(s, r)
      <3>1. CASE t.op \in { "UpdateMessage", "SetPinned" }
        <4>1. \A r \in db'.messages : \E s \in db.messages : AlikeRow(s, r)
          BY <2>0, <3>1
        <4> QED
          BY <4>1 DEF Known
      <3>2. CASE t.op \notin { "UpdateMessage", "SetPinned" }
        <4>1. db'.messages \subseteq Known
          <5>1. CASE t.op = "SaveMessage"
            <6>1. t.args \in Saves
              BY <1>0, <5>1, TaskDone
            <6> QED
              BY <1>0, <5>1, <6>1, TaskEffect DEF Known
          <5>2. CASE t.op # "SaveMessage"
            BY <1>0, <1>1, <3>2, <5>2, TaskEffect DEF TypedTask, TaskOps, CalmOps, Known
          <5> QED
            BY <5>1, <5>2
        <4> QED
          BY <4>1 DEF AlikeRow
      <3> QED
        BY <3>1, <3>2
    <2>3. db.attachments \subseteq db'.attachments
      <3>1. CASE t.op \in { "UpdateMessage", "SetPinned" }
        BY <2>0, <3>1
      <3>2. CASE t.op \notin { "UpdateMessage", "SetPinned" }
        BY <1>0, <1>1, <3>2, TaskEffect DEF TypedTask, TaskOps, CalmOps
      <3> QED
        BY <3>1, <3>2
    <2>4. \A r \in Known' : \E s \in Known : AlikeRow(s, r)
      BY <2>1, <2>2 DEF Known, AlikeRow
    <2>5. Mild
      BY <1>0, <2>1, <2>3, <2>4, SameMemory DEF Mild, Derived, IdInv
    <2> QED
      BY <1>0, <2>5, SameCarriers, MildStep
  <1> QED
    BY <1>1, DeleteTaskIds

LEMMA InitIds == Init => IdInv /\ SaveInv
  <1> SUFFICES ASSUME Init PROVE IdInv /\ SaveInv
    OBVIOUS
  <1>1. tasks = {} /\ db.messages = {} /\ mem = [ c \in Chans |-> << >> ] /\ pc = [ p \in Peers |-> "idle" ]
    BY DEF Init
  <1>2. Gone = {} /\ Saves = {} /\ Known = {} /\ Carriers = {}
    BY <1>1 DEF Gone, Saves, Known, Carriers
  <1>3. \A c \in Chans : DOMAIN mem[c] = {}
    BY <1>1
  <1> QED
    BY <1>1, <1>2, <1>3 DEF IdInv, SaveInv, Once

LEMMA IdInvariant == Spec => [](IdInv /\ SaveInv)
  <1>1. ASSUME Typed, Typed', IdInv, SaveInv, Next PROVE IdInv' /\ SaveInv'
    <2>1. CASE \E p \in Peers : Request(p)
      BY <1>1, <2>1, SendIds, OnMessageIds, OnChannelIds, ConversationIds, SchedulingIds, RequestSaves DEF Request
    <2>2. CASE Server
      BY <1>1, <2>2, ServerIds, ServerSaves
    <2>3. CASE \E t \in tasks : RunTask(t)
      BY <1>1, <2>3, TaskIds, TaskSaves
    <2>4. CASE Tick
      <3>1. Plain
        BY <2>4 DEF Tick, Plain
      <3> QED
        BY <1>1, <2>4, <3>1, TickIds, PlainStep
    <2>5. CASE Crash
      <3>1. tasks' = {}
        BY <2>5 DEF Crash
      <3>2. SaveInv'
        BY <3>1 DEF SaveInv, Saves
      <3> QED
        BY <1>1, <2>5, <3>2, CrashIds
    <2> QED
      BY <1>1, <2>1, <2>2, <2>3, <2>4, <2>5 DEF Next
  <1>2. ASSUME IdInv, SaveInv, UNCHANGED vars PROVE IdInv' /\ SaveInv'
    <2>1. UNCHANGED << mem, db, tasks, nextId, pc, loc >>
      BY <1>2 DEF vars, memVars, idVars, control
    <2>2. Saves' = Saves /\ Gone' = Gone /\ Known' = Known /\ Carriers' = Carriers
      BY <2>1 DEF Gone, Known, Saves, Carriers
    <2> QED
      BY <1>2, <2>1, <2>2 DEF IdInv, SaveInv
  <1> QED
    BY InitIds, TypedInvariant, <1>1, <1>2, PTL DEF Spec

(* OneMessagePerId: wherever a message is looked up by its id, in the      *)
(* memory, in the tables or in a save under way, it is the same one.       *)
THEOREM IdsNameOneMessage == Spec => []OneMessagePerId
  <1>1. IdInv => OneMessagePerId
    BY DEF IdInv, Letter, Agree, Known, OneMessagePerId
  <1> QED
    BY IdInvariant, <1>1, PTL

(* OwnBlobPresent: whoever sees a message can fetch its attachment.        *)
THEOREM BlobsArePresent == Spec => []OwnBlobPresent
  <1>1. IdInv => OwnBlobPresent
    BY DEF IdInv, Letter, Record, Known, OwnBlobPresent
  <1> QED
    BY IdInvariant, <1>1, PTL

-----------------------------------------------------------------------------
(* What is stored.  A message in memory has its row, or will have it, or   *)
(* it is known why it has none.                                            *)

ChannelTasks == { t \in tasks : t.op \in { "SaveChannel", "DeleteChannel" } }

(* The row of a channel is about to be written, or to be deleted. *)
Making(c) == \E t \in ChannelTasks : t.op = "SaveChannel" /\ t.args = c

Ending(c) == \E t \in ChannelTasks : t.op = "DeleteChannel" /\ t.args = c

ChannelsInv ==
    /\ \A r \in db.messages : r.chan \in db.channels
    /\ \A c \in db.channels \cup live : c < nextChan
    /\ \A t \in ChannelTasks : t.args < nextChan
    /\ \A c \in Chans : Making(c) => c \notin db.channels
    /\ \A c \in Chans : Ending(c) => c \notin live
    /\ db.expiring \subseteq db.channels
    /\ \A c \in db.expiring \ live : Ending(c)
    /\ sweeper \in { "idle", "purge" }

(* The channel has a row, or will get one. *)
Wanted(c) == c \in db.channels \/ Making(c) \/ c >= nextChan

(* The rows were swept, and the memory will be. *)
Swept(c, m) == sweeper = "purge" /\ c \in db.expiring \cap live /\ m.ts < clock - MaxAge

Accounted(c, m) ==
    \/ \E r \in Known : r.id = m.id
    \/ m.id \in refused
    \/ Ending(c) /\ c \in db.channels
    \/ Swept(c, m)

KeptInv == \A c \in Chans : Wanted(c) => \A i \in DOMAIN mem[c] : Accounted(c, mem[c][i])

(* A step that leaves the channels alone. *)
Settled ==
    /\ UNCHANGED << live, nextChan, sweeper >>
    /\ db'.channels = db.channels /\ db'.expiring = db.expiring
    /\ ChannelTasks' = ChannelTasks
    /\ \A r \in db'.messages : r.chan \in db.channels

LEMMA SettledStep == ASSUME ChannelsInv, Settled PROVE ChannelsInv'
  BY DEF ChannelsInv, Settled, Making, Ending

(* Whatever is new in memory has its row or will, and whatever had one has *)
(* it still, or was refused it, or is not in memory.                       *)
Accounting ==
    /\ refused \subseteq refused'
    /\ clock' >= clock
    /\ \A c \in Chans : \A i \in DOMAIN mem'[c] :
          \/ \E r \in Known' : r.id = mem'[c][i].id
          \/ \E j \in DOMAIN mem[c] : Alike(mem[c][j], mem'[c][i])
    /\ \A s \in Known :
          \/ \E r \in Known' : r.id = s.id
          \/ s.id \in refused'
          \/ \A c \in Chans : \A i \in DOMAIN mem'[c] : mem'[c][i].id # s.id

LEMMA SettledKept ==
  ASSUME Typed, Typed', KeptInv, Settled, Accounting
  PROVE  KeptInv'
  <1> SUFFICES ASSUME NEW c \in Chans, Wanted(c)', NEW i \in DOMAIN mem'[c]
               PROVE  Accounted(c, mem[c][i])'
    BY DEF KeptInv
  <1>1. Wanted(c) /\ (Ending(c) => Ending(c)')
    BY DEF Wanted, Settled, Making, Ending
  <1>2. CASE \E r \in Known' : r.id = mem'[c][i].id
    BY <1>2 DEF Accounted
  <1>3. CASE \E j \in DOMAIN mem[c] : Alike(mem[c][j], mem'[c][i])
    <2>1. PICK j \in DOMAIN mem[c] : Alike(mem[c][j], mem'[c][i])
      BY <1>3
    <2>2. Accounted(c, mem[c][j]) /\ mem[c][j] \in Posts
      BY <1>1, LettersTyped DEF KeptInv, Typed
    <2>3. mem'[c][i].id = mem[c][j].id /\ mem'[c][i].ts = mem[c][j].ts
      BY <2>1 DEF Alike
    <2>4. CASE Swept(c, mem[c][j])
      <3>1. clock \in Nat /\ clock' \in Nat /\ clock' >= clock /\ MaxAge \in Nat /\ mem[c][j].ts \in Nat
        BY <2>2, ChatAssumption DEF ChatAssumption, Typed, TypedCounts, Accounting, Posts
      <3>2. mem'[c][i].ts < clock' - MaxAge
        BY <2>3, <2>4, <3>1 DEF Swept
      <3>3. sweeper' = "purge" /\ c \in db'.expiring \cap live'
        BY <2>4 DEF Swept, Settled
      <3> QED
        BY <3>2, <3>3 DEF Accounted, Swept
    <2>5. CASE ~Swept(c, mem[c][j])
      BY <1>1, <2>2, <2>3, <2>5 DEF Accounted, Accounting, Settled
    <2> QED
      BY <2>4, <2>5
  <1> QED
    BY <1>2, <1>3 DEF Accounting

LEMMA SpawnSettled ==
  ASSUME NEW op, NEW args, Spawn(op, args), op \notin { "SaveChannel", "DeleteChannel" }
  PROVE  ChannelTasks' = ChannelTasks /\ Saves \subseteq Saves'
  <1> DEFINE job == [ op |-> op, args |-> args ]
  <1>1. job.op = op
    OBVIOUS
  <1>2. tasks' = tasks \cup {job}
    BY DEF Spawn
  <1> HIDE DEF job
  <1> QED
    BY <1>1, <1>2 DEF ChannelTasks, Saves

LEMMA SameTasksSettled == ASSUME tasks' = tasks PROVE ChannelTasks' = ChannelTasks /\ Saves \subseteq Saves'
  BY DEF ChannelTasks, Saves

(* No message comes into memory, none leaves the tables. *)
LEMMA CalmAccounting ==
  ASSUME Typed, ChannelsInv, UNCHANGED << live, nextChan, sweeper, clock, refused >>,
         db'.channels = db.channels, db'.expiring = db.expiring, db'.messages = db.messages,
         ChannelTasks' = ChannelTasks, Saves \subseteq Saves', Derived
  PROVE  Settled /\ Accounting
  <1>1. Settled
    BY DEF Settled, ChannelsInv
  <1>2. Known \subseteq Known' /\ clock' >= clock
    BY DEF Known, Typed, TypedCounts
  <1> QED
    BY <1>1, <1>2 DEF Accounting, Derived

(* One is posted. *)
LEMMA PostAccounting ==
  ASSUME Typed, ChannelsInv, UNCHANGED << live, nextChan, sweeper, clock, refused, db >>,
         ChannelTasks' = ChannelTasks, NEW c \in Chans, NEW m \in Posts, Push(c, m),
         NEW row, row.id = m.id, Saves' = Saves \cup {row}
  PROVE  Settled /\ Accounting
  <1>1. Settled
    BY DEF Settled, ChannelsInv
  <1>2. Known \subseteq Known' /\ row \in Known' /\ clock' >= clock
    BY DEF Known, Typed, TypedCounts
  <1>3. \A d \in Chans : \A i \in DOMAIN mem'[d] :
          \/ \E r \in Known' : r.id = mem'[d][i].id
          \/ \E j \in DOMAIN mem[d] : Alike(mem[d][j], mem'[d][i])
    BY <1>2, PushedLetters DEF Typed, Alike
  <1> QED
    BY <1>1, <1>2, <1>3 DEF Accounting

LEMMA SendSettled ==
  ASSUME Typed, IdInv, ChannelsInv, NEW p \in Peers, Send(p)
  PROVE  Settled /\ Accounting
  <1> USE DEF memVars, idVars, background, world, history
  <1>1. CASE StoreMessage(p) \/ StoreForward(p)
    <2> DEFINE m == loc[p].msg   c == loc[p].chan
               row == IF pc[p] = "numbered" THEN RowOf(m, c) ELSE [ RowOf(m, c) EXCEPT !.att = 0 ]
    <2>1. m \in Posts /\ c \in Chans /\ row.id = m.id
      BY <1>1 DEF StoreMessage, StoreForward, Typed, TypedControl, TypedHandler, RowOf
    <2>2. Push(c, m) /\ Spawn("SaveMessage", row) /\ UNCHANGED << live, nextChan, sweeper, clock, refused, db >>
      BY <1>1 DEF StoreMessage, StoreForward
    <2> HIDE DEF m, c, row
    <2>3. Saves' = Saves \cup {row} /\ ChannelTasks' = ChannelTasks
      BY <2>2, SpawnSaveIds, SpawnSettled
    <2> QED
      BY <2>1, <2>2, <2>3, PostAccounting
  <1>2. CASE ~(StoreMessage(p) \/ StoreForward(p))
    <2>1. UNCHANGED << live, mem, nextChan, sweeper, clock, refused >>
      BY <1>2 DEF Send, BeginText, BeginUpload, BeginVoiceNote, BeginSend, SendRefused, ResolveText,
           CheckBudget, InsertBlob, GiveUpBlob, SendVoiceNote
    <2>2. db'.channels = db.channels /\ db'.expiring = db.expiring /\ db'.messages = db.messages
      BY <1>2 DEF Send, BeginText, BeginUpload, BeginVoiceNote, BeginSend, SendRefused, ResolveText,
           CheckBudget, InsertBlob, InsertAttachment, GiveUpBlob, SendVoiceNote, Typed, TypedTables, Shaped, Tables
    <2>3. ChannelTasks' = ChannelTasks /\ Saves \subseteq Saves'
      <3>1. CASE GiveUpBlob(p)
        BY <3>1, SpawnSettled DEF GiveUpBlob
      <3>2. CASE ~GiveUpBlob(p)
        <4>1. tasks' = tasks
          BY <1>2, <3>2 DEF Send, BeginText, BeginUpload, BeginVoiceNote, BeginSend, SendRefused, ResolveText,
             CheckBudget, InsertBlob, SendVoiceNote
        <4> QED
          BY <4>1, SameTasksSettled
      <3> QED
        BY <3>1, <3>2
    <2>4. Derived
      BY <2>1, SameMemory DEF IdInv
    <2> QED
      BY <2>1, <2>2, <2>3, <2>4, CalmAccounting
  <1> QED
    BY <1>1, <1>2

LEMMA OnMessageSettled ==
  ASSUME Typed, IdInv, ChannelsInv, NEW p \in Peers, OnMessage(p)
  PROVE  Settled /\ Accounting
  <1> USE DEF memVars, idVars, background, world, history
  <1> PICK c \in Chans : \E i \in IdsIn(c) :
          \/ EditText(p, c, i)
          \/ \E pinned \in BOOLEAN : Pin(p, c, i, pinned)
          \/ DeleteText(p, c, i)
          \/ React(p, c, i)
          \/ \E target \in mix.chans : BeginForward(p, c, i, target)
          \/ MarkRead(p, c, i)
    BY DEF OnMessage
  <1> PICK id \in IdsIn(c) :
          \/ EditText(p, c, id)
          \/ \E pinned \in BOOLEAN : Pin(p, c, id, pinned)
          \/ DeleteText(p, c, id)
          \/ React(p, c, id)
          \/ \E target \in mix.chans : BeginForward(p, c, id, target)
          \/ MarkRead(p, c, id)
    OBVIOUS
  <1>1. UNCHANGED << live, nextChan, sweeper, clock, refused, db >>
    BY DEF EditText, Pin, DeleteText, React, BeginForward, MarkRead
  <1>2. Derived
    <2>1. CASE EditText(p, c, id) \/ (\E pinned \in BOOLEAN : Pin(p, c, id, pinned)) \/ React(p, c, id)
      BY <2>1, SomeChange, RewordedMemory DEF Typed, IdInv
    <2>2. CASE DeleteText(p, c, id)
      BY <2>2, DeletedMemory DEF DeleteText, Typed, IdInv
    <2>3. CASE (\E target \in mix.chans : BeginForward(p, c, id, target)) \/ MarkRead(p, c, id)
      BY <2>3, SameMemory DEF BeginForward, MarkRead, IdInv
    <2> QED
      BY <2>1, <2>2, <2>3
  <1>3. ChannelTasks' = ChannelTasks /\ Saves \subseteq Saves'
    <2>1. CASE EditText(p, c, id) \/ (\E pinned \in BOOLEAN : Pin(p, c, id, pinned)) \/ DeleteText(p, c, id)
      BY <2>1, SpawnSettled DEF EditText, Pin, DeleteText
    <2>2. CASE React(p, c, id)
      BY <2>2, SpawnSettled DEF React
    <2>3. CASE MarkRead(p, c, id)
      BY <2>3, SpawnSettled DEF MarkRead
    <2>4. CASE \E target \in mix.chans : BeginForward(p, c, id, target)
      BY <2>4, SameTasksSettled DEF BeginForward
    <2> QED
      BY <2>1, <2>2, <2>3, <2>4
  <1> QED
    BY <1>1, <1>2, <1>3, CalmAccounting

LEMMA ConversationSettled ==
  ASSUME Typed, IdInv, ChannelsInv, NEW p \in Peers, Conversation(p)
  PROVE  Settled /\ Accounting
  <1> USE DEF memVars, idVars, background, world, history
  <1>1. SameMail(db, db')
    BY ConversationStatements
    DEF Conversation, BeginDirect, StoreDirect, EditDirect, DeleteDirect, ProbeReaction, ToggleReaction,
        BeginGroup, StoreGroup, BeginGroupSend, StoreGroupMessage, Typed, TypedTables
  <1>2. UNCHANGED << live, mem, nextChan, sweeper, clock, refused, tasks >>
    BY DEF Conversation, BeginDirect, StoreDirect, EditDirect, DeleteDirect, ProbeReaction, ToggleReaction,
        BeginGroup, StoreGroup, BeginGroupSend, StoreGroupMessage
  <1>3. Derived
    BY <1>2, SameMemory DEF IdInv
  <1> QED
    BY <1>1, <1>2, <1>3, SameMailFields, SameTasksSettled, CalmAccounting

LEMMA SchedulingSettled ==
  ASSUME Typed, IdInv, ChannelsInv, NEW p \in Peers, Scheduling(p)
  PROVE  Settled /\ Accounting
  <1> USE DEF memVars, idVars, background, world, history
  <1>1. db'.messages = db.messages /\ db'.channels = db.channels /\ db'.expiring = db.expiring
    BY DEF Scheduling, Schedule, CancelScheduled, ScheduleRow, Unschedule, Typed, TypedTables, Shaped, Tables
  <1>2. UNCHANGED << live, mem, nextChan, sweeper, clock, refused, tasks >>
    BY DEF Scheduling, Schedule, CancelScheduled
  <1>3. Derived
    BY <1>2, SameMemory DEF IdInv
  <1> QED
    BY <1>1, <1>2, <1>3, SameTasksSettled, CalmAccounting

LEMMA DeliverSettled ==
  ASSUME Typed, IdInv, ChannelsInv, NEW r \in due, Deliver(r)
  PROVE  Settled /\ Accounting
  <1> USE DEF idVars, world
  <1> DEFINE m == Message(nextId, r.sender, 0, 0)
             c == r.chan
             row == RowOf(m, c)
             save == [ op |-> "SaveMessage", args |-> row ]
             done == [ op |-> "Unschedule", args |-> r.id ]
  <1>1. /\ Push(c, m) /\ tasks' = tasks \cup { save, done }
        /\ UNCHANGED << live, nextChan, sweeper, clock, refused, db >>
    BY DEF Deliver
  <1>2. c \in Chans /\ m \in Posts /\ row.id = m.id
    BY MessageTyped DEF Typed, TypedCounts, Duties, RowOf
  <1>3. save.op = "SaveMessage" /\ save.args = row /\ done.op = "Unschedule"
    OBVIOUS
  <1> HIDE DEF m, c, row, save, done
  <1>4. Saves' = Saves \cup {row}
    BY <1>1, <1>3 DEF Saves
  <1>5. ChannelTasks' = ChannelTasks
    BY <1>1, <1>3 DEF ChannelTasks
  <1> QED
    BY <1>1, <1>2, <1>4, <1>5, PostAccounting

LEMMA QuietSettled ==
  ASSUME Typed, IdInv, ChannelsInv, FetchDue \/ Cleanup \/ Tick
  PROVE  Settled /\ Accounting
  <1> USE DEF memVars, idVars, background, world, history
  <1>1. UNCHANGED << live, mem, nextChan, sweeper, refused, db, tasks >> /\ clock' \in { clock, clock + 1 }
    BY DEF FetchDue, Cleanup, Tick
  <1>2. Derived
    BY <1>1, SameMemory DEF IdInv
  <1>3. Settled
    BY <1>1, SameTasksSettled DEF Settled, ChannelsInv
  <1>4. Known' = Known /\ clock' >= clock
    BY <1>1, SameTasks DEF Known, Typed, TypedCounts
  <1> QED
    BY <1>1, <1>2, <1>3, <1>4 DEF Accounting, Derived

(* A task that is not about a channel runs. *)
LEMMA TaskChannels ==
  ASSUME Typed, NEW t \in tasks, RunTask(t), t.op \notin { "SaveChannel", "DeleteChannel" }
  PROVE  db'.channels = db.channels /\ db'.expiring = db.expiring
  <1>1. db' = Applied(t) /\ Shaped(db) /\ t.op \in TaskOps
    BY DEF RunTask, Typed, TypedTables, TypedTask
  <1>2. CASE t.op \in { "SaveMessage", "UpdateMessage", "SetPinned", "DeleteMessage" }
    BY <1>1, <1>2 DEF Applied, Shaped, Tables, SaveMessage, UpdateMessage, SetMessagePinned, DeleteMessageRow
  <1>3. CASE t.op \in { "AddReaction", "RemoveReaction", "InsertAttachment", "UpsertLastRead", "Unschedule" }
    BY <1>1, <1>3 DEF Applied, Shaped, Tables, AddReaction, RemoveReaction, InsertAttachment, UpsertLastRead,
       Unschedule
  <1> QED
    BY <1>1, <1>2, <1>3 DEF TaskOps, CalmOps

LEMMA TaskSettled ==
  ASSUME Typed, IdInv, SaveInv, ChannelsInv, NEW t \in tasks, RunTask(t),
         t.op \notin { "SaveChannel", "DeleteChannel" }
  PROVE  Settled /\ Accounting
  <1>0. /\ db' = Applied(t) /\ tasks' = tasks \ {t} /\ TypedTask(t) /\ TypedTables(db) /\ Shaped(db)
        /\ UNCHANGED << live, nextChan, sweeper, mem, clock >>
        /\ refused' = IF t.op = "SaveMessage" /\ t.args.chan \notin db.channels
                      THEN refused \cup {t.args.id} ELSE refused
    BY DEF RunTask, Typed, TypedTables, memVars, idVars, background, world
  <1>1. db'.channels = db.channels /\ db'.expiring = db.expiring
    BY TaskChannels
  <1>2. ChannelTasks' = ChannelTasks
    BY <1>0 DEF ChannelTasks
  <1>3. Derived /\ clock' >= clock
    BY <1>0, SameMemory DEF IdInv, Typed, TypedCounts
  <1>4. CASE t.op = "SaveMessage"
    <2>1. t.args \in Saves /\ Saves' = Saves \ {t.args}
      BY <1>0, <1>4, TaskDone
    <2>2. db'.messages = IF Storable(db, t.args) THEN db.messages \cup {t.args} ELSE db.messages
      BY <1>0, <1>4, TaskEffect
    <2>3. Storable(db, t.args) <=> t.args.chan \in db.channels
      BY <2>1 DEF SaveInv, Storable, Ids
    <2>4. Settled
      BY <1>0, <1>1, <1>2, <2>2, <2>3 DEF Settled, ChannelsInv
    <2>5. \A s \in Known : s \in Known' \/ s.id \in refused'
      BY <1>0, <1>4, <2>1, <2>2, <2>3 DEF Known
    <2> QED
      BY <1>0, <1>3, <2>4, <2>5 DEF Accounting, Derived
  <1>5. CASE t.op = "DeleteMessage"
    <2>1. t.args \in Gone /\ Saves' = Saves
      BY <1>0, <1>5, TaskDone
    <2>2. db'.messages = { m \in db.messages : m.id # t.args }
      BY <1>0, <1>5, TaskEffect
    <2>3. Settled
      BY <1>0, <1>1, <1>2, <2>2 DEF Settled, ChannelsInv
    <2>4. \A c \in Chans : \A i \in DOMAIN mem[c] : mem[c][i].id # t.args
      BY <2>1 DEF IdInv, Letter
    <2>5. \A s \in Known : s \in Known' \/ s.id = t.args
      BY <2>1, <2>2 DEF Known
    <2> QED
      BY <1>0, <1>3, <1>5, <2>3, <2>4, <2>5 DEF Accounting, Derived
  <1>6. CASE t.op \in { "UpdateMessage", "SetPinned" }
    <2>1. /\ \A r \in db'.messages : \E s \in db.messages : AlikeRow(s, r)
          /\ \A s \in db.messages : \E r \in db'.messages : AlikeRow(s, r)
      BY <1>0, <1>6, RewordedRows DEF Applied, TypedTask
    <2>2. Saves' = Saves
      BY <1>0, <1>6, TaskDone
    <2>3. Settled
      BY <1>0, <1>1, <1>2, <2>1 DEF Settled, ChannelsInv, AlikeRow
    <2>4. \A s \in Known : \E r \in Known' : r.id = s.id
      BY <2>1, <2>2 DEF Known, AlikeRow
    <2> QED
      BY <1>0, <1>3, <1>6, <2>3, <2>4 DEF Accounting, Derived
  <1>7. CASE t.op \in { "AddReaction", "RemoveReaction", "InsertAttachment", "UpsertLastRead", "Unschedule" }
    <2>1. db'.messages = db.messages
      BY <1>0, <1>7, TaskEffect
    <2>2. Saves \subseteq Saves'
      BY <1>0, <1>7, TaskDone
    <2> QED
      BY <1>0, <1>1, <1>2, <1>3, <1>7, <2>1, <2>2, CalmAccounting
  <1> QED
    BY <1>0, <1>4, <1>5, <1>6, <1>7 DEF TypedTask, TaskOps, CalmOps

-----------------------------------------------------------------------------
(* The steps that are about channels. *)
LEMMA ChannelTaskStep ==
  ASSUME Typed, IdInv, SaveInv, ChannelsInv, KeptInv, NEW t \in tasks, RunTask(t),
         t.op \in { "SaveChannel", "DeleteChannel" }
  PROVE  ChannelsInv' /\ KeptInv'
  <1> DEFINE x == t.args
  <1>0. /\ db' = Applied(t) /\ tasks' = tasks \ {t} /\ TypedTask(t) /\ Shaped(db)
        /\ UNCHANGED << live, nextChan, sweeper, mem, clock, refused >>
        /\ x \in Chans /\ t \in ChannelTasks /\ t.op # "SaveMessage"
    BY DEF RunTask, Typed, TypedTables, TypedTask, memVars, idVars, background, world, ChannelTasks
  <1>1. /\ db'.messages = { m \in db.messages : m.chan # x }
        /\ db'.expiring = db.expiring \ {x}
        /\ t.op = "SaveChannel" => db'.channels = db.channels \cup {x}
        /\ t.op = "DeleteChannel" => db'.channels = db.channels \ {x}
    BY <1>0, ChannelFields DEF Applied
  <1>2. Saves' = Saves /\ ChannelTasks' = ChannelTasks \ {t}
    BY <1>0, TaskDone DEF ChannelTasks
  <1>3. x < nextChan /\ (t.op = "SaveChannel" => Making(x)) /\ (t.op = "DeleteChannel" => Ending(x))
    BY <1>0 DEF ChannelsInv, Making, Ending
  <1>4. \A c \in Chans : (Making(c)' => Making(c)) /\ (Ending(c)' => Ending(c))
    BY <1>2 DEF Making, Ending
  <1>5. \A c \in Chans \ {x} : Ending(c) => Ending(c)'
    BY <1>2 DEF Ending
  <1>6. t.op = "SaveChannel" => x \notin db.channels /\ \A c \in Chans : Ending(c) => Ending(c)'
    BY <1>0, <1>2, <1>3 DEF ChannelsInv, Ending
  <1>7. t.op = "SaveChannel" => ~Making(x)'
    <2>1. \A s \in ChannelTasks : s.op = t.op /\ s.args = x => s = t
      <3>1. \A s \in ChannelTasks : s \in tasks
        BY DEF ChannelTasks
      <3> QED
        BY <3>1 DEF SaveInv
    <2> QED
      BY <1>2, <2>1 DEF Making
  <1> HIDE DEF x
  <1>8. ChannelsInv'
    <2>1. \A r \in db'.messages : r.chan \in db'.channels
      BY <1>1 DEF ChannelsInv, Typed, ChannelTasks, TypedTask
    <2>2. \A c \in db'.channels \cup live' : c < nextChan'
      BY <1>0, <1>1, <1>3 DEF ChannelsInv
    <2>3. \A s \in ChannelTasks' : s.args < nextChan'
      BY <1>0, <1>2 DEF ChannelsInv
    <2>4. \A c \in Chans : Making(c)' => c \notin db'.channels
      BY <1>0, <1>1, <1>4, <1>7 DEF ChannelsInv
    <2>5. \A c \in Chans : Ending(c)' => c \notin live'
      BY <1>0, <1>4 DEF ChannelsInv
    <2>6. db'.expiring \subseteq db'.channels /\ db'.expiring \subseteq Chans
      BY <1>1 DEF ChannelsInv, Typed, TypedTables
    <2>7. \A c \in db'.expiring \ live' : Ending(c)'
      BY <1>0, <1>1, <1>5, <2>6 DEF ChannelsInv
    <2>8. sweeper' \in { "idle", "purge" }
      BY <1>0 DEF ChannelsInv
    <2> QED
      BY <2>1, <2>2, <2>3, <2>4, <2>5, <2>6, <2>7, <2>8 DEF ChannelsInv
  <1>9. ASSUME NEW c \in Chans, Wanted(c)', NEW i \in DOMAIN mem[c]
        PROVE  Accounted(c, mem[c][i])'
    <2>1. Wanted(c)
      BY <1>0, <1>1, <1>3, <1>4, <1>9 DEF Wanted
    <2>2. Accounted(c, mem[c][i]) /\ Letter(c, mem[c][i], nextId, Gone, Known, db.attachments)
      BY <2>1 DEF KeptInv, IdInv
    <2>3. CASE c = x /\ x \in db.channels
      <3>1. t.op = "DeleteChannel" /\ ~Making(x) /\ x \notin db'.channels
        BY <1>0, <1>1, <1>6, <2>3 DEF ChannelsInv
      <3>2. nextChan' = nextChan /\ nextChan \in Nat /\ x \in Nat /\ x < nextChan
        BY <1>0, <1>3 DEF Typed, TypedCounts, Chans
      <3>3. ~Wanted(x)'
        BY <1>0, <1>4, <3>1, <3>2 DEF Wanted
      <3> QED
        BY <1>9, <2>3, <3>3
    <2>4. CASE ~(c = x /\ x \in db.channels)
      <3>1. \A r \in Known : r.id = mem[c][i].id => r \in Known'
        <4>1. ASSUME NEW r \in db.messages, r.id = mem[c][i].id PROVE r.chan # x
          <5>1. r.chan = c /\ r.chan \in db.channels
            BY <2>2, <4>1 DEF Letter, Agree, Known, ChannelsInv
          <5> QED
            BY <2>4, <5>1
        <4> QED
          BY <1>1, <1>2, <4>1 DEF Known
      <3>2. Ending(c) /\ c \in db.channels => Ending(c)' /\ c \in db'.channels
        BY <1>1, <1>5, <2>4, <1>0 DEF TypedTask
      <3>3. Swept(c, mem[c][i]) => Swept(c, mem[c][i])'
        BY <1>0, <1>1, <2>4 DEF Swept, ChannelsInv
      <3>4. mem' = mem /\ refused' = refused
        BY <1>0
      <3> QED
        BY <2>2, <3>1, <3>2, <3>3, <3>4 DEF Accounted
    <2> QED
      BY <2>3, <2>4
  <1>10. KeptInv'
    BY <1>0, <1>9 DEF KeptInv
  <1> QED
    BY <1>8, <1>10

LEMMA CreateChannelStep ==
  ASSUME Typed, ChannelsInv, KeptInv, NEW p \in Peers, CreateChannel(p)
  PROVE  ChannelsInv' /\ KeptInv'
  <1> DEFINE job == [ op |-> "SaveChannel", args |-> nextChan ]
  <1>1. /\ live' = live \cup {nextChan} /\ nextChan' = nextChan + 1 /\ tasks' = tasks \cup {job}
        /\ UNCHANGED << db, mem, sweeper, clock, refused >>
        /\ nextChan \in Nat
    BY DEF CreateChannel, Spawn, background, world, history, Typed, TypedCounts
  <1>2. job.op = "SaveChannel" /\ job.args = nextChan
    OBVIOUS
  <1> HIDE DEF job
  <1>3. ChannelTasks' = ChannelTasks \cup {job} /\ Saves' = Saves
    BY <1>1, <1>2 DEF ChannelTasks, Saves
  <1>4. \A t \in ChannelTasks : t.args < nextChan /\ t.args \in Chans
    BY DEF ChannelsInv, ChannelTasks, Typed, TypedTask
  <1>5. \A c \in Chans : (Making(c)' <=> Making(c) \/ c = nextChan) /\ (Ending(c)' <=> Ending(c))
    BY <1>2, <1>3 DEF Making, Ending
  <1>6. \A c \in Chans : c \in Nat
    BY DEF Chans
  <1>7. db.channels \subseteq Chans /\ live \subseteq Chans /\ db.expiring \subseteq Chans
    BY DEF Typed, TypedCounts, TypedTables
  <1>8. nextChan \notin db.channels /\ \A c \in Chans : Ending(c) => c # nextChan
    BY <1>1, <1>4 DEF ChannelsInv, Ending
  <1>9. ChannelsInv'
    <2>1. \A c \in db'.channels \cup live' : c < nextChan'
      BY <1>1, <1>6, <1>7 DEF ChannelsInv
    <2>2. \A t \in ChannelTasks' : t.args < nextChan'
      BY <1>1, <1>2, <1>3, <1>4, <1>6
    <2>3. \A c \in Chans : Making(c)' => c \notin db'.channels
      BY <1>1, <1>5, <1>8 DEF ChannelsInv
    <2>4. \A c \in Chans : Ending(c)' => c \notin live'
      BY <1>1, <1>5, <1>8 DEF ChannelsInv
    <2>5. \A c \in db'.expiring \ live' : Ending(c)'
      BY <1>1, <1>5, <1>7 DEF ChannelsInv
    <2> QED
      BY <1>1, <2>1, <2>2, <2>3, <2>4, <2>5 DEF ChannelsInv
  <1>10. ASSUME NEW c \in Chans, Wanted(c)', NEW i \in DOMAIN mem[c] PROVE Accounted(c, mem[c][i])'
    <2>1. Wanted(c)
      BY <1>1, <1>5, <1>6, <1>10 DEF Wanted
    <2>2. Accounted(c, mem[c][i])
      BY <2>1 DEF KeptInv
    <2> QED
      BY <1>1, <1>3, <1>5, <2>2 DEF Accounted, Known, Swept
  <1>11. KeptInv'
    BY <1>1, <1>10 DEF KeptInv
  <1> QED
    BY <1>9, <1>11

LEMMA DeleteChannelStep ==
  ASSUME Typed, ChannelsInv, KeptInv, NEW p \in Peers, NEW x \in Chans, DeleteChannel(p, x)
  PROVE  ChannelsInv' /\ KeptInv'
  <1> DEFINE job == [ op |-> "DeleteChannel", args |-> x ]
  <1>1. /\ x \in live /\ live' = live \ {x} /\ tasks' = tasks \cup {job}
        /\ mem' = [ mem EXCEPT ![x] = << >> ]
        /\ UNCHANGED << db, nextChan, sweeper, clock, refused >>
    BY DEF DeleteChannel, Spawn, idVars, background, world, history
  <1>2. job.op = "DeleteChannel" /\ job.args = x
    OBVIOUS
  <1> HIDE DEF job
  <1>3. ChannelTasks' = ChannelTasks \cup {job} /\ Saves' = Saves
    BY <1>1, <1>2 DEF ChannelTasks, Saves
  <1>4. \A c \in Chans : (Making(c)' <=> Making(c)) /\ (Ending(c)' <=> Ending(c) \/ c = x)
    BY <1>2, <1>3 DEF Making, Ending
  <1>5. ChannelsInv'
    <2>1. db.expiring \subseteq Chans
      BY DEF Typed, TypedTables
    <2>2. \A t \in ChannelTasks' : t.args < nextChan'
      BY <1>1, <1>2, <1>3 DEF ChannelsInv
    <2>3. \A c \in db'.expiring \ live' : Ending(c)'
      BY <1>1, <1>4, <2>1 DEF ChannelsInv
    <2> QED
      BY <1>1, <1>4, <2>2, <2>3 DEF ChannelsInv
  <1>6. mem'[x] = << >> /\ \A c \in Chans \ {x} : mem'[c] = mem[c]
    BY <1>1 DEF Typed, TypedMem
  <1>7. ASSUME NEW c \in Chans, Wanted(c)', NEW i \in DOMAIN mem'[c] PROVE Accounted(c, mem[c][i])'
    <2>1. c # x
      BY <1>6
    <2>2. Wanted(c) /\ mem'[c] = mem[c] /\ i \in DOMAIN mem[c]
      BY <1>1, <1>4, <1>6, <1>7, <2>1 DEF Wanted
    <2>3. Accounted(c, mem[c][i])
      BY <2>2 DEF KeptInv
    <2>4. c \in live => c \in live'
      BY <1>1, <2>1
    <2> QED
      BY <1>1, <1>3, <1>4, <2>2, <2>3, <2>4 DEF Accounted, Known, Swept
  <1>8. KeptInv'
    BY <1>7 DEF KeptInv
  <1> QED
    BY <1>5, <1>8

LEMMA SweepRowsStep ==
  ASSUME Typed, IdInv, ChannelsInv, KeptInv, SweepRows
  PROVE  ChannelsInv' /\ KeptInv'
  <1>1. /\ sweeper = "idle" /\ sweeper' = "purge" /\ db' = DeleteExpired(db, clock - MaxAge)
        /\ UNCHANGED << live, mem, nextChan, tasks, clock, refused >> /\ Shaped(db)
    BY DEF SweepRows, memVars, idVars, world, history, Typed, TypedTables
  <1>2. /\ db'.channels = db.channels /\ db'.expiring = db.expiring
        /\ db'.messages = { m \in db.messages : m.chan \notin db.expiring \/ m.ts >= clock - MaxAge }
    BY <1>1 DEF DeleteExpired, Shaped, Tables
  <1>3. ChannelTasks' = ChannelTasks /\ Saves' = Saves
    BY <1>1 DEF ChannelTasks, Saves
  <1>4. \A c \in Chans : (Making(c)' <=> Making(c)) /\ (Ending(c)' <=> Ending(c))
    BY <1>3 DEF Making, Ending
  <1>5. ChannelsInv'
    <2>1. \A c \in db'.expiring \ live' : Ending(c)'
      BY <1>1, <1>2, <1>4 DEF ChannelsInv, Typed, TypedTables
    <2> QED
      BY <1>1, <1>2, <1>3, <1>4, <2>1 DEF ChannelsInv
  <1>6. ASSUME NEW c \in Chans, Wanted(c)', NEW i \in DOMAIN mem[c] PROVE Accounted(c, mem[c][i])'
    <2> DEFINE m == mem[c][i]
    <2>1. Wanted(c)
      BY <1>1, <1>2, <1>4, <1>6 DEF Wanted
    <2>2. Accounted(c, m) /\ Letter(c, m, nextId, Gone, Known, db.attachments) /\ m \in Posts
      BY <2>1, LettersTyped DEF KeptInv, IdInv, Typed
    <2>3. CASE \E r \in Known : r.id = m.id
      <3>1. PICK r \in Known : r.id = m.id
        BY <2>3
      <3>2. r.chan = c /\ r.ts = m.ts
        BY <2>2, <3>1 DEF Letter, Agree
      <3>3. CASE r \in Known'
        BY <1>1, <3>1, <3>3 DEF Accounted
      <3>4. CASE r \notin Known'
        <4>1. c \in db.expiring /\ ~(m.ts >= clock - MaxAge)
          BY <1>2, <1>3, <3>1, <3>2, <3>4 DEF Known
        <4>2. m.ts < clock - MaxAge
          <5>1. m.ts \in Nat /\ clock \in Nat /\ MaxAge \in Nat
            BY <2>2, ChatAssumption DEF ChatAssumption, Posts, Typed, TypedCounts
          <5> QED
            BY <4>1, <5>1
        <4>3. CASE c \in live
          BY <1>1, <1>2, <4>1, <4>2, <4>3 DEF Accounted, Swept
        <4>4. CASE c \notin live
          BY <1>1, <1>2, <1>4, <4>1, <4>4 DEF Accounted, ChannelsInv
        <4> QED
          BY <4>3, <4>4
      <3> QED
        BY <3>3, <3>4
    <2>4. CASE ~\E r \in Known : r.id = m.id
      <3>1. m.id \in refused \/ (Ending(c) /\ c \in db.channels)
        BY <1>1, <2>2, <2>4 DEF Accounted, Swept
      <3> QED
        BY <1>1, <1>2, <1>4, <3>1 DEF Accounted
    <2> QED
      BY <2>3, <2>4
  <1>7. KeptInv'
    BY <1>1, <1>6 DEF KeptInv
  <1> QED
    BY <1>5, <1>7

LEMMA SweepMemoryStep ==
  ASSUME Typed, IdInv, ChannelsInv, KeptInv, SweepMemory
  PROVE  ChannelsInv' /\ KeptInv'
  <1>1. /\ sweeper = "purge" /\ sweeper' = "idle"
        /\ UNCHANGED << live, db, nextChan, tasks, clock, refused >>
    BY DEF SweepMemory, idVars, world, history
  <1>2. ChannelTasks' = ChannelTasks /\ Saves' = Saves
    BY <1>1 DEF ChannelTasks, Saves
  <1>3. \A c \in Chans : (Making(c)' <=> Making(c)) /\ (Ending(c)' <=> Ending(c))
    BY <1>2 DEF Making, Ending
  <1>4. ChannelsInv'
    <2>1. \A c \in db'.expiring \ live' : Ending(c)'
      BY <1>1, <1>3 DEF ChannelsInv, Typed, TypedTables
    <2> QED
      BY <1>1, <1>2, <1>3, <2>1 DEF ChannelsInv
  <1>5. ASSUME NEW c \in Chans, Wanted(c)', NEW i \in DOMAIN mem'[c] PROVE Accounted(c, mem[c][i])'
    <2>1. Wanted(c)
      BY <1>1, <1>3, <1>5 DEF Wanted
    <2>2. PICK j \in DOMAIN mem[c] :
             mem'[c][i] = mem[c][j] /\ (c \in db.expiring \cap live => mem[c][j].ts >= clock - MaxAge)
      <3>1. CASE c \in db.expiring \cap live
        <4>1. mem[c] \in Seq(Posts) /\ Old(c) \subseteq DOMAIN mem[c] /\ mem'[c] = Retained(mem[c], Old(c))
          BY <3>1, LettersTyped, SweepTyped DEF Old, Typed
        <4>2. PICK k \in Old(c) : mem'[c][i] = mem[c][k]
          BY <4>1, RetainedPlaces
        <4> QED
          BY <4>2 DEF Old
      <3>2. CASE c \notin db.expiring \cap live
        <4>1. mem'[c] = mem[c]
          BY <3>2, SweepTyped DEF Typed
        <4> QED
          BY <3>2, <4>1
      <3> QED
        BY <3>1, <3>2
    <2>3. Accounted(c, mem[c][j]) /\ mem[c][j] \in Posts
      BY <2>1, LettersTyped DEF KeptInv, Typed
    <2>4. ~Swept(c, mem[c][j])
      <3>1. mem[c][j].ts \in Nat /\ clock \in Nat /\ MaxAge \in Nat
        BY <2>3, ChatAssumption DEF ChatAssumption, Posts, Typed, TypedCounts
      <3> QED
        BY <2>2, <3>1 DEF Swept
    <2> QED
      BY <1>1, <1>2, <1>3, <2>2, <2>3, <2>4 DEF Accounted, Known
  <1>6. KeptInv'
    BY <1>5 DEF KeptInv
  <1> QED
    BY <1>4, <1>6

(* The restart: what is in memory is what was stored. *)
LEMMA CrashStep ==
  ASSUME Typed, ChannelsInv, Crash
  PROVE  ChannelsInv' /\ KeptInv'
  <1>1. tasks' = {} /\ db' = db /\ live' = db.channels /\ sweeper' = "idle"
    BY DEF Crash
  <1>2. ChannelTasks' = {} /\ Saves' = {} /\ Known' = db.messages
    BY <1>1 DEF ChannelTasks, Saves, Known
  <1>3. \A c \in db.channels : c < nextChan'
    <2>1. PICK n \in 0 .. MaxChannel : IsMaxId(n, db.channels) /\ nextChan' = n + 1
      BY DEF Crash
    <2>2. MaxChannel \in Nat /\ \A c \in db.channels : c \in Nat /\ c <= n
      BY <2>1, ChatAssumption DEF ChatAssumption, IsMaxId, Typed, TypedTables, Chans
    <2> QED
      BY <2>1, <2>2
  <1>4. ChannelsInv'
    BY <1>1, <1>2, <1>3 DEF ChannelsInv, Making, Ending
  <1>5. ASSUME NEW c \in Chans, NEW i \in DOMAIN mem'[c] PROVE \E r \in Known' : r.id = mem'[c][i].id
    <2>1. mem'[c] = IF c \in db.channels THEN Loaded(c) ELSE << >>
      BY DEF Crash
    <2>2. mem'[c] = Loaded(c)
      BY <2>1
    <2>3. PICK r \in db.messages : mem'[c][i] = Restored(r)
      BY <2>2, LoadedRows DEF Typed
    <2> QED
      BY <1>2, <2>3 DEF Restored
  <1>6. KeptInv'
    BY <1>5 DEF KeptInv, Accounted
  <1> QED
    BY <1>4, <1>6

LEMMA InitKept == Init => ChannelsInv /\ KeptInv
  <1> SUFFICES ASSUME Init PROVE ChannelsInv /\ KeptInv
    OBVIOUS
  <1>1. /\ tasks = {} /\ db.messages = {} /\ mem = [ c \in Chans |-> << >> ] /\ sweeper = "idle"
        /\ db.channels = 1 .. FirstChannels /\ live = 1 .. FirstChannels /\ nextChan = FirstChannels + 1
        /\ db.expiring = Expiring
    BY DEF Init
  <1>2. FirstChannels \in Nat /\ Expiring \subseteq 1 .. FirstChannels
    BY ChatAssumption DEF ChatAssumption
  <1>3. ChannelTasks = {} /\ \A c \in Chans : DOMAIN mem[c] = {}
    BY <1>1 DEF ChannelTasks
  <1>4. \A c \in db.channels \cup live : c < nextChan
    BY <1>1, <1>2
  <1>5. db.expiring \subseteq db.channels /\ db.expiring \ live = {}
    BY <1>1, <1>2
  <1>6. ChannelsInv
    BY <1>1, <1>3, <1>4, <1>5 DEF ChannelsInv, Making, Ending
  <1>7. KeptInv
    BY <1>3 DEF KeptInv
  <1> QED
    BY <1>6, <1>7

LEMMA KeptInvariant == Spec => [](ChannelsInv /\ KeptInv)
  <1>1. ASSUME Typed, Typed', IdInv, SaveInv, ChannelsInv, KeptInv, Next PROVE ChannelsInv' /\ KeptInv'
    <2>1. CASE Settled /\ Accounting
      BY <1>1, <2>1, SettledStep, SettledKept
    <2>2. CASE \E p \in Peers : Request(p)
      <3>1. PICK p \in Peers : Request(p)
        BY <2>2
      <3>2. CASE OnChannel(p)
        BY <1>1, <3>2, ChansInMix, CreateChannelStep, DeleteChannelStep DEF OnChannel, Typed, TypedCounts
      <3>3. CASE ~OnChannel(p)
        BY <1>1, <2>1, <3>1, <3>3, SendSettled, OnMessageSettled, ConversationSettled, SchedulingSettled DEF Request
      <3> QED
        BY <3>2, <3>3
    <2>3. CASE Server
      BY <1>1, <2>1, <2>3, DeliverSettled, QuietSettled, SweepRowsStep, SweepMemoryStep DEF Server
    <2>4. CASE \E t \in tasks : RunTask(t)
      BY <1>1, <2>1, <2>4, TaskSettled, ChannelTaskStep
    <2>5. CASE Tick
      BY <1>1, <2>1, <2>5, QuietSettled
    <2>6. CASE Crash
      BY <1>1, <2>6, CrashStep
    <2> QED
      BY <1>1, <2>2, <2>3, <2>4, <2>5, <2>6 DEF Next
  <1>2. ASSUME ChannelsInv, KeptInv, UNCHANGED vars PROVE ChannelsInv' /\ KeptInv'
    <2>1. UNCHANGED << mem, db, tasks, live, nextChan, sweeper, clock, refused >>
      BY <1>2 DEF vars, memVars, idVars, background, world, history
    <2>2. ChannelTasks' = ChannelTasks /\ Known' = Known
      BY <2>1 DEF ChannelTasks, Known, Saves
    <2> QED
      BY <1>2, <2>1, <2>2 DEF ChannelsInv, KeptInv, Wanted, Accounted, Swept, Making, Ending
  <1> QED
    BY InitKept, TypedInvariant, IdInvariant, <1>1, <1>2, PTL DEF Spec

(* StoredWhenQuiet: nothing of what members see in a channel is missing    *)
(* from the tables once the tasks have run.                                *)
THEOREM SeenIsStored == Spec => []StoredWhenQuiet
  <1>1. ASSUME Typed, IdInv, ChannelsInv, KeptInv PROVE StoredWhenQuiet
    <2> SUFFICES ASSUME tasks = {}, sweeper = "idle", NEW c \in db.channels, NEW id \in IdsIn(c)
                 PROVE  id \in Ids({ r \in db.messages : r.chan = c }) \cup refused
      BY DEF StoredWhenQuiet
    <2>1. PICK i \in DOMAIN mem[c] : mem[c][i].id = id
      BY DEF IdsIn
    <2>2. c \in Chans
      BY <1>1 DEF Typed, TypedTables
    <2>3. Accounted(c, mem[c][i]) /\ Letter(c, mem[c][i], nextId, Gone, Known, db.attachments)
      BY <1>1, <2>2 DEF KeptInv, Wanted, IdInv
    <2>4. Saves = {} /\ ~Ending(c)
      BY DEF Saves, Ending, ChannelTasks
    <2>5. id \in refused \/ \E r \in db.messages : r.id = id
      BY <2>1, <2>3, <2>4 DEF Accounted, Swept, Known
    <2> QED
      BY <2>1, <2>3, <2>5 DEF Letter, Agree, Known, Ids
  <1> QED
    BY TypedInvariant, IdInvariant, KeptInvariant, <1>1, PTL
=============================================================================
