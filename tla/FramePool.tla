------------------------------ MODULE FramePool ------------------------------
(***************************************************************************)
(* The buffers in which captured audio travels from the microphone's       *)
(* callback to the task that sends it (MediaSession::start).               *)
(*                                                                         *)
(* The callback takes a buffer from the pool, or allocates one, and offers *)
(* it to a bounded channel; when the channel is full the buffer goes back. *)
(* The sender takes frames from the channel and gives each buffer back     *)
(* when it was sent, failed, or waited too long for the network's lock.    *)
(***************************************************************************)
EXTENDS Integers

CONSTANTS
    PoolSize,      \* POOL_SIZE, 12
    ChannelSize    \* frames that may wait to be sent, 8

(* Besides the frames that wait, the sender and the callback hold one each. *)
ASSUME PoolAssumption ==
    /\ PoolSize \in Nat /\ ChannelSize \in Nat
    /\ ChannelSize + 2 <= PoolSize

VARIABLES
    pool,          \* buffers in the return channel
    channel,       \* frames in the channel
    sender,        \* does the sender hold one?
    held,          \* does the callback?
    allocated      \* history: the callback has had to allocate

poolVars == << pool, channel, sender, held, allocated >>

PoolInit ==
    /\ pool = PoolSize
    /\ channel = 0
    /\ sender = FALSE /\ held = FALSE
    /\ allocated = FALSE

(* The callback takes a buffer and copies the frame. *)
TakeBuffer ==
    /\ ~held
    /\ held' = TRUE
    /\ IF pool > 0
       THEN pool' = pool - 1 /\ UNCHANGED allocated
       ELSE allocated' = TRUE /\ UNCHANGED pool
    /\ UNCHANGED << channel, sender >>

(* Mutant: the buffer of a frame that does not fit is freed. *)
FreeBuffer == UNCHANGED pool

RecycleBuffer == pool' = pool + 1

(* try_send. *)
Offer ==
    /\ held
    /\ held' = FALSE
    /\ IF channel < ChannelSize
       THEN channel' = channel + 1 /\ UNCHANGED pool
       ELSE RecycleBuffer /\ UNCHANGED channel
    /\ UNCHANGED << sender, allocated >>

Receive ==
    /\ ~sender /\ channel > 0
    /\ sender' = TRUE
    /\ channel' = channel - 1
    /\ UNCHANGED << pool, held, allocated >>

(* Sent, failed or skipped: the buffer is free in any case. *)
GiveBack ==
    /\ sender
    /\ sender' = FALSE
    /\ pool' = pool + 1
    /\ UNCHANGED << channel, held, allocated >>

PoolNext == TakeBuffer \/ Offer \/ Receive \/ GiveBack

PoolSpec == PoolInit /\ [][PoolNext]_poolVars

-----------------------------------------------------------------------------
PoolTypeOK ==
    /\ pool \in Nat
    /\ channel \in 0 .. ChannelSize
    /\ sender \in BOOLEAN /\ held \in BOOLEAN /\ allocated \in BOOLEAN

One(holds) == IF holds THEN 1 ELSE 0

(* No buffer is lost and none is given back twice. *)
BuffersConserved == pool + channel + One(sender) + One(held) = PoolSize

(* Property: the real-time callback never has to allocate, however far the *)
(* sender falls behind and however many frames are dropped.                *)
NeverAllocates == ~allocated
=============================================================================
