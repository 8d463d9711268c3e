---------------------------- MODULE ScreenChunks ----------------------------
(***************************************************************************)
(* Screen frames on their way from a sharer to a viewer.                   *)
(*                                                                         *)
(* A frame that does not fit one packet is sent in chunks.  Each carries   *)
(* its frame's sequence number (32 bits, wrapping), its index and the      *)
(* number of chunks.  The server relays chunks one at a time, and the      *)
(* viewer puts them together, one unfinished frame per sharer.  Both hops  *)
(* are UDP (the WebSocket, where there is no UDP, is the case without      *)
(* loss and reordering): packets are lost, duplicated and reordered.       *)
(*                                                                         *)
(* Frames are numbered from 1 here; what a packet shows of the number is   *)
(* SeqNo.  The rest of a packet stands for the chunk's data: a part that is*)
(* stored is the packet it came with.  Frames of one chunk go in packets   *)
(* of another kind and skip all of this.                                   *)
(***************************************************************************)
EXTENDS Integers

CONSTANTS
    Senders,      \* sharers: the ids of their connections
    Receivers,    \* the viewer's tasks that read packets: WebSocket and UDP
    ChunkCounts,  \* how many chunks a frame can have
    MaxChunks,    \* MAX_SCREEN_FRAME_SIZE, in chunks of full size
    Half,         \* half the number of sequence numbers: 2^31
    Lag,          \* a packet, or an unfinished frame, is at most so many
                  \* frames old: both live a few seconds
    MaxFrames,    \* bound: the frames a sharer sends
    None

ASSUME WindowAssumption ==
    /\ Half \in Nat \ {0}
    /\ Lag \in 1 .. Half
    /\ ChunkCounts \subseteq Nat \ {0}
    /\ MaxChunks \in Nat /\ MaxFrames \in Nat

Frames == 1 .. MaxFrames

Packet(s, f, n, i) == [ sender |-> s, frame |-> f, count |-> n, index |-> i ]

Packets ==
    UNION { [ sender : Senders, frame : Frames, count : {n}, index : 0 .. n - 1 ] :
                n \in ChunkCounts }

(* A frame of n chunks under assembly: a part is the packet it came with. *)
Assemblers(n) ==
    [ frame : Frames, count : {n}, parts : [ 0 .. n - 1 -> Packets \cup {None} ] ]

ASSUME NoneAssumption ==
    None \notin Packets /\ \A n \in ChunkCounts : None \notin Assemblers(n)

VARIABLES
    made,     \* the frames a sharer has sent
    size,     \* the number of chunks of the last one
    up,       \* packets on their way to the server
    last,     \* Peer.last_screen_chunk_sequence, as a frame; 0 at first
    down,     \* packets on their way to the viewer
    asm,      \* the viewer's ScreenChunkAssembler of a sharer, or None
    hand,     \* the frame a reading task has put together and not stored yet
    latest,   \* screen_latest
    hurt,     \* history: the last frame lost a chunk, or cannot pass for
              \* another reason than being taken for an old one
    done      \* history: the last frame was put together

vars == <<made, size, up, last, down, asm, hand, latest, hurt, done>>

-----------------------------------------------------------------------------
(* Sequence numbers. *)
Wrap == 2 * Half

SeqNo(f) == f % Wrap

Minus(a, b) == (a - b) % Wrap      \* wrapping_sub

(* Mutant: no allowance for the wrap. *)
NewerPlain(a, b) == a > b

Newer(a, b) == a # b /\ Minus(a, b) < Half

(* Bounds on what is still around when s sends its next frame: a packet or *)
(* an unfinished frame that will be Lag frames old is gone, and the server *)
(* has seen one of the last 2^31 frames, if any.                           *)
NothingOld(s) ==
    /\ \A m \in up \cup down : m.sender = s => m.frame > made[s] + 1 - Lag
    /\ asm[s] # None => asm[s].frame > made[s] + 1 - Lag
    /\ last[s] # 0 => made[s] + 1 - last[s] < Half

Init ==
    /\ made = [ s \in Senders |-> 0 ]
    /\ size = [ s \in Senders |-> 0 ]
    /\ up = {} /\ down = {}
    /\ last = [ s \in Senders |-> 0 ]
    /\ asm = [ s \in Senders |-> None ]
    /\ hand = [ r \in Receivers |-> None ]
    /\ latest = None
    /\ hurt = [ s \in Senders |-> FALSE ]
    /\ done = [ s \in Senders |-> FALSE ]

(* send_screen_frame: the next sequence number, and a packet per chunk. *)
SendFrame(s) ==
    /\ made[s] < MaxFrames /\ NothingOld(s)
    /\ \E n \in ChunkCounts :
          /\ size' = [ size EXCEPT ![s] = n ]
          /\ up' = up \cup { Packet(s, made[s] + 1, n, i) : i \in 0 .. n - 1 }
    /\ made' = [ made EXCEPT ![s] = @ + 1 ]
    /\ hurt' = [ hurt EXCEPT ![s] = FALSE ]
    /\ done' = [ done EXCEPT ![s] = FALSE ]
    /\ UNCHANGED <<last, down, asm, hand, latest>>

(* The last frame of s is hurt when one of these frames is it. *)
Hurting(frames) ==
    hurt' = [ s \in Senders |-> hurt[s] \/ \E f \in frames : f.sender = s /\ f.frame = made[s] ]

(* A hop loses a packet. *)
LoseUp(m) ==
    /\ up' = up \ {m}
    /\ Hurting({m})
    /\ UNCHANGED <<made, size, last, down, asm, hand, latest, done>>

LoseDown(m) ==
    /\ down' = down \ {m}
    /\ Hurting({m})
    /\ UNCHANGED <<made, size, up, last, asm, hand, latest, done>>

(* A hop delivers a packet, and may keep a copy of it. *)
Taken(packets, m) == { packets, packets \ {m} }

-----------------------------------------------------------------------------
(* relay_screen_chunk.  A frame of too many chunks is dropped.  So is a    *)
(* chunk that is older than the newest one seen, unless that one's number  *)
(* is 0.  What else stops a chunk (the frame rate, a sharer that is not    *)
(* the active one) may or may not; by then the number was noted.           *)
Plausible(m) == m.count <= MaxChunks

Stale(m) ==
    /\ SeqNo(last[m.sender]) \notin {0, SeqNo(m.frame)}
    /\ Minus(SeqNo(m.frame), SeqNo(last[m.sender])) >= Half

Relay(m) ==
    /\ Plausible(m) /\ ~Stale(m)
    /\ up' \in Taken(up, m)
    /\ last' = [ last EXCEPT ![m.sender] = IF SeqNo(@) = SeqNo(m.frame) THEN @ ELSE m.frame ]
    /\ \/ down' = down \cup {m} /\ hurt' = hurt
       \/ down' = down /\ Hurting({m})
    /\ UNCHANGED <<made, size, asm, hand, latest, done>>

RelayRefuse(m) ==
    /\ ~(Plausible(m) /\ ~Stale(m))
    /\ up' \in Taken(up, m)
    /\ IF Plausible(m) THEN hurt' = hurt ELSE Hurting({m})
    /\ UNCHANGED <<made, size, last, down, asm, hand, latest, done>>

-----------------------------------------------------------------------------
(* absorb_screen_chunk.  Assemblers that have timed out go first.  Then a  *)
(* chunk begins a new assembler if there is none, if its frame is newer,   *)
(* or if the counts differ; it is ignored if its frame is older.           *)
Begin(m) ==
    [ frame |-> m.frame, count |-> m.count, parts |-> [ i \in 0 .. m.count - 1 |-> None ] ]

Replaces(old, m) ==
    \/ old = None
    \/ SeqNo(m.frame) = SeqNo(old.frame) /\ m.count # old.count
    \/ Newer(SeqNo(m.frame), SeqNo(old.frame))

(* Mutant: chunks of any frame are stored. *)
IgnoredNever(old, m) == FALSE

Ignored(old, m) == ~Replaces(old, m) /\ SeqNo(m.frame) # SeqNo(old.frame)

Store(entry, m) ==
    [ entry EXCEPT !.parts = [ i \in DOMAIN @ |-> IF i = m.index /\ @[i] = None THEN m ELSE @[i] ] ]

Complete(entry) == \A i \in DOMAIN entry.parts : entry.parts[i] # None

Unfinished(senders) == { [ sender |-> s, frame |-> asm[s].frame ] : s \in senders }

Begun == { s \in Senders : asm[s] # None }

(* A chunk that is stored once more is dropped.  store_chunk never refuses *)
(* one here: the entry is of its frame, and of no more chunks than the     *)
(* server lets through.  A complete frame leaves the assembler at once.    *)
Absorb(r, m) ==
    /\ hand[r] = None
    /\ down' \in Taken(down, m)
    /\ \E stale \in SUBSET Begun :
          LET kept == [ s \in Senders |-> IF s \in stale THEN None ELSE asm[s] ]
              old == kept[m.sender]
              entry == Store(IF Replaces(old, m) THEN Begin(m) ELSE old, m)
          IN  /\ Hurting(Unfinished(stale))
              /\ \/ /\ Ignored(old, m)
                    /\ asm' = kept
                    /\ UNCHANGED <<hand, done>>
                 \/ /\ ~Ignored(old, m) /\ ~Complete(entry)
                    /\ asm' = [ kept EXCEPT ![m.sender] = entry ]
                    /\ UNCHANGED <<hand, done>>
                 \/ /\ ~Ignored(old, m) /\ Complete(entry)
                    /\ asm' = [ kept EXCEPT ![m.sender] = None ]
                    /\ hand' = [ hand EXCEPT ![r] = [ sender |-> m.sender, parts |-> entry.parts ] ]
                    /\ done' = [ done EXCEPT ![m.sender] = @ \/ m.frame = made[m.sender] ]
    /\ UNCHANGED <<made, size, up, last, latest>>

(* The task that got the frame stores it, under a lock of its own: the one *)
(* of two tasks that is later wins, whichever frame is newer.              *)
StoreLatest(r) ==
    /\ hand[r] # None
    /\ latest' = hand[r]
    /\ hand' = [ hand EXCEPT ![r] = None ]
    /\ UNCHANGED <<made, size, up, last, down, asm, hurt, done>>

(* try_recv_screen_frame: the user interface takes the frame. *)
Show ==
    /\ latest # None
    /\ latest' = None
    /\ UNCHANGED <<made, size, up, last, down, asm, hand, hurt, done>>

(* expire_stale_screen_chunks, once a second. *)
Expire ==
    /\ \E stale \in SUBSET Begun :
          /\ asm' = [ s \in Senders |-> IF s \in stale THEN None ELSE asm[s] ]
          /\ Hurting(Unfinished(stale))
    /\ UNCHANGED <<made, size, up, last, down, hand, latest, done>>

(* try_reconnect and disconnect forget what there is of frames, but not    *)
(* what a task has in its hand.                                            *)
Forget ==
    /\ asm' = [ s \in Senders |-> None ]
    /\ latest' = None
    /\ Hurting(Unfinished(Begun))
    /\ UNCHANGED <<made, size, up, last, down, hand, done>>

Next ==
    \/ \E s \in Senders : SendFrame(s)
    \/ \E m \in up : LoseUp(m) \/ Relay(m) \/ RelayRefuse(m)
    \/ \E m \in down : LoseDown(m) \/ \E r \in Receivers : Absorb(r, m)
    \/ \E r \in Receivers : StoreLatest(r)
    \/ Show \/ Expire \/ Forget

Spec == Init /\ [][Next]_vars

-----------------------------------------------------------------------------
(* TypeOK: the shape of the state; a frame under assembly is not complete, *)
(* and none is begun that the assembler would have to give up for its      *)
(* size, because the server lets none through.                             *)
AsmOK(s) ==
    /\ \E n \in ChunkCounts : n <= MaxChunks /\ asm[s] \in Assemblers(n)
    /\ asm[s].frame <= made[s]
    /\ ~Complete(asm[s])

TypeOK ==
    /\ made \in [ Senders -> 0 .. MaxFrames ]
    /\ size \in [ Senders -> Nat ]
    /\ up \subseteq Packets /\ down \subseteq Packets
    /\ last \in [ Senders -> 0 .. MaxFrames ]
    /\ \A s \in Senders : last[s] <= made[s] /\ (asm[s] # None => AsmOK(s))
    /\ hurt \in [ Senders -> BOOLEAN ]
    /\ done \in [ Senders -> BOOLEAN ]

(* A frame that was put together is one that was sent: every part of it is *)
(* there, in its place, and of that frame of that sharer, however packets  *)
(* were lost, repeated, reordered or interleaved with those of other       *)
(* frames, and across the wrap of the sequence numbers.                    *)
Intact(f) ==
    \E n \in ChunkCounts, k \in Frames :
        f.parts = [ i \in 0 .. n - 1 |-> Packet(f.sender, k, n, i) ]

FramesIntact ==
    /\ \A r \in Receivers : hand[r] # None => Intact(hand[r])
    /\ latest # None => Intact(latest)

(* If no hop loses a chunk of the last frame, whatever the order and the   *)
(* packets of older frames in between, if it is not too large, and if no   *)
(* timeout or reconnect takes its assembler away, the frame is put         *)
(* together: neither the server nor the viewer ever prefers an older frame *)
(* to it.                                                                  *)
NewestArrives ==
    \A s \in Senders :
        /\ made[s] > 0 /\ ~hurt[s]
        /\ \A m \in up \cup down : m.sender = s => m.frame # made[s]
        => done[s]
=============================================================================
