---------------------------- MODULE Client_proofs ----------------------------
(***************************************************************************)
(* Proofs about the parts of the desktop client that share nothing: the    *)
(* ring of a peer, the callback's copy of the list of rings, the buffers   *)
(* of captured audio, the link to the server, the voice controls with the  *)
(* audio engine, who is shown typing, and who is shown in the call.        *)
(*                                                                         *)
(* The ring, of any capacity: what the consumer reads is what is due,      *)
(* wherever the two threads are.  RingInv is inductive.  The wrap of the   *)
(* cursors is settled once, by three lemmas about remainders.              *)
(***************************************************************************)
EXTENDS SpscRing, Playback, FramePool, ClientLink, AudioSession, Typing, RoomView,
        FiniteSetTheorems, TLAPS

LEMMA Quotient ==
  ASSUME NEW w \in Nat \ {0}, NEW c \in Nat
  PROVE  \E p \in Nat : c = w * p + (c % w) /\ c % w \in 0 .. w - 1
  <1>1. c = w * (c \div w) + (c % w) /\ c % w \in 0 .. w - 1 /\ c \div w \in Nat
    OBVIOUS
  <1> WITNESS c \div w \in Nat
  <1> QED
    BY <1>1

(* A number has one remainder. *)
LEMMA OneRemainder ==
  ASSUME NEW w \in Nat \ {0}, NEW p \in Nat, NEW q \in Nat,
         NEW a \in 0 .. w - 1, NEW b \in 0 .. w - 1,
         w * p + a = w * q + b
  PROVE  a = b
  <1>1. w * (p - q) = b - a
    <2>1. w * (p - q) = w * p - w * q
      OBVIOUS
    <2> QED
      BY <2>1
  <1>2. CASE p - q >= 1
    <2>1. w * (p - q) >= w
      BY <1>2
    <2> QED
      BY <1>1, <2>1
  <1>3. CASE p - q <= -1
    <2>1. w * (p - q) <= w * (-1)
      BY <1>3
    <2> QED
      BY <1>1, <2>1
  <1>4. CASE p = q
    BY <1>4
  <1> QED
    BY <1>2, <1>3, <1>4

LEMMA SmallMod ==
  ASSUME NEW w \in Nat \ {0}, NEW a \in 0 .. w - 1
  PROVE  a % w = a
  OBVIOUS

(* A cursor moved by n is the remainder of what it counts, plus n. *)
LEMMA AddMod ==
  ASSUME NEW w \in Nat \ {0}, NEW c \in Nat, NEW n \in Nat
  PROVE  ((c % w) + n) % w = (c + n) % w
  <1> DEFINE a == c % w
             b == (c + n) % w
             d == (a + n) % w
  <1>1. PICK p \in Nat : c = w * p + a /\ a \in 0 .. w - 1
    BY Quotient, Zenon
  <1> HIDE DEF a
  <1>2. PICK q \in Nat : c + n = w * q + b /\ b \in 0 .. w - 1
    <2>1. c + n \in Nat
      OBVIOUS
    <2> QED
      BY <2>1, Quotient, Zenon
  <1>3. PICK r \in Nat : a + n = w * r + d /\ d \in 0 .. w - 1
    <2>1. a + n \in Nat
      BY <1>1
    <2> QED
      BY <2>1, Quotient, Zenon
  <1> HIDE DEF b, d
  <1>4. w * (p + r) + d = w * q + b
    <2>1. w * (p + r) = w * p + w * r
      OBVIOUS
    <2> QED
      BY <1>1, <1>2, <1>3, <2>1
  <1>5. d = b
    <2>1. p + r \in Nat
      OBVIOUS
    <2> QED
      BY <1>2, <1>3, <1>4, <2>1, OneRemainder
  <1> QED
    BY <1>5 DEF a, b, d

(* Numbers less than the capacity apart have different cells. *)
LEMMA CellsApart ==
  ASSUME NEW w \in Nat \ {0}, NEW c \in Nat, NEW d \in Nat,
         c <= d, d - c < w, c % w = d % w
  PROVE  c = d
  <1> DEFINE a == c % w
             n == d - c
  <1>1. PICK p \in Nat : c = w * p + a /\ a \in 0 .. w - 1
    BY Quotient, Zenon
  <1>2. PICK q \in Nat : d = w * q + a /\ a \in 0 .. w - 1
    BY Quotient, Zenon
  <1> HIDE DEF a
  <1>3. w * (q - p) = n /\ n \in 0 .. w - 1
    <2>1. w * (q - p) = w * q - w * p
      OBVIOUS
    <2> QED
      BY <1>1, <1>2, <2>1
  <1>4. CASE q - p >= 1
    <2>1. w * (q - p) >= w
      BY <1>4
    <2> QED
      BY <1>3, <2>1
  <1>5. CASE q - p <= -1
    <2>1. w * (q - p) <= w * (-1)
      BY <1>5
    <2> QED
      BY <1>3, <2>1
  <1>6. CASE q = p
    BY <1>1, <1>2, <1>6
  <1> QED
    BY <1>4, <1>5, <1>6

(* What the consumer finds available is what went in and not out. *)
LEMMA Between ==
  ASSUME NEW w \in Nat \ {0}, NEW c \in Nat, NEW d \in Nat, c <= d, d - c < w
  PROVE  ((d % w) + w - (c % w)) % w = d - c
  <1> DEFINE a == c % w
             b == d % w
             n == d - c
  <1>1. a \in 0 .. w - 1 /\ b \in 0 .. w - 1 /\ n \in 0 .. w - 1
    OBVIOUS
  <1>2. b = (a + n) % w
    <2>1. ((c % w) + n) % w = (c + n) % w
      <3>1. n \in Nat
        BY <1>1
      <3> HIDE DEF n
      <3> QED
        BY <3>1, AddMod
    <2>2. c + n = d
      OBVIOUS
    <2> QED
      BY <2>1, <2>2
  <1> HIDE DEF a, b, n
  <1>3. CASE a + n < w
    <2>1. a + n \in 0 .. w - 1
      BY <1>1, <1>3
    <2>2. b = a + n
      BY <1>2, <2>1, SmallMod
    <2>3. b + w - a = n + w
      BY <1>1, <2>2
    <2>4. (n + w) % w = n
      BY <1>1
    <2> QED
      BY <2>3, <2>4 DEF a, b, n
  <1>4. CASE a + n >= w
    <2>1. (a + n) % w = a + n - w
      BY <1>1, <1>4
    <2>2. b + w - a = n
      BY <1>1, <1>2, <2>1
    <2>3. n % w = n
      BY <1>1, SmallMod
    <2> QED
      BY <2>2, <2>3 DEF a, b, n
  <1> QED
    BY <1>1, <1>3, <1>4

LEMMA Around ==
  ASSUME NEW w \in Nat \ {0}, NEW c \in Nat
  PROVE  (c + w) % w = c % w
  <1> DEFINE a == c % w
  <1>1. a \in 0 .. w - 1
    OBVIOUS
  <1>2. (a + w) % w = (c + w) % w
    BY AddMod
  <1> HIDE DEF a
  <1>3. (a + w) % w = a
    BY <1>1
  <1> QED
    BY <1>2, <1>3 DEF a

-----------------------------------------------------------------------------
LEMMA Capacity == Cap \in Nat \ {0}
  BY RingAssumption

LEMMA CursorIn ==
  ASSUME NEW n \in Nat
  PROVE  n % Cap \in Cells
  BY Capacity DEF Cells

LEMMA RingInvInit == RingInit => RingInv
  <1> SUFFICES ASSUME RingInit PROVE RingInv
    OBVIOUS
  <1>1. 0 % Cap = 0
    BY Capacity
  <1>2. RingTypeOK
    BY DEF RingInit, RingTypeOK
  <1>3. CursorsCount
    BY <1>1, Capacity DEF RingInit, CursorsCount
  <1>4. Held
    BY DEF RingInit, Held
  <1>5. TakingHeld
    BY DEF RingInit, TakingHeld
  <1> QED
    BY <1>2, <1>3, <1>4, <1>5 DEF RingInv

LEMMA AvailableIs ==
  ASSUME RingInv
  PROVE  Available = entered - gone /\ Available \in Nat
  <1>1. ((entered % Cap) + Cap - (gone % Cap)) % Cap = entered - gone
    BY Capacity, Between DEF RingInv, RingTypeOK, CursorsCount
  <1> QED
    BY <1>1, Capacity DEF Available, RingInv, RingTypeOK, CursorsCount

(* The three kinds of producer steps. *)
LEMMA PushStep ==
  ASSUME RingInv, Push
  PROVE  RingInv'
  <1> USE DEF Push, consumer
  <1>1. RingTypeOK'
    BY DEF RingInv, RingTypeOK
  <1>2. entered - gone + 1 < Cap
    <2> SUFFICES ASSUME entered - gone + 1 >= Cap PROVE FALSE
      BY Capacity DEF RingInv, RingTypeOK
    <2>1. entered + 1 = gone + Cap /\ gone \in Nat /\ entered \in Nat
      BY Capacity DEF RingInv, RingTypeOK, CursorsCount
    <2>2. (write + 1) % Cap = (entered + 1) % Cap
      BY <2>1, Capacity, AddMod DEF RingInv, CursorsCount
    <2>3. (gone + Cap) % Cap = gone % Cap
      BY <2>1, Capacity, Around
    <2>4. (write + 1) % Cap = read
      BY <2>1, <2>2, <2>3 DEF RingInv, CursorsCount
    <2> QED
      BY <2>4 DEF Full
  <1>3. CursorsCount'
    BY <1>2 DEF RingInv, CursorsCount
  <1>4. Held'
    BY DEF RingInv, Held
  <1>5. TakingHeld'
    BY DEF RingInv, TakingHeld
  <1> QED
    BY <1>1, <1>3, <1>4, <1>5 DEF RingInv

LEMMA WriteStep ==
  ASSUME RingInv, WriteCell
  PROVE  RingInv'
  <1> USE DEF WriteCell, consumer
  <1>0. entered \in Nat /\ gone \in Nat /\ write = entered % Cap /\ write \in Cells
    BY CursorIn DEF RingInv, RingTypeOK, CursorsCount
  <1>1. RingTypeOK'
    BY <1>0 DEF RingInv, RingTypeOK
  <1>2. CursorsCount'
    BY DEF RingInv, CursorsCount
  <1>3. Held'
    <2>1. ASSUME NEW k \in gone + 1 .. entered
          PROVE  cells'[(k - 1) % Cap] = k
      <3>1. k - 1 \in Nat /\ k - 1 <= entered /\ entered - (k - 1) < Cap /\ k - 1 # entered
        BY <1>0, Capacity DEF RingInv, CursorsCount
      <3>2. (k - 1) % Cap # write
        BY <1>0, <3>1, Capacity, CellsApart
      <3>3. (k - 1) % Cap \in Cells
        BY <3>1, CursorIn
      <3> QED
        BY <3>2, <3>3 DEF RingInv, RingTypeOK, Held
    <2>2. cells'[write] = entered + 1
      BY <1>0 DEF RingInv, RingTypeOK
    <2> QED
      BY <2>1, <2>2 DEF Held
  <1>4. TakingHeld'
    BY DEF RingInv, TakingHeld
  <1> QED
    BY <1>1, <1>2, <1>3, <1>4 DEF RingInv

LEMMA PublishStep ==
  ASSUME RingInv, Publish
  PROVE  RingInv'
  <1> USE DEF Publish, consumer
  <1>0. entered \in Nat /\ gone \in Nat
    BY DEF RingInv, RingTypeOK
  <1>1. RingTypeOK'
    BY DEF RingInv, RingTypeOK
  <1>2. CursorsCount'
    <2>1. write' = (entered + 1) % Cap
      BY <1>0, Capacity, AddMod DEF RingInv, CursorsCount
    <2> QED
      BY <1>0, <2>1, Capacity DEF RingInv, CursorsCount
  <1>3. Held'
    <2>1. ASSUME NEW k \in gone + 1 .. entered + 1
          PROVE  cells[(k - 1) % Cap] = k
      <3>1. CASE k = entered + 1
        BY <1>0, <3>1 DEF RingInv, CursorsCount, Held
      <3>2. CASE k # entered + 1
        BY <1>0, <3>2 DEF RingInv, Held
      <3> QED
        BY <3>1, <3>2
    <2> QED
      BY <1>0, <2>1 DEF Held
  <1>4. TakingHeld'
    BY <1>0 DEF RingInv, RingTypeOK, TakingHeld
  <1> QED
    BY <1>1, <1>2, <1>3, <1>4 DEF RingInv

(* Steps of the consumer that leave its cursor alone. *)
LEMMA ConsumerWaits ==
  ASSUME RingInv, UNCHANGED << read, gone >>, UNCHANGED producer
  PROVE  CursorsCount' /\ Held'
  BY DEF producer, RingInv, CursorsCount, Held

LEMMA BeginStep ==
  ASSUME RingInv, NEW what \in { "drain", "peek" }, NEW amount \in 1 .. MaxWanted,
         BeginTake(what, amount)
  PROVE  RingInv'
  <1> USE DEF BeginTake
  <1>1. CursorsCount' /\ Held'
    BY ConsumerWaits
  <1>2. Available = entered - gone /\ Available \in Nat /\ amount \in Nat
    BY AvailableIs, RingAssumption
  <1>3. count' \in Nat /\ count' <= entered - gone
    BY <1>2
  <1>4. RingTypeOK'
    BY <1>3 DEF producer, RingInv, RingTypeOK
  <1>5. TakingHeld'
    BY <1>3 DEF producer, TakingHeld
  <1> QED
    BY <1>1, <1>4, <1>5 DEF RingInv

LEMMA ReadStep ==
  ASSUME RingInv, ReadCell
  PROVE  RingInv'
  <1> USE DEF ReadCell
  <1>1. CursorsCount' /\ Held'
    BY ConsumerWaits
  <1>2. RingTypeOK'
    BY DEF producer, RingInv, RingTypeOK
  <1>3. TakingHeld'
    BY DEF producer, RingInv, RingTypeOK, TakingHeld
  <1> QED
    BY <1>1, <1>2, <1>3 DEF RingInv

LEMMA EndPeekStep ==
  ASSUME RingInv, EndPeek
  PROVE  RingInv'
  <1> USE DEF EndPeek
  <1>1. CursorsCount' /\ Held'
    BY ConsumerWaits
  <1>2. RingTypeOK' /\ TakingHeld'
    BY DEF producer, RingInv, RingTypeOK, TakingHeld
  <1> QED
    BY <1>1, <1>2 DEF RingInv

LEMMA BeginClearStep ==
  ASSUME RingInv, BeginClear
  PROVE  RingInv'
  <1> USE DEF BeginClear
  <1>1. CursorsCount' /\ Held'
    BY ConsumerWaits
  <1>2. RingTypeOK' /\ TakingHeld'
    BY DEF producer, RingInv, RingTypeOK, CursorsCount, TakingHeld
  <1> QED
    BY <1>1, <1>2 DEF RingInv

LEMMA EndDrainStep ==
  ASSUME RingInv, EndDrain
  PROVE  RingInv'
  <1> USE DEF EndDrain, producer
  <1>0. gone \in Nat /\ entered \in Nat /\ count \in Nat /\ count <= entered - gone
    BY DEF RingInv, RingTypeOK, TakingHeld
  <1>1. RingTypeOK'
    BY DEF RingInv, RingTypeOK
  <1>2. read' = (gone + count) % Cap
    BY <1>0, Capacity, AddMod DEF RingInv, CursorsCount
  <1>3. CursorsCount'
    BY <1>0, <1>2, Capacity DEF RingInv, CursorsCount
  <1>4. Held'
    BY <1>0 DEF RingInv, Held
  <1>5. TakingHeld'
    BY DEF TakingHeld
  <1> QED
    BY <1>1, <1>3, <1>4, <1>5 DEF RingInv

LEMMA EndClearStep ==
  ASSUME RingInv, EndClear
  PROVE  RingInv'
  <1> USE DEF EndClear, producer
  <1>0. gone \in Nat /\ entered \in Nat /\ skip \in Nat
           /\ gone <= skip /\ skip <= entered /\ goal = skip % Cap
    BY DEF RingInv, RingTypeOK, TakingHeld
  <1>1. RingTypeOK'
    BY DEF RingInv, RingTypeOK
  <1>2. CursorsCount'
    BY <1>0, Capacity DEF RingInv, CursorsCount
  <1>3. Held'
    BY <1>0 DEF RingInv, Held
  <1>4. TakingHeld'
    BY DEF TakingHeld
  <1> QED
    BY <1>1, <1>2, <1>3, <1>4 DEF RingInv

LEMMA RingInvStep == RingInv /\ [RingNext]_ringVars => RingInv'
  <1> SUFFICES ASSUME RingInv, [RingNext]_ringVars PROVE RingInv'
    OBVIOUS
  <1>1. CASE UNCHANGED ringVars
    BY <1>1 DEF ringVars, RingInv, RingTypeOK, CursorsCount, Held, TakingHeld
  <1>2. CASE Push \/ WriteCell \/ Publish
    BY <1>2, PushStep, WriteStep, PublishStep
  <1>3. CASE \E amount \in 1 .. MaxWanted : BeginTake("drain", amount) \/ BeginTake("peek", amount)
    BY <1>3, BeginStep
  <1>4. CASE ReadCell \/ EndDrain \/ EndPeek \/ BeginClear \/ EndClear
    BY <1>4, ReadStep, EndDrainStep, EndPeekStep, BeginClearStep, EndClearStep
  <1> QED
    BY <1>1, <1>2, <1>3, <1>4 DEF RingNext

(* For a ring of any capacity, with the steps of push, drain_into,         *)
(* peek_energy and clear interleaved in any way: RingInv holds.            *)
THEOREM RingInvariant == RingSpec => []RingInv
  BY RingInvInit, RingInvStep, PTL DEF RingSpec

(* And what the callback reads is the sample that is due.                  *)
THEOREM InOrder == RingSpec => []PlayedInOrder
  <1>1. RingInv => PlayedInOrder
    <2> SUFFICES ASSUME RingInv, taking \in { "drain", "peek" }, at < count
                 PROVE  cells[Place] = gone + at + 1
      BY DEF PlayedInOrder
    <2> DEFINE k == gone + at + 1
    <2>1. gone \in Nat /\ at \in Nat /\ entered \in Nat /\ k \in gone + 1 .. entered
      BY DEF RingInv, RingTypeOK, TakingHeld
    <2>2. Place = (gone + at) % Cap
      BY <2>1, Capacity, AddMod DEF Place, RingInv, CursorsCount
    <2>3. k - 1 = gone + at
      BY <2>1
    <2>4. cells[(k - 1) % Cap] = k
      BY <2>1 DEF RingInv, Held
    <2> QED
      BY <2>2, <2>3, <2>4
  <1> QED
    BY <1>1, RingInvariant, PTL

-----------------------------------------------------------------------------
(* The buffers of captured audio: each is in the pool, waits in the        *)
(* channel, or is in somebody's hand.                                      *)

PoolInv == PoolTypeOK /\ BuffersConserved /\ NeverAllocates

(* What a hand holds counts for one. *)
LEMMA Hands == One(TRUE) = 1 /\ One(FALSE) = 0
  BY DEF One

LEMMA PoolInvStep == PoolInv /\ [PoolNext]_poolVars => PoolInv'
  <1> SUFFICES ASSUME PoolInv, [PoolNext]_poolVars PROVE PoolInv'
    OBVIOUS
  <1> USE PoolAssumption, Hands DEF PoolInv, PoolTypeOK, BuffersConserved, NeverAllocates
  <1>0. One(sender) \in 0 .. 1 /\ One(held) \in 0 .. 1
    BY DEF One
  <1>1. CASE UNCHANGED poolVars
    BY <1>1 DEF poolVars
  <1>2. CASE TakeBuffer
    <2>1. One(held) = 0 /\ One(held') = 1 /\ One(sender') = One(sender)
      BY <1>2 DEF TakeBuffer, One
    <2>2. pool > 0
      BY <1>0, <2>1
    <2> QED
      BY <1>0, <1>2, <2>1, <2>2 DEF TakeBuffer
  <1>3. CASE Offer
    <2>1. One(held) = 1 /\ One(held') = 0 /\ One(sender') = One(sender)
      BY <1>3 DEF Offer, One
    <2>2. sender' \in BOOLEAN /\ held' \in BOOLEAN /\ allocated' \in BOOLEAN /\ ~allocated'
      BY <1>3 DEF Offer
    <2>3. pool' \in Nat /\ channel' \in 0 .. ChannelSize
             /\ pool' + channel' + One(sender') + One(held') = PoolSize
      <3>1. \/ pool' = pool /\ channel' = channel + 1 /\ channel < ChannelSize
            \/ pool' = pool + 1 /\ channel' = channel
        BY <1>3 DEF Offer, RecycleBuffer
      <3>2. pool \in Nat /\ channel \in 0 .. ChannelSize
        OBVIOUS
      <3>3. pool + channel + One(sender) + One(held) = PoolSize
        BY Zenon
      <3> HIDE Hands DEF PoolInv, PoolTypeOK, BuffersConserved, NeverAllocates
      <3> QED
        BY <1>0, <2>1, <3>1, <3>2, <3>3
    <2> QED
      BY <2>2, <2>3
  <1>4. CASE Receive
    <2>1. One(sender) = 0 /\ One(sender') = 1 /\ One(held') = One(held)
      BY <1>4 DEF Receive, One
    <2> QED
      BY <1>0, <1>4, <2>1 DEF Receive
  <1>5. CASE GiveBack
    <2>1. One(sender) = 1 /\ One(sender') = 0 /\ One(held') = One(held)
      BY <1>5 DEF GiveBack, One
    <2>2. sender' \in BOOLEAN /\ held' \in BOOLEAN /\ allocated' \in BOOLEAN /\ ~allocated'
      BY <1>5 DEF GiveBack
    <2>3. pool' \in Nat /\ channel' \in 0 .. ChannelSize
             /\ pool' + channel' + One(sender') + One(held') = PoolSize
      <3>1. pool' = pool + 1 /\ channel' = channel
        BY <1>5 DEF GiveBack
      <3>2. pool \in Nat /\ channel \in 0 .. ChannelSize
        OBVIOUS
      <3>3. pool + channel + One(sender) + One(held) = PoolSize
        BY Zenon
      <3> HIDE Hands DEF PoolInv, PoolTypeOK, BuffersConserved, NeverAllocates
      <3> QED
        BY <1>0, <2>1, <3>1, <3>2, <3>3
    <2> QED
      BY <2>2, <2>3
  <1> QED
    BY <1>1, <1>2, <1>3, <1>4, <1>5 DEF PoolNext

(* With a pool that has two buffers more than the channel has places, no   *)
(* buffer is ever lost or given back twice, and the callback never finds   *)
(* the pool empty.                                                         *)
THEOREM CallbackNeverAllocates == PoolSpec => [](BuffersConserved /\ NeverAllocates)
  <1>1. PoolInit => PoolInv
    <2> SUFFICES ASSUME PoolInit PROVE PoolInv
      OBVIOUS
    <2>1. sender \in BOOLEAN /\ held \in BOOLEAN /\ allocated \in BOOLEAN /\ ~allocated
      BY DEF PoolInit
    <2>2. One(sender) = 0 /\ One(held) = 0
      BY DEF PoolInit, One
    <2>3. pool = PoolSize /\ channel = 0
      BY DEF PoolInit
    <2> QED
      BY <2>1, <2>2, <2>3, PoolAssumption DEF PoolInv, PoolTypeOK, BuffersConserved, NeverAllocates
  <1>2. PoolInv => BuffersConserved /\ NeverAllocates
    BY DEF PoolInv
  <1> QED
    BY <1>1, <1>2, PoolInvStep, PTL DEF PoolSpec

-----------------------------------------------------------------------------
(* The callback's copy of the list.  A generation it has not caught up     *)
(* with is greater than the one it remembers; one it remembers, with       *)
(* nobody at work on the list, is the one whose list it copied.            *)

PlaybackTypeOK ==
    /\ generation \in Nat /\ seen \in Nat /\ localGen \in Nat
    /\ syncing \in { "idle", "sync", "locked", "stored" }

CopyInv ==
    /\ PlaybackTypeOK
    /\ localGen <= seen /\ seen <= generation
    /\ syncing \in { "idle", "stored" } => list = Live
    /\ syncing = "idle" /\ generation = 0 => Live = {}
    /\ syncing = "idle" /\ localGen = generation => local = Live

LEMMA CopyInvInit == PlaybackInit => CopyInv
  <1> SUFFICES ASSUME PlaybackInit PROVE CopyInv
    OBVIOUS
  <1>1. Live = {}
    BY DEF PlaybackInit, Live
  <1> QED
    BY <1>1 DEF PlaybackInit, CopyInv, PlaybackTypeOK

(* Of the engine's steps only three write what Live reads. *)
LEMMA SameLive == buffer' = buffer => Live' = Live
  BY DEF Live

LEMMA EngineKeepsCopy ==
  ASSUME CopyInv,
         \/ LockList \/ StoreList \/ Bump
         \/ \E p \in Peers : DecodeAndQueue(p) \/ RemovePeer(p)
         \/ StartStream \/ StopStream
  PROVE  CopyInv'
  <1> USE DEF CopyInv, PlaybackTypeOK, theCallback
  <1>1. CASE LockList
    BY <1>1, SameLive DEF LockList
  <1>2. CASE StoreList
    BY <1>2, SameLive DEF StoreList
  <1>3. CASE Bump
    BY <1>3, SameLive DEF Bump
  <1>4. CASE \E p \in Peers : DecodeAndQueue(p) \/ RemovePeer(p)
    BY <1>4 DEF DecodeAndQueue, RemovePeer
  <1>5. CASE StartStream
    BY <1>5, SameLive DEF StartStream
  <1>6. CASE StopStream
    <2>1. Live' = {}
      BY <1>6 DEF StopStream, Live
    <2> QED
      BY <1>6, <2>1 DEF StopStream
  <1> QED
    BY <1>1, <1>2, <1>3, <1>4, <1>5, <1>6

LEMMA CallbackKeepsCopy ==
  ASSUME CopyInv, LoadGeneration \/ Mix
  PROVE  CopyInv'
  <1> USE DEF CopyInv, PlaybackTypeOK
  <1>1. CASE LoadGeneration
    BY <1>1, SameLive DEF LoadGeneration
  <1>2. CASE Mix
    BY <1>2, SameLive DEF Mix, Seen
  <1> QED
    BY <1>1, <1>2

LEMMA CopyInvStep == CopyInv /\ [PlaybackNext]_playbackVars => CopyInv'
  <1> SUFFICES ASSUME CopyInv, [PlaybackNext]_playbackVars PROVE CopyInv'
    OBVIOUS
  <1>1. CASE UNCHANGED playbackVars
    BY <1>1, SameLive DEF playbackVars, CopyInv, PlaybackTypeOK
  <1>2. CASE LoadGeneration \/ Mix
    BY <1>2, CallbackKeepsCopy
  <1> QED
    BY <1>1, <1>2, EngineKeepsCopy DEF PlaybackNext

(* For any peers, and any number of arrivals, departures, starts and stops *)
(* interleaved with the callback: a callback that finds nothing new mixes  *)
(* exactly the peers that have a buffer.                                   *)
THEOREM CopyStaysFresh == PlaybackSpec => []SnapshotFresh
  <1>1. CopyInv => SnapshotFresh
    BY DEF CopyInv, SnapshotFresh
  <1> QED
    BY <1>1, CopyInvInit, CopyInvStep, PTL DEF PlaybackSpec

-----------------------------------------------------------------------------
(* The link: the backoff. *)

BackoffInv ==
    /\ was \in BOOLEAN /\ noticed \in BOOLEAN
    /\ cooldown \in Nat /\ interval \in Nat \ {0}
    /\ NeverGivesUp

LEMMA JitteredIsPositive ==
  ASSUME NEW i \in Nat \ {0}, NEW delay \in Jittered(i)
  PROVE  delay \in Nat \ {0}
  <1> DEFINE quarter == IF i \div 4 > 1 THEN i \div 4 ELSE 1
  <1>1. quarter \in Int
    OBVIOUS
  <1>2. PICK j \in 0 - quarter .. quarter - 1 : delay = IF i + j > 1 THEN i + j ELSE 1
    BY DEF Jittered
  <1> QED
    BY <1>1, <1>2

LEMMA BackoffStep == BackoffInv /\ [LinkNext]_linkVars => BackoffInv'
  <1> SUFFICES ASSUME BackoffInv, [LinkNext]_linkVars PROVE BackoffInv'
    OBVIOUS
  <1> USE LinkAssumption DEF BackoffInv, NeverGivesUp
  <1>1. CASE UNCHANGED theCheck
    BY <1>1 DEF theCheck
  <1>2. CASE CheckUp
    BY <1>2 DEF CheckUp
  <1>3. CASE CheckLost
    <2>1. was' \in BOOLEAN /\ noticed' \in BOOLEAN
      BY <1>3 DEF CheckLost
    <2>2. cooldown' \in Nat /\ cooldown' > 0 /\ interval' \in Nat \ {0}
      BY <1>3 DEF CheckLost, DelayAtFirst
    <2> QED
      BY <2>1, <2>2
  <1>4. CASE CheckDown
    <2>1. CASE cooldown = 1
      <3>1. interval' \in Nat \ {0}
        BY <1>4, <2>1 DEF CheckDown
      <3>2. cooldown' \in Nat \ {0}
        BY <1>4, <2>1, <3>1, JitteredIsPositive DEF CheckDown
      <3> QED
        BY <1>4, <3>1, <3>2 DEF CheckDown
    <2>2. CASE cooldown # 1
      BY <1>4, <2>2 DEF CheckDown
    <2> QED
      BY <2>1, <2>2
  <1>5. CASE ~(CheckUp \/ CheckLost \/ CheckDown)
    <2>1. UNCHANGED theCheck
      BY <1>5 DEF LinkNext, linkVars, theCheck, AskConnect, AskDisconnect, Connect, Attempt,
                  Restore, Disconnect, UdpFails, OfferUdp, SetupUdp, ReaderEnds
    <2> QED
      BY <1>1, <2>1
  <1> QED
    BY <1>2, <1>3, <1>4, <1>5

(* For any first delay and any longest one: once connected, the client     *)
(* never stops trying.                                                     *)
THEOREM AlwaysOneMoreAttempt == LinkSpec => []NeverGivesUp
  <1>1. LinkInit => BackoffInv
    <2> SUFFICES ASSUME LinkInit PROVE BackoffInv
      OBVIOUS
    <2>1. was \in BOOLEAN /\ noticed \in BOOLEAN /\ ~noticed
      BY DEF LinkInit
    <2>2. cooldown \in Nat /\ interval \in Nat \ {0}
      BY LinkAssumption DEF LinkInit
    <2> QED
      BY <2>1, <2>2 DEF BackoffInv, NeverGivesUp
  <1>2. BackoffInv => NeverGivesUp
    BY DEF BackoffInv
  <1> QED
    BY <1>1, <1>2, BackoffStep, PTL DEF LinkSpec

-----------------------------------------------------------------------------
(* The link: the flag and the greeting.  While the behaviour is orderly    *)
(* one connection at most is read; an attempt is planned only as long as   *)
(* there is no connection, and a connection that was noticed without       *)
(* having been greeted has its greeting among the jobs.                    *)

Pending == { t \in tasks : t.kind \in { "connect", "attempt" } }

LinkTypeOK ==
    /\ links \in Nat /\ sink \in Nat
    /\ readers \subseteq Nat \ {0}
    /\ connected \in BOOLEAN /\ was \in BOOLEAN /\ orderly \in BOOLEAN
    /\ IsFiniteSet(tasks)

LinkInv ==
    /\ LinkTypeOK
    /\ orderly =>
          /\ \A k, l \in readers : k = l
          /\ connected <=> sink \in readers
          /\ Task("attempt", 0) \in tasks => ~connected /\ ~was
          /\ connected /\ was /\ sink \notin greeted => Task("restore", 0) \in tasks

LEMMA LinkInvInit == LinkInit => LinkInv
  <1> SUFFICES ASSUME LinkInit PROVE LinkInv
    OBVIOUS
  <1>1. IsFiniteSet(tasks)
    BY FS_Singleton DEF LinkInit
  <1>2. Task("attempt", 0) \notin tasks
    BY DEF LinkInit, Task
  <1> QED
    BY <1>1, <1>2 DEF LinkInit, LinkInv, LinkTypeOK

(* The user, the jobs that do not connect, and the readers. *)
LEMMA TaskKinds ==
  ASSUME NEW k1, NEW k2, NEW o1, NEW o2, Task(k1, o1) = Task(k2, o2)
  PROVE  k1 = k2
  BY DEF Task

LEMMA FewerTasks ==
  ASSUME LinkTypeOK, NEW t
  PROVE  IsFiniteSet(tasks \ {t}) /\ IsFiniteSet(tasks \union {t})
  BY FS_AddElement, FS_RemoveElement DEF LinkTypeOK

LEMMA LonePending ==
  ASSUME LinkTypeOK, Cardinality(Pending) = 1, Task("connect", 0) \in tasks
  PROVE  Task("attempt", 0) \notin tasks
  <1>1. IsFiniteSet(Pending)
    BY FS_Subset DEF LinkTypeOK, Pending
  <1>2. PICK t : Pending = {t}
    BY <1>1, FS_Singleton
  <1>3. Task("connect", 0) \in Pending
    BY DEF Pending, Task
  <1>4. Task("attempt", 0) \in tasks => Task("attempt", 0) \in Pending
    BY DEF Pending, Task
  <1> QED
    BY <1>2, <1>3, <1>4, TaskKinds

LEMMA ConnectingKeepsLink ==
  ASSUME LinkInv, Connect \/ Attempt
  PROVE  LinkInv'
  <1> USE DEF LinkInv, LinkTypeOK
  <1>1. CASE Connect
    <2>1. IsFiniteSet(tasks')
      BY <1>1, FewerTasks DEF Connect
    <2>2. Task("attempt", 0) \in tasks' => Task("attempt", 0) \in tasks
      BY <1>1 DEF Connect
    <2>3. Task("restore", 0) \in tasks => Task("restore", 0) \in tasks'
      BY <1>1, TaskKinds DEF Connect
    <2>4. CASE Connected /\ greeted' = greeted \union { links' }
      <3>1. orderly' => Task("attempt", 0) \notin tasks /\ readers = {}
        BY <1>1, <2>4, LonePending DEF Connect, Connected, Pending
      <3> QED
        BY <1>1, <2>1, <2>2, <2>4, <3>1 DEF Connect, Connected, theCheck
    <2>5. CASE NotConnected /\ UNCHANGED greeted
      BY <1>1, <2>1, <2>2, <2>3, <2>5 DEF Connect, NotConnected, theCheck
    <2> QED
      BY <1>1, <2>4, <2>5 DEF Connect
  <1>2. CASE Attempt
    <2>1. IsFiniteSet(tasks')
      BY <1>2, FewerTasks DEF Attempt
    <2>2. Task("attempt", 0) \notin tasks' /\ Task("attempt", 0) \in tasks
      BY <1>2 DEF Attempt
    <2>3. Task("restore", 0) \in tasks => Task("restore", 0) \in tasks'
      BY <1>2, TaskKinds DEF Attempt
    <2>4. CASE Connected
      <3>1. orderly' => orderly /\ readers = {} /\ ~was
        BY <1>2, <2>2, <2>4 DEF Connected
      <3> QED
        BY <1>2, <2>1, <2>2, <2>4, <3>1 DEF Attempt, Connected, theCheck
    <2>5. CASE NotConnected
      BY <1>2, <2>1, <2>2, <2>3, <2>5 DEF Attempt, NotConnected, theCheck
    <2> QED
      BY <1>2, <2>4, <2>5 DEF Attempt
  <1> QED
    BY <1>1, <1>2

LEMMA OtherJobsKeepLink ==
  ASSUME LinkInv,
         AskConnect \/ AskDisconnect \/ Restore \/ Disconnect \/ UdpFails
  PROVE  LinkInv'
  <1> USE DEF LinkInv, LinkTypeOK, theCheck
  <1>1. CASE AskConnect
    BY <1>1, FewerTasks, TaskKinds DEF AskConnect
  <1>2. CASE AskDisconnect
    BY <1>2, FewerTasks, TaskKinds DEF AskDisconnect
  <1>3. CASE Restore
    BY <1>3, FewerTasks, TaskKinds DEF Restore
  <1>4. CASE Disconnect
    BY <1>4, FewerTasks, TaskKinds DEF Disconnect
  <1>5. CASE UdpFails
    BY <1>5 DEF UdpFails
  <1> QED
    BY <1>1, <1>2, <1>3, <1>4, <1>5

LEMMA ReadersKeepLink ==
  ASSUME LinkInv, NEW k \in 1 .. MaxLinks,
         OfferUdp(k) \/ SetupUdp(k) \/ ReaderEnds(k)
  PROVE  LinkInv'
  <1> USE DEF LinkInv, LinkTypeOK, theCheck
  <1>1. CASE OfferUdp(k)
    BY <1>1, FewerTasks, TaskKinds DEF OfferUdp
  <1>2. CASE SetupUdp(k)
    BY <1>2, FewerTasks, TaskKinds DEF SetupUdp
  <1>3. CASE ReaderEnds(k)
    BY <1>3 DEF ReaderEnds
  <1> QED
    BY <1>1, <1>2, <1>3

LEMMA ChecksKeepLink ==
  ASSUME LinkInv, CheckUp \/ CheckLost \/ CheckDown
  PROVE  LinkInv'
  <1> USE DEF LinkInv, LinkTypeOK
  <1>1. CASE CheckUp
    <2>1. IsFiniteSet(tasks')
      BY <1>1, FewerTasks DEF CheckUp, Notice
    <2>2. Task("attempt", 0) \in tasks' => Task("attempt", 0) \in tasks
      BY <1>1, TaskKinds DEF CheckUp, Notice
    <2>3. was \/ Task("restore", 0) \in tasks'
      BY <1>1 DEF CheckUp, Notice
    <2>4. Task("restore", 0) \in tasks => Task("restore", 0) \in tasks'
      BY <1>1 DEF CheckUp, Notice
    <2> QED
      BY <1>1, <2>1, <2>2, <2>3, <2>4 DEF CheckUp
  <1>2. CASE CheckLost
    BY <1>2 DEF CheckLost
  <1>3. CASE CheckDown
    <2>1. IsFiniteSet(tasks')
      BY <1>3, FewerTasks DEF CheckDown
    <2>2. tasks \subseteq tasks'
      BY <1>3 DEF CheckDown
    <2> QED
      BY <1>3, <2>1, <2>2 DEF CheckDown
  <1> QED
    BY <1>1, <1>2, <1>3

LEMMA LinkInvStep == LinkInv /\ [LinkNext]_linkVars => LinkInv'
  <1> SUFFICES ASSUME LinkInv, [LinkNext]_linkVars PROVE LinkInv'
    OBVIOUS
  <1>1. CASE UNCHANGED linkVars
    BY <1>1 DEF linkVars, LinkInv, LinkTypeOK
  <1>2. CASE Connect \/ Attempt
    BY <1>2, ConnectingKeepsLink
  <1>3. CASE AskConnect \/ AskDisconnect \/ Restore \/ Disconnect \/ UdpFails
    BY <1>3, OtherJobsKeepLink
  <1>4. CASE \E k \in 1 .. MaxLinks : OfferUdp(k) \/ SetupUdp(k) \/ ReaderEnds(k)
    BY <1>4, ReadersKeepLink
  <1>5. CASE CheckUp \/ CheckLost \/ CheckDown
    BY <1>5, ChecksKeepLink
  <1> QED
    BY <1>1, <1>2, <1>3, <1>4, <1>5 DEF LinkNext

(* For any number of connections, losses and requests: while nobody        *)
(* connects over a connection that is still read, the flag is right, and   *)
(* a connection that was noticed is greeted once the jobs have run.        *)
THEOREM LinkStaysOrderly == LinkSpec => []OrderlyLink
  <1>1. LinkInv => OrderlyLink
    BY DEF LinkInv, OrderlyLink
  <1> QED
    BY <1>1, LinkInvInit, LinkInvStep, PTL DEF LinkSpec

-----------------------------------------------------------------------------
(* The voice controls and the engine.  Outside of calls, as long as        *)
(* requests wait for each other's jobs, what is open is accounted for by    *)
(* what is shown or by the one job that is under way; in a call that is    *)
(* wired no job undoes it.                                                 *)
JobKinds ==
    { "wire", "open", "stop", "stopCapture", "stopPlayback", "setMuted", "swap", "restartCapture", "restartPlayback",
      "recover", "preview", "speaker", "speakerEnd" }

Jobs ==
    [ kind : JobKinds, on : BOOLEAN ] \cup [ kind : { "setDeafened" }, on : BOOLEAN, muted : BOOLEAN ]
    \cup [ kind : { "show" }, on : BOOLEAN, what : { "preview", "speaker" } ]

Voices == [ muted : BOOLEAN, deafened : BOOLEAN, wasMuted : BOOLEAN, ptt : BOOLEAN ]

Faces ==
    [ started : BOOLEAN, room : BOOLEAN, view : { "home", "room", "settings" }, preview : BOOLEAN, speaker : BOOLEAN,
      key : BOOLEAN, muted : BOOLEAN, deafened : BOOLEAN ]

Engines ==
    [ open : BOOLEAN, live : BOOLEAN, wired : BOOLEAN, playing : BOOLEAN, deaf : BOOLEAN,
      broken : SUBSET { "capture", "playback" } ]

AudioTypes ==
    /\ voice \in Voices /\ face \in Faces /\ engine \in Engines
    /\ jobs \in Seq(Jobs)
    /\ calm \in BOOLEAN
    /\ mix \in [ asks : SUBSET Asks, calls : Nat, faults : Nat, sound : BOOLEAN ]
    /\ mix.sound => mix.faults = 0 /\ engine.broken = {}

(* The jobs of a speaker test, and of a mic check. *)
OfTest(j) == j.kind \in { "speaker", "speakerEnd" } \/ (j.kind = "show" /\ j.what = "speaker")
OfCheck(j) == j.kind = "preview" \/ (j.kind = "show" /\ j.what = "preview")

MicAsShown == engine.open => face.preview

Unused == MicAsShown /\ ~engine.playing /\ ~face.speaker

(* Nothing is under way that uses a device. *)
Idle ==
    /\ Unused
    /\ \A i \in DOMAIN jobs : jobs[i].kind \in { "swap", "stopCapture", "stopPlayback", "setMuted", "setDeafened" }
    /\ \A i \in DOMAIN jobs : jobs[i].kind = "swap" => ~jobs[i].on

(* A device is let go, or tried. *)
Busy(j) ==
    \/ j.kind = "stop" /\ ~face.speaker
    \/ j.kind = "preview" /\ Unused /\ j.on = ~face.preview
    \/ j.kind = "show" /\ j.what = "preview" /\ (engine.open => j.on) /\ ~engine.playing /\ ~face.speaker
    \/ j.kind = "speaker" /\ MicAsShown /\ ~engine.playing
    \/ j.kind = "speakerEnd" /\ MicAsShown
    \/ j.kind = "show" /\ j.what = "speaker" /\ ~j.on /\ MicAsShown /\ ~engine.playing

OutsideCalls == Idle \/ (Len(jobs) = 1 /\ Busy(jobs[1]))

InCalls ==
    /\ face.speaker => \E i \in DOMAIN jobs : OfTest(jobs[i])
    /\ \A i \in DOMAIN jobs : ~OfCheck(jobs[i]) /\ (jobs[i].kind = "show" => ~jobs[i].on)

Wired == engine.open /\ engine.wired /\ engine.playing

(* The call is wired, or about to be, and nothing undoes it. *)
Sounding ==
    \/ Len(jobs) = 1 /\ jobs[1].kind = "wire"
    \/ Len(jobs) = 1 /\ jobs[1].kind = "open" /\ engine.wired
    \/ /\ Wired
       /\ \A i \in DOMAIN jobs :
             jobs[i].kind \in { "swap", "setMuted", "setDeafened", "restartCapture", "restartPlayback", "speaker", "show" }
       /\ \A i \in DOMAIN jobs : jobs[i].kind = "speaker" => ~jobs[i].on

(* While requests wait for each other's jobs. *)
CalmInv ==
    calm => /\ face.started => InCalls
            /\ ~face.started => OutsideCalls
            /\ face.started /\ ~face.preview /\ mix.sound => Sounding

AudioInv == AudioTypes /\ CalmInv

-----------------------------------------------------------------------------
LEMMA JobTyped ==
  ASSUME NEW j \in Jobs
  PROVE  /\ j.on \in BOOLEAN /\ j.kind \in JobKinds \cup { "setDeafened", "show" }
         /\ j.kind = "show" => j.what \in { "preview", "speaker" }
         /\ j.kind = "setDeafened" => j.muted \in BOOLEAN
  BY DEF Jobs, JobKinds

LEMMA JobsMade ==
  /\ \A kind \in JobKinds, on \in BOOLEAN :
        Job(kind, on) \in Jobs /\ Job(kind, on).kind = kind /\ Job(kind, on).on = on
  /\ \A on, muted \in BOOLEAN : [ kind |-> "setDeafened", on |-> on, muted |-> muted ] \in Jobs
  /\ \A on \in BOOLEAN, what \in { "preview", "speaker" } : [ kind |-> "show", on |-> on, what |-> what ] \in Jobs
  BY DEF Job, Jobs

LEMMA Joint ==
  ASSUME NEW S, NEW s \in Seq(S), NEW t \in Seq(S)
  PROVE  /\ s \o t \in Seq(S) /\ Len(s \o t) = Len(s) + Len(t)
         /\ \A j \in 1 .. Len(s) + Len(t) : (s \o t)[j] = IF j <= Len(s) THEN s[j] ELSE t[j - Len(s)]
  OBVIOUS

LEMMA JobsLeft ==
  ASSUME jobs \in Seq(Jobs), NEW i \in DOMAIN jobs, jobs' = RemoveAt(jobs, i)
  PROVE  /\ jobs' \in Seq(Jobs) /\ Len(jobs') = Len(jobs) - 1
         /\ \A j \in DOMAIN jobs' : \E k \in DOMAIN jobs : k # i /\ jobs'[j] = jobs[k]
         /\ \A k \in DOMAIN jobs : k # i => \E j \in DOMAIN jobs' : jobs'[j] = jobs[k]
  <1> DEFINE n == Len(jobs)
             left == SubSeq(jobs, 1, i - 1)
             right == SubSeq(jobs, i + 1, n)
  <1>1. n \in Nat /\ i \in 1 .. n /\ DOMAIN jobs = 1 .. n
    OBVIOUS
  <1>2. left \in Seq(Jobs) /\ Len(left) = i - 1 /\ \A j \in 1 .. i - 1 : left[j] = jobs[j]
    BY <1>1
  <1>3. right \in Seq(Jobs) /\ Len(right) = n - i /\ \A j \in 1 .. n - i : right[j] = jobs[i + j]
    BY <1>1
  <1>4. jobs' = left \o right
    BY DEF RemoveAt
  <1> HIDE DEF left, right
  <1>5. /\ jobs' \in Seq(Jobs) /\ Len(jobs') = (i - 1) + (n - i)
        /\ \A j \in 1 .. (i - 1) + (n - i) : jobs'[j] = IF j <= i - 1 THEN left[j] ELSE right[j - (i - 1)]
    <2>1. /\ left \o right \in Seq(Jobs) /\ Len(left \o right) = Len(left) + Len(right)
          /\ \A j \in 1 .. Len(left) + Len(right) :
                (left \o right)[j] = IF j <= Len(left) THEN left[j] ELSE right[j - Len(left)]
      BY <1>2, <1>3, Joint
    <2> QED
      BY <1>2, <1>3, <1>4, <2>1
  <1>6. (i - 1) + (n - i) = n - 1 /\ n - 1 \in Nat /\ Len(jobs') = n - 1 /\ DOMAIN jobs' = 1 .. n - 1
    BY <1>1, <1>5
  <1>7. \A j \in 1 .. n - 1 : jobs'[j] = IF j < i THEN jobs[j] ELSE jobs[j + 1]
    <2> SUFFICES ASSUME NEW j \in 1 .. n - 1 PROVE jobs'[j] = IF j < i THEN jobs[j] ELSE jobs[j + 1]
      OBVIOUS
    <2>1. CASE j < i
      BY <1>1, <1>2, <1>5, <1>6, <2>1
    <2>2. CASE j >= i
      <3>1. jobs'[j] = right[j - (i - 1)]
        BY <1>1, <1>5, <1>6, <2>2
      <3>2. j - (i - 1) \in 1 .. n - i /\ i + (j - (i - 1)) = j + 1
        BY <1>1, <2>2
      <3> QED
        BY <1>1, <1>3, <2>2, <3>1, <3>2
    <2> QED
      BY <1>1, <2>1, <2>2
  <1>8. ASSUME NEW j \in DOMAIN jobs' PROVE \E k \in DOMAIN jobs : k # i /\ jobs'[j] = jobs[k]
    <2>1. CASE j < i
      <3>1. j \in DOMAIN jobs /\ j # i /\ jobs'[j] = jobs[j]
        BY <1>1, <1>6, <1>7, <2>1
      <3> QED
        BY <3>1
    <2>2. CASE j >= i
      <3>1. j + 1 \in DOMAIN jobs /\ j + 1 # i /\ jobs'[j] = jobs[j + 1]
        BY <1>1, <1>6, <1>7, <2>2
      <3> QED
        BY <3>1
    <2> QED
      BY <1>1, <1>6, <2>1, <2>2
  <1>9. ASSUME NEW k \in DOMAIN jobs, k # i PROVE \E j \in DOMAIN jobs' : jobs'[j] = jobs[k]
    <2>1. CASE k < i
      BY <1>1, <1>6, <1>7, <1>9, <2>1
    <2>2. CASE k > i
      <3>1. k - 1 \in DOMAIN jobs' /\ jobs'[k - 1] = jobs[k]
        BY <1>1, <1>6, <1>7, <1>9, <2>2
      <3> QED
        BY <3>1
    <2> QED
      BY <1>1, <1>9, <2>1, <2>2
  <1> QED
    BY <1>5, <1>6, <1>8, <1>9

LEMMA JobReplaced ==
  ASSUME jobs \in Seq(Jobs), NEW i \in DOMAIN jobs, NEW c \in Jobs, jobs' = ReplaceAt(jobs, i, c)
  PROVE  /\ jobs' \in Seq(Jobs) /\ Len(jobs') = Len(jobs) /\ jobs'[i] = c /\ DOMAIN jobs' = DOMAIN jobs
         /\ \A k \in DOMAIN jobs : k # i => jobs'[k] = jobs[k]
  BY DEF ReplaceAt

(* What becomes of the engine. *)
LEMMA EngineSteps ==
  ASSUME NEW e \in Engines, NEW ok \in BOOLEAN
  PROVE  /\ LET r == StartCapture(e, ok)
            IN r \in Engines /\ (r.open <=> ok \/ e.open) /\ (r.wired <=> e.wired) /\ (r.playing <=> e.playing)
               /\ r.broken \subseteq e.broken
         /\ LET r == StopCapture(e)
            IN r \in Engines /\ ~r.open /\ (r.playing <=> e.playing) /\ r.broken = e.broken
         /\ LET r == RestartCapture(e, ok)
            IN r \in Engines /\ (r.open <=> ok) /\ (r.wired <=> e.wired) /\ (r.playing <=> e.playing)
               /\ r.broken \subseteq e.broken
         /\ LET r == StartPlayback(e, ok)
            IN r \in Engines /\ (r.open <=> e.open) /\ (r.wired <=> e.wired) /\ (r.playing <=> ok \/ e.playing)
               /\ r.broken \subseteq e.broken
         /\ LET r == StopPlayback(e)
            IN r \in Engines /\ (r.open <=> e.open) /\ (r.wired <=> e.wired) /\ ~r.playing /\ r.broken = e.broken
         /\ LET r == RestartPlayback(e, ok)
            IN r \in Engines /\ (r.open <=> e.open) /\ (r.wired <=> e.wired) /\ (r.playing <=> ok)
               /\ r.broken \subseteq e.broken
         /\ LET r == StopAll(e)
            IN r \in Engines /\ ~r.open /\ ~r.playing /\ r.broken = e.broken
  <1>1. LET r == StartCapture(e, ok)
        IN r \in Engines /\ (r.open <=> ok \/ e.open) /\ (r.wired <=> e.wired) /\ (r.playing <=> e.playing)
           /\ r.broken \subseteq e.broken
    BY DEF StartCapture, Engines
  <1>2. LET r == StopCapture(e)
        IN r \in Engines /\ ~r.open /\ (r.playing <=> e.playing) /\ r.broken = e.broken
    BY DEF StopCapture, Engines
  <1>3. LET r == RestartCapture(e, ok)
        IN r \in Engines /\ (r.open <=> ok) /\ (r.wired <=> e.wired) /\ (r.playing <=> e.playing)
           /\ r.broken \subseteq e.broken
    BY DEF RestartCapture, StartCapture, Engines
  <1>4. LET r == StartPlayback(e, ok)
        IN r \in Engines /\ (r.open <=> e.open) /\ (r.wired <=> e.wired) /\ (r.playing <=> ok \/ e.playing)
           /\ r.broken \subseteq e.broken
    BY DEF StartPlayback, Engines
  <1>5. LET r == StopPlayback(e)
        IN r \in Engines /\ (r.open <=> e.open) /\ (r.wired <=> e.wired) /\ ~r.playing /\ r.broken = e.broken
    BY DEF StopPlayback, Engines
  <1>6. LET r == RestartPlayback(e, ok)
        IN r \in Engines /\ (r.open <=> e.open) /\ (r.wired <=> e.wired) /\ (r.playing <=> ok)
           /\ r.broken \subseteq e.broken
    BY DEF RestartPlayback, StartPlayback, StopPlayback, Engines
  <1>7. LET r == StopAll(e)
        IN r \in Engines /\ ~r.open /\ ~r.playing /\ r.broken = e.broken
    BY DEF StopAll, StopPlayback, StopCapture, Engines
  <1> QED
    BY <1>1, <1>2, <1>3, <1>4, <1>5, <1>6, <1>7

LEMMA EngineStops ==
  ASSUME NEW e \in Engines
  PROVE  /\ StopCapture(e) \in Engines /\ ~StopCapture(e).open /\ (StopCapture(e).playing <=> e.playing)
         /\ StopCapture(e).broken = e.broken
         /\ StopPlayback(e) \in Engines /\ ~StopPlayback(e).playing /\ (StopPlayback(e).open <=> e.open)
         /\ StopPlayback(e).broken = e.broken
         /\ StopAll(e) \in Engines /\ ~StopAll(e).open /\ ~StopAll(e).playing /\ StopAll(e).broken = e.broken
  <1>1. FALSE \in BOOLEAN
    OBVIOUS
  <1> QED
    BY <1>1, EngineSteps

LEMMA FaultsCounted ==
  ASSUME AudioTypes, NEW oks \in BOOLEAN, CountFault(oks)
  PROVE  /\ mix' \in [ asks : SUBSET Asks, calls : Nat, faults : Nat, sound : BOOLEAN ]
         /\ (mix'.sound <=> mix.sound) /\ (mix.sound => mix'.faults = 0)
  <1> DEFINE x == mix.faults - (IF oks THEN 0 ELSE 1)
             m == Max({ 0, x })
  <1>1. x \in Int /\ (mix.faults = 0 => x <= 0)
    BY DEF AudioTypes
  <1> HIDE DEF x
  <1>2. \E y \in { 0, x } : \A z \in { 0, x } : y >= z
    BY <1>1
  <1>3. m \in { 0, x } /\ \A z \in { 0, x } : m >= z
    BY <1>2 DEF Max
  <1> HIDE DEF m
  <1>4. m \in Nat /\ (mix.faults = 0 => m = 0)
    BY <1>1, <1>3
  <1>5. mix' = [ mix EXCEPT !.faults = m ]
    BY DEF CountFault, m, x
  <1> QED
    BY <1>4, <1>5 DEF AudioTypes

-----------------------------------------------------------------------------
LEMMA AudioAtFirst == AudioInit => AudioInv
  <1> SUFFICES ASSUME AudioInit PROVE AudioInv
    OBVIOUS
  <1>1. /\ face.started = FALSE /\ face.preview = FALSE /\ face.speaker = FALSE /\ engine.open = FALSE
        /\ engine.playing = FALSE /\ engine.broken = {} /\ jobs = << >> /\ mix \in VoiceMixes /\ calm = TRUE
    BY DEF AudioInit
  <1>2. voice \in Voices /\ face \in Faces /\ engine \in Engines
    BY DEF AudioInit, Voices, Faces, Engines
  <1>3. AudioTypes
    BY <1>1, <1>2, AudioAssumption DEF AudioTypes, AudioAssumption
  <1> QED
    BY <1>1, <1>3 DEF AudioInv, CalmInv, OutsideCalls, Idle, Unused, MicAsShown

(* A request that waited. *)
LEMMA Asked ==
  ASSUME AudioInv, NEW ask, May(ask)
  PROVE  /\ mix' \in [ asks : SUBSET Asks, calls : Nat, faults : Nat, sound : BOOLEAN ]
         /\ (mix'.sound <=> mix.sound) /\ mix'.faults = mix.faults
         /\ calm' \in BOOLEAN
         /\ calm' => /\ calm /\ jobs = << >>
                     /\ face.started => ~face.speaker
                     /\ ~face.started => Unused
                     /\ face.started /\ ~face.preview /\ mix.sound => Wired
  <1>1. mix' = [ mix EXCEPT !.calls = @ - 1 ] /\ mix.calls > 0 /\ calm' = (calm /\ jobs = << >>)
    BY DEF May
  <1>2. /\ mix' \in [ asks : SUBSET Asks, calls : Nat, faults : Nat, sound : BOOLEAN ]
        /\ (mix'.sound <=> mix.sound) /\ mix'.faults = mix.faults
    BY <1>1 DEF AudioInv, AudioTypes
  <1>3. calm' => calm /\ jobs = << >>
    BY <1>1
  <1>4. ASSUME calm, jobs = << >>
        PROVE  /\ face.started => ~face.speaker
               /\ ~face.started => Unused
               /\ face.started /\ ~face.preview /\ mix.sound => Wired
    <2>1. Len(jobs) = 0 /\ DOMAIN jobs = {}
      BY <1>4
    <2> QED
      BY <1>4, <2>1 DEF AudioInv, CalmInv, InCalls, OutsideCalls, Idle, Sounding
  <1> QED
    BY <1>1, <1>2, <1>3, <1>4

LEMMA Spawned ==
  ASSUME jobs \in Seq(Jobs), NEW j \in Jobs, Spawn(<< j >>)
  PROVE  /\ jobs' \in Seq(Jobs)
         /\ jobs = << >> => Len(jobs') = 1 /\ DOMAIN jobs' = { 1 } /\ jobs'[1] = j
  <1>1. << j >> \in Seq(Jobs) /\ Len(<< j >>) = 1 /\ << j >>[1] = j
    OBVIOUS
  <1>2. jobs \o << j >> \in Seq(Jobs)
    BY <1>1, Joint
  <1>3. CASE jobs = << >>
    <2>1. jobs' = << j >>
      BY <1>3, <1>1 DEF Spawn
    <2> QED
      BY <1>1, <2>1
  <1> QED
    BY <1>2, <1>3 DEF Spawn

LEMMA FaceLeft ==
  ASSUME face \in Faces
  PROVE  /\ LeftFace \in Faces /\ ~LeftFace.started
         /\ (LeftFace.preview <=> face.preview) /\ (LeftFace.speaker <=> face.speaker)
         /\ LET f == [ LeftFace EXCEPT !.view = "home" ]
            IN f \in Faces /\ ~f.started /\ (f.preview <=> face.preview) /\ (f.speaker <=> face.speaker)
  BY DEF LeftFace, Faces

LEMMA Entered == AudioInv /\ EnterVoice => AudioInv'
  <1> SUFFICES ASSUME AudioInv, EnterVoice PROVE AudioInv'
    OBVIOUS
  <1> USE DEF AudioInv
  <1>1. /\ May("enter") /\ StartAudioIfNeeded /\ face' = [ face EXCEPT !.started = TRUE, !.room = TRUE, !.view = "room" ]
        /\ UNCHANGED << voice, engine, recovery >>
    BY DEF EnterVoice
  <1>2. face' \in Faces /\ face'.started /\ (face'.preview <=> face.preview) /\ (face'.speaker <=> face.speaker)
    BY <1>1 DEF AudioTypes, Faces
  <1>3. Job("wire", FALSE) \in Jobs /\ Job("wire", FALSE).kind = "wire"
    BY JobsMade DEF JobKinds
  <1>4. jobs' \in Seq(Jobs)
    BY <1>1, <1>3, Spawned DEF AudioTypes, StartAudioIfNeeded
  <1>5. AudioTypes'
    BY <1>1, <1>2, <1>4, Asked DEF AudioTypes
  <1>6. ASSUME calm' PROVE InCalls' /\ (~face'.preview /\ mix'.sound => Sounding')
    <2>1. /\ jobs = << >> /\ (mix'.sound <=> mix.sound)
          /\ face.started => ~face.speaker
          /\ ~face.started => Unused
          /\ face.started /\ ~face.preview /\ mix.sound => Wired
      BY <1>1, <1>6, Asked
    <2>2. CASE face.started
      <3>1. jobs' = << >> /\ DOMAIN jobs' = {}
        BY <1>1, <2>1, <2>2 DEF StartAudioIfNeeded
      <3> QED
        BY <1>1, <1>2, <2>1, <2>2, <3>1 DEF InCalls, Sounding, Wired
    <2>3. CASE ~face.started
      <3>1. Len(jobs') = 1 /\ DOMAIN jobs' = { 1 } /\ jobs'[1].kind = "wire"
        BY <1>1, <1>3, <2>1, <2>3, Spawned DEF StartAudioIfNeeded, AudioTypes
      <3> QED
        BY <1>2, <2>1, <2>3, <3>1 DEF InCalls, Sounding, OfTest, OfCheck, Unused
    <2> QED
      BY <2>2, <2>3
  <1> QED
    BY <1>2, <1>5, <1>6 DEF CalmInv

(* The handlers that end a call. *)
LEMMA Ended == AudioInv /\ (LeaveVoice \/ LeaveSpaceToo \/ PutOut \/ LoseConnection) => AudioInv'
  <1> SUFFICES ASSUME AudioInv, LeaveVoice \/ LeaveSpaceToo \/ PutOut \/ LoseConnection PROVE AudioInv'
    OBVIOUS
  <1> USE DEF AudioInv
  <1>1. /\ \E ask \in Asks : May(ask)
        /\ Spawn(<< Job("stop", FALSE) >>) /\ engine' = engine
        /\ voice' = ResetVoice \/ voice' = voice
        /\ \/ face' = LeftFace \/ face' = [ LeftFace EXCEPT !.view = "home" ]
           \/ face' = [ face EXCEPT !.started = FALSE, !.key = FALSE ]
    BY DEF LeaveVoice, LeaveSpaceToo, PutOut, LoseConnection, Asks
  <1>2. face' \in Faces /\ ~face'.started /\ (face'.preview <=> face.preview) /\ (face'.speaker <=> face.speaker)
    <2>1. CASE face' = [ face EXCEPT !.started = FALSE, !.key = FALSE ]
      BY <2>1 DEF AudioTypes, Faces
    <2> QED
      BY <1>1, <2>1, FaceLeft DEF AudioTypes
  <1>3. Job("stop", FALSE) \in Jobs /\ Job("stop", FALSE).kind = "stop"
    BY JobsMade DEF JobKinds
  <1>4. voice' \in Voices
    BY <1>1 DEF AudioTypes, Voices, ResetVoice
  <1>5. jobs' \in Seq(Jobs)
    BY <1>1, <1>3, Spawned DEF AudioTypes
  <1>6. AudioTypes'
    BY <1>1, <1>2, <1>4, <1>5, Asked DEF AudioTypes
  <1>7. ASSUME calm' PROVE OutsideCalls'
    <2>1. jobs = << >> /\ ~face.speaker
      BY <1>1, <1>7, Asked DEF Unused
    <2>2. Len(jobs') = 1 /\ jobs'[1].kind = "stop"
      BY <1>1, <1>3, <2>1, Spawned DEF AudioTypes
    <2> QED
      BY <1>2, <2>1, <2>2 DEF OutsideCalls, Busy
  <1> QED
    BY <1>2, <1>6, <1>7 DEF CalmInv

(* The voice controls. *)
LEMMA Controlled == AudioInv /\ (ToggleMute \/ ToggleDeafen \/ ToggleMicMode \/ PttKey) => AudioInv'
  <1> SUFFICES ASSUME AudioInv, ToggleMute \/ ToggleDeafen \/ ToggleMicMode \/ PttKey PROVE AudioInv'
    OBVIOUS
  <1> USE DEF AudioInv
  <1>1. (\E ask \in Asks : May(ask)) /\ engine' = engine
    BY DEF ToggleMute, ToggleDeafen, ToggleMicMode, PttKey, Asks
  <1>2. voice' \in Voices
    <2>0. voice \in Voices /\ face.key \in BOOLEAN
      BY DEF AudioTypes, Faces
    <2>1. CASE ToggleMute
      BY <2>0, <2>1 DEF ToggleMute, ToggledMute, Voices
    <2>2. CASE ToggleDeafen
      BY <2>0, <2>2 DEF ToggleDeafen, ToggledDeafen, Voices
    <2>3. CASE ToggleMicMode
      BY <2>0, <2>3 DEF ToggleMicMode, Voices
    <2>4. CASE PttKey
      BY <2>0, <2>4 DEF PttKey, Voices
    <2> QED
      BY <2>1, <2>2, <2>3, <2>4
  <1>3. voice'.muted \in BOOLEAN /\ voice'.deafened \in BOOLEAN
    BY <1>2 DEF Voices
  <1>4. /\ face' \in Faces /\ (face'.started <=> face.started)
        /\ (face'.preview <=> face.preview) /\ (face'.speaker <=> face.speaker)
    <2>0. face \in Faces
      BY DEF AudioTypes
    <2>1. CASE ToggleMute \/ ToggleMicMode
      <3>1. face' = [ face EXCEPT !.muted = voice'.muted ]
        BY <2>1 DEF ToggleMute, ToggleMicMode
      <3> QED
        BY <1>3, <2>0, <3>1 DEF Faces
    <2>2. CASE ToggleDeafen
      <3>1. face' = [ face EXCEPT !.muted = voice'.muted, !.deafened = voice'.deafened ]
        BY <2>2 DEF ToggleDeafen, ShowVoice
      <3> QED
        BY <1>3, <2>0, <3>1 DEF Faces
    <2>3. CASE PttKey
      <3>1. face' = [ face EXCEPT !.key = ~@, !.muted = voice'.muted ]
        BY <2>3 DEF PttKey
      <3> QED
        BY <1>3, <2>0, <3>1 DEF Faces
    <2> QED
      BY <2>1, <2>2, <2>3
  <1>5. \E j \in Jobs : Spawn(<< j >>) /\ j.kind \in { "setMuted", "setDeafened" }
    <2>1. CASE ToggleDeafen
      <3>1. [ kind |-> "setDeafened", on |-> voice'.deafened, muted |-> voice'.muted ] \in Jobs
        BY <1>3, JobsMade
      <3> QED
        BY <2>1, <3>1 DEF ToggleDeafen
    <2>2. CASE ToggleMute \/ ToggleMicMode \/ PttKey
      <3>1. Job("setMuted", voice'.muted) \in Jobs /\ Job("setMuted", voice'.muted).kind = "setMuted"
        BY <1>3, JobsMade DEF JobKinds
      <3>2. Spawn(<< Job("setMuted", voice'.muted) >>)
        BY <2>2 DEF ToggleMute, ToggleMicMode, PttKey
      <3> QED
        BY <3>1, <3>2
    <2> QED
      BY <2>1, <2>2
  <1>6. PICK j \in Jobs : Spawn(<< j >>) /\ j.kind \in { "setMuted", "setDeafened" }
    BY <1>5
  <1>7. AudioTypes'
    BY <1>1, <1>2, <1>4, <1>6, Spawned, Asked DEF AudioTypes
  <1>8. ASSUME calm'
        PROVE  /\ face'.started => InCalls'
               /\ ~face'.started => OutsideCalls'
               /\ face'.started /\ ~face'.preview /\ mix'.sound => Sounding'
    <2>1. /\ jobs = << >> /\ (mix'.sound <=> mix.sound)
          /\ face.started => ~face.speaker
          /\ ~face.started => Unused
          /\ face.started /\ ~face.preview /\ mix.sound => Wired
      BY <1>1, <1>8, Asked
    <2>2. DOMAIN jobs' = { 1 } /\ jobs'[1].kind \in { "setMuted", "setDeafened" }
      BY <1>6, <2>1, Spawned DEF AudioTypes
    <2> QED
      BY <1>1, <1>4, <2>1, <2>2
         DEF InCalls, OutsideCalls, Idle, Sounding, OfTest, OfCheck, Unused, MicAsShown, Wired
  <1> QED
    BY <1>7, <1>8 DEF CalmInv

(* The settings. *)
LEMMA Visited == AudioInv /\ (OpenSettings \/ LeaveSettings) => AudioInv'
  <1> SUFFICES ASSUME AudioInv, OpenSettings \/ LeaveSettings PROVE AudioInv'
    OBVIOUS
  <1> USE DEF AudioInv
  <1>1. May("settings") /\ engine' = engine /\ voice' = voice
    BY DEF OpenSettings, LeaveSettings
  <1>2. /\ face' \in Faces /\ (face'.started <=> face.started)
        /\ (face'.preview <=> face.preview) /\ (face'.speaker <=> face.speaker)
    BY DEF OpenSettings, LeaveSettings, AudioTypes, Faces
  <1>3. /\ jobs' \in Seq(Jobs)
        /\ jobs = << >> /\ ~face.speaker =>
              \A i \in DOMAIN jobs' : \/ jobs'[i].kind = "swap" /\ (jobs'[i].on <=> face.started)
                                      \/ jobs'[i].kind = "stopCapture" /\ face.preview
    <2>1. CASE OpenSettings
      BY <2>1 DEF OpenSettings, AudioTypes
    <2>2. CASE LeaveSettings
      <3> DEFINE sw == Job("swap", face.started)
                 sc == Job("stopCapture", FALSE)
                 sp == Job("stopPlayback", FALSE)
                 mid == IF face.preview THEN << sc >> ELSE << >>
                 end == IF face.speaker /\ ~face.started THEN << sp >> ELSE << >>
      <3>0. face.started \in BOOLEAN
        BY DEF AudioTypes, Faces
      <3>1. /\ sw \in Jobs /\ sc \in Jobs /\ sp \in Jobs /\ sw.kind = "swap" /\ sc.kind = "stopCapture"
            /\ sw.on = face.started
        BY <3>0, JobsMade DEF JobKinds
      <3>2. Spawn((<< sw >> \o mid) \o end)
        BY <2>2 DEF LeaveSettings
      <3> HIDE DEF sw, sc, sp
      <3>3. /\ << sw >> \in Seq(Jobs) /\ Len(<< sw >>) = 1 /\ << sw >>[1] = sw
            /\ << sc >> \in Seq(Jobs) /\ Len(<< sc >>) = 1 /\ << sc >>[1] = sc
            /\ << sp >> \in Seq(Jobs)
        BY <3>1
      <3>4. mid \in Seq(Jobs) /\ end \in Seq(Jobs)
        BY <3>3
      <3>5. /\ (<< sw >> \o mid) \in Seq(Jobs) /\ (<< sw >> \o mid) \o end \in Seq(Jobs)
            /\ jobs \o ((<< sw >> \o mid) \o end) \in Seq(Jobs)
        BY <3>3, <3>4 DEF AudioTypes
      <3>6. ASSUME jobs = << >>, ~face.speaker
            PROVE  \A i \in DOMAIN jobs' : jobs'[i] = sw \/ (face.preview /\ jobs'[i] = sc)
        <4>1. end = << >> /\ jobs' = (<< sw >> \o mid) \o end
          BY <3>2, <3>5, <3>6 DEF Spawn
        <4>2. jobs' = << sw >> \o mid
          BY <4>1, <3>5
        <4> HIDE DEF mid, end
        <4>3. CASE face.preview
          <5>1. mid = << sc >>
            BY <4>3 DEF mid
          <5>2. /\ << sw >> \o << sc >> \in Seq(Jobs) /\ Len(<< sw >> \o << sc >>) = Len(<< sw >>) + Len(<< sc >>)
                /\ \A j \in 1 .. Len(<< sw >>) + Len(<< sc >>) :
                      (<< sw >> \o << sc >>)[j] = IF j <= Len(<< sw >>) THEN << sw >>[j] ELSE << sc >>[j - Len(<< sw >>)]
            BY <3>3, Joint
          <5>3. DOMAIN jobs' = 1 .. 2 /\ jobs'[1] = sw /\ jobs'[2] = sc
            BY <3>3, <4>2, <5>1, <5>2
          <5> QED
            BY <4>3, <5>3
        <4>4. CASE ~face.preview
          <5>1. mid = << >>
            BY <4>4 DEF mid
          <5> QED
            BY <4>2, <5>1, <3>3
        <4> QED
          BY <4>3, <4>4
      <3> HIDE DEF mid, end
      <3>7. jobs' \in Seq(Jobs)
        BY <3>2, <3>5 DEF Spawn
      <3>8. ASSUME jobs = << >>, ~face.speaker, NEW i \in DOMAIN jobs'
            PROVE  \/ jobs'[i].kind = "swap" /\ (jobs'[i].on <=> face.started)
                   \/ jobs'[i].kind = "stopCapture" /\ face.preview
        <4>1. jobs'[i] = sw \/ (face.preview /\ jobs'[i] = sc)
          BY <3>6, <3>8
        <4> QED
          BY <3>1, <4>1
      <3> QED
        BY <3>7, <3>8
    <2> QED
      BY <2>1, <2>2
  <1>4. AudioTypes'
    BY <1>1, <1>2, <1>3, Asked DEF AudioTypes
  <1>5. ASSUME calm'
        PROVE  /\ face'.started => InCalls'
               /\ ~face'.started => OutsideCalls'
               /\ face'.started /\ ~face'.preview /\ mix'.sound => Sounding'
    <2>1. /\ jobs = << >> /\ (mix'.sound <=> mix.sound)
          /\ ~face.speaker
          /\ ~face.started => Unused
          /\ face.started /\ ~face.preview /\ mix.sound => Wired
      BY <1>1, <1>5, Asked DEF Unused
    <2>2. \A i \in DOMAIN jobs' : \/ jobs'[i].kind = "swap" /\ (jobs'[i].on <=> face.started)
                                  \/ jobs'[i].kind = "stopCapture" /\ face.preview
      BY <1>3, <2>1
    <2> QED
      BY <1>1, <1>2, <2>1, <2>2
         DEF InCalls, OutsideCalls, Idle, Sounding, OfTest, OfCheck, Unused, MicAsShown, Wired
  <1> QED
    BY <1>4, <1>5 DEF CalmInv

(* A mic check and a speaker test. *)
LEMMA Tested == AudioInv /\ (TogglePreview \/ SpeakerTest) => AudioInv'
  <1> SUFFICES ASSUME AudioInv, TogglePreview \/ SpeakerTest PROVE AudioInv'
    OBVIOUS
  <1> USE DEF AudioInv
  <1>1. (\E ask \in Asks : May(ask)) /\ engine' = engine /\ voice' = voice
    BY DEF TogglePreview, SpeakerTest, Asks
  <1>2. /\ face' \in Faces /\ (face'.started <=> face.started) /\ (face'.preview <=> face.preview)
        /\ face.preview \in BOOLEAN /\ face.started \in BOOLEAN
        /\ TogglePreview => (face'.speaker <=> face.speaker)
    BY DEF TogglePreview, SpeakerTest, AudioTypes, Faces
  <1> DEFINE Toggled(j) == ~face.started /\ (face'.speaker <=> face.speaker) /\ j.kind = "preview"
                           /\ j.on = ~face.preview
             Sounded(j) == j.kind = "speaker" /\ (j.on <=> ~face.started)
  <1>3. \E j \in Jobs : Spawn(<< j >>) /\ (Toggled(j) \/ Sounded(j))
    <2>1. CASE TogglePreview
      <3>1. /\ Job("preview", ~face.preview) \in Jobs /\ Job("preview", ~face.preview).kind = "preview"
            /\ Job("preview", ~face.preview).on = ~face.preview
        BY <1>2, JobsMade DEF JobKinds
      <3>2. Spawn(<< Job("preview", ~face.preview) >>) /\ ~face.started
        BY <2>1 DEF TogglePreview
      <3> QED
        BY <1>2, <2>1, <3>1, <3>2
    <2>2. CASE SpeakerTest
      <3>1. /\ Job("speaker", ~face.started) \in Jobs /\ Job("speaker", ~face.started).kind = "speaker"
            /\ Job("speaker", ~face.started).on = ~face.started
        BY <1>2, JobsMade DEF JobKinds
      <3>2. Spawn(<< Job("speaker", ~face.started) >>)
        BY <2>2 DEF SpeakerTest
      <3> QED
        BY <3>1, <3>2
    <2> QED
      BY <2>1, <2>2
  <1>4. PICK j \in Jobs : Spawn(<< j >>) /\ (Toggled(j) \/ Sounded(j))
    BY <1>3
  <1>5. AudioTypes'
    BY <1>1, <1>2, <1>4, Spawned, Asked DEF AudioTypes
  <1>6. ASSUME calm'
        PROVE  /\ face'.started => InCalls'
               /\ ~face'.started => OutsideCalls'
               /\ face'.started /\ ~face'.preview /\ mix'.sound => Sounding'
    <2>1. /\ jobs = << >> /\ (mix'.sound <=> mix.sound)
          /\ ~face.started => Unused
          /\ face.started /\ ~face.preview /\ mix.sound => Wired
      BY <1>1, <1>6, Asked
    <2>2. Len(jobs') = 1 /\ DOMAIN jobs' = { 1 } /\ jobs'[1] = j
      BY <1>4, <2>1, Spawned DEF AudioTypes
    <2>3. CASE Toggled(j)
      BY <1>1, <1>2, <2>1, <2>2, <2>3 DEF OutsideCalls, Busy, Unused, MicAsShown
    <2>4. CASE Sounded(j)
      BY <1>1, <1>2, <2>1, <2>2, <2>4 DEF InCalls, OutsideCalls, Busy, Sounding, OfTest, OfCheck, Unused, MicAsShown, Wired
    <2> QED
      BY <1>4, <2>3, <2>4
  <1> QED
    BY <1>5, <1>6 DEF CalmInv

(* Devices. *)
LEMMA Failing == AudioInv /\ DeviceFails => AudioInv'
  <1> SUFFICES ASSUME AudioInv, DeviceFails PROVE AudioInv'
    OBVIOUS
  <1> USE DEF AudioInv
  <1>1. /\ mix.faults > 0 /\ mix' = [ mix EXCEPT !.faults = @ - 1 ]
        /\ \E device \in { "capture", "playback" } : engine' = [ engine EXCEPT !.broken = @ \cup { device } ]
        /\ UNCHANGED << voice, face, recovery, jobs, calm >>
    BY DEF DeviceFails
  <1>2. /\ ~mix.sound /\ ~mix'.sound
        /\ mix' \in [ asks : SUBSET Asks, calls : Nat, faults : Nat, sound : BOOLEAN ]
    BY <1>1 DEF AudioTypes
  <1>3. /\ engine' \in Engines /\ (engine'.open <=> engine.open) /\ (engine'.playing <=> engine.playing)
    BY <1>1 DEF AudioTypes, Engines
  <1>4. AudioTypes'
    BY <1>1, <1>2, <1>3 DEF AudioTypes
  <1>5. CalmInv'
    BY <1>1, <1>2, <1>3 DEF CalmInv, InCalls, OutsideCalls, Idle, Busy, OfTest, OfCheck, Unused, MicAsShown
  <1> QED
    BY <1>4, <1>5

(* In a call, another job does not matter to the tests. *)
LEMMA Added ==
  ASSUME AudioInv, NEW j \in Jobs, Spawn(<< j >>), j.kind \in { "recover", "restartCapture", "restartPlayback" },
         face' = face, InCalls
  PROVE  InCalls'
  <1>1. << j >> \in Seq(Jobs) /\ Len(<< j >>) = 1 /\ << j >>[1] = j
    OBVIOUS
  <1>2. /\ Len(jobs') = Len(jobs) + 1 /\ jobs' \in Seq(Jobs)
        /\ \A i \in 1 .. Len(jobs) + 1 : jobs'[i] = IF i <= Len(jobs) THEN jobs[i] ELSE << j >>[i - Len(jobs)]
    <2>1. /\ jobs \o << j >> \in Seq(Jobs) /\ Len(jobs \o << j >>) = Len(jobs) + Len(<< j >>)
          /\ \A i \in 1 .. Len(jobs) + Len(<< j >>) :
                (jobs \o << j >>)[i] = IF i <= Len(jobs) THEN jobs[i] ELSE << j >>[i - Len(jobs)]
      BY <1>1, Joint DEF AudioInv, AudioTypes
    <2> QED
      BY <1>1, <2>1 DEF Spawn
  <1>3. \A i \in DOMAIN jobs : i \in DOMAIN jobs' /\ jobs'[i] = jobs[i]
    BY <1>2 DEF AudioInv, AudioTypes
  <1>4. \A i \in DOMAIN jobs' : jobs'[i] = j \/ \E k \in DOMAIN jobs : jobs'[i] = jobs[k]
    <2> SUFFICES ASSUME NEW i \in DOMAIN jobs' PROVE jobs'[i] = j \/ \E k \in DOMAIN jobs : jobs'[i] = jobs[k]
      OBVIOUS
    <2>1. CASE i <= Len(jobs)
      <3>1. i \in DOMAIN jobs /\ jobs'[i] = jobs[i]
        BY <1>2, <2>1 DEF AudioInv, AudioTypes
      <3> QED
        BY <3>1
    <2>2. CASE i = Len(jobs) + 1
      BY <1>1, <1>2, <2>2 DEF AudioInv, AudioTypes
    <2> QED
      BY <1>2, <2>1, <2>2 DEF AudioInv, AudioTypes
  <1> QED
    BY <1>3, <1>4 DEF InCalls, OfTest, OfCheck

LEMMA Tended == AudioInv /\ (CheckAudioRecovery \/ Hotplug) => AudioInv'
  <1> SUFFICES ASSUME AudioInv, CheckAudioRecovery \/ Hotplug PROVE AudioInv'
    OBVIOUS
  <1> USE DEF AudioInv
  <1>0. \A kind \in { "recover", "restartCapture", "restartPlayback" } :
            Job(kind, FALSE) \in Jobs /\ Job(kind, FALSE).kind = kind
    BY JobsMade DEF JobKinds
  <1>1. CASE Hotplug
    <2>1. /\ May("hotplug") /\ face.started /\ UNCHANGED << voice, face, engine >>
      BY <1>1 DEF Hotplug
    <2>2. PICK kind \in { "restartCapture", "restartPlayback" } : Spawn(<< Job(kind, FALSE) >>)
      BY <1>1 DEF Hotplug
    <2>3. AudioTypes'
      BY <1>0, <2>1, <2>2, Spawned, Asked DEF AudioTypes
    <2>4. ASSUME calm' PROVE InCalls' /\ (~face'.preview /\ mix'.sound => Sounding')
      <3>1. /\ jobs = << >> /\ (mix'.sound <=> mix.sound) /\ ~face.speaker
            /\ ~face.preview /\ mix.sound => Wired
        BY <2>1, <2>4, Asked
      <3>2. DOMAIN jobs' = { 1 } /\ jobs'[1].kind \in { "restartCapture", "restartPlayback" }
        BY <1>0, <2>2, <3>1, Spawned DEF AudioTypes
      <3> QED
        BY <2>1, <3>1, <3>2 DEF InCalls, Sounding, Wired, OfTest, OfCheck
    <2> QED
      BY <2>1, <2>3, <2>4 DEF CalmInv
  <1>2. CASE CheckAudioRecovery
    <2>1. /\ face.started /\ UNCHANGED << voice, face, engine, mix, calm >>
          /\ jobs' = jobs \/ (engine.broken # {} /\ Spawn(<< Job("recover", FALSE) >>))
      BY <1>2 DEF CheckAudioRecovery
    <2>2. CASE jobs' = jobs
      BY <2>1, <2>2 DEF AudioTypes, CalmInv, InCalls, OutsideCalls, Idle, Busy, Sounding, OfTest, OfCheck, Unused,
                        MicAsShown, Wired
    <2>3. CASE engine.broken # {} /\ Spawn(<< Job("recover", FALSE) >>)
      <3>1. AudioTypes'
        BY <1>0, <2>1, <2>3, Spawned DEF AudioTypes
      <3>2. ~mix'.sound
        BY <2>1, <2>3 DEF AudioTypes
      <3>3. InCalls => InCalls'
        BY <1>0, <2>1, <2>3, Added
      <3> QED
        BY <2>1, <3>1, <3>2, <3>3 DEF CalmInv
    <2> QED
      BY <2>1, <2>2, <2>3
  <1> QED
    BY <1>1, <1>2

-----------------------------------------------------------------------------
(* A job that has run.  In a call, the tests go on as before unless it was *)
(* one of theirs; outside of calls a job that is busy was the only one.    *)
LEMMA JobThere ==
  ASSUME AudioInv, NEW i \in DOMAIN jobs
  PROVE  /\ jobs \in Seq(Jobs) /\ jobs[i] \in Jobs /\ Len(jobs) \in Nat /\ DOMAIN jobs = 1 .. Len(jobs)
         /\ jobs[i].on \in BOOLEAN
         /\ Len(jobs) = 1 => i = 1
  <1>1. jobs \in Seq(Jobs) /\ jobs[i] \in Jobs /\ Len(jobs) \in Nat /\ DOMAIN jobs = 1 .. Len(jobs) /\ i \in 1 .. Len(jobs)
    BY DEF AudioInv, AudioTypes
  <1> QED
    BY <1>1, JobTyped

LEMMA LeftInCall ==
  ASSUME AudioInv, NEW i \in DOMAIN jobs, jobs' = RemoveAt(jobs, i), InCalls,
         face'.speaker => face.speaker /\ ~OfTest(jobs[i])
  PROVE  InCalls'
  BY JobThere, JobsLeft DEF InCalls, OfTest, OfCheck

LEMMA WiredOn == AudioInv /\ (\E i \in DOMAIN jobs : Wire(i)) /\ calm' = calm => AudioInv'
  <1> SUFFICES ASSUME AudioInv, NEW i \in DOMAIN jobs, Wire(i), calm' = calm PROVE AudioInv'
    OBVIOUS
  <1> USE DEF AudioInv
  <1> DEFINE c == Job("open", FALSE)
  <1>1. /\ jobs[i].kind = "wire" /\ engine' = [ engine EXCEPT !.wired = TRUE ]
        /\ jobs' = ReplaceAt(jobs, i, c) /\ UNCHANGED << voice, face, recovery, mix >>
    BY DEF Wire
  <1>2. c \in Jobs /\ c.kind = "open"
    BY JobsMade DEF JobKinds
  <1> HIDE DEF c
  <1>3. /\ jobs' \in Seq(Jobs) /\ Len(jobs') = Len(jobs) /\ jobs'[i] = c /\ DOMAIN jobs' = DOMAIN jobs
        /\ \A k \in DOMAIN jobs : k # i => jobs'[k] = jobs[k]
    BY <1>1, <1>2, JobReplaced, JobThere
  <1>4. engine' \in Engines /\ engine'.wired /\ (engine'.open <=> engine.open) /\ engine'.broken = engine.broken
    BY <1>1 DEF AudioTypes, Engines
  <1>5. AudioTypes'
    BY <1>1, <1>3, <1>4 DEF AudioTypes
  <1>6. ASSUME calm, ~face.started PROVE FALSE
    BY <1>1, <1>6, JobThere DEF CalmInv, OutsideCalls, Idle, Busy
  <1>7. InCalls => InCalls'
    BY <1>1, <1>2, <1>3 DEF InCalls, OfTest, OfCheck
  <1>8. Sounding => Sounding'
    BY <1>1, <1>2, <1>3, <1>4, JobThere DEF Sounding
  <1> QED
    BY <1>1, <1>5, <1>6, <1>7, <1>8 DEF CalmInv

LEMMA OpenedOn == AudioInv /\ (\E i \in DOMAIN jobs : RunOpen(i)) /\ calm' = calm => AudioInv'
  <1> SUFFICES ASSUME AudioInv, NEW i \in DOMAIN jobs, RunOpen(i), calm' = calm PROVE AudioInv'
    OBVIOUS
  <1> USE DEF AudioInv
  <1>1. PICK mic \in BOOLEAN, speakers \in BOOLEAN :
            /\ Opens(mic /\ speakers)
            /\ engine' = StartPlayback(StartCapture(engine, mic), speakers)
            /\ CountFault(mic /\ speakers)
    BY DEF RunOpen
  <1>2. jobs[i].kind = "open" /\ jobs' = RemoveAt(jobs, i) /\ UNCHANGED << voice, face, recovery >>
    BY DEF RunOpen
  <1>3. /\ jobs' \in Seq(Jobs) /\ Len(jobs') = Len(jobs) - 1
        /\ \A j \in DOMAIN jobs' : \E k \in DOMAIN jobs : k # i /\ jobs'[j] = jobs[k]
    BY <1>2, JobsLeft, JobThere
  <1> DEFINE e == StartCapture(engine, mic)
  <1>4. e \in Engines /\ (e.open <=> mic \/ engine.open) /\ (e.wired <=> engine.wired) /\ e.broken \subseteq engine.broken
    BY EngineSteps DEF AudioTypes
  <1>5. /\ engine' \in Engines /\ (engine'.open <=> e.open) /\ (engine'.wired <=> e.wired)
        /\ (engine'.playing <=> speakers \/ e.playing) /\ engine'.broken \subseteq e.broken
    <2> HIDE DEF e
    <2>1. engine' = StartPlayback(e, speakers)
      BY <1>1 DEF e
    <2> QED
      BY <1>4, <2>1, EngineSteps
  <1> HIDE DEF e
  <1>6. /\ mix' \in [ asks : SUBSET Asks, calls : Nat, faults : Nat, sound : BOOLEAN ]
        /\ (mix'.sound <=> mix.sound) /\ (mix.sound => mix'.faults = 0)
    BY <1>1, FaultsCounted
  <1>7. AudioTypes'
    BY <1>2, <1>3, <1>4, <1>5, <1>6 DEF AudioTypes
  <1>8. ASSUME calm, ~face.started PROVE FALSE
    BY <1>2, <1>8, JobThere DEF CalmInv, OutsideCalls, Idle, Busy
  <1>9. InCalls => InCalls'
    BY <1>2, LeftInCall DEF OfTest
  <1>10. Sounding /\ mix.sound => Sounding'
    <2> SUFFICES ASSUME Sounding, mix.sound PROVE Sounding'
      OBVIOUS
    <2>1. mic /\ speakers
      BY <1>1 DEF Opens, AudioTypes
    <2>2. Len(jobs) = 1 /\ engine.wired
      BY <1>2, JobThere DEF Sounding
    <2>3. DOMAIN jobs' = {}
      BY <1>3, <2>2
    <2> QED
      BY <1>4, <1>5, <2>1, <2>2, <2>3 DEF Sounding, Wired
  <1> QED
    BY <1>2, <1>6, <1>7, <1>8, <1>9, <1>10 DEF CalmInv

LEMMA StoppedOn == AudioInv /\ (\E i \in DOMAIN jobs : RunStop(i)) /\ calm' = calm => AudioInv'
  <1> SUFFICES ASSUME AudioInv, NEW i \in DOMAIN jobs, RunStop(i), calm' = calm PROVE AudioInv'
    OBVIOUS
  <1> USE DEF AudioInv
  <1>1. /\ jobs[i].kind \in { "stop", "stopCapture", "stopPlayback" }
        /\ jobs[i].kind = "stop" => engine' = StopAll(engine)
        /\ jobs[i].kind = "stopCapture" => engine' = StopCapture(engine)
        /\ jobs[i].kind = "stopPlayback" => engine' = StopPlayback(engine)
        /\ jobs' = RemoveAt(jobs, i) /\ UNCHANGED << voice, face, recovery, mix >>
    BY DEF RunStop
  <1>2. /\ jobs' \in Seq(Jobs) /\ Len(jobs') = Len(jobs) - 1
        /\ \A j \in DOMAIN jobs' : \E k \in DOMAIN jobs : k # i /\ jobs'[j] = jobs[k]
    BY <1>1, JobsLeft, JobThere
  <1>3. /\ engine' \in Engines /\ engine'.broken = engine.broken
        /\ engine'.open => engine.open
        /\ engine'.playing => engine.playing
        /\ jobs[i].kind = "stop" => ~engine'.open /\ ~engine'.playing
    <2>1. engine \in Engines
      BY DEF AudioTypes
    <2>2. CASE jobs[i].kind = "stop"
      BY <1>1, <2>1, <2>2, EngineStops
    <2>3. CASE jobs[i].kind = "stopCapture"
      BY <1>1, <2>1, <2>3, EngineStops
    <2>4. CASE jobs[i].kind = "stopPlayback"
      BY <1>1, <2>1, <2>4, EngineStops
    <2> QED
      BY <1>1, <2>2, <2>3, <2>4
  <1>4. AudioTypes'
    BY <1>1, <1>2, <1>3 DEF AudioTypes
  <1>5. ASSUME calm, ~face.started PROVE OutsideCalls'
    <2>1. CASE Idle
      BY <1>1, <1>2, <1>3, <2>1 DEF Idle, Unused, MicAsShown, OutsideCalls
    <2>2. CASE Len(jobs) = 1 /\ Busy(jobs[1])
      <3>1. jobs[i].kind = "stop" /\ ~face.speaker /\ DOMAIN jobs' = {}
        BY <1>1, <1>2, <2>2, JobThere DEF Busy
      <3> QED
        BY <1>1, <1>3, <3>1 DEF Idle, Unused, MicAsShown, OutsideCalls
    <2> QED
      BY <1>5, <2>1, <2>2 DEF CalmInv, OutsideCalls
  <1>6. InCalls => InCalls'
    BY <1>1, LeftInCall DEF OfTest
  <1>7. ~Sounding
    BY <1>1, JobThere DEF Sounding
  <1> QED
    BY <1>1, <1>4, <1>5, <1>6, <1>7 DEF CalmInv

LEMMA ControlledOn == AudioInv /\ (\E i \in DOMAIN jobs : RunControl(i)) /\ calm' = calm => AudioInv'
  <1> SUFFICES ASSUME AudioInv, NEW i \in DOMAIN jobs, RunControl(i), calm' = calm PROVE AudioInv'
    OBVIOUS
  <1> USE DEF AudioInv
  <1>1. /\ \/ jobs[i].kind = "setMuted" /\ engine' = [ engine EXCEPT !.live = ~jobs[i].on ]
           \/ jobs[i].kind = "setDeafened" /\ engine' = [ engine EXCEPT !.live = ~jobs[i].muted, !.deaf = jobs[i].on ]
        /\ jobs' = RemoveAt(jobs, i) /\ UNCHANGED << voice, face, recovery, mix >>
    BY DEF RunControl
  <1>2. /\ jobs' \in Seq(Jobs) /\ Len(jobs') = Len(jobs) - 1
        /\ \A j \in DOMAIN jobs' : \E k \in DOMAIN jobs : k # i /\ jobs'[j] = jobs[k]
    BY <1>1, JobsLeft, JobThere
  <1>3. /\ engine' \in Engines /\ engine'.broken = engine.broken /\ (engine'.open <=> engine.open)
        /\ (engine'.wired <=> engine.wired) /\ (engine'.playing <=> engine.playing)
    <2>1. engine \in Engines /\ jobs[i].on \in BOOLEAN /\ (jobs[i].kind = "setDeafened" => jobs[i].muted \in BOOLEAN)
      BY JobThere, JobTyped DEF AudioTypes
    <2> QED
      BY <1>1, <2>1 DEF Engines
  <1>0. /\ jobs[i].kind \in { "setMuted", "setDeafened" } /\ jobs' = RemoveAt(jobs, i)
        /\ UNCHANGED << voice, face, recovery, mix >>
    BY <1>1
  <1>4. AudioTypes'
    BY <1>0, <1>2, <1>3 DEF AudioTypes
  <1>5. ASSUME calm, ~face.started PROVE OutsideCalls'
    <2>1. Idle
      BY <1>0, <1>5, JobThere DEF CalmInv, OutsideCalls, Busy
    <2> QED
      BY <1>0, <1>2, <1>3, <2>1 DEF Idle, Unused, MicAsShown, OutsideCalls
  <1>6. InCalls => InCalls'
    BY <1>0, LeftInCall DEF OfTest
  <1>7. Sounding => Sounding'
    BY <1>0, <1>2, <1>3, JobThere DEF Sounding, Wired
  <1> QED
    BY <1>0, <1>4, <1>5, <1>6, <1>7 DEF CalmInv

LEMMA Recovering ==
  ASSUME NEW e \in Engines, NEW mic \in BOOLEAN, NEW speakers \in BOOLEAN
  PROVE  Recovered(e, mic, speakers) \in Engines /\ Recovered(e, mic, speakers).broken \subseteq e.broken
  <1> DEFINE c == IF "capture" \in e.broken THEN RestartCapture(e, mic) ELSE e
  <1>1. c \in Engines /\ c.broken \subseteq e.broken
    BY EngineSteps
  <1> HIDE DEF c
  <1>2. RestartPlayback(c, speakers) \in Engines /\ RestartPlayback(c, speakers).broken \subseteq c.broken
    BY <1>1, EngineSteps
  <1>3. Recovered(e, mic, speakers) = IF "playback" \in e.broken THEN RestartPlayback(c, speakers) ELSE c
    BY DEF Recovered, c
  <1> QED
    BY <1>1, <1>2, <1>3

LEMMA RestartedOn == AudioInv /\ (\E i \in DOMAIN jobs : RunRestart(i)) /\ calm' = calm => AudioInv'
  <1> SUFFICES ASSUME AudioInv, NEW i \in DOMAIN jobs, RunRestart(i), calm' = calm PROVE AudioInv'
    OBVIOUS
  <1> USE DEF AudioInv
  <1>1. /\ jobs[i].kind \in { "swap", "restartCapture", "restartPlayback", "recover" }
        /\ jobs' = RemoveAt(jobs, i) /\ UNCHANGED << voice, face, recovery >>
    BY DEF RunRestart
  <1>2. PICK mic \in BOOLEAN, speakers \in BOOLEAN :
            /\ Opens(mic /\ speakers) /\ CountFault(mic /\ speakers)
            /\ engine' = CASE jobs[i].kind = "swap" /\ jobs[i].on ->
                                  RestartPlayback(RestartCapture(engine, mic), speakers)
                           [] jobs[i].kind = "restartCapture" -> RestartCapture(engine, mic)
                           [] jobs[i].kind = "restartPlayback" -> RestartPlayback(engine, speakers)
                           [] jobs[i].kind = "recover" -> Recovered(engine, mic, speakers)
                           [] OTHER -> engine
    BY DEF RunRestart
  <1>3. /\ jobs' \in Seq(Jobs) /\ Len(jobs') = Len(jobs) - 1
        /\ \A j \in DOMAIN jobs' : \E k \in DOMAIN jobs : k # i /\ jobs'[j] = jobs[k]
    BY <1>1, JobsLeft, JobThere
  <1>4. /\ engine' \in Engines /\ engine'.broken \subseteq engine.broken
        /\ jobs[i].kind = "swap" /\ ~jobs[i].on => engine' = engine
        /\ mic /\ speakers /\ jobs[i].kind # "recover" /\ Wired => Wired'
    <2>1. engine \in Engines
      BY DEF AudioTypes
    <2>2. CASE jobs[i].kind = "swap" /\ jobs[i].on
      <3> DEFINE e == RestartCapture(engine, mic)
      <3>1. /\ e \in Engines /\ (e.open <=> mic) /\ (e.wired <=> engine.wired)
            /\ e.broken \subseteq engine.broken
        BY <2>1, EngineSteps
      <3>2. engine' = RestartPlayback(e, speakers)
        BY <1>2, <2>2
      <3> HIDE DEF e
      <3>3. /\ engine' \in Engines /\ (engine'.open <=> e.open) /\ (engine'.wired <=> e.wired)
            /\ (engine'.playing <=> speakers) /\ engine'.broken \subseteq e.broken
        BY <3>1, <3>2, EngineSteps
      <3> QED
        BY <2>2, <3>1, <3>3 DEF Wired
    <2>3. CASE jobs[i].kind = "restartCapture"
      <3>1. engine' = RestartCapture(engine, mic)
        BY <1>2, <2>3
      <3>2. /\ engine' \in Engines /\ (engine'.open <=> mic) /\ (engine'.wired <=> engine.wired)
            /\ (engine'.playing <=> engine.playing) /\ engine'.broken \subseteq engine.broken
        BY <2>1, <3>1, EngineSteps
      <3> QED
        BY <2>3, <3>2 DEF Wired
    <2>4. CASE jobs[i].kind = "restartPlayback"
      <3>1. engine' = RestartPlayback(engine, speakers)
        BY <1>2, <2>4
      <3>2. /\ engine' \in Engines /\ (engine'.open <=> engine.open) /\ (engine'.wired <=> engine.wired)
            /\ (engine'.playing <=> speakers) /\ engine'.broken \subseteq engine.broken
        BY <2>1, <3>1, EngineSteps
      <3> QED
        BY <2>4, <3>2 DEF Wired
    <2>5. CASE jobs[i].kind = "recover"
      <3>1. engine' = Recovered(engine, mic, speakers)
        BY <1>2, <2>5
      <3> QED
        BY <2>1, <2>5, <3>1, Recovering
    <2>6. CASE jobs[i].kind = "swap" /\ ~jobs[i].on
      <3>1. engine' = engine
        BY <1>2, <2>6
      <3> QED
        BY <2>1, <3>1 DEF Wired
    <2> QED
      BY <1>1, <2>2, <2>3, <2>4, <2>5, <2>6
  <1>5. /\ mix' \in [ asks : SUBSET Asks, calls : Nat, faults : Nat, sound : BOOLEAN ]
        /\ (mix'.sound <=> mix.sound) /\ (mix.sound => mix'.faults = 0)
    BY <1>2, FaultsCounted
  <1>6. AudioTypes'
    BY <1>1, <1>3, <1>4, <1>5 DEF AudioTypes
  <1>7. ASSUME calm, ~face.started PROVE OutsideCalls'
    <2>1. Idle
      BY <1>1, <1>7, JobThere DEF CalmInv, OutsideCalls, Busy
    <2>2. engine' = engine
      BY <1>1, <1>4, <2>1 DEF Idle
    <2> QED
      BY <1>1, <1>3, <2>1, <2>2 DEF Idle, Unused, MicAsShown, OutsideCalls
  <1>8. InCalls => InCalls'
    BY <1>1, LeftInCall DEF OfTest
  <1>9. Sounding /\ mix.sound => Sounding'
    <2> SUFFICES ASSUME Sounding, mix.sound PROVE Sounding'
      OBVIOUS
    <2>1. mic /\ speakers
      BY <1>2 DEF Opens, AudioTypes
    <2>2. /\ Wired /\ jobs[i].kind # "recover"
          /\ \A k \in DOMAIN jobs :
                jobs[k].kind \in { "swap", "setMuted", "setDeafened", "restartCapture", "restartPlayback", "speaker", "show" }
          /\ \A k \in DOMAIN jobs : jobs[k].kind = "speaker" => ~jobs[k].on
      BY <1>1, JobThere DEF Sounding
    <2>3. Wired'
      BY <1>4, <2>1, <2>2
    <2> QED
      BY <1>3, <2>2, <2>3 DEF Sounding
  <1> QED
    BY <1>1, <1>5, <1>6, <1>7, <1>8, <1>9 DEF CalmInv

(* The jobs of the mic check and the speaker test, and what they hand to   *)
(* the window.                                                             *)
LEMMA CheckedOn == AudioInv /\ (\E i \in DOMAIN jobs : RunPreview(i)) /\ calm' = calm => AudioInv'
  <1> SUFFICES ASSUME AudioInv, NEW i \in DOMAIN jobs, RunPreview(i), calm' = calm PROVE AudioInv'
    OBVIOUS
  <1> USE DEF AudioInv
  <1>1. jobs[i].kind = "preview" /\ UNCHANGED << voice, face, recovery >>
    BY DEF RunPreview
  <1>2. PICK mic \in BOOLEAN :
            /\ mic \/ jobs[i].on
            /\ engine' = IF jobs[i].on THEN StartCapture(engine, mic) ELSE StopCapture(engine)
            /\ jobs' = ReplaceAt(jobs, i, [ kind |-> "show", on |-> jobs[i].on /\ mic, what |-> "preview" ])
            /\ CountFault(mic)
    BY DEF RunPreview
  <1> DEFINE c == [ kind |-> "show", on |-> jobs[i].on /\ mic, what |-> "preview" ]
  <1>3. c \in Jobs /\ c.kind = "show" /\ c.what = "preview" /\ (c.on <=> jobs[i].on /\ mic)
    BY JobsMade, JobThere
  <1>4. jobs' = ReplaceAt(jobs, i, c)
    BY <1>2
  <1> HIDE DEF c
  <1>5. /\ jobs' \in Seq(Jobs) /\ Len(jobs') = Len(jobs) /\ jobs'[i] = c /\ DOMAIN jobs' = DOMAIN jobs
        /\ \A k \in DOMAIN jobs : k # i => jobs'[k] = jobs[k]
    BY <1>3, <1>4, JobReplaced, JobThere
  <1>6. /\ engine' \in Engines /\ engine'.broken \subseteq engine.broken
        /\ (engine'.playing <=> engine.playing)
        /\ engine'.open => jobs[i].on /\ (mic \/ engine.open)
    <2>1. engine \in Engines
      BY DEF AudioTypes
    <2>2. CASE jobs[i].on
      <3>1. engine' = StartCapture(engine, mic)
        BY <1>2, <2>2
      <3> QED
        BY <2>1, <2>2, <3>1, EngineSteps
    <2>3. CASE ~jobs[i].on
      <3>1. engine' = StopCapture(engine)
        BY <1>2, <2>3
      <3> QED
        BY <2>1, <2>3, <3>1, EngineStops
    <2> QED
      BY <2>2, <2>3
  <1>7. /\ mix' \in [ asks : SUBSET Asks, calls : Nat, faults : Nat, sound : BOOLEAN ]
        /\ (mix'.sound <=> mix.sound) /\ (mix.sound => mix'.faults = 0)
    BY <1>2, FaultsCounted
  <1>8. AudioTypes'
    BY <1>1, <1>5, <1>6, <1>7 DEF AudioTypes
  <1>9. ASSUME calm PROVE ~face.started
    BY <1>1, <1>9 DEF CalmInv, InCalls, OfCheck
  <1>10. ASSUME calm PROVE OutsideCalls'
    <2>1. Len(jobs) = 1 /\ i = 1 /\ Unused /\ jobs[i].on = ~face.preview
      BY <1>1, <1>9, <1>10, JobThere DEF CalmInv, OutsideCalls, Idle, Busy
    <2>2. engine'.open => c.on
      BY <1>3, <1>6, <2>1 DEF Unused, MicAsShown
    <2> QED
      BY <1>1, <1>3, <1>5, <1>6, <2>1, <2>2 DEF OutsideCalls, Busy, Unused
  <1> QED
    BY <1>1, <1>8, <1>9, <1>10 DEF CalmInv

LEMMA SpokenOn == AudioInv /\ (\E i \in DOMAIN jobs : RunSpeaker(i) \/ RunSpeakerEnd(i)) /\ calm' = calm => AudioInv'
  <1> SUFFICES ASSUME AudioInv, NEW i \in DOMAIN jobs, RunSpeaker(i) \/ RunSpeakerEnd(i), calm' = calm PROVE AudioInv'
    OBVIOUS
  <1> USE DEF AudioInv
  <1> DEFINE tone == Job("speakerEnd", TRUE)
             over == [ kind |-> "show", on |-> FALSE, what |-> "speaker" ]
  <1>1. jobs[i].kind \in { "speaker", "speakerEnd" } /\ UNCHANGED << voice, face, recovery >>
    BY DEF RunSpeaker, RunSpeakerEnd
  <1>2. /\ tone \in Jobs /\ tone.kind = "speakerEnd"
        /\ over \in Jobs /\ over.kind = "show" /\ over.what = "speaker" /\ ~over.on
    BY JobsMade DEF JobKinds
  <1>3. \E c \in { tone, over } :
            /\ jobs' = ReplaceAt(jobs, i, c)
            /\ engine' \in Engines /\ engine'.broken \subseteq engine.broken
            /\ (engine'.open <=> engine.open) /\ (engine'.wired <=> engine.wired)
            /\ mix' \in [ asks : SUBSET Asks, calls : Nat, faults : Nat, sound : BOOLEAN ]
            /\ (mix'.sound <=> mix.sound) /\ (mix.sound => mix'.faults = 0)
            /\ jobs[i].kind = "speaker" /\ ~jobs[i].on => c = over /\ engine' = engine
            /\ c = over => ~engine'.playing \/ (jobs[i].kind = "speaker" /\ (engine'.playing <=> engine.playing))
    <2>1. engine \in Engines
      BY DEF AudioTypes
    <2>2. CASE RunSpeakerEnd(i)
      <3>1. /\ jobs[i].kind = "speakerEnd" /\ engine' = StopPlayback(engine) /\ jobs' = ReplaceAt(jobs, i, over)
            /\ mix' = mix
        BY <2>2 DEF RunSpeakerEnd
      <3> HIDE DEF over, tone
      <3>2. /\ engine' \in Engines /\ engine'.broken \subseteq engine.broken /\ ~engine'.playing
            /\ (engine'.open <=> engine.open) /\ (engine'.wired <=> engine.wired)
        BY <2>1, <3>1, EngineSteps DEF StopPlayback, Engines
      <3> QED
        BY <3>1, <3>2 DEF AudioTypes
    <2>3. CASE RunSpeaker(i)
      <3>1. PICK speakers \in BOOLEAN :
                /\ speakers \/ jobs[i].on
                /\ engine' = IF jobs[i].on THEN StartPlayback(engine, speakers) ELSE engine
                /\ jobs' = ReplaceAt(jobs, i, IF jobs[i].on /\ speakers THEN tone ELSE over)
                /\ CountFault(speakers)
        BY <2>3 DEF RunSpeaker
      <3>2. jobs[i].kind = "speaker"
        BY <2>3 DEF RunSpeaker
      <3>3. /\ mix' \in [ asks : SUBSET Asks, calls : Nat, faults : Nat, sound : BOOLEAN ]
            /\ (mix'.sound <=> mix.sound) /\ (mix.sound => mix'.faults = 0)
        BY <3>1, FaultsCounted
      <3> HIDE DEF over, tone
      <3>4. CASE jobs[i].on
        <4>1. engine' = StartPlayback(engine, speakers)
          BY <3>1, <3>4
        <4>2. /\ engine' \in Engines /\ (engine'.open <=> engine.open) /\ (engine'.wired <=> engine.wired)
              /\ (engine'.playing <=> speakers \/ engine.playing) /\ engine'.broken \subseteq engine.broken
          BY <2>1, <4>1, EngineSteps
        <4>3. CASE speakers
          <5>1. jobs' = ReplaceAt(jobs, i, tone)
            BY <3>1, <3>4, <4>3
          <5>2. tone # over
            BY <1>2
          <5> QED
            BY <3>2, <3>3, <3>4, <4>2, <5>1, <5>2
        <4>4. CASE ~speakers
          <5>1. jobs' = ReplaceAt(jobs, i, over)
            BY <3>1, <4>4
          <5> QED
            BY <3>2, <3>3, <3>4, <4>2, <4>4, <5>1
        <4> QED
          BY <4>3, <4>4
      <3>5. CASE ~jobs[i].on
        <4>1. engine' = engine /\ jobs' = ReplaceAt(jobs, i, over)
          BY <3>1, <3>5
        <4> QED
          BY <2>1, <3>2, <3>3, <3>5, <4>1
      <3> QED
        BY <3>4, <3>5
    <2> QED
      BY <2>2, <2>3
  <1>4. PICK c \in { tone, over } :
            /\ jobs' = ReplaceAt(jobs, i, c)
            /\ engine' \in Engines /\ engine'.broken \subseteq engine.broken
            /\ (engine'.open <=> engine.open) /\ (engine'.wired <=> engine.wired)
            /\ mix' \in [ asks : SUBSET Asks, calls : Nat, faults : Nat, sound : BOOLEAN ]
            /\ (mix'.sound <=> mix.sound) /\ (mix.sound => mix'.faults = 0)
            /\ jobs[i].kind = "speaker" /\ ~jobs[i].on => c = over /\ engine' = engine
            /\ c = over => ~engine'.playing \/ (jobs[i].kind = "speaker" /\ (engine'.playing <=> engine.playing))
    BY <1>3
  <1>5. /\ c \in Jobs /\ (c.kind = "speakerEnd" \/ (c.kind = "show" /\ c.what = "speaker" /\ ~c.on))
        /\ c = over => c.kind = "show" /\ c.what = "speaker" /\ ~c.on
        /\ c.kind = "show" => c = over
    BY <1>2, <1>4
  <1> HIDE DEF tone, over
  <1>6. /\ jobs' \in Seq(Jobs) /\ Len(jobs') = Len(jobs) /\ jobs'[i] = c /\ DOMAIN jobs' = DOMAIN jobs
        /\ \A k \in DOMAIN jobs : k # i => jobs'[k] = jobs[k]
    BY <1>4, <1>5, JobReplaced, JobThere
  <1>7. AudioTypes'
    BY <1>1, <1>4, <1>6 DEF AudioTypes
  <1>8. ASSUME calm, ~face.started PROVE OutsideCalls'
    <2>1. Len(jobs) = 1 /\ i = 1 /\ MicAsShown /\ (jobs[i].kind = "speaker" => ~engine.playing)
      BY <1>1, <1>8, JobThere DEF CalmInv, OutsideCalls, Idle, Busy
    <2>2. c.kind = "show" => ~engine'.playing
      BY <1>1, <1>4, <1>5, <2>1
    <2> QED
      BY <1>1, <1>4, <1>5, <1>6, <2>1, <2>2 DEF OutsideCalls, Busy, MicAsShown
  <1>9. InCalls => InCalls'
    <2> SUFFICES ASSUME InCalls PROVE InCalls'
      OBVIOUS
    <2>1. OfTest(jobs'[i]) /\ ~OfCheck(jobs'[i]) /\ (jobs'[i].kind = "show" => ~jobs'[i].on)
      BY <1>5, <1>6 DEF OfTest, OfCheck
    <2> QED
      BY <1>1, <1>6, <2>1 DEF InCalls, OfTest, OfCheck
  <1>10. Sounding => Sounding'
    <2> SUFFICES ASSUME Sounding PROVE Sounding'
      OBVIOUS
    <2>1. /\ Wired /\ jobs[i].kind = "speaker" /\ ~jobs[i].on
          /\ \A k \in DOMAIN jobs :
                jobs[k].kind \in { "swap", "setMuted", "setDeafened", "restartCapture", "restartPlayback", "speaker", "show" }
          /\ \A k \in DOMAIN jobs : jobs[k].kind = "speaker" => ~jobs[k].on
      BY <1>1, JobThere DEF Sounding
    <2>2. engine' = engine /\ jobs'[i].kind = "show"
      BY <1>4, <1>5, <1>6, <2>1
    <2> QED
      BY <1>6, <2>1, <2>2 DEF Sounding, Wired
  <1> QED
    BY <1>1, <1>4, <1>7, <1>8, <1>9, <1>10 DEF CalmInv

LEMMA ShownOn == AudioInv /\ (\E i \in DOMAIN jobs : ShowInWindow(i)) /\ calm' = calm => AudioInv'
  <1> SUFFICES ASSUME AudioInv, NEW i \in DOMAIN jobs, ShowInWindow(i), calm' = calm PROVE AudioInv'
    OBVIOUS
  <1> USE DEF AudioInv
  <1>1. /\ jobs[i].kind = "show" /\ jobs' = RemoveAt(jobs, i) /\ UNCHANGED << voice, engine, recovery, mix >>
        /\ face' = IF jobs[i].what = "preview" THEN [ face EXCEPT !.preview = jobs[i].on ]
                   ELSE [ face EXCEPT !.speaker = jobs[i].on ]
    BY DEF ShowInWindow
  <1>2. /\ jobs' \in Seq(Jobs) /\ Len(jobs') = Len(jobs) - 1
        /\ \A j \in DOMAIN jobs' : \E k \in DOMAIN jobs : k # i /\ jobs'[j] = jobs[k]
    BY <1>1, JobsLeft, JobThere
  <1>3. jobs[i].on \in BOOLEAN /\ jobs[i].what \in { "preview", "speaker" }
    BY <1>1, JobThere, JobTyped
  <1>4. /\ face' \in Faces /\ (face'.started <=> face.started)
        /\ jobs[i].what = "preview" => (face'.preview <=> jobs[i].on) /\ (face'.speaker <=> face.speaker)
        /\ jobs[i].what = "speaker" => (face'.preview <=> face.preview) /\ (face'.speaker <=> jobs[i].on)
    BY <1>1, <1>3 DEF AudioTypes, Faces
  <1>5. AudioTypes'
    BY <1>1, <1>2, <1>4 DEF AudioTypes
  <1>6. ASSUME calm, ~face.started PROVE OutsideCalls'
    <2>1. Len(jobs) = 1 /\ Busy(jobs[i])
      BY <1>1, <1>6, JobThere DEF CalmInv, OutsideCalls, Idle
    <2>2. DOMAIN jobs' = {}
      BY <1>2, <2>1
    <2>3. Unused'
      BY <1>1, <1>3, <1>4, <2>1 DEF Busy, Unused, MicAsShown
    <2> QED
      BY <2>2, <2>3 DEF Idle, OutsideCalls
  <1>7. InCalls => InCalls' /\ (face'.preview <=> face.preview)
    <2> SUFFICES ASSUME InCalls PROVE InCalls' /\ (face'.preview <=> face.preview)
      OBVIOUS
    <2>1. jobs[i].what = "speaker" /\ ~jobs[i].on
      BY <1>1, <1>3 DEF InCalls, OfCheck
    <2> QED
      BY <1>1, <1>4, <2>1, LeftInCall
  <1>8. Sounding => Sounding'
    BY <1>1, <1>2, JobThere DEF Sounding, Wired
  <1> QED
    BY <1>1, <1>4, <1>5, <1>6, <1>7, <1>8 DEF CalmInv

-----------------------------------------------------------------------------
LEMMA AudioStep == AudioInv /\ [AudioNext]_audioVars => AudioInv'
  <1>1. ASSUME AudioInv, NEW i \in DOMAIN jobs, RunJob(i) PROVE AudioInv'
    BY <1>1, WiredOn, OpenedOn, StoppedOn, ControlledOn, RestartedOn, CheckedOn, SpokenOn, ShownOn DEF RunJob
  <1>2. ASSUME AudioInv, UNCHANGED audioVars PROVE AudioInv'
    BY <1>2 DEF audioVars, AudioInv, AudioTypes, CalmInv, InCalls, OutsideCalls, Idle, Busy, Sounding, OfTest, OfCheck,
                Unused, MicAsShown, Wired
  <1> QED
    BY <1>1, <1>2, Entered, Ended, Controlled, Visited, Tested, Failing, Tended DEF AudioNext

(* QuietOutsideCalls: no device is open when no call, mic check or speaker *)
(* test is on (handle_stop_audio and the handlers that spawn it).          *)
THEOREM DevicesLetGo == AudioSpec => []QuietOutsideCalls
  <1>1. AudioInv => QuietOutsideCalls
    BY DEF AudioInv, CalmInv, QuietOutsideCalls, Settled, OutsideCalls, Idle, Unused, MicAsShown
  <1> QED
    BY <1>1, AudioAtFirst, AudioStep, PTL DEF AudioSpec

(* CallIsWired: in a call the microphone is open and wired and the         *)
(* speakers play (start_audio_if_needed, and the restarts of streams).     *)
THEOREM CallStaysWired == AudioSpec => []CallIsWired
  <1>1. AudioInv => CallIsWired
    BY DEF AudioInv, CalmInv, CallIsWired, Settled, Sounding, Wired
  <1> QED
    BY <1>1, AudioAtFirst, AudioStep, PTL DEF AudioSpec

-----------------------------------------------------------------------------
(* Who is shown typing. *)
(* A channel and a display name. *)
Spots == Pages \X Pens

(* What is sent to the client. *)
Signals ==
    [ sig : { "typing" }, of : Spots, on : BOOLEAN ] \cup [ sig : { "direct" }, of : Typists \X Pens, on : BOOLEAN ]
    \cup [ sig : { "message" }, of : Spots ] \cup [ sig : { "gone" }, of : Pages ] \cup [ sig : { "joined" } ]

(* What is said of the typing in a channel names a channel there is.  Ages *)
(* are below the limit, and what takes an age away takes the name away.    *)
TimedInv ==
    /\ typingIn \in [ Typists -> Pages \cup { NoPage } ]
    /\ named \in [ Typists -> Pens ]
    /\ wire \in Seq(Signals)
    /\ tTicks \in [ Spots -> -1 .. TypingLimit - 1 ]
    /\ tUsers \subseteq Spots
    /\ TypistsTimed

LEMMA NoTicksTyped == NoTicks \in [ Spots -> -1 .. TypingLimit - 1 ]
  BY TypingAssumption DEF TypingAssumption, NoTicks, Spots

LEMMA TimedAtFirst == TypingInit => TimedInv
  <1>1. << >> \in Seq(Signals)
    OBVIOUS
  <1> QED
    BY <1>1, NoTicksTyped DEF TypingInit, TimedInv, TypistsTimed

LEMMA Told ==
  /\ \A e \in Signals : << e >> \in Seq(Signals)
  /\ \A e \in Signals : \A c : (IF c THEN << e >> ELSE << >>) \in Seq(Signals)
  /\ \A e \in Signals : \A c : (IF c THEN << >> ELSE << e >>) \in Seq(Signals)
  <1>1. << >> \in Seq(Signals) /\ \A e \in Signals : << e >> \in Seq(Signals)
    OBVIOUS
  <1> QED
    BY <1>1

LEMMA SignalsSent ==
  ASSUME TimedInv, NEW q \in Typists
  PROVE  /\ \A c \in Pages, on \in BOOLEAN : In(q, c, on) \in Signals
         /\ \A on \in BOOLEAN : To(q, on) \in Signals
         /\ ClearedIn(q) \in Seq(Signals) /\ ClearedTo(q) \in Seq(Signals)
         /\ \A c \in Pages : [ sig |-> "message", of |-> << c, named[q] >> ] \in Signals
  <1>1. named[q] \in Pens
    BY DEF TimedInv
  <1>2. ASSUME NEW c \in Pages, NEW on \in BOOLEAN PROVE In(q, c, on) \in Signals
    BY <1>1 DEF In, Signals, Spots
  <1>3. ASSUME NEW on \in BOOLEAN PROVE To(q, on) \in Signals
    BY <1>1 DEF To, Signals
  <1>4. ClearedIn(q) \in Seq(Signals)
    <2>1. CASE typingIn[q] # NoPage
      <3>1. typingIn[q] \in Pages
        BY <2>1 DEF TimedInv
      <3>2. In(q, typingIn[q], FALSE) \in Signals
        BY <3>1, <1>2
      <3>3. << In(q, typingIn[q], FALSE) >> \in Seq(Signals) /\ << >> \in Seq(Signals)
        BY <3>2, Told
      <3> QED
        BY <3>3 DEF ClearedIn
    <2>2. CASE typingIn[q] = NoPage
      <3>1. ClearedIn(q) = << >>
        BY <2>2 DEF ClearedIn
      <3> QED
        BY <3>1
    <2> QED
      BY <2>1, <2>2
  <1>5. ClearedTo(q) \in Seq(Signals)
    BY <1>3, Told DEF ClearedTo
  <1>6. ASSUME NEW c \in Pages PROVE [ sig |-> "message", of |-> << c, named[q] >> ] \in Signals
    BY <1>1 DEF Signals, Spots
  <1> QED
    BY <1>2, <1>3, <1>4, <1>5, <1>6

(* What the server sends is of that kind. *)
LEMMA ServerSends ==
  ASSUME TimedInv, ServerStroke
  PROVE  /\ typingIn' \in [ Typists -> Pages \cup { NoPage } ]
         /\ named' \in [ Typists -> Pens ]
         /\ wire' \in Seq(Signals)
  <1> USE DEF TimedInv
  <1> DEFINE Sent ==
                /\ typingIn' \in [ Typists -> Pages \cup { NoPage } ]
                /\ named' \in [ Typists -> Pens ]
                /\ wire' \in Seq(Signals)
  <1>0. \A s \in Seq(Signals) : Announced(s) => wire' \in Seq(Signals)
    BY DEF Announced
  <1>1. ASSUME NEW q \in Typists, NEW c \in Pages, SetTyping(q, c) PROVE Sent
    <2> DEFINE told == IF typingIn[q] = c THEN << >>
                       ELSE ClearedIn(q) \o (IF attends THEN << In(q, c, TRUE) >> ELSE << >>)
    <2>1. In(q, c, TRUE) \in Signals /\ ClearedIn(q) \in Seq(Signals) /\ ClearedTo(q) \in Seq(Signals)
      BY SignalsSent
    <2>2. told \in Seq(Signals)
      <3>1. (IF attends THEN << In(q, c, TRUE) >> ELSE << >>) \in Seq(Signals)
        BY <2>1, Told
      <3>2. \A s, t \in Seq(Signals) : s \o t \in Seq(Signals)
        OBVIOUS
      <3>4. ClearedIn(q) \o (IF attends THEN << In(q, c, TRUE) >> ELSE << >>) \in Seq(Signals)
        BY <2>1, <3>1, <3>2, Zenon
      <3>3. CASE typingIn[q] = c
        BY <3>3
      <3> QED
        BY <3>3, <3>4
    <2> HIDE DEF told
    <2>3. ClearedTo(q) \o told \in Seq(Signals)
      BY <2>1, <2>2
    <2>4. Announced(ClearedTo(q) \o told)
      BY <1>1 DEF SetTyping, told
    <2> QED
      BY <1>0, <1>1, <2>3, <2>4 DEF SetTyping
  <1>2. ASSUME NEW q \in Typists, NEW c \in Pages, SendMessage(q, c) PROVE Sent
    <2> DEFINE told == IF attends THEN << [ sig |-> "message", of |-> << c, named[q] >> ] >> ELSE << >>
    <2>1. [ sig |-> "message", of |-> << c, named[q] >> ] \in Signals /\ ClearedIn(q) \in Seq(Signals)
      BY SignalsSent
    <2>2. told \in Seq(Signals)
      BY <2>1, Told
    <2> HIDE DEF told
    <2>3. ClearedIn(q) \o told \in Seq(Signals)
      BY <2>1, <2>2
    <2>4. Announced(ClearedIn(q) \o told)
      BY <1>2 DEF SendMessage, told
    <2> QED
      BY <1>0, <1>2, <2>3, <2>4 DEF SendMessage
  <1>3. ASSUME NEW q \in Typists, SetDirectTyping(q) PROVE Sent
    <2> DEFINE told == IF typingTo[q] THEN << >> ELSE << To(q, TRUE) >>
    <2>1. To(q, TRUE) \in Signals /\ ClearedIn(q) \in Seq(Signals)
      BY SignalsSent
    <2>2. told \in Seq(Signals)
      BY <2>1, Told
    <2> HIDE DEF told
    <2>3. ClearedIn(q) \o told \in Seq(Signals)
      BY <2>1, <2>2
    <2>4. Announced(ClearedIn(q) \o told)
      BY <1>3 DEF SetDirectTyping, told
    <2> QED
      BY <1>0, <1>3, <2>3, <2>4 DEF SetDirectTyping
  <1>4. ASSUME NEW q \in Typists, NEW leaves \in BOOLEAN, StopTyping(q, leaves) PROVE Sent
    <2>1. ClearedIn(q) \in Seq(Signals) /\ ClearedTo(q) \in Seq(Signals)
      BY SignalsSent
    <2>2. ClearedIn(q) \o ClearedTo(q) \in Seq(Signals)
      BY <2>1
    <2> QED
      BY <1>0, <1>4, <2>2 DEF StopTyping
  <1>5. ASSUME NEW q \in Typists, RemoveTypist(q) \/ ReturnTypist(q) \/ \E n \in Pens : Rename(q, n) PROVE Sent
    BY <1>5 DEF RemoveTypist, ReturnTypist, Rename
  <1>6. ASSUME NEW c \in Pages, DeletePage(c) PROVE Sent
    <2>1. [ sig |-> "gone", of |-> c ] \in Signals
      BY DEF Signals
    <2>2. (IF attends THEN << [ sig |-> "gone", of |-> c ] >> ELSE << >>) \in Seq(Signals)
      BY <2>1, Told
    <2> QED
      BY <1>0, <1>6, <2>2 DEF DeletePage, typingServer
  <1>7. ASSUME Attend PROVE Sent
    <2>1. [ sig |-> "joined" ] \in Signals
      BY DEF Signals
    <2>2. << [ sig |-> "joined" ] >> \in Seq(Signals)
      BY <2>1
    <2> QED
      BY <1>0, <1>7, <2>2 DEF Attend
  <1> QED
    BY <1>1, <1>2, <1>3, <1>4, <1>5, <1>6, <1>7 DEF ServerStroke

LEMMA TimedStep == TimedInv /\ [TypingNext]_typingVars => TimedInv'
  <1> SUFFICES ASSUME TimedInv, [TypingNext]_typingVars PROVE TimedInv'
    OBVIOUS
  <1> USE DEF TimedInv
  <1>0. TypingLimit \in Nat /\ TypingLimit >= 1
    BY TypingAssumption DEF TypingAssumption
  <1>1. CASE ServerStroke
    <2>1. UNCHANGED typingClient
      BY <1>1 DEF ServerStroke
    <2> QED
      BY <1>1, <2>1, ServerSends DEF typingClient, TypistsTimed
  <1>2. CASE Unattend
    BY <1>2, NoTicksTyped DEF Unattend, TypistsTimed
  <1>3. CASE TypingReceive
    <2> DEFINE e == Head(wire)
    <2>1. wire # << >> /\ wire' = Tail(wire) /\ UNCHANGED << typingServer, strokes >>
      BY <1>3 DEF TypingReceive
    <2>2. e \in Signals /\ wire' \in Seq(Signals)
      BY <2>1
    <2>3. UNCHANGED << typingIn, named >>
      BY <2>1 DEF typingServer
    <2>4. e.sig = "typing" => e.of \in Spots
      BY <2>2 DEF Signals
    <2> HIDE DEF e
    <2>5. ASSUME e.sig = "typing", TypingIn(e.of, e.on) PROVE TimedInv'
      <3>1. tTicks' \in [ Spots -> -1 .. TypingLimit - 1 ] /\ tUsers' \subseteq Spots
        BY <1>0, <2>4, <2>5 DEF TypingIn
      <3>2. TypistsTimed'
        <4>1. CASE ~listed
          BY <4>1, <2>5 DEF TypingIn, TypistsTimed
        <4>2. CASE listed /\ e.on
          BY <4>2, <1>0, <2>4, <2>5 DEF TypingIn, TypistsTimed
        <4>3. CASE listed /\ ~e.on
          BY <4>3, <1>0, <2>4, <2>5 DEF TypingIn, TypistsTimed
        <4> QED
          BY <4>1, <4>2, <4>3
      <3> QED
        BY <2>2, <2>3, <3>1, <3>2
    <2>6. ASSUME DirectTypingIn(e.of, e.on) \/ MessageStops(e.of) \/ PageGone(e.of) PROVE TimedInv'
      BY <2>2, <2>3, <2>6 DEF DirectTypingIn, MessageStops, PageGone, TypistsTimed
    <2>7. ASSUME Joined PROVE TimedInv'
      BY <2>2, <2>3, <2>7, NoTicksTyped DEF Joined, JoinedKeeping, TypistsTimed
    <2> QED
      BY <1>3, <2>5, <2>6, <2>7 DEF TypingReceive, e
  <1>4. CASE ExpireStaleTyping
    <2>1. /\ tTicks' = [ k \in Spots |-> Aged(tTicks[k]) ] /\ tUsers' = { k \in tUsers : ~TooOld(tTicks[k]) }
          /\ UNCHANGED << typingIn, named, wire, listed >>
      BY <1>4 DEF ExpireStaleTyping, typingServer, Spots
    <2>2. ASSUME NEW k \in Spots
          PROVE  Aged(tTicks[k]) \in -1 .. TypingLimit - 1 /\ (tTicks[k] # -1 /\ ~TooOld(tTicks[k]) => Aged(tTicks[k]) >= 0)
      BY <1>0 DEF Aged, TooOld
    <2>3. tTicks' \in [ Spots -> -1 .. TypingLimit - 1 ] /\ tUsers' \subseteq Spots
      BY <2>1, <2>2
    <2>4. \A k \in tUsers' : tTicks'[k] \in 0 .. TypingLimit - 1
      BY <1>0, <2>1, <2>2 DEF TypistsTimed
    <2> QED
      BY <2>1, <2>3, <2>4 DEF TypistsTimed
  <1>5. CASE UNCHANGED typingVars
    BY <1>5 DEF typingVars, typingServer, typingClient, TypistsTimed
  <1> QED
    BY <1>1, <1>2, <1>3, <1>4, <1>5 DEF TypingNext

(* TypistsTimed: every name shown in a channel has an age below the limit, *)
(* so that the check drops it, and nobody is shown typing outside of the   *)
(* space (handle_typing_state, expire_stale_typing).                       *)
THEOREM TypistsAreTimed == TypingSpec => []TypistsTimed
  <1>1. TimedInv => TypistsTimed
    BY DEF TimedInv
  <1> QED
    BY <1>1, TimedAtFirst, TimedStep, PTL DEF TypingSpec

-----------------------------------------------------------------------------
(* Who is in the call.  A guest in the room with the client is about to    *)
(* tell that it has joined, or is on the list or in the mail that the      *)
(* client has or is about to get; there with the mute it has, or about to  *)
(* correct it.  That is kept by every step of every handler (RoomInv).     *)

Rooms == Lobbies \cup Halls
Ends == { "left", "gone" } \cup Halls
Entries == [ Everybody -> Seq(BOOLEAN) ]
Lists == { "RoomCreated", "RoomJoined", "ChannelJoined" }
Sayings ==
    [ sig : Lists, of : Rooms, who : Entries ]
        \cup [ sig : { "PeerJoined", "PeerMuteChanged" }, of : [ id : Everybody, muted : BOOLEAN ] ]
        \cup [ sig : { "PeerLeft" }, of : Everybody ] \cup [ sig : { "ChannelLeft" } ]
Steps ==
    [ at : { "rest" } ] \cup [ at : { "enter" }, of : Rooms ] \cup [ at : { "mute" }, of : Rooms ]
        \cup [ at : { "remove" }, of : Rooms, k : Nat, then : Ends ]
        \cup [ at : { "tell" }, k : Nat, sig : Sayings, then : Ends \cup { "stay" } ]

RoomTypes ==
    /\ codeOf \in [ Everybody -> Rooms \cup { Nobody } ]
    /\ members \in [ Rooms -> [ Everybody -> Nat ] ]
    /\ opened \in SUBSET Lobbies
    /\ muteOf \in [ Everybody -> BOOLEAN ]
    /\ doing \in [ Everybody -> Steps ]
    /\ inbox \in Seq(Sayings)
    /\ call \in [ code : Rooms \cup { Nobody }, who : Entries, inHall : BOOLEAN,
                  active : Rooms \cup { Nobody } ]
    /\ late \in SUBSET Guests

(* What a handler is about to do, and what the room knows of it. *)
StepTrue(p) ==
    /\ doing[p].at = "enter" => doing[p].of \in opened \cup Halls
    /\ doing[p].at = "mute" => doing[p].of = codeOf[p] /\ p # Self
    /\ doing[p].at = "remove" => doing[p].of = codeOf[p] /\ (p = Self => doing[p].k = 0)
    /\ doing[p].at = "tell" =>
         \/ /\ doing[p].then = "stay" /\ p # Self
            /\ doing[p].sig.sig \in { "PeerJoined", "PeerMuteChanged" } /\ doing[p].sig.of = Info(p)
         \/ /\ doing[p].then = "stay" /\ p = Self
            /\ doing[p].sig.sig \in { "RoomCreated", "ChannelJoined" } /\ doing[p].k = 1
         \/ /\ doing[p].then \in Ends /\ doing[p].sig = [ sig |-> "PeerLeft", of |-> p ]
            /\ codeOf[p] \in Rooms /\ members[codeOf[p]][p] = 0 /\ (p = Self => doing[p].k = 0)

Departing(p) == doing[p].at = "tell" /\ doing[p].then \in Ends

(* A lobby that is left by its last member is not entered again. *)
LobbiesOpened ==
    /\ \A r \in Lobbies : members[r] # NobodyListed => r \in opened
    /\ \A p \in Everybody : codeOf[p] \in Lobbies => codeOf[p] \in opened
    /\ codeOf[Self] \in Rooms /\ ~Departing(Self) =>
         \/ members[codeOf[Self]][Self] > 0
         \/ codeOf[Self] \in Lobbies /\ members[codeOf[Self]] = NobodyListed

Together(p) ==
    /\ codeOf[p] = codeOf[Self] /\ codeOf[p] \in Rooms
    /\ members[codeOf[p]][p] > 0 /\ members[codeOf[p]][Self] > 0

Shows(entries, muted) == \E i \in DOMAIN entries : entries[i] = muted

(* What a message does to the entries of p. *)
Takes(m, p) == (m.sig = "PeerLeft" /\ m.of = p) \/ (m.sig \in Lists /\ m.who[p] = << >>)
Gives(m, p) == (m.sig = "PeerJoined" /\ m.of.id = p) \/ (m.sig \in Lists /\ m.who[p] # << >>)
Spoils(m, p) ==
    \/ m.sig = "PeerLeft" /\ m.of = p
    \/ m.sig = "PeerMuteChanged" /\ m.of.id = p /\ m.of # Info(p)
    \/ m.sig \in Lists /\ ~Shows(m.who[p], muteOf[p])
Tells(m, p) ==
    \/ m.sig = "PeerJoined" /\ m.of = Info(p)
    \/ m.sig \in Lists /\ Shows(m.who[p], muteOf[p])
Corrects(m, p) == m.sig = "PeerMuteChanged" /\ m.of = Info(p)

(* The client shows another room, or p with the entries. *)
ShowsEntry(p) == call.code = codeOf[Self] => call.who[p] # << >>
ShowsInfo(p) == call.code = codeOf[Self] => Shows(call.who[p], muteOf[p])

(* p has an entry by the time the first n messages are in. *)
EntryAfter(p, n) ==
    \/ ShowsEntry(p) /\ \A j \in 1 .. n : ~Takes(inbox[j], p)
    \/ \E i \in 1 .. n : Gives(inbox[i], p) /\ \A j \in i + 1 .. n : ~Takes(inbox[j], p)

InfoInMail(p) ==
    \/ ShowsInfo(p) /\ \A j \in 1 .. Len(inbox) : ~Spoils(inbox[j], p)
    \/ \E i \in 1 .. Len(inbox) :
         /\ Tells(inbox[i], p) \/ (Corrects(inbox[i], p) /\ EntryAfter(p, i - 1))
         /\ \A j \in i + 1 .. Len(inbox) : ~Spoils(inbox[j], p)

HasEntry(p) == IF ListPending THEN doing[Self].sig.who[p] # << >> ELSE EntryAfter(p, Len(inbox))
HasInfo(p) == IF ListPending THEN Shows(doing[Self].sig.who[p], muteOf[p]) ELSE InfoInMail(p)

Announcing(p) == doing[p].at = "tell" /\ doing[p].sig.sig = "PeerJoined" /\ doing[p].k > 0
Correcting(p) ==
    \/ doing[p].at = "mute"
    \/ doing[p].at = "tell" /\ doing[p].sig.sig = "PeerMuteChanged" /\ doing[p].k > 0

Known(p) == Together(p) => Announcing(p) \/ (Correcting(p) /\ HasEntry(p)) \/ HasInfo(p)
GuestsKnown == \A p \in Guests \ late : Known(p)

RoomInv ==
    /\ RoomTypes
    /\ \A p \in Everybody : StepTrue(p)
    /\ LobbiesOpened
    /\ GuestsKnown

(* A step of p leaves the others where they are. *)
AloneIn(p) ==
    /\ opened \subseteq opened'
    /\ \A q \in Everybody \ { p } :
         /\ doing'[q] = doing[q] /\ codeOf'[q] = codeOf[q] /\ muteOf'[q] = muteOf[q]
         /\ \A r \in Rooms : members'[r][q] = members[r][q]
    /\ \A r \in Lobbies :
         /\ members'[r] # NobodyListed => r \in opened'
         /\ r \in opened /\ members[r] = NobodyListed => members'[r] = NobodyListed

(* What p must see to. *)
InOrderIn(p) ==
    /\ StepTrue(p)'
    /\ codeOf'[p] \in Lobbies => codeOf'[p] \in opened'
    /\ p = Self /\ codeOf'[p] \in Rooms /\ ~Departing(p)' =>
         \/ members'[codeOf'[p]][p] > 0
         \/ codeOf'[p] \in Lobbies /\ members'[codeOf'[p]] = NobodyListed

LEMMA OthersToo == Self \in Everybody /\ Guests \subseteq Everybody /\ Self \notin Guests
  BY RoomAssumption DEF Everybody

(* The mail of the client, and what it shows, as long as they are the same. *)
LEMMA SameMarks ==
  ASSUME NEW p, NEW m, muteOf'[p] = muteOf[p]
  PROVE  /\ Spoils(m, p)' = Spoils(m, p) /\ Tells(m, p)' = Tells(m, p)
         /\ Corrects(m, p)' = Corrects(m, p) /\ Takes(m, p)' = Takes(m, p) /\ Gives(m, p)' = Gives(m, p)
  BY DEF Spoils, Tells, Corrects, Takes, Gives, Shows, Info

LEMMA SameEntry ==
  ASSUME NEW p, UNCHANGED << inbox, call >>, codeOf'[Self] = codeOf[Self],
         ListPending' = ListPending, ListPending => doing'[Self].sig = doing[Self].sig,
         HasEntry(p)
  PROVE  HasEntry(p)'
  <1>1. EntryAfter(p, Len(inbox))' = EntryAfter(p, Len(inbox))
    BY DEF EntryAfter, ShowsEntry, Takes, Gives
  <1> QED
    BY <1>1 DEF HasEntry

LEMMA SameInfo ==
  ASSUME NEW p, UNCHANGED << inbox, call >>, codeOf'[Self] = codeOf[Self], muteOf'[p] = muteOf[p],
         ListPending' = ListPending, ListPending => doing'[Self].sig = doing[Self].sig,
         HasInfo(p)
  PROVE  HasInfo(p)'
  <1>1. \A n : EntryAfter(p, n)' = EntryAfter(p, n)
    BY DEF EntryAfter, ShowsEntry, Takes, Gives
  <1>2. \A m : Spoils(m, p)' = Spoils(m, p) /\ Tells(m, p)' = Tells(m, p) /\ Corrects(m, p)' = Corrects(m, p)
    BY SameMarks
  <1>3. InfoInMail(p)' = InfoInMail(p)
    <2>1. ShowsInfo(p)' = ShowsInfo(p)
      BY DEF ShowsInfo, Shows
    <2> QED
      BY <1>1, <1>2, <2>1 DEF InfoInMail
  <1>4. Shows(doing[Self].sig.who[p], muteOf[p])' <=> Shows(doing'[Self].sig.who[p], muteOf[p])
    BY DEF Shows
  <1> QED
    BY <1>3, <1>4 DEF HasInfo

LEMMA TakingSpoils ==
  ASSUME NEW p, NEW m
  PROVE  /\ Takes(m, p) => Spoils(m, p)
         /\ Tells(m, p) => Gives(m, p)
         /\ Corrects(m, p) => ~Takes(m, p)
  BY DEF Takes, Spoils, Tells, Gives, Corrects, Shows, Lists, Info

(* Whoever is shown with the right mute is shown. *)
LEMMA InfoIsEntry ==
  ASSUME NEW p, inbox \in Seq(Sayings), HasInfo(p)
  PROVE  HasEntry(p)
  <1>1. CASE ListPending
    BY <1>1 DEF HasInfo, HasEntry, Shows
  <1>2. CASE ~ListPending
    <2> DEFINE n == Len(inbox)
    <2>0. n \in Nat
      OBVIOUS
    <2> SUFFICES EntryAfter(p, n)
      BY <1>2 DEF HasEntry
    <2>1. InfoInMail(p)
      BY <1>2 DEF HasInfo
    <2>2. CASE ShowsInfo(p) /\ \A j \in 1 .. n : ~Spoils(inbox[j], p)
      <3>1. ShowsEntry(p)
        BY <2>2 DEF ShowsInfo, ShowsEntry, Shows
      <3> QED
        BY <2>2, <3>1, TakingSpoils DEF EntryAfter
    <2>3. CASE \E i \in 1 .. n : /\ Tells(inbox[i], p) \/ (Corrects(inbox[i], p) /\ EntryAfter(p, i - 1))
                                 /\ \A j \in i + 1 .. n : ~Spoils(inbox[j], p)
      <3>1. PICK i \in 1 .. n : /\ Tells(inbox[i], p) \/ (Corrects(inbox[i], p) /\ EntryAfter(p, i - 1))
                                /\ \A j \in i + 1 .. n : ~Spoils(inbox[j], p)
        BY <2>3
      <3>2. \A j \in i + 1 .. n : ~Takes(inbox[j], p)
        BY <3>1, TakingSpoils
      <3>3. CASE Tells(inbox[i], p)
        BY <3>2, <3>3, TakingSpoils DEF EntryAfter
      <3>4. CASE Corrects(inbox[i], p) /\ EntryAfter(p, i - 1)
        <4>1. ~Takes(inbox[i], p)
          BY <3>4, TakingSpoils
        <4>2. \A j \in i .. n : ~Takes(inbox[j], p)
          BY <4>1, <3>2, <2>0
        <4>3. CASE ShowsEntry(p) /\ \A j \in 1 .. i - 1 : ~Takes(inbox[j], p)
          <5>1. \A j \in 1 .. n : ~Takes(inbox[j], p)
            BY <4>2, <4>3, <2>0
          <5> QED
            BY <4>3, <5>1 DEF EntryAfter
        <4>4. CASE \E k \in 1 .. i - 1 : Gives(inbox[k], p) /\ \A j \in k + 1 .. i - 1 : ~Takes(inbox[j], p)
          <5>1. PICK k \in 1 .. i - 1 : Gives(inbox[k], p) /\ \A j \in k + 1 .. i - 1 : ~Takes(inbox[j], p)
            BY <4>4
          <5>2. k \in 1 .. n /\ \A j \in k + 1 .. n : ~Takes(inbox[j], p)
            BY <5>1, <4>2, <2>0
          <5> QED
            BY <5>1, <5>2 DEF EntryAfter
        <4> QED
          BY <3>4, <4>3, <4>4 DEF EntryAfter
      <3> QED
        BY <3>1, <3>3, <3>4
    <2> QED
      BY <2>1, <2>2, <2>3 DEF InfoInMail
  <1> QED
    BY <1>1, <1>2

(* Messages are added to the mail. *)
LEMMA EntryPosted ==
  ASSUME NEW p, NEW t \in Seq(Sayings), inbox \in Seq(Sayings), inbox' = inbox \o t,
         UNCHANGED call, codeOf'[Self] = codeOf[Self]
  PROVE  /\ \A n \in 0 .. Len(inbox) : EntryAfter(p, n) => EntryAfter(p, n)'
         /\ EntryAfter(p, Len(inbox)) /\ (\A i \in 1 .. Len(t) : ~Takes(t[i], p))
              => EntryAfter(p, Len(inbox))'
         /\ (\E i \in 1 .. Len(t) : Gives(t[i], p)) /\ (\A i \in 1 .. Len(t) : ~Takes(t[i], p))
              => EntryAfter(p, Len(inbox))'
  <1> DEFINE n == Len(inbox)
  <1>1. /\ Len(inbox') = n + Len(t) /\ n \in Nat /\ Len(t) \in Nat
        /\ \A i \in 1 .. n : inbox'[i] = inbox[i]
        /\ \A i \in 1 .. Len(t) : inbox'[n + i] = t[i]
        /\ \A i \in n + 1 .. n + Len(t) : inbox'[i] = t[i - n] /\ i - n \in 1 .. Len(t)
    OBVIOUS
  <1>2. \A m : Takes(m, p)' = Takes(m, p) /\ Gives(m, p)' = Gives(m, p)
    BY DEF Takes, Gives
  <1>3. ShowsEntry(p)' = ShowsEntry(p)
    BY DEF ShowsEntry
  <1>4. \A k \in 0 .. n : EntryAfter(p, k) => EntryAfter(p, k)'
    BY <1>1, <1>2, <1>3 DEF EntryAfter
  <1>5. ASSUME EntryAfter(p, n), \A i \in 1 .. Len(t) : ~Takes(t[i], p)
        PROVE  EntryAfter(p, Len(inbox))'
    <2>1. \A j \in n + 1 .. n + Len(t) : ~Takes(inbox'[j], p)
      BY <1>1, <1>5
    <2>2. CASE ShowsEntry(p) /\ \A j \in 1 .. n : ~Takes(inbox[j], p)
      <3>1. \A j \in 1 .. n + Len(t) : ~Takes(inbox'[j], p)
        BY <1>1, <2>1, <2>2
      <3> QED
        BY <1>1, <1>2, <1>3, <2>2, <3>1 DEF EntryAfter
    <2>3. CASE \E i \in 1 .. n : Gives(inbox[i], p) /\ \A j \in i + 1 .. n : ~Takes(inbox[j], p)
      <3>1. PICK i \in 1 .. n : Gives(inbox[i], p) /\ \A j \in i + 1 .. n : ~Takes(inbox[j], p)
        BY <2>3
      <3>2. \A j \in i + 1 .. n + Len(t) : ~Takes(inbox'[j], p)
        BY <1>1, <2>1, <3>1
      <3>3. i \in 1 .. n + Len(t) /\ Gives(inbox'[i], p)
        BY <1>1, <3>1
      <3> QED
        BY <1>1, <1>2, <3>2, <3>3 DEF EntryAfter
    <2> QED
      BY <1>5, <2>2, <2>3 DEF EntryAfter
  <1>6. ASSUME NEW i \in 1 .. Len(t), Gives(t[i], p), \A j \in 1 .. Len(t) : ~Takes(t[j], p)
        PROVE  EntryAfter(p, Len(inbox))'
    <2>1. \A j \in n + i + 1 .. n + Len(t) : ~Takes(inbox'[j], p)
      BY <1>1, <1>6
    <2>2. n + i \in 1 .. n + Len(t) /\ Gives(inbox'[n + i], p)
      BY <1>1, <1>6
    <2> QED
      BY <1>1, <1>2, <2>1, <2>2 DEF EntryAfter
  <1> QED
    BY <1>4, <1>5, <1>6

LEMMA InfoPosted ==
  ASSUME NEW p, NEW t \in Seq(Sayings), inbox \in Seq(Sayings), inbox' = inbox \o t,
         UNCHANGED call, codeOf'[Self] = codeOf[Self], muteOf'[p] = muteOf[p],
         \A i \in 1 .. Len(t) : ~Spoils(t[i], p)
  PROVE  /\ InfoInMail(p) => InfoInMail(p)'
         /\ (\E i \in 1 .. Len(t) : Tells(t[i], p)) => InfoInMail(p)'
         /\ Len(t) > 0 /\ Corrects(t[1], p) /\ EntryAfter(p, Len(inbox)) => InfoInMail(p)'
  <1>0. PICK n \in Nat : n = Len(inbox)
    OBVIOUS
  <1>1. /\ Len(inbox') = n + Len(t) /\ n \in Nat /\ Len(t) \in Nat
        /\ \A i \in 1 .. n : inbox'[i] = inbox[i]
        /\ \A i \in 1 .. Len(t) : inbox'[n + i] = t[i]
        /\ \A i \in n + 1 .. n + Len(t) : inbox'[i] = t[i - n] /\ i - n \in 1 .. Len(t)
    BY <1>0
  <1>2. \A m : Spoils(m, p)' = Spoils(m, p) /\ Tells(m, p)' = Tells(m, p) /\ Corrects(m, p)' = Corrects(m, p)
    BY SameMarks
  <1>3. ShowsInfo(p)' = ShowsInfo(p)
    BY DEF ShowsInfo, Shows
  <1>4. \A k \in 0 .. n : EntryAfter(p, k) => EntryAfter(p, k)'
    BY <1>0, EntryPosted
  <1>5. \A j \in n + 1 .. n + Len(t) : ~Spoils(inbox'[j], p)
    BY <1>1
  <1>6. ASSUME InfoInMail(p)
        PROVE  InfoInMail(p)'
    <2>1. CASE ShowsInfo(p) /\ \A j \in 1 .. n : ~Spoils(inbox[j], p)
      <3>1. \A j \in 1 .. n + Len(t) : ~Spoils(inbox'[j], p)
        BY <1>1, <1>5, <2>1
      <3> QED
        BY <1>1, <1>2, <1>3, <2>1, <3>1 DEF InfoInMail
    <2>2. CASE \E i \in 1 .. n : /\ Tells(inbox[i], p) \/ (Corrects(inbox[i], p) /\ EntryAfter(p, i - 1))
                                 /\ \A j \in i + 1 .. n : ~Spoils(inbox[j], p)
      <3>1. PICK i \in 1 .. n : /\ Tells(inbox[i], p) \/ (Corrects(inbox[i], p) /\ EntryAfter(p, i - 1))
                                /\ \A j \in i + 1 .. n : ~Spoils(inbox[j], p)
        BY <2>2
      <3>2. \A j \in i + 1 .. n + Len(t) : ~Spoils(inbox'[j], p)
        BY <1>1, <1>5, <3>1
      <3>3. i \in 1 .. n + Len(t) /\ inbox'[i] = inbox[i] /\ i - 1 \in 0 .. n
        BY <1>1, <3>1
      <3>4. EntryAfter(p, i - 1) => EntryAfter(p, i - 1)'
        BY <1>4, <3>3
      <3>5. Tells(inbox[i], p)' \/ (Corrects(inbox[i], p)' /\ EntryAfter(p, i - 1)')
        BY <1>2, <3>1, <3>3, <3>4
      <3>6. \A j \in i + 1 .. n + Len(t) : ~Spoils(inbox[j], p)'
        BY <1>2, <3>2
      <3> QED
        BY <1>1, <3>3, <3>5, <3>6 DEF InfoInMail
    <2> QED
      BY <1>0, <1>6, <2>1, <2>2 DEF InfoInMail
  <1>7. ASSUME NEW i \in 1 .. Len(t), Tells(t[i], p)
        PROVE  InfoInMail(p)'
    <2>1. n + i \in 1 .. n + Len(t) /\ inbox'[n + i] = t[i] /\ \A j \in n + i + 1 .. n + Len(t) : ~Spoils(inbox'[j], p)
      BY <1>1, <1>5
    <2> QED
      BY <1>1, <1>2, <1>7, <2>1 DEF InfoInMail
  <1>8. ASSUME Len(t) > 0, Corrects(t[1], p), EntryAfter(p, n)
        PROVE  InfoInMail(p)'
    <2>1. n + 1 \in 1 .. n + Len(t) /\ inbox'[n + 1] = t[1] /\ \A j \in n + 1 + 1 .. n + Len(t) : ~Spoils(inbox'[j], p)
      BY <1>1, <1>5, <1>8
    <2>2. EntryAfter(p, (n + 1) - 1)'
      <3>1. (n + 1) - 1 = n /\ n \in 0 .. n
        BY <1>1
      <3> QED
        BY <3>1, <1>4, <1>8
    <2>3. \A j \in n + 1 + 1 .. n + Len(t) : ~Spoils(inbox[j], p)'
      BY <1>2, <2>1
    <2>4. Corrects(inbox[n + 1], p)'
      BY <1>2, <1>8, <2>1
    <2> QED
      BY <1>1, <2>1, <2>2, <2>3, <2>4 DEF InfoInMail
  <1> QED
    BY <1>0, <1>6, <1>7, <1>8

LEMMA SayingKinds ==
  ASSUME NEW m \in Sayings
  PROVE  /\ m.sig \in Lists => m.of \in Rooms /\ m.who \in Entries
         /\ m.sig \in { "PeerJoined", "PeerMuteChanged" } => m.of \in [ id : Everybody, muted : BOOLEAN ]
         /\ m.sig = "PeerLeft" => m.of \in Everybody
  BY DEF Sayings, Lists

(* An entry more: what was shown is shown, and what the entry says.        *)
LEMMA ShowsAppended ==
  ASSUME NEW old \in Seq(BOOLEAN), NEW muted \in BOOLEAN
  PROVE  /\ Append(old, muted) \in Seq(BOOLEAN) /\ Append(old, muted) # << >>
         /\ Shows(Append(old, muted), muted)
         /\ \A b : Shows(old, b) => Shows(Append(old, muted), b)
  <1>1. PICK new : new = Append(old, muted)
    OBVIOUS
  <1>2. new \in Seq(BOOLEAN) /\ Len(new) = Len(old) + 1 /\ new[Len(old) + 1] = muted
    BY <1>1
  <1>3. Len(old) \in Nat /\ DOMAIN old = 1 .. Len(old) /\ DOMAIN new = 1 .. Len(old) + 1
    BY <1>2
  <1>4. \A i \in 1 .. Len(old) : new[i] = old[i]
    BY <1>1
  <1>5. new # << >>
    BY <1>2, <1>3
  <1>6. Shows(new, muted)
    BY <1>2, <1>3 DEF Shows
  <1>7. \A i \in DOMAIN old : i \in DOMAIN new /\ new[i] = old[i]
    BY <1>3, <1>4
  <1>8. \A b : Shows(old, b) => Shows(new, b)
    BY <1>7 DEF Shows
  <1> QED
    BY <1>1, <1>2, <1>5, <1>6, <1>8

(* What the client does with a message, to the entries of one peer.        *)
LEMMA Received ==
  ASSUME RoomTypes, NEW p \in Everybody, RoomReceive
  PROVE  LET m == Head(inbox)
         IN /\ codeOf[Self] \in Rooms =>
                 /\ Gives(m, p) => call'.who[p] # << >>
                 /\ ~Takes(m, p) /\ ShowsEntry(p) => ShowsEntry(p)'
                 /\ Tells(m, p) => Shows(call'.who[p], muteOf[p])
                 /\ Corrects(m, p) /\ ShowsEntry(p) => ShowsInfo(p)'
                 /\ ~Spoils(m, p) /\ ShowsInfo(p) => ShowsInfo(p)'
            /\ call' \in [ code : Rooms \cup { Nobody }, who : Entries, inHall : BOOLEAN,
                           active : Rooms \cup { Nobody } ]
  <1> DEFINE m == Head(inbox)
             Calls == [ code : Rooms \cup { Nobody }, who : Entries, inHall : BOOLEAN,
                        active : Rooms \cup { Nobody } ]
  <1>0. /\ m \in Sayings /\ call \in Calls /\ muteOf' = muteOf /\ codeOf' = codeOf
        /\ muteOf[p] \in BOOLEAN
        /\ codeOf[Self] \in Rooms => codeOf[Self] # Nobody
    BY RoomAssumption DEF RoomTypes, RoomReceive, roomServer, Rooms
  <1>1. CASE m.sig \in { "RoomCreated", "RoomJoined" } /\ RoomEntered(m)
    <2>1. m.of \in Rooms /\ m.who \in Entries
      BY <1>0, <1>1, SayingKinds DEF Lists
    <2>2. call' \in Calls /\ call'.who = m.who
      BY <1>0, <1>1, <2>1 DEF RoomEntered
    <2> QED
      BY <1>0, <1>1, <2>2 DEF Gives, Takes, Tells, Corrects, Spoils, ShowsEntry, ShowsInfo, Shows, Lists
  <1>2. CASE m.sig = "ChannelJoined" /\ HallEntered(m)
    <2>1. m.of \in Rooms /\ m.who \in Entries
      BY <1>0, <1>2, SayingKinds DEF Lists
    <2>2. call' \in Calls /\ call'.who = m.who
      BY <1>0, <1>2, <2>1 DEF HallEntered, Rooms
    <2> QED
      BY <1>0, <1>2, <2>2 DEF Gives, Takes, Tells, Corrects, Spoils, ShowsEntry, ShowsInfo, Shows, Lists
  <1>3. CASE m.sig = "PeerJoined" /\ PeerArrived(m.of)
    <2>1. m.of \in [ id : Everybody, muted : BOOLEAN ]
      BY <1>0, <1>3, SayingKinds DEF Lists
    <2> DEFINE old == call.who[m.of.id]
    <2>2. old \in Seq(BOOLEAN) /\ m.of.muted \in BOOLEAN
      BY <1>0, <2>1 DEF Entries
    <2>3. /\ Append(old, m.of.muted) \in Seq(BOOLEAN) /\ Append(old, m.of.muted) # << >>
          /\ Shows(Append(old, m.of.muted), m.of.muted)
          /\ \A b : Shows(old, b) => Shows(Append(old, m.of.muted), b)
      BY <2>2, ShowsAppended
    <2>4. /\ call' = [ call EXCEPT !.who = [ call.who EXCEPT ![m.of.id] = Append(old, m.of.muted) ] ]
      BY <1>3 DEF PeerArrived
    <2>5. /\ call' \in Calls /\ call'.code = call.code
          /\ p # m.of.id => call'.who[p] = call.who[p]
          /\ p = m.of.id => call'.who[p] = Append(old, m.of.muted) /\ call.who[p] = old
      BY <1>0, <2>1, <2>3, <2>4 DEF Entries
    <2>6. CASE p # m.of.id
      <3>1. ~Gives(m, p) /\ ~Tells(m, p) /\ ~Corrects(m, p)
        BY <1>3, <2>6 DEF Gives, Tells, Corrects, Lists, Info
      <3> QED
        BY <1>0, <2>5, <2>6, <3>1 DEF ShowsEntry, ShowsInfo, Shows
    <2>7. CASE p = m.of.id
      <3>1. ~Corrects(m, p) /\ (Tells(m, p) => m.of.muted = muteOf[p])
        BY <1>3, <2>7 DEF Corrects, Tells, Lists, Info
      <3>2. call'.who[p] # << >> /\ (ShowsInfo(p) => ShowsInfo(p)') /\ (Tells(m, p) => Shows(call'.who[p], muteOf[p]))
        <4>1. ShowsInfo(p)' <=> (call'.code = codeOf[Self] => Shows(call'.who[p], muteOf[p]))
          BY <1>0 DEF ShowsInfo, Shows
        <4> QED
          BY <2>3, <2>5, <2>7, <3>1, <4>1 DEF ShowsInfo
      <3> QED
        BY <2>5, <3>1, <3>2 DEF ShowsEntry
    <2> QED
      BY <2>6, <2>7
  <1>4. CASE m.sig = "PeerLeft" /\ PeerGone(m.of)
    <2>1. m.of \in Everybody
      BY <1>0, <1>4, SayingKinds DEF Lists
    <2>2. call' = [ call EXCEPT !.who = [ call.who EXCEPT ![m.of] = << >> ] ]
      BY <1>4 DEF PeerGone
    <2>3. call' \in Calls /\ call'.code = call.code /\ (p # m.of => call'.who[p] = call.who[p])
      <3>1. << >> \in Seq(BOOLEAN)
        OBVIOUS
      <3>2. call.who \in [ Everybody -> Seq(BOOLEAN) ]
        BY <1>0 DEF Entries
      <3>3. [ call.who EXCEPT ![m.of] = << >> ] \in [ Everybody -> Seq(BOOLEAN) ]
        BY <2>1, <3>1, <3>2
      <3> QED
        BY <1>0, <2>1, <2>2, <3>2, <3>3 DEF Entries
    <2>4. ~Gives(m, p) /\ ~Tells(m, p) /\ ~Corrects(m, p) /\ (p = m.of => Takes(m, p) /\ Spoils(m, p))
      BY <1>4 DEF Gives, Tells, Corrects, Lists, Takes, Spoils
    <2> QED
      BY <1>0, <2>3, <2>4 DEF ShowsEntry, ShowsInfo, Shows
  <1>5. CASE m.sig = "PeerMuteChanged" /\ PeerMuted(m.of)
    <2>1. m.of \in [ id : Everybody, muted : BOOLEAN ]
      BY <1>0, <1>5, SayingKinds DEF Lists
    <2> DEFINE old == call.who[m.of.id]
    <2>2. old \in Seq(BOOLEAN)
      BY <1>0, <2>1 DEF Entries
    <2>3. ~Gives(m, p) /\ ~Tells(m, p)
      BY <1>5 DEF Gives, Tells, Lists
    <2>4. CASE old = << >>
      <3>1. call' = call
        BY <1>5, <2>4 DEF PeerMuted
      <3>2. Corrects(m, p) /\ ShowsEntry(p) => call.code # codeOf[Self]
        BY <2>4 DEF Corrects, Info, ShowsEntry
      <3> QED
        BY <1>0, <2>3, <3>1, <3>2 DEF ShowsEntry, ShowsInfo, Shows
    <2>5. CASE old # << >>
      <3> DEFINE new == [ old EXCEPT ![1] = m.of.muted ]
      <3>1. call' = [ call EXCEPT !.who = [ call.who EXCEPT ![m.of.id] = new ] ]
        BY <1>5, <2>5 DEF PeerMuted
      <3>2. /\ new \in Seq(BOOLEAN) /\ new # << >> /\ 1 \in DOMAIN new /\ new[1] = m.of.muted
        <4> HIDE DEF old
        <4>1. old \in [ 1 .. Len(old) -> BOOLEAN ] /\ Len(old) \in Nat /\ Len(old) # 0
          BY <2>2, <2>5
        <4>2. new \in [ 1 .. Len(old) -> BOOLEAN ] /\ new[1] = m.of.muted
          BY <2>1, <4>1
        <4>3. new \in Seq(BOOLEAN) /\ Len(new) = Len(old)
          <5> HIDE DEF new
          <5> QED
            BY <4>1, <4>2
        <4> QED
          BY <4>1, <4>2, <4>3
      <3>3. /\ call' \in Calls /\ call'.code = call.code
            /\ p # m.of.id => call'.who[p] = call.who[p]
            /\ p = m.of.id => call'.who[p] = new
        BY <1>0, <2>1, <3>1, <3>2 DEF Entries
      <3>4. CASE p # m.of.id
        <4>1. ~Corrects(m, p)
          BY <3>4 DEF Corrects, Info
        <4> QED
          BY <1>0, <2>3, <3>3, <3>4, <4>1 DEF ShowsEntry, ShowsInfo, Shows
      <3>5. CASE p = m.of.id
        <4>1. ~Spoils(m, p) => m.of = Info(p)
          BY <1>5, <3>5 DEF Spoils
        <4>2. Corrects(m, p) => m.of = Info(p)
          BY DEF Corrects
        <4>3. m.of = Info(p) => Shows(call'.who[p], muteOf[p])
          <5>1. m.of = Info(p) => m.of.muted = muteOf[p]
            BY DEF Info
          <5>2. call'.who[p] = new
            BY <3>3, <3>5
          <5> HIDE DEF new
          <5> QED
            BY <3>2, <5>1, <5>2 DEF Shows
        <4>4. ShowsInfo(p)' <=> (call'.code = codeOf[Self] => Shows(call'.who[p], muteOf[p]))
          <5> HIDE DEF m, new, Calls
          <5> QED
            BY <1>0 DEF ShowsInfo, Shows
        <4>5. ShowsEntry(p)'
          BY <3>2, <3>3, <3>5 DEF ShowsEntry
        <4> QED
          BY <2>3, <3>3, <4>1, <4>2, <4>3, <4>4, <4>5
      <3> QED
        BY <3>4, <3>5
    <2> QED
      BY <2>4, <2>5
  <1>6. CASE m.sig = "ChannelLeft" /\ HallLeft
    <2>1. call' \in Calls /\ (codeOf[Self] \in Rooms /\ call'.code = codeOf'[Self] => call' = call)
      BY <1>0, <1>6 DEF HallLeft, NoCall, NobodyShown, Entries
    <2> QED
      BY <1>0, <1>6, <2>1 DEF Gives, Takes, Tells, Corrects, Spoils, ShowsEntry, ShowsInfo, Shows, Lists
  <1> QED
    BY <1>1, <1>2, <1>3, <1>4, <1>5, <1>6 DEF RoomReceive

(* The client takes the first message of the mail. *)
LEMMA EntryReceived ==
  ASSUME RoomTypes, NEW p \in Everybody, RoomReceive, codeOf[Self] \in Rooms,
         NEW n \in 1 .. Len(inbox), EntryAfter(p, n)
  PROVE  EntryAfter(p, n - 1)'
  <1> DEFINE m == Head(inbox)
  <1>1. /\ Len(inbox') = Len(inbox) - 1 /\ Len(inbox) \in Nat /\ m = inbox[1]
        /\ n \in Nat /\ \A i \in 1 .. n - 1 : inbox'[i] = inbox[i + 1]
    BY DEF RoomTypes, RoomReceive
  <1>2. \A x : Takes(x, p)' = Takes(x, p) /\ Gives(x, p)' = Gives(x, p)
    BY DEF Takes, Gives
  <1>3. /\ Gives(m, p) => ShowsEntry(p)'
        /\ ~Takes(m, p) /\ ShowsEntry(p) => ShowsEntry(p)'
    BY Received DEF ShowsEntry
  <1>4. CASE ShowsEntry(p) /\ \A j \in 1 .. n : ~Takes(inbox[j], p)
    <2>1. \A j \in 1 .. n - 1 : ~Takes(inbox'[j], p)
      BY <1>1, <1>4
    <2> QED
      BY <1>1, <1>2, <1>3, <1>4, <2>1 DEF EntryAfter
  <1>5. CASE \E i \in 1 .. n : Gives(inbox[i], p) /\ \A j \in i + 1 .. n : ~Takes(inbox[j], p)
    <2>1. PICK i \in 1 .. n : Gives(inbox[i], p) /\ \A j \in i + 1 .. n : ~Takes(inbox[j], p)
      BY <1>5
    <2>2. \A j \in i .. n - 1 : ~Takes(inbox'[j], p)
      <3> SUFFICES ASSUME NEW j \in i .. n - 1
                   PROVE  ~Takes(inbox'[j], p)
        OBVIOUS
      <3>1. j \in 1 .. n - 1 /\ j + 1 \in i + 1 .. n
        BY <1>1
      <3> QED
        BY <1>1, <2>1, <3>1
    <2>3. CASE i = 1
      BY <1>1, <1>2, <1>3, <2>1, <2>2, <2>3 DEF EntryAfter
    <2>4. CASE i # 1
      <3>1. i - 1 \in 1 .. n - 1 /\ Gives(inbox'[i - 1], p) /\ (i - 1) + 1 = i
        BY <1>1, <2>1, <2>4
      <3> QED
        BY <1>2, <2>2, <3>1 DEF EntryAfter
    <2> QED
      BY <2>3, <2>4
  <1> QED
    BY <1>4, <1>5 DEF EntryAfter

LEMMA InfoReceived ==
  ASSUME RoomTypes, NEW p \in Everybody, RoomReceive, codeOf[Self] \in Rooms, InfoInMail(p)
  PROVE  InfoInMail(p)'
  <1> DEFINE m == Head(inbox)
  <1>0. PICK n \in Nat : n = Len(inbox)
    BY DEF RoomTypes
  <1>1. /\ Len(inbox') = n - 1 /\ n > 0 /\ m = inbox[1]
        /\ \A i \in 1 .. n - 1 : inbox'[i] = inbox[i + 1]
    BY <1>0 DEF RoomTypes, RoomReceive
  <1>2. \A x : Spoils(x, p)' = Spoils(x, p) /\ Tells(x, p)' = Tells(x, p) /\ Corrects(x, p)' = Corrects(x, p)
    BY SameMarks DEF RoomReceive, roomServer
  <1>3. /\ Tells(m, p) => ShowsInfo(p)'
        /\ ~Spoils(m, p) /\ ShowsInfo(p) => ShowsInfo(p)'
        /\ Corrects(m, p) /\ ShowsEntry(p) => ShowsInfo(p)'
    <2>1. muteOf' = muteOf
      BY DEF RoomReceive, roomServer
    <2>2. Shows(call'.who[p], muteOf[p]) => ShowsInfo(p)'
      BY <2>1 DEF ShowsInfo, Shows
    <2> QED
      BY <2>2, Received
  <1>4. CASE ShowsInfo(p) /\ \A j \in 1 .. n : ~Spoils(inbox[j], p)
    <2>1. \A j \in 1 .. n - 1 : ~Spoils(inbox'[j], p)
      BY <1>1, <1>4
    <2> QED
      BY <1>1, <1>2, <1>3, <1>4, <2>1 DEF InfoInMail
  <1>5. CASE \E i \in 1 .. n : /\ Tells(inbox[i], p) \/ (Corrects(inbox[i], p) /\ EntryAfter(p, i - 1))
                               /\ \A j \in i + 1 .. n : ~Spoils(inbox[j], p)
    <2>1. PICK i \in 1 .. n : /\ Tells(inbox[i], p) \/ (Corrects(inbox[i], p) /\ EntryAfter(p, i - 1))
                              /\ \A j \in i + 1 .. n : ~Spoils(inbox[j], p)
      BY <1>5
    <2>2. \A j \in i .. n - 1 : ~Spoils(inbox'[j], p)
      BY <1>1, <2>1
    <2>3. CASE i = 1
      <3>1. EntryAfter(p, i - 1) => ShowsEntry(p)
        BY <2>3 DEF EntryAfter
      <3> QED
        BY <1>1, <1>2, <1>3, <2>1, <2>2, <2>3, <3>1 DEF InfoInMail
    <2>4. CASE i # 1
      <3>1. i - 1 \in 1 .. n - 1 /\ inbox'[i - 1] = inbox[i] /\ (i - 1) + 1 = i
        BY <1>1, <2>1, <2>4
      <3>2. EntryAfter(p, i - 1) => EntryAfter(p, (i - 1) - 1)'
        BY <1>0, <3>1, EntryReceived
      <3> DEFINE k == i - 1
      <3>3. k \in 1 .. n - 1 /\ inbox'[k] = inbox[i] /\ \A j \in k + 1 .. n - 1 : ~Spoils(inbox'[j], p)
        BY <2>2, <3>1
      <3>4. Tells(inbox[k], p)' \/ (Corrects(inbox[k], p)' /\ EntryAfter(p, k - 1)')
        <4>1. Tells(inbox[k], p)' = Tells(inbox[i], p) /\ Corrects(inbox[k], p)' = Corrects(inbox[i], p)
          BY <1>2, <3>3
        <4> QED
          BY <2>1, <3>2, <4>1
      <3> HIDE DEF k
      <3>5. \A j \in k + 1 .. Len(inbox') : ~Spoils(inbox[j], p)'
        BY <1>1, <1>2, <3>3
      <3>6. k \in 1 .. Len(inbox')
        BY <1>1, <3>3
      <3> QED
        BY <3>4, <3>5, <3>6 DEF InfoInMail
    <2> QED
      BY <2>3, <2>4
  <1> QED
    BY <1>0, <1>4, <1>5 DEF InfoInMail

LEMMA PlacesKept ==
  ASSUME RoomInv, NEW p \in Everybody, AloneIn(p), InOrderIn(p)
  PROVE  (\A q \in Everybody : StepTrue(q)') /\ LobbiesOpened'
  <1>1. ASSUME NEW q \in Everybody, q # p
        PROVE  StepTrue(q)'
    <2>1. /\ doing'[q] = doing[q] /\ codeOf'[q] = codeOf[q] /\ muteOf'[q] = muteOf[q]
          /\ codeOf[q] \in Rooms => members'[codeOf[q]][q] = members[codeOf[q]][q]
          /\ opened \subseteq opened'
      BY <1>1 DEF AloneIn
    <2>2. Info(q)' = Info(q)
      BY <2>1 DEF Info
    <2>3. StepTrue(q)
      BY DEF RoomInv
    <2> QED
      BY <2>1, <2>2, <2>3 DEF StepTrue
  <1>2. ASSUME p # Self, codeOf'[Self] \in Rooms, ~Departing(Self)'
        PROVE  \/ members'[codeOf'[Self]][Self] > 0
               \/ codeOf'[Self] \in Lobbies /\ members'[codeOf'[Self]] = NobodyListed
    <2>1. doing'[Self] = doing[Self] /\ codeOf'[Self] = codeOf[Self]
      BY <1>2, OthersToo DEF AloneIn
    <2>2. /\ codeOf[Self] \in Lobbies => codeOf[Self] \in opened
          /\ \/ members[codeOf[Self]][Self] > 0
             \/ codeOf[Self] \in Lobbies /\ members[codeOf[Self]] = NobodyListed
      BY <1>2, <2>1, OthersToo DEF RoomInv, LobbiesOpened, Departing
    <2> QED
      BY <1>2, <2>1, <2>2, OthersToo DEF AloneIn
  <1>3. \A q \in Everybody : codeOf'[q] \in Lobbies => codeOf'[q] \in opened'
    BY DEF AloneIn, InOrderIn, RoomInv, LobbiesOpened
  <1>4. NobodyListed' = NobodyListed
    BY DEF NobodyListed
  <1>5. LobbiesOpened'
    BY <1>2, <1>3, <1>4 DEF LobbiesOpened, AloneIn, InOrderIn, Departing
  <1> QED
    BY <1>1, <1>5 DEF InOrderIn

(* Somebody else does something, and the mail of the client is as it was. *)
LEMMA OthersKnown ==
  ASSUME NEW p \in Guests, AloneIn(p), UNCHANGED << inbox, call >>, NEW q \in Guests, q # p, Known(q)
  PROVE  Known(q)'
  <1>1. /\ doing'[q] = doing[q] /\ codeOf'[q] = codeOf[q] /\ muteOf'[q] = muteOf[q]
        /\ doing'[Self] = doing[Self] /\ codeOf'[Self] = codeOf[Self]
        /\ \A r \in Rooms : members'[r][q] = members[r][q] /\ members'[r][Self] = members[r][Self]
    BY OthersToo DEF AloneIn
  <1>2. Together(q)' => Together(q)
    BY <1>1 DEF Together
  <1>3. ListPending' = ListPending
    BY <1>1 DEF ListPending
  <1>4. (HasInfo(q) => HasInfo(q)') /\ (HasEntry(q) => HasEntry(q)')
    BY <1>1, <1>3, SameInfo, SameEntry
  <1> QED
    BY <1>1, <1>2, <1>4 DEF Known, Announcing, Correcting

(* A step of a guest about which there was nothing to be said.             *)
LEMMA SelfKnown ==
  ASSUME NEW p \in Guests, AloneIn(p), UNCHANGED << inbox, call >>, Known(p),
         Together(p)' => Together(p),
         Announcing(p) => Announcing(p)', Correcting(p) => Correcting(p)', muteOf'[p] = muteOf[p]
  PROVE  Known(p)'
  <1>1. doing'[Self] = doing[Self] /\ codeOf'[Self] = codeOf[Self]
    BY OthersToo DEF AloneIn
  <1>2. ListPending' = ListPending
    BY <1>1 DEF ListPending
  <1>3. (HasInfo(p) => HasInfo(p)') /\ (HasEntry(p) => HasEntry(p)')
    BY <1>1, <1>2, SameInfo, SameEntry
  <1> QED
    BY <1>3 DEF Known

(* The client's own steps that leave its room and its mail as they were.   *)
LEMMA ClientKnown ==
  ASSUME AloneIn(Self), UNCHANGED << inbox, call, codeOf >>, ~ListPending, ~ListPending', late \subseteq late',
         \A r \in Rooms : members'[r][Self] > 0 => members[r][Self] > 0,
         GuestsKnown
  PROVE  GuestsKnown'
  <1> SUFFICES ASSUME NEW q \in Guests, Known(q)
               PROVE  Known(q)'
    BY DEF GuestsKnown
  <1>1. /\ doing'[q] = doing[q] /\ muteOf'[q] = muteOf[q]
        /\ \A r \in Rooms : members'[r][q] = members[r][q]
    BY OthersToo DEF AloneIn
  <1>2. Together(q)' => Together(q)
    BY <1>1 DEF Together
  <1>0. ListPending' = ListPending
    BY DEF ListPending
  <1>3. (HasInfo(q) => HasInfo(q)') /\ (HasEntry(q) => HasEntry(q)')
    BY <1>0, <1>1, SameInfo, SameEntry
  <1> QED
    BY <1>1, <1>2, <1>3 DEF Known, Announcing, Correcting

(* What each step does to the lists, the codes and the handlers.           *)
LEMMA StepsApart ==
  ASSUME NEW s \in Steps
  PROVE  /\ s.at = "enter" => s.of \in Rooms
         /\ s.at = "mute" => s.of \in Rooms
         /\ s.at = "remove" => s.of \in Rooms /\ s.k \in Nat /\ s.then \in Ends
         /\ s.at = "tell" => s.k \in Nat /\ s.sig \in Sayings /\ s.then \in Ends \cup { "stay" }
         /\ s.at \in { "rest", "enter", "mute", "remove", "tell" }
  BY DEF Steps

LEMMA StepsMade ==
  /\ Rest \in Steps /\ Rest.at = "rest"
  /\ \A r \in Rooms : Entering(r) \in Steps /\ [ at |-> "mute", of |-> r ] \in Steps
  /\ \A r \in Rooms, k \in Nat, then \in Ends : [ at |-> "remove", of |-> r, k |-> k, then |-> then ] \in Steps
  /\ \A k \in Nat, sig \in Sayings, then \in Ends \cup { "stay" } : Sending(k, sig, then) \in Steps
  BY DEF Rest, Entering, Sending, Steps

LEMMA Listed ==
  ASSUME RoomTypes, NEW r \in Rooms
  PROVE  /\ Present(r) \in Entries
         /\ \A p \in Everybody : members[r][p] > 0 => Shows(Present(r)[p], muteOf[p])
         /\ \A p \in Everybody : Copies(r, p) \in Nat /\ Info(p) \in [ id : Everybody, muted : BOOLEAN ]
         /\ NobodyShown \in Entries
  <1>1. /\ members[r] \in [ Everybody -> Nat ] /\ muteOf \in [ Everybody -> BOOLEAN ]
    BY DEF RoomTypes
  <1>2. \A p \in Everybody : [ i \in 1 .. members[r][p] |-> muteOf[p] ] \in Seq(BOOLEAN)
    BY <1>1
  <1>3. Present(r) \in Entries
    BY <1>2 DEF Present, Entries
  <1>4. ASSUME NEW p \in Everybody, members[r][p] > 0
        PROVE  Shows(Present(r)[p], muteOf[p])
    <2>1. 1 \in 1 .. members[r][p] /\ Present(r)[p] = [ i \in 1 .. members[r][p] |-> muteOf[p] ]
      BY <1>1, <1>4 DEF Present
    <2>2. 1 \in DOMAIN Present(r)[p] /\ Present(r)[p][1] = muteOf[p]
      BY <2>1
    <2> QED
      BY <2>2 DEF Shows
  <1>5. NobodyShown \in Entries
    <2>1. << >> \in Seq(BOOLEAN)
      OBVIOUS
    <2> QED
      BY <2>1 DEF NobodyShown, Entries
  <1> QED
    BY <1>1, <1>3, <1>4, <1>5, OthersToo DEF Copies, Info

LEMMA SayingsMade ==
  /\ \A l \in Lists, r \in Rooms, who \in Entries : [ sig |-> l, of |-> r, who |-> who ] \in Sayings
  /\ \A k \in { "PeerJoined", "PeerMuteChanged" }, i \in [ id : Everybody, muted : BOOLEAN ] :
       [ sig |-> k, of |-> i ] \in Sayings
  /\ \A p \in Everybody : [ sig |-> "PeerLeft", of |-> p ] \in Sayings
  /\ [ sig |-> "ChannelLeft" ] \in Sayings
  BY DEF Sayings

LEMMA Moved ==
  ASSUME RoomTypes, NEW p \in Everybody, NEW s \in Steps, Becomes(p, s)
  PROVE  /\ doing' \in [ Everybody -> Steps ] /\ doing'[p] = s
         /\ \A q \in Everybody \ { p } : doing'[q] = doing[q]
  BY DEF RoomTypes, Becomes

LEMMA OpenLobbyActs ==
  ASSUME RoomInv, NEW p \in Everybody, NEW r \in Lobbies, OpenLobby(p, r), call' = call
  PROVE  RoomTypes' /\ AloneIn(p) /\ InOrderIn(p) /\ GuestsKnown'
  <1> DEFINE given == [ sig |-> "RoomCreated", of |-> r, who |-> NobodyShown ]
             s == IF p = Self THEN Sending(1, given, "stay") ELSE Rest
             lone == [ NobodyListed EXCEPT ![p] = 1 ]
  <1>0. /\ r \in Rooms /\ r \notin opened /\ members[r] = NobodyListed /\ RoomTypes
        /\ \A q \in Everybody : codeOf[q] # r
    BY DEF RoomInv, LobbiesOpened, OpenLobby, Rooms
  <1>1. given \in Sayings /\ s \in Steps
    BY <1>0, Listed, SayingsMade, StepsMade DEF Lists
  <1>2. doing' \in [ Everybody -> Steps ] /\ doing'[p] = s /\ \A q \in Everybody \ { p } : doing'[q] = doing[q]
    BY <1>0, <1>1, Moved DEF OpenLobby
  <1>3. /\ codeOf' = [ codeOf EXCEPT ![p] = r ] /\ members' = [ members EXCEPT ![r] = lone ]
        /\ opened' = opened \cup { r } /\ UNCHANGED << muteOf, inbox >> /\ late' \in { {}, late }
        /\ p # Self => late' = late
    BY DEF OpenLobby
  <1>4. lone \in [ Everybody -> Nat ] /\ lone[p] = 1 /\ \A q \in Everybody \ { p } : lone[q] = 0
    BY DEF NobodyListed
  <1>5. codeOf'[p] = r /\ members'[r] = lone /\ \A x \in Rooms \ { r } : members'[x] = members[x]
    BY <1>0, <1>3 DEF RoomTypes
  <1>6. RoomTypes'
    BY <1>0, <1>2, <1>3, <1>4 DEF RoomTypes, Rooms
  <1>7. \A q \in Everybody \ { p }, x \in Rooms : members'[x][q] = members[x][q]
    BY <1>0, <1>4, <1>5 DEF NobodyListed
  <1>8. AloneIn(p)
    BY <1>0, <1>2, <1>3, <1>5, <1>7 DEF AloneIn, RoomInv, LobbiesOpened, RoomTypes, Rooms
  <1>9. StepTrue(p)'
    BY <1>2, OthersToo DEF StepTrue, Sending, Rest
  <1>10. InOrderIn(p)
    <2>1. codeOf'[p] \in opened' /\ members'[codeOf'[p]][p] > 0
      <3>1. members'[r][p] = 1
        BY <1>4, <1>5
      <3> QED
        BY <1>3, <1>5, <3>1
    <2> QED
      BY <1>9, <2>1 DEF InOrderIn
  <1>11. CASE p = Self
    <2>1. ASSUME NEW q \in Guests
          PROVE  ~Together(q)'
      <3>1. codeOf'[Self] = r /\ members'[r][q] = 0
        BY <1>4, <1>5, <1>11, OthersToo
      <3> QED
        BY <3>1 DEF Together
    <2> QED
      BY <1>6, <1>8, <1>10, <2>1 DEF GuestsKnown, Known
  <1>12. CASE p # Self
    <2>0. p \in Guests
      BY <1>12 DEF Everybody
    <2>1. ~Together(p)'
      BY <1>4, <1>5, <1>12, OthersToo DEF Together
    <2>2. \A q \in Guests \ late : q # p => Known(q)'
      BY <1>3, <1>8, <2>0, OthersKnown DEF RoomInv, GuestsKnown
    <2> QED
      BY <1>3, <1>6, <1>8, <1>10, <1>12, <2>1, <2>2 DEF GuestsKnown, Known
  <1> QED
    BY <1>11, <1>12

(* A step of p that only moves its handler. *)
LEMMA HandlerActs ==
  ASSUME RoomInv, NEW p \in Everybody, NEW s \in Steps, Becomes(p, s) \/ (UNCHANGED doing /\ s = doing[p]),
         UNCHANGED << codeOf, members, opened, muteOf, inbox, call, late >>, StepTrue(p)',
         p = Self => ~ListPending /\ ~ListPending',
         Departing(p)' <=> Departing(p),
         Announcing(p) => Announcing(p)', Correcting(p) => Correcting(p)'
  PROVE  RoomTypes' /\ AloneIn(p) /\ InOrderIn(p) /\ GuestsKnown'
  <1>0. RoomTypes
    BY DEF RoomInv
  <1>1. doing' \in [ Everybody -> Steps ] /\ \A q \in Everybody \ { p } : doing'[q] = doing[q]
    BY <1>0, Moved DEF RoomTypes
  <1>2. RoomTypes'
    BY <1>0, <1>1 DEF RoomTypes
  <1>3. AloneIn(p)
    BY <1>1 DEF AloneIn, RoomInv, LobbiesOpened
  <1>4. InOrderIn(p)
    BY DEF InOrderIn, RoomInv, LobbiesOpened
  <1>5. CASE p = Self
    <2>1. GuestsKnown'
      BY <1>3, <1>5, ClientKnown DEF RoomInv
    <2> QED
      BY <1>2, <1>3, <1>4, <2>1
  <1>6. CASE p # Self
    <2>0. p \in Guests
      BY <1>6 DEF Everybody
    <2>1. \A q \in Guests \ late : q # p => Known(q)'
      BY <1>3, <2>0, OthersKnown DEF RoomInv, GuestsKnown
    <2>2. p \notin late => Known(p)'
      <3>1. Together(p)' => Together(p)
        BY DEF Together
      <3> QED
        BY <1>3, <2>0, <3>1, SelfKnown DEF RoomInv, GuestsKnown
    <2> QED
      BY <1>2, <1>3, <1>4, <2>1, <2>2 DEF GuestsKnown
  <1> QED
    BY <1>5, <1>6

LEMMA KnockLobbyActs ==
  ASSUME RoomInv, NEW p \in Everybody, NEW r \in Lobbies, KnockLobby(p, r), call' = call
  PROVE  RoomTypes' /\ AloneIn(p) /\ InOrderIn(p) /\ GuestsKnown'
  <1>0. doing[p] = Rest /\ Rest.at = "rest" /\ UNCHANGED << codeOf, members, opened, muteOf, inbox, late >>
    BY DEF KnockLobby, Requested, Rest
  <1>1. /\ ~Departing(p) /\ ~Announcing(p) /\ ~Correcting(p) /\ (p = Self => ~ListPending)
    BY <1>0 DEF Departing, Announcing, Correcting, ListPending
  <1>2. CASE members[r] # NobodyListed /\ Becomes(p, Entering(r))
    <2>1. doing'[p] = Entering(r) /\ Entering(r) \in Steps /\ r \in opened
      BY <1>2, StepsMade, Moved DEF RoomInv, LobbiesOpened, Rooms
    <2>2. doing'[p].at = "enter" /\ doing'[p].of \in opened
      BY <2>1 DEF Entering
    <2>3. StepTrue(p)'
      BY <1>0, <2>2 DEF StepTrue
    <2>4. ~Departing(p)' /\ (p = Self => ~ListPending')
      BY <2>2 DEF Departing, ListPending
    <2> QED
      BY <1>0, <1>1, <1>2, <2>1, <2>3, <2>4, HandlerActs
  <1>3. CASE UNCHANGED doing
    <2>1. StepTrue(p)'
      BY <1>0, <1>3 DEF StepTrue
    <2>2. doing[p] \in Steps /\ (Departing(p)' <=> Departing(p)) /\ (p = Self => ~ListPending')
      BY <1>0, <1>1, <1>3, StepsMade DEF Departing, ListPending
    <2> QED
      BY <1>0, <1>1, <1>3, <2>1, <2>2, HandlerActs
  <1> QED
    BY <1>2, <1>3 DEF KnockLobby

(* The handlers that begin to leave, or to enter a channel. *)
LEMMA LeavesActs ==
  ASSUME RoomInv, NEW p \in Everybody, doing[p] = Rest,
         \/ UNCHANGED doing
         \/ \E h \in Halls : Becomes(p, Entering(h))
         \/ codeOf[p] \in Rooms /\ \E then \in Ends : Becomes(p, Leaving(p, then)),
         UNCHANGED << codeOf, members, opened, muteOf, inbox, late, call >>
  PROVE  RoomTypes' /\ AloneIn(p) /\ InOrderIn(p) /\ GuestsKnown'
  <1>0. Rest.at = "rest"
    BY DEF Rest
  <1>1. /\ ~Departing(p) /\ ~Announcing(p) /\ ~Correcting(p) /\ (p = Self => ~ListPending)
    BY <1>0 DEF Departing, Announcing, Correcting, ListPending
  <1>2. CASE UNCHANGED doing
    <2>1. StepTrue(p)'
      BY <1>0, <1>2 DEF StepTrue
    <2>2. doing[p] \in Steps /\ (Departing(p)' <=> Departing(p)) /\ (p = Self => ~ListPending')
      BY <1>0, <1>1, <1>2, StepsMade DEF Departing, ListPending
    <2> QED
      BY <1>0, <1>1, <1>2, <2>1, <2>2, HandlerActs
  <1>3. ASSUME NEW h \in Halls, Becomes(p, Entering(h))
        PROVE  RoomTypes' /\ AloneIn(p) /\ InOrderIn(p) /\ GuestsKnown'
    <2>1. doing'[p] = Entering(h) /\ Entering(h) \in Steps
      BY <1>3, StepsMade, Moved DEF RoomInv, Rooms
    <2>2. doing'[p].at = "enter" /\ doing'[p].of \in Halls
      BY <2>1 DEF Entering
    <2>3. StepTrue(p)'
      BY <1>0, <2>2 DEF StepTrue
    <2>4. ~Departing(p)' /\ (p = Self => ~ListPending')
      BY <2>2 DEF Departing, ListPending
    <2> QED
      BY <1>0, <1>1, <1>3, <2>1, <2>3, <2>4, HandlerActs
  <1>4. ASSUME codeOf[p] \in Rooms, NEW then \in Ends, Becomes(p, Leaving(p, then))
        PROVE  RoomTypes' /\ AloneIn(p) /\ InOrderIn(p) /\ GuestsKnown'
    <2>0. Copies(codeOf[p], p) \in Nat /\ (p = Self => Copies(codeOf[p], p) = 0)
      BY <1>4, Listed DEF RoomInv, Copies
    <2>1. doing'[p] = Leaving(p, then) /\ Leaving(p, then) \in Steps
      BY <1>4, <2>0, StepsMade, Moved DEF RoomInv, Leaving
    <2>2. /\ doing'[p].at = "remove" /\ doing'[p].of = codeOf'[p] /\ (p = Self => doing'[p].k = 0)
      BY <2>0, <2>1 DEF Leaving
    <2>3. StepTrue(p)'
      BY <1>0, <2>2 DEF StepTrue
    <2>4. ~Departing(p)' /\ (p = Self => ~ListPending')
      BY <2>2 DEF Departing, ListPending
    <2> QED
      BY <1>0, <1>1, <1>4, <2>1, <2>3, <2>4, HandlerActs
  <1> QED
    BY <1>2, <1>3, <1>4

LEMMA KnockHallActs ==
  ASSUME RoomInv, NEW p \in Everybody, NEW h \in Halls, KnockHall(p, h), call' = call
  PROVE  RoomTypes' /\ AloneIn(p) /\ InOrderIn(p) /\ GuestsKnown'
  <1>1. doing[p] = Rest /\ UNCHANGED << codeOf, members, opened, muteOf, inbox, late >>
    BY DEF KnockHall, Requested
  <1>2. \/ UNCHANGED doing
        \/ codeOf[p] \in Halls /\ Becomes(p, Leaving(p, h))
        \/ Becomes(p, Entering(h))
    BY DEF KnockHall
  <1>3. h \in Ends /\ Halls \subseteq Rooms
    BY DEF Ends, Rooms
  <1> QED
    BY <1>1, <1>2, <1>3, LeavesActs

LEMMA LeaveHallActs ==
  ASSUME RoomInv, NEW p \in Everybody, LeaveHall(p), call' = call
  PROVE  RoomTypes' /\ AloneIn(p) /\ InOrderIn(p) /\ GuestsKnown'
  <1>1. doing[p] = Rest /\ UNCHANGED << codeOf, members, opened, muteOf, inbox, late >>
    BY DEF LeaveHall, Requested
  <1>2. UNCHANGED doing \/ (codeOf[p] \in Halls /\ Becomes(p, Leaving(p, "left")))
    BY DEF LeaveHall
  <1>3. "left" \in Ends /\ Halls \subseteq Rooms
    BY DEF Ends, Rooms
  <1> QED
    BY <1>1, <1>2, <1>3, LeavesActs

LEMMA LeaveLobbyActs ==
  ASSUME RoomInv, NEW p \in Everybody, LeaveLobby(p), call' = call
  PROVE  RoomTypes' /\ AloneIn(p) /\ InOrderIn(p) /\ GuestsKnown'
  <1>1. doing[p] = Rest /\ UNCHANGED << codeOf, members, opened, muteOf, inbox, late >>
    BY DEF LeaveLobby, Requested
  <1>2. UNCHANGED doing \/ (codeOf[p] # Nobody /\ Becomes(p, Leaving(p, "gone")))
    BY DEF LeaveLobby
  <1>3. "gone" \in Ends /\ (codeOf[p] # Nobody => codeOf[p] \in Rooms)
    BY DEF Ends, RoomInv, RoomTypes
  <1> QED
    BY <1>1, <1>2, <1>3, LeavesActs

(* Once it is not listed, a peer is not in the room with the client.       *)
LEMMA RemoveActs ==
  ASSUME RoomInv, NEW p \in Everybody, RemoveFromRoom(p), call' = call
  PROVE  RoomTypes' /\ AloneIn(p) /\ InOrderIn(p) /\ GuestsKnown'
  <1> DEFINE r == codeOf[p]
             s == Sending(doing[p].k, [ sig |-> "PeerLeft", of |-> p ], doing[p].then)
  <1>0. RoomTypes /\ doing[p] \in Steps /\ doing[p].at = "remove"
    BY DEF RoomInv, RoomTypes, RemoveFromRoom
  <1>1. /\ doing[p].of = r /\ r \in Rooms /\ doing[p].k \in Nat /\ doing[p].then \in Ends
        /\ p = Self => doing[p].k = 0
    BY <1>0, StepsApart DEF RoomInv, StepTrue
  <1>2. s \in Steps
    BY <1>1, SayingsMade, StepsMade
  <1>3. doing' \in [ Everybody -> Steps ] /\ doing'[p] = s /\ \A q \in Everybody \ { p } : doing'[q] = doing[q]
    BY <1>0, <1>2, Moved DEF RemoveFromRoom
  <1>4. /\ members' = [ members EXCEPT ![r] = [ members[r] EXCEPT ![p] = 0 ] ]
        /\ UNCHANGED << codeOf, opened, muteOf, inbox, late >>
    BY <1>1 DEF RemoveFromRoom
  <1>5. /\ members' \in [ Rooms -> [ Everybody -> Nat ] ] /\ members'[r][p] = 0
        /\ \A q \in Everybody \ { p }, x \in Rooms : members'[x][q] = members[x][q]
        /\ \A x \in Rooms \ { r } : members'[x] = members[x]
    BY <1>0, <1>1, <1>4 DEF RoomTypes
  <1>6. RoomTypes'
    BY <1>0, <1>3, <1>4, <1>5 DEF RoomTypes
  <1>7. \A x \in Lobbies : members[x] = NobodyListed => members'[x] = NobodyListed
    BY <1>0, <1>1, <1>4 DEF RoomTypes, NobodyListed, Rooms
  <1>8. AloneIn(p)
    BY <1>3, <1>4, <1>5, <1>7 DEF AloneIn, RoomInv, LobbiesOpened
  <1>9. doing'[p].at = "tell" /\ doing'[p].then \in Ends /\ doing'[p].sig = [ sig |-> "PeerLeft", of |-> p ]
        /\ (p = Self => doing'[p].k = 0)
    BY <1>1, <1>3 DEF Sending
  <1>10. StepTrue(p)' /\ Departing(p)'
    BY <1>1, <1>4, <1>5, <1>9 DEF StepTrue, Departing
  <1>11. InOrderIn(p)
    BY <1>4, <1>10 DEF InOrderIn, RoomInv, LobbiesOpened
  <1>12. CASE p = Self
    <2>1. ASSUME NEW q \in Guests
          PROVE  ~Together(q)'
      <3>1. codeOf'[Self] = r /\ members'[r][Self] = 0
        BY <1>4, <1>5, <1>12
      <3> QED
        BY <3>1 DEF Together
    <2> QED
      BY <1>6, <1>8, <1>11, <2>1 DEF GuestsKnown, Known
  <1>13. CASE p # Self
    <2>0. p \in Guests
      BY <1>13 DEF Everybody
    <2>1. ~Together(p)'
      BY <1>4, <1>5 DEF Together
    <2>2. \A q \in Guests \ late : q # p => Known(q)'
      BY <1>4, <1>8, <2>0, OthersKnown DEF RoomInv, GuestsKnown
    <2> QED
      BY <1>4, <1>6, <1>8, <1>11, <2>1, <2>2 DEF GuestsKnown, Known
  <1> QED
    BY <1>12, <1>13

(* Entering a room, before anybody is told. *)
LEMMA JoinActs ==
  ASSUME RoomInv, NEW p \in Everybody, NEW r \in Rooms, r \in opened \cup Halls, Joins(p, r),
         NEW s \in Steps, Becomes(p, s), UNCHANGED << opened, muteOf, call >>
  PROVE  /\ AloneIn(p) /\ doing' \in [ Everybody -> Steps ] /\ doing'[p] = s
         /\ members' \in [ Rooms -> [ Everybody -> Nat ] ]
         /\ codeOf' \in [ Everybody -> Rooms \cup { Nobody } ] /\ codeOf'[p] = r
         /\ members'[r][p] > 0 \/ (r \in Lobbies /\ members'[r] = NobodyListed)
         /\ late' = IF p = Self THEN {} ELSE late
  <1>0. RoomTypes
    BY DEF RoomInv
  <1>1. doing' \in [ Everybody -> Steps ] /\ doing'[p] = s /\ \A q \in Everybody \ { p } : doing'[q] = doing[q]
    BY <1>0, Moved
  <1>2. /\ codeOf' \in [ Everybody -> Rooms \cup { Nobody } ] /\ codeOf'[p] = r
        /\ \A q \in Everybody \ { p } : codeOf'[q] = codeOf[q]
    BY <1>0 DEF Joins, RoomTypes
  <1>3. CASE members[r] = NobodyListed /\ r \in Lobbies
    <2>1. members' = members
      BY <1>3 DEF Joins
    <2>2. AloneIn(p)
      BY <1>1, <1>2, <2>1 DEF AloneIn, RoomInv, LobbiesOpened
    <2> QED
      BY <1>0, <1>1, <1>2, <1>3, <2>1, <2>2 DEF RoomTypes, Joins
  <1>4. CASE ~(members[r] = NobodyListed /\ r \in Lobbies)
    <2>1. members' = [ members EXCEPT ![r] = [ members[r] EXCEPT ![p] = members[r][p] + 1 ] ]
      BY <1>4 DEF Joins
    <2>2. /\ members' \in [ Rooms -> [ Everybody -> Nat ] ] /\ members'[r][p] > 0
          /\ \A q \in Everybody \ { p }, x \in Rooms : members'[x][q] = members[x][q]
          /\ \A x \in Rooms \ { r } : members'[x] = members[x]
      BY <1>0, <2>1 DEF RoomTypes
    <2>3. ASSUME NEW x \in Lobbies
          PROVE  /\ members'[x] # NobodyListed => x \in opened'
                 /\ x \in opened /\ members[x] = NobodyListed => members'[x] = NobodyListed
      <3>1. CASE x = r
        BY <1>0, <1>4, <3>1, RoomAssumption DEF RoomTypes
      <3>2. CASE x # r
        <4>1. members'[x] = members[x]
          BY <2>2, <3>2 DEF Rooms
        <4> QED
          BY <4>1 DEF RoomInv, LobbiesOpened
      <3> QED
        BY <3>1, <3>2
    <2>4. AloneIn(p)
      BY <1>1, <1>2, <2>2, <2>3 DEF AloneIn
    <2> QED
      BY <1>1, <1>2, <2>2, <2>4 DEF Joins
  <1> QED
    BY <1>3, <1>4

(* A guest that enters has the client on its list, if the client is there. *)
LEMMA GuestEnters ==
  ASSUME RoomInv, NEW p \in Everybody, NEW r \in Rooms, r \in opened \cup Halls, Joins(p, r),
         p # Self, NEW sig, Becomes(p, Arrival(p, r, sig)), UNCHANGED << opened, muteOf, call, inbox >>
  PROVE  RoomTypes' /\ AloneIn(p) /\ InOrderIn(p) /\ GuestsKnown'
  <1> DEFINE s == Sending(Copies(r, p), [ sig |-> "PeerJoined", of |-> Info(p) ], "stay")
  <1>0. RoomTypes /\ p \in Guests
    BY DEF RoomInv, Everybody
  <1>1. s \in Steps /\ Copies(r, p) \in Nat
    BY <1>0, Listed, SayingsMade, StepsMade
  <1>2. Becomes(p, s)
    BY DEF Arrival
  <1>3. /\ AloneIn(p) /\ doing' \in [ Everybody -> Steps ] /\ doing'[p] = s
        /\ members' \in [ Rooms -> [ Everybody -> Nat ] ]
        /\ codeOf' \in [ Everybody -> Rooms \cup { Nobody } ] /\ codeOf'[p] = r
        /\ late' = late
    BY <1>1, <1>2, JoinActs
  <1>4. RoomTypes'
    BY <1>0, <1>3 DEF RoomTypes
  <1>5. /\ doing'[p].at = "tell" /\ doing'[p].then = "stay" /\ doing'[p].k = Copies(r, p)
        /\ doing'[p].sig.sig = "PeerJoined" /\ doing'[p].sig.of = Info(p)' /\ "stay" \notin Ends
    BY <1>3, RoomAssumption DEF Sending, Info, Ends
  <1>6. InOrderIn(p)
    <2>1. StepTrue(p)'
      BY <1>5 DEF StepTrue
    <2> QED
      BY <1>3, <2>1, RoomAssumption DEF InOrderIn
  <1>7. \A q \in Guests \ late : q # p => Known(q)'
    BY <1>0, <1>3, OthersKnown DEF RoomInv, GuestsKnown
  <1>8. Together(p)' => Announcing(p)'
    <2>1. members'[r][Self] = members[r][Self]
      BY <1>3, OthersToo DEF AloneIn
    <2>2. Together(p)' => Copies(r, p) > 0
      BY <1>3, <2>1 DEF Together, Copies
    <2> QED
      BY <1>5, <2>2 DEF Announcing
  <1> QED
    BY <1>3, <1>4, <1>6, <1>7, <1>8 DEF GuestsKnown, Known

(* The client that enters is given a list with everybody on it.            *)
LEMMA EnterLobbyActs ==
  ASSUME RoomInv, NEW p \in Everybody, EnterLobby(p), call' = call
  PROVE  RoomTypes' /\ AloneIn(p) /\ InOrderIn(p) /\ GuestsKnown'
  <1> DEFINE r == doing[p].of
             given == [ sig |-> "RoomJoined", of |-> r, who |-> Present(r) ]
  <1>0. /\ RoomTypes /\ doing[p] \in Steps /\ doing[p].at = "enter" /\ r \in Lobbies /\ r \in Rooms
        /\ Joins(p, r) /\ UNCHANGED << opened, muteOf >>
    BY DEF RoomInv, RoomTypes, EnterLobby, Rooms
  <1>1. r \in opened
    BY <1>0, RoomAssumption DEF RoomInv, StepTrue
  <1>2. CASE p # Self
    BY <1>0, <1>1, <1>2, GuestEnters DEF EnterLobby
  <1>3. CASE p = Self
    <2>1. Becomes(p, Rest) /\ inbox' = Append(inbox, given)
      BY <1>3 DEF EnterLobby, Arrival, Sending
    <2>2. given \in Sayings /\ Rest \in Steps
      BY <1>0, Listed, SayingsMade, StepsMade DEF Lists
    <2>3. /\ AloneIn(p) /\ doing' \in [ Everybody -> Steps ] /\ doing'[p] = Rest
          /\ members' \in [ Rooms -> [ Everybody -> Nat ] ]
          /\ codeOf' \in [ Everybody -> Rooms \cup { Nobody } ] /\ codeOf'[p] = r
          /\ members'[r][p] > 0 \/ (r \in Lobbies /\ members'[r] = NobodyListed)
          /\ late' = {}
      BY <1>0, <1>1, <1>3, <2>1, <2>2, JoinActs
    <2>4. RoomTypes'
      BY <1>0, <2>1, <2>2, <2>3 DEF RoomTypes
    <2>5. doing'[p].at = "rest"
      BY <2>3 DEF Rest
    <2>6. StepTrue(p)'
      BY <2>5 DEF StepTrue
    <2>7. InOrderIn(p)
      BY <1>0, <1>1, <2>3, <2>6 DEF InOrderIn
    <2>8. ASSUME NEW q \in Guests, Together(q)'
          PROVE  HasInfo(q)'
      <3>1. members'[r][q] = members[r][q] /\ members'[r][q] > 0
        BY <1>0, <1>3, <2>3, <2>8, OthersToo DEF AloneIn, Together
      <3>2. Shows(given.who[q], muteOf[q])
        BY <1>0, <3>1, Listed, OthersToo
      <3>3. ~ListPending'
        BY <1>3, <2>5 DEF ListPending
      <3>4. PICK n \in Nat : n = Len(inbox)
        BY <1>0 DEF RoomTypes
      <3>5. n + 1 \in 1 .. Len(inbox') /\ inbox'[n + 1] = given /\ Len(inbox') = n + 1
        BY <1>0, <2>1, <2>2, <3>4 DEF RoomTypes
      <3>6. Tells(inbox[n + 1], q)'
        BY <1>0, <3>2, <3>5 DEF Tells, Shows, Lists
      <3>7. InfoInMail(q)'
        BY <3>5, <3>6 DEF InfoInMail
      <3> QED
        BY <3>3, <3>7 DEF HasInfo
    <2> QED
      BY <2>3, <2>4, <2>7, <2>8 DEF GuestsKnown, Known
  <1> QED
    BY <1>2, <1>3

LEMMA EnterHallActs ==
  ASSUME RoomInv, NEW p \in Everybody, EnterHall(p), call' = call
  PROVE  RoomTypes' /\ AloneIn(p) /\ InOrderIn(p) /\ GuestsKnown'
  <1> DEFINE r == doing[p].of
             given == [ sig |-> "ChannelJoined", of |-> r, who |-> Present(r) ]
  <1>0. /\ RoomTypes /\ doing[p] \in Steps /\ doing[p].at = "enter" /\ r \in Halls /\ r \in Rooms
        /\ UNCHANGED << opened, muteOf, inbox >>
    BY DEF RoomInv, RoomTypes, EnterHall, Rooms
  <1>1. CASE Becomes(p, Rest) /\ UNCHANGED << codeOf, members, late >>
    <2>1. doing'[p] = Rest /\ Rest \in Steps /\ Rest.at = "rest"
      BY <1>0, <1>1, Moved, StepsMade
    <2>2. (StepTrue(p)' /\ ~ListPending') \/ p # Self
      BY <2>1 DEF StepTrue, ListPending
    <2>3. StepTrue(p)' /\ ~Departing(p)' /\ ~Departing(p) /\ ~Announcing(p) /\ ~Correcting(p)
          /\ (p = Self => ~ListPending)
      BY <1>0, <2>1 DEF StepTrue, Departing, Announcing, Correcting, ListPending
    <2> QED
      BY <1>0, <1>1, <2>1, <2>2, <2>3, HandlerActs
  <1>2. CASE Joins(p, r) /\ Becomes(p, Arrival(p, r, "ChannelJoined")) /\ p # Self
    BY <1>0, <1>2, GuestEnters
  <1>3. CASE Joins(p, r) /\ Becomes(p, Arrival(p, r, "ChannelJoined")) /\ p = Self
    <2>1. Becomes(p, Sending(1, given, "stay"))
      BY <1>3 DEF Arrival
    <2>2. given \in Sayings /\ Sending(1, given, "stay") \in Steps
      <3>1. given \in Sayings
        BY <1>0, Listed, SayingsMade DEF Lists
      <3> QED
        BY <3>1, StepsMade
    <2>3. /\ AloneIn(p) /\ doing' \in [ Everybody -> Steps ] /\ doing'[p] = Sending(1, given, "stay")
          /\ members' \in [ Rooms -> [ Everybody -> Nat ] ]
          /\ codeOf' \in [ Everybody -> Rooms \cup { Nobody } ] /\ codeOf'[p] = r
          /\ members'[r][p] > 0 \/ (r \in Lobbies /\ members'[r] = NobodyListed)
          /\ late' = {}
      BY <1>0, <1>3, <2>1, <2>2, JoinActs
    <2>4. RoomTypes'
      BY <1>0, <2>3 DEF RoomTypes
    <2>5. /\ doing'[p].at = "tell" /\ doing'[p].then = "stay" /\ doing'[p].k = 1 /\ doing'[p].sig = given
          /\ doing'[p].sig.sig = "ChannelJoined"
      BY <2>3 DEF Sending
    <2>6. StepTrue(p)' /\ ListPending'
      BY <1>3, <2>5 DEF StepTrue, ListPending
    <2>7. InOrderIn(p)
      BY <1>0, <2>3, <2>6, RoomAssumption DEF InOrderIn
    <2>8. ASSUME NEW q \in Guests, Together(q)'
          PROVE  HasInfo(q)'
      <3>1. members'[r][q] = members[r][q] /\ members'[r][q] > 0
        BY <1>0, <1>3, <2>3, <2>8, OthersToo DEF AloneIn, Together
      <3>2. Shows(given.who[q], muteOf[q])
        BY <1>0, <3>1, Listed, OthersToo
      <3> QED
        BY <1>0, <1>3, <2>5, <2>6, <3>2 DEF HasInfo, Shows
    <2> QED
      BY <2>3, <2>4, <2>7, <2>8 DEF GuestsKnown, Known
  <1> QED
    BY <1>1, <1>2, <1>3 DEF EnterHall

(* Whose mute changes is shown at least, until the change is told.         *)
LEMMA SetMuteActs ==
  ASSUME RoomInv, NEW p \in Everybody, SetMute(p), call' = call
  PROVE  RoomTypes' /\ AloneIn(p) /\ InOrderIn(p) /\ GuestsKnown'
  <1> DEFINE s == IF codeOf[p] = Nobody THEN doing[p] ELSE [ at |-> "mute", of |-> codeOf[p] ]
  <1>0. /\ RoomTypes /\ p \in Guests /\ doing[p] = Rest /\ Rest.at = "rest"
        /\ UNCHANGED << codeOf, members, opened, inbox, late >>
    BY DEF RoomInv, SetMute, Requested, Everybody, Rest
  <1>1. /\ muteOf' \in [ Everybody -> BOOLEAN ] /\ \A q \in Everybody \ { p } : muteOf'[q] = muteOf[q]
    BY <1>0 DEF SetMute, RoomTypes
  <1>2. /\ doing' \in [ Everybody -> Steps ] /\ doing'[p] = s
        /\ \A q \in Everybody \ { p } : doing'[q] = doing[q]
    <2>1. CASE codeOf[p] = Nobody
      BY <1>0, <2>1 DEF SetMute, RoomTypes
    <2>2. CASE codeOf[p] # Nobody
      <3>1. [ at |-> "mute", of |-> codeOf[p] ] \in Steps
        BY <1>0, <2>2, StepsMade DEF RoomTypes
      <3> QED
        BY <1>0, <2>2, <3>1, Moved DEF SetMute
    <2> QED
      BY <2>1, <2>2
  <1>3. RoomTypes'
    BY <1>0, <1>1, <1>2 DEF RoomTypes
  <1>4. AloneIn(p)
    BY <1>0, <1>1, <1>2 DEF AloneIn, RoomInv, LobbiesOpened
  <1>5. StepTrue(p)'
    <2>1. CASE codeOf[p] = Nobody
      BY <1>0, <1>2, <2>1 DEF StepTrue
    <2>2. CASE codeOf[p] # Nobody
      BY <1>0, <1>2, <2>2, OthersToo DEF StepTrue
    <2> QED
      BY <2>1, <2>2
  <1>6. InOrderIn(p)
    BY <1>0, <1>5, OthersToo DEF InOrderIn, RoomInv, LobbiesOpened
  <1>7. \A q \in Guests \ late : q # p => Known(q)'
    BY <1>0, <1>4, OthersKnown DEF RoomInv, GuestsKnown
  <1>8. ASSUME p \notin late, Together(p)'
        PROVE  Correcting(p)' /\ HasEntry(p)'
    <2>1. Together(p) /\ codeOf[p] # Nobody
      BY <1>0, <1>8, RoomAssumption DEF Together, Rooms
    <2>2. HasInfo(p)
      BY <1>0, <1>8, <2>1 DEF RoomInv, GuestsKnown, Known, Announcing, Correcting
    <2>3. HasEntry(p)
      BY <1>0, <2>2, InfoIsEntry DEF RoomTypes
    <2>4. doing'[Self] = doing[Self] /\ ListPending' = ListPending
      BY <1>0, <1>2, OthersToo DEF ListPending
    <2>5. HasEntry(p)'
      BY <1>0, <2>3, <2>4, SameEntry
    <2> QED
      BY <1>2, <2>1, <2>5 DEF Correcting
  <1> QED
    BY <1>0, <1>3, <1>4, <1>6, <1>7, <1>8 DEF GuestsKnown, Known

LEMMA CollectActs ==
  ASSUME RoomInv, NEW p \in Everybody, CollectForMute(p), call' = call
  PROVE  RoomTypes' /\ AloneIn(p) /\ InOrderIn(p) /\ GuestsKnown'
  <1> DEFINE r == codeOf[p]
             s == Sending(Copies(r, p), [ sig |-> "PeerMuteChanged", of |-> Info(p) ], "stay")
  <1>0. /\ RoomTypes /\ doing[p] \in Steps /\ doing[p].at = "mute"
        /\ UNCHANGED << codeOf, members, opened, muteOf, inbox, late >>
    BY DEF RoomInv, RoomTypes, CollectForMute
  <1>1. /\ doing[p].of = r /\ p \in Guests /\ r \in Rooms
    BY <1>0, StepsApart DEF RoomInv, StepTrue, Everybody
  <1>2. s \in Steps
    BY <1>0, <1>1, Listed, SayingsMade, StepsMade
  <1>3. doing' \in [ Everybody -> Steps ] /\ doing'[p] = s /\ \A q \in Everybody \ { p } : doing'[q] = doing[q]
    BY <1>0, <1>1, <1>2, Moved DEF CollectForMute
  <1>4. /\ doing'[p].at = "tell" /\ doing'[p].then = "stay" /\ doing'[p].k = Copies(r, p)
        /\ doing'[p].sig.sig = "PeerMuteChanged" /\ doing'[p].sig.of = Info(p)' /\ "stay" \notin Ends
    BY <1>0, <1>3, RoomAssumption DEF Sending, Info, Ends
  <1>5. RoomTypes'
    BY <1>0, <1>3 DEF RoomTypes
  <1>6. AloneIn(p)
    BY <1>0, <1>3 DEF AloneIn, RoomInv, LobbiesOpened
  <1>7. StepTrue(p)'
    BY <1>1, <1>4, OthersToo DEF StepTrue
  <1>8. InOrderIn(p)
    BY <1>0, <1>1, <1>7, OthersToo DEF InOrderIn, RoomInv, LobbiesOpened
  <1>9. \A q \in Guests \ late : q # p => Known(q)'
    BY <1>0, <1>1, <1>6, OthersKnown DEF RoomInv, GuestsKnown
  <1>10. ASSUME p \notin late, Together(p)'
         PROVE  (Correcting(p)' /\ HasEntry(p)') \/ HasInfo(p)'
    <2>1. Together(p) /\ Copies(r, p) > 0 /\ Correcting(p)'
      BY <1>0, <1>1, <1>4, <1>10, OthersToo DEF Together, Copies, Correcting
    <2>2. (Correcting(p) /\ HasEntry(p)) \/ HasInfo(p)
      BY <1>0, <1>1, <1>10, <2>1 DEF RoomInv, GuestsKnown, Known, Announcing
    <2>3. HasEntry(p)
      BY <1>0, <2>2, InfoIsEntry DEF RoomTypes
    <2>4. doing'[Self] = doing[Self] /\ ListPending' = ListPending
      BY <1>1, <1>3, OthersToo DEF ListPending
    <2>5. HasEntry(p)'
      BY <1>0, <2>3, <2>4, SameEntry
    <2> QED
      BY <2>1, <2>5
  <1> QED
    BY <1>0, <1>5, <1>6, <1>8, <1>9, <1>10 DEF GuestsKnown, Known

(* What is added to the mail by a handler that tells k times. *)
LEMMA MailAdded ==
  ASSUME RoomInv, NEW p \in Everybody, Tell(p)
  PROVE  \E t \in Seq(Sayings) :
           /\ inbox' = inbox \o t /\ inbox' \in Seq(Sayings)
           /\ p # Self => Len(t) = doing[p].k /\ \A i \in 1 .. Len(t) : t[i] = doing[p].sig
           /\ p = Self /\ doing[p].then = "stay" => t = << doing[p].sig >>
  <1> DEFINE d == doing[p]
             a == [ i \in 1 .. d.k |-> d.sig ]
             leftHall == d.then = "left" \/ d.then \in Halls
             b == IF p = Self /\ leftHall THEN << [ sig |-> "ChannelLeft" ] >> ELSE << >>
  <1>0. RoomTypes /\ d \in Steps /\ d.at = "tell" /\ d.k \in Nat /\ d.sig \in Sayings /\ inbox \in Seq(Sayings)
    BY StepsApart DEF RoomInv, RoomTypes, Tell
  <1>1. inbox' = inbox \o a \o b
    BY DEF Tell
  <1>2. a \in Seq(Sayings) /\ Len(a) = d.k /\ \A i \in 1 .. Len(a) : a[i] = d.sig
    BY <1>0
  <1>3. b \in Seq(Sayings) /\ (p # Self => b = << >>)
    BY SayingsMade
  <1>4. p = Self /\ d.then = "stay" => b = << >> /\ d.k = 1
    BY <1>0, RoomAssumption DEF RoomInv, StepTrue, Ends
  <1>5. b = << >> => a \o b = a
    <2> HIDE DEF a
    <2>1. a \o << >> = a
      BY <1>2
    <2> QED
      BY <2>1
  <1>6. d.k = 1 => a = << d.sig >>
    BY <1>0
  <1> HIDE DEF a, b, d
  <1>7. inbox' = inbox \o (a \o b) /\ a \o b \in Seq(Sayings) /\ inbox' \in Seq(Sayings)
    BY <1>0, <1>1, <1>2, <1>3
  <1> QED
    BY <1>2, <1>3, <1>4, <1>5, <1>6, <1>7 DEF d

LEMMA TellActs ==
  ASSUME RoomInv, NEW p \in Everybody, Tell(p), call' = call
  PROVE  RoomTypes' /\ AloneIn(p) /\ InOrderIn(p) /\ GuestsKnown'
  <1> DEFINE d == doing[p]
             s == IF d.then \in Halls THEN Entering(d.then) ELSE Rest
  <1>0. /\ RoomTypes /\ d \in Steps /\ d.at = "tell" /\ d.k \in Nat /\ d.sig \in Sayings
        /\ d.then \in Ends \cup { "stay" } /\ StepTrue(p) /\ "stay" \notin Ends
        /\ UNCHANGED << members, opened, muteOf >>
    BY StepsApart, RoomAssumption DEF RoomInv, RoomTypes, Tell, Ends
  <1>1. PICK t \in Seq(Sayings) :
           /\ inbox' = inbox \o t /\ inbox' \in Seq(Sayings)
           /\ p # Self => Len(t) = doing[p].k /\ \A i \in 1 .. Len(t) : t[i] = doing[p].sig
           /\ p = Self /\ doing[p].then = "stay" => t = << doing[p].sig >>
    BY MailAdded
  <1>2. s \in Steps
    BY StepsMade DEF Rooms
  <1>3. doing' \in [ Everybody -> Steps ] /\ doing'[p] = s /\ \A q \in Everybody \ { p } : doing'[q] = doing[q]
    BY <1>0, <1>2, Moved DEF Tell
  <1>4. /\ codeOf' \in [ Everybody -> Rooms \cup { Nobody } ]
        /\ codeOf'[p] = IF d.then = "stay" THEN codeOf[p] ELSE Nobody
        /\ \A q \in Everybody \ { p } : codeOf'[q] = codeOf[q]
    BY <1>0 DEF RoomTypes, Tell
  <1>5. /\ late' = IF p # Self /\ d.k > 0 /\ ListPending THEN late \cup { p } ELSE late
        /\ late' \in SUBSET Guests
    BY <1>0 DEF Tell, RoomTypes, Everybody
  <1>6. RoomTypes'
    BY <1>0, <1>1, <1>3, <1>4, <1>5 DEF RoomTypes
  <1>7. AloneIn(p)
    BY <1>0, <1>3, <1>4 DEF AloneIn, RoomInv, LobbiesOpened
  <1>8. doing'[p].at \in { "rest", "enter" } /\ (doing'[p].at = "enter" => doing'[p].of \in Halls)
    BY <1>3 DEF Rest, Entering
  <1>9. InOrderIn(p)
    <2>1. StepTrue(p)'
      BY <1>8 DEF StepTrue
    <2>2. codeOf'[p] \in Lobbies => codeOf'[p] \in opened'
      BY <1>0, <1>4, RoomAssumption DEF RoomInv, LobbiesOpened
    <2>3. p = Self /\ codeOf'[p] \in Rooms => codeOf'[p] = codeOf[p] /\ ~Departing(p)
      BY <1>0, <1>4, RoomAssumption DEF Departing, Rooms
    <2> QED
      BY <1>0, <2>1, <2>2, <2>3 DEF InOrderIn, RoomInv, LobbiesOpened
  <1>10. CASE p = Self /\ d.then \in Ends
    <2>1. \A q \in Guests : ~Together(q)'
      BY <1>0, <1>4, <1>10, RoomAssumption DEF Together, Rooms
    <2> QED
      BY <1>6, <1>7, <1>9, <2>1 DEF GuestsKnown, Known
  <1>11. CASE p = Self /\ d.then = "stay"
    <2>0. t = << d.sig >> /\ d.sig.sig \in { "RoomCreated", "ChannelJoined" } /\ ListPending /\ ~ListPending'
      BY <1>0, <1>1, <1>8, <1>11 DEF StepTrue, ListPending
    <2>1. Len(t) = 1 /\ t[1] = d.sig /\ 1 \in 1 .. Len(t) /\ \A i \in 1 .. Len(t) : t[i] = t[1]
      BY <2>0
    <2>2. codeOf'[Self] = codeOf[Self]
      BY <1>4, <1>11
    <2>3. ASSUME NEW q \in Guests, Known(q), Together(q)'
          PROVE  Announcing(q)' \/ (Correcting(q)' /\ HasEntry(q)') \/ HasInfo(q)'
      <3>0. q # p /\ q \in Everybody
        BY <1>11, OthersToo
      <3>1. Together(q) /\ doing'[q] = doing[q] /\ muteOf'[q] = muteOf[q]
        BY <1>0, <1>3, <1>4, <2>2, <2>3, <3>0 DEF Together
      <3>2. (Announcing(q) => Announcing(q)') /\ (Correcting(q) => Correcting(q)')
        BY <3>1 DEF Announcing, Correcting
      <3>3. HasEntry(q) => HasEntry(q)'
        <4>1. HasEntry(q) => Gives(t[1], q) /\ ~Takes(t[1], q)
          BY <1>11, <2>0, <2>1 DEF HasEntry, Gives, Takes, Lists
        <4>2. HasEntry(q) => EntryAfter(q, Len(inbox))'
          <5>1. HasEntry(q) => \A i \in 1 .. Len(t) : Gives(t[i], q) /\ ~Takes(t[i], q)
            BY <2>1, <4>1
          <5> QED
            BY <1>0, <1>1, <2>1, <2>2, <5>1, EntryPosted DEF RoomTypes
        <4> QED
          BY <2>0, <4>2 DEF HasEntry
      <3>4. HasInfo(q) => HasInfo(q)'
        <4>1. HasInfo(q) => Tells(t[1], q) /\ ~Spoils(t[1], q)
          BY <1>11, <2>0, <2>1 DEF HasInfo, Tells, Spoils, Lists
        <4>2. HasInfo(q) => InfoInMail(q)'
          <5>1. HasInfo(q) => \A i \in 1 .. Len(t) : Tells(t[i], q) /\ ~Spoils(t[i], q)
            BY <2>1, <4>1
          <5> QED
            BY <1>0, <1>1, <2>1, <2>2, <3>1, <5>1, InfoPosted DEF RoomTypes
        <4> QED
          BY <2>0, <4>2 DEF HasInfo
      <3> QED
        BY <2>3, <3>1, <3>2, <3>3, <3>4 DEF Known
    <2> QED
      BY <1>5, <1>6, <1>7, <1>9, <1>11, <2>3 DEF GuestsKnown, Known, RoomInv
  <1>12. CASE p # Self
    <2>0. /\ p \in Guests /\ doing'[Self] = doing[Self] /\ codeOf'[Self] = codeOf[Self]
          /\ ListPending' = ListPending
      BY <1>3, <1>4, <1>12, OthersToo DEF Everybody, ListPending
    <2>1. /\ Len(t) = d.k /\ \A i \in 1 .. Len(t) : t[i] = d.sig
          /\ \/ d.then = "stay" /\ d.sig.sig \in { "PeerJoined", "PeerMuteChanged" } /\ d.sig.of = Info(p)
             \/ d.then \in Ends /\ d.sig.sig = "PeerLeft" /\ d.sig.of = p
      BY <1>0, <1>1, <1>12 DEF StepTrue
    <2>2. ASSUME NEW q \in Guests, q # p, Known(q), Together(q)'
          PROVE  Announcing(q)' \/ (Correcting(q)' /\ HasEntry(q)') \/ HasInfo(q)'
      <3>0. q \in Everybody
        BY OthersToo
      <3>1. Together(q) /\ doing'[q] = doing[q] /\ muteOf'[q] = muteOf[q]
        BY <1>0, <1>3, <1>4, <2>0, <2>2, <3>0 DEF Together
      <3>2. (Announcing(q) => Announcing(q)') /\ (Correcting(q) => Correcting(q)')
        BY <3>1 DEF Announcing, Correcting
      <3>3. ~Takes(d.sig, q) /\ ~Spoils(d.sig, q)
        BY <2>1, <2>2 DEF Takes, Spoils, Lists, Info
      <3>4. \A i \in 1 .. Len(t) : ~Takes(t[i], q) /\ ~Spoils(t[i], q)
        BY <2>1, <3>3
      <3>5. HasEntry(q) => HasEntry(q)'
        <4>1. CASE ListPending
          BY <2>0, <4>1 DEF HasEntry
        <4>2. CASE ~ListPending
          <5>1. EntryAfter(q, Len(inbox)) => EntryAfter(q, Len(inbox))'
            BY <1>0, <1>1, <2>0, <3>4, EntryPosted DEF RoomTypes
          <5> QED
            BY <2>0, <4>2, <5>1 DEF HasEntry
        <4> QED
          BY <4>1, <4>2
      <3>6. HasInfo(q) => HasInfo(q)'
        <4>1. CASE ListPending
          BY <2>0, <3>1, <4>1 DEF HasInfo, Shows
        <4>2. CASE ~ListPending
          <5>1. InfoInMail(q) => InfoInMail(q)'
            BY <1>0, <1>1, <2>0, <3>1, <3>4, InfoPosted DEF RoomTypes
          <5> QED
            BY <2>0, <4>2, <5>1 DEF HasInfo
        <4> QED
          BY <4>1, <4>2
      <3> QED
        BY <2>2, <3>1, <3>2, <3>5, <3>6 DEF Known
    <2>3. ASSUME p \notin late', Together(p)'
          PROVE  HasInfo(p)'
      <3>0. p \notin late /\ (d.k > 0 => ~ListPending) /\ Known(p)
        BY <1>5, <1>12, <2>0, <2>3 DEF RoomInv, GuestsKnown
      <3>1. d.then = "stay" /\ Together(p) /\ muteOf'[p] = muteOf[p]
        BY <1>0, <1>4, <2>0, <2>3, RoomAssumption DEF Together, Rooms
      <3>2. d.sig.sig \in { "PeerJoined", "PeerMuteChanged" } /\ d.sig.of = Info(p)
        BY <1>0, <2>1, <3>1
      <3>3. ~Spoils(d.sig, p) /\ (d.sig.sig = "PeerJoined" => Tells(d.sig, p))
            /\ (d.sig.sig = "PeerMuteChanged" => Corrects(d.sig, p))
        BY <3>2 DEF Spoils, Tells, Corrects, Lists
      <3>4. \A i \in 1 .. Len(t) : ~Spoils(t[i], p)
        BY <2>1, <3>3
      <3>5. (Announcing(p) => d.sig.sig = "PeerJoined" /\ d.k > 0)
            /\ (Correcting(p) => d.sig.sig = "PeerMuteChanged" /\ d.k > 0)
        BY <1>0 DEF Announcing, Correcting
      <3>6. CASE HasInfo(p)
        <4>1. CASE ListPending
          BY <2>0, <3>1, <3>6, <4>1 DEF HasInfo, Shows
        <4>2. CASE ~ListPending
          <5>1. InfoInMail(p) => InfoInMail(p)'
            BY <1>0, <1>1, <2>0, <3>1, <3>4, InfoPosted DEF RoomTypes
          <5> QED
            BY <2>0, <3>6, <4>2, <5>1 DEF HasInfo
        <4> QED
          BY <4>1, <4>2
      <3>7. CASE Announcing(p)
        <4>1. Len(t) \in Nat /\ 1 \in 1 .. Len(t) /\ Tells(t[1], p) /\ ~ListPending
          BY <1>0, <2>1, <3>0, <3>3, <3>5, <3>7
        <4>2. InfoInMail(p)'
          BY <1>0, <1>1, <2>0, <3>1, <3>4, <4>1, InfoPosted DEF RoomTypes
        <4> QED
          BY <2>0, <4>1, <4>2 DEF HasInfo
      <3>8. CASE Correcting(p) /\ HasEntry(p)
        <4>1. Len(t) > 0 /\ Corrects(t[1], p) /\ ~ListPending
          BY <1>0, <2>1, <3>0, <3>3, <3>5, <3>8
        <4>2. EntryAfter(p, Len(inbox))
          BY <3>8, <4>1 DEF HasEntry
        <4>3. InfoInMail(p)'
          BY <1>0, <1>1, <2>0, <3>1, <3>4, <4>1, <4>2, InfoPosted DEF RoomTypes
        <4> QED
          BY <2>0, <4>1, <4>3 DEF HasInfo
      <3> QED
        BY <3>0, <3>1, <3>6, <3>7, <3>8 DEF Known
    <2>4. late \subseteq late'
      BY <1>5
    <2> QED
      BY <1>6, <1>7, <1>9, <2>2, <2>3, <2>4 DEF GuestsKnown, Known, RoomInv
  <1> QED
    BY <1>0, <1>10, <1>11, <1>12

LEMMA RoomClickKeeps ==
  ASSUME RoomInv, RoomClick
  PROVE  RoomInv'
  <1>0. RoomTypes /\ UNCHANGED << codeOf, members, opened, muteOf, doing, late, inbox >>
    BY DEF RoomInv, RoomClick, roomServer
  <1>1. call' = call \/ (call'.code = Nobody /\ call' \in [ code : Rooms \cup { Nobody }, who : Entries,
                                                          inHall : BOOLEAN, active : Rooms \cup { Nobody } ])
    <2>1. << >> \in Seq(BOOLEAN)
      OBVIOUS
    <2>2. NobodyShown \in Entries
      BY <2>1 DEF NobodyShown, Entries
    <2>3. call' = call \/ ClickLeave
      BY DEF RoomClick, WantCall
    <2>4. NoCall \in [ code : Rooms \cup { Nobody }, who : Entries, inHall : BOOLEAN, active : Rooms \cup { Nobody } ]
          /\ NoCall.code = Nobody
      BY <2>2 DEF NoCall
    <2>5. CASE ClickLeave /\ call.inHall
      BY <2>4, <2>5 DEF ClickLeave
    <2>6. CASE ClickLeave /\ ~call.inHall
      <3>1. call' = [ call EXCEPT !.code = Nobody, !.who = NobodyShown ]
        BY <2>6 DEF ClickLeave
      <3> QED
        BY <1>0, <2>2, <3>1 DEF RoomTypes
    <2> QED
      BY <2>3, <2>5, <2>6
  <1>2. RoomTypes'
    BY <1>0, <1>1 DEF RoomTypes
  <1>3. (\A p \in Everybody : StepTrue(p)') /\ LobbiesOpened'
    BY <1>0 DEF RoomInv, StepTrue, LobbiesOpened, Info, Departing
  <1>4. ASSUME NEW p \in Guests, Known(p)
        PROVE  Known(p)'
    <2>1. /\ Together(p)' = Together(p) /\ Announcing(p)' = Announcing(p) /\ Correcting(p)' = Correcting(p)
          /\ ListPending' = ListPending /\ codeOf' = codeOf
      BY <1>0 DEF Together, Announcing, Correcting, ListPending
    <2>2. CASE call' = call
      <3>1. (HasEntry(p) => HasEntry(p)') /\ (HasInfo(p) => HasInfo(p)')
        BY <1>0, <2>1, <2>2, SameInfo, SameEntry
      <3> QED
        BY <1>4, <2>1, <3>1 DEF Known
    <2>3. CASE call'.code = Nobody
      <3>1. Together(p) => ShowsEntry(p)' /\ ShowsInfo(p)'
        BY <1>0, <2>3, RoomAssumption DEF Together, ShowsEntry, ShowsInfo, Rooms
      <3>2. \A m : Takes(m, p)' = Takes(m, p) /\ Gives(m, p)' = Gives(m, p) /\ Spoils(m, p)' = Spoils(m, p)
                   /\ Tells(m, p)' = Tells(m, p) /\ Corrects(m, p)' = Corrects(m, p)
        BY <1>0, SameMarks
      <3>3. \A n : Together(p) /\ EntryAfter(p, n) => EntryAfter(p, n)'
        BY <1>0, <3>1, <3>2 DEF EntryAfter
      <3>4. Together(p) /\ InfoInMail(p) => InfoInMail(p)'
        BY <1>0, <3>1, <3>2, <3>3 DEF InfoInMail
      <3>5. Together(p) /\ HasEntry(p) => HasEntry(p)'
        BY <1>0, <2>1, <3>3 DEF HasEntry
      <3>6. Together(p) /\ HasInfo(p) => HasInfo(p)'
        BY <1>0, <2>1, <3>4 DEF HasInfo, Shows
      <3> QED
        BY <1>4, <2>1, <3>5, <3>6 DEF Known
    <2> QED
      BY <1>1, <2>2, <2>3
  <1> QED
    BY <1>0, <1>2, <1>3, <1>4 DEF RoomInv, GuestsKnown

LEMMA RoomReceiveKeeps ==
  ASSUME RoomInv, RoomReceive
  PROVE  RoomInv'
  <1>0. RoomTypes /\ UNCHANGED << codeOf, members, opened, muteOf, doing, late >> /\ inbox # << >> /\ inbox' = Tail(inbox)
    BY DEF RoomInv, RoomReceive, roomServer
  <1>1. call' \in [ code : Rooms \cup { Nobody }, who : Entries, inHall : BOOLEAN, active : Rooms \cup { Nobody } ]
    BY <1>0, OthersToo, Received
  <1>2. RoomTypes'
    BY <1>0, <1>1 DEF RoomTypes
  <1>3. (\A p \in Everybody : StepTrue(p)') /\ LobbiesOpened'
    BY <1>0 DEF RoomInv, StepTrue, LobbiesOpened, Info, Departing
  <1>4. ASSUME NEW p \in Guests, Known(p)
        PROVE  Known(p)'
    <2>0. p \in Everybody
      BY OthersToo
    <2>1. /\ Together(p)' = Together(p) /\ Announcing(p)' = Announcing(p) /\ Correcting(p)' = Correcting(p)
          /\ ListPending' = ListPending
      BY <1>0 DEF Together, Announcing, Correcting, ListPending
    <2>2. Together(p) => codeOf[Self] \in Rooms
      BY DEF Together
    <2>3. Together(p) /\ HasEntry(p) => HasEntry(p)'
      <3>1. CASE ListPending
        BY <1>0, <2>1, <3>1 DEF HasEntry
      <3>2. CASE ~ListPending
        <4>1. PICK n \in Nat : n = Len(inbox)
          BY <1>0 DEF RoomTypes
        <4>2. n \in 1 .. Len(inbox) /\ Len(inbox') = n - 1
          BY <1>0, <4>1 DEF RoomTypes
        <4>3. Together(p) /\ EntryAfter(p, n) => EntryAfter(p, n - 1)'
          BY <1>0, <2>0, <2>2, <4>2, EntryReceived
        <4>4. EntryAfter(p, n - 1)' => EntryAfter(p, Len(inbox))'
          BY <4>2 DEF EntryAfter
        <4> QED
          BY <2>1, <3>2, <4>1, <4>3, <4>4 DEF HasEntry
      <3> QED
        BY <3>1, <3>2
    <2>4. Together(p) /\ HasInfo(p) => HasInfo(p)'
      <3>1. CASE ListPending
        BY <1>0, <2>1, <3>1 DEF HasInfo, Shows
      <3>2. CASE ~ListPending
        BY <1>0, <2>0, <2>1, <2>2, <3>2, InfoReceived DEF HasInfo
      <3> QED
        BY <3>1, <3>2
    <2> QED
      BY <1>4, <2>1, <2>3, <2>4 DEF Known
  <1> QED
    BY <1>0, <1>2, <1>3, <1>4 DEF RoomInv, GuestsKnown

LEMMA RoomInvInit == RoomInit => RoomInv
  <1> SUFFICES ASSUME RoomInit
               PROVE  RoomInv
    OBVIOUS
  <1>1. << >> \in Seq(BOOLEAN) /\ << >> \in Seq(Sayings)
    OBVIOUS
  <1>2. NobodyShown \in Entries /\ NobodyListed \in [ Everybody -> Nat ] /\ Rest \in Steps /\ Rest.at = "rest"
    BY <1>1, StepsMade DEF NobodyShown, Entries, NobodyListed
  <1>3. RoomTypes
    BY <1>1, <1>2 DEF RoomTypes, RoomInit, NoCall, Rooms
  <1>4. \A p \in Everybody : doing[p].at = "rest" /\ codeOf[p] = Nobody
    BY <1>2 DEF RoomInit
  <1>5. \A p \in Everybody : StepTrue(p)
    BY <1>4 DEF StepTrue
  <1>6. LobbiesOpened
    BY <1>4, OthersToo, RoomAssumption DEF LobbiesOpened, RoomInit, Rooms
  <1>7. GuestsKnown
    BY <1>4, OthersToo, RoomAssumption DEF GuestsKnown, Known, Together, Rooms
  <1> QED
    BY <1>3, <1>5, <1>6, <1>7 DEF RoomInv

LEMMA RoomInvStep ==
  ASSUME RoomInv, [RoomNext]_callVars
  PROVE  RoomInv'
  <1>1. ASSUME NEW p \in Everybody, RoomServe(p), call' = call
        PROVE  RoomInv'
    <2>1. RoomTypes' /\ AloneIn(p) /\ InOrderIn(p) /\ GuestsKnown'
      <3>1. ASSUME NEW r \in Lobbies, OpenLobby(p, r) \/ KnockLobby(p, r)
            PROVE  RoomTypes' /\ AloneIn(p) /\ InOrderIn(p) /\ GuestsKnown'
        BY <1>1, <3>1, OpenLobbyActs, KnockLobbyActs
      <3>2. CASE EnterLobby(p) \/ EnterHall(p)
        BY <1>1, <3>2, EnterLobbyActs, EnterHallActs
      <3>3. ASSUME NEW h \in Halls, KnockHall(p, h)
            PROVE  RoomTypes' /\ AloneIn(p) /\ InOrderIn(p) /\ GuestsKnown'
        BY <1>1, <3>3, KnockHallActs
      <3>4. CASE LeaveHall(p) \/ LeaveLobby(p) \/ RemoveFromRoom(p)
        BY <1>1, <3>4, LeaveHallActs, LeaveLobbyActs, RemoveActs
      <3>5. CASE SetMute(p) \/ CollectForMute(p) \/ Tell(p)
        BY <1>1, <3>5, SetMuteActs, CollectActs, TellActs
      <3> QED
        BY <1>1, <3>1, <3>2, <3>3, <3>4, <3>5 DEF RoomServe
    <2> QED
      BY <2>1, PlacesKept DEF RoomInv
  <1>2. CASE RoomClick
    BY <1>2, RoomClickKeeps
  <1>3. CASE RoomReceive
    BY <1>3, RoomReceiveKeeps
  <1>4. CASE UNCHANGED callVars
    <2>1. UNCHANGED << codeOf, members, opened, muteOf, doing, inbox, call, late >>
      BY <1>4 DEF callVars, roomServer
    <2>2. RoomTypes' /\ (\A p \in Everybody : StepTrue(p)') /\ LobbiesOpened'
      BY <2>1 DEF RoomInv, RoomTypes, StepTrue, LobbiesOpened, Info, Departing
    <2>3. ASSUME NEW p \in Guests, Known(p)
          PROVE  Known(p)'
      <3>1. /\ Together(p)' = Together(p) /\ Announcing(p)' = Announcing(p) /\ Correcting(p)' = Correcting(p)
            /\ ListPending' = ListPending
        BY <2>1 DEF Together, Announcing, Correcting, ListPending
      <3>2. (HasEntry(p) => HasEntry(p)') /\ (HasInfo(p) => HasInfo(p)')
        BY <2>1, <3>1, SameInfo, SameEntry
      <3> QED
        BY <2>3, <3>1, <3>2 DEF Known
    <2> QED
      BY <2>1, <2>2, <2>3 DEF RoomInv, GuestsKnown
  <1> QED
    BY <1>1, <1>2, <1>3, <1>4 DEF RoomNext

LEMMA KnownAreShown == RoomInv => NobodyMissing
  <1> SUFFICES ASSUME RoomInv, CallSettled, NEW p \in Guests \ late,
                      codeOf[p] = call.code, members[call.code][p] > 0
               PROVE  \E i \in DOMAIN call.who[p] : call.who[p][i] = muteOf[p]
    BY DEF NobodyMissing
  <1>0. /\ p \in Everybody /\ Self \in Everybody /\ RoomTypes /\ Known(p)
        /\ call.code = codeOf[Self] /\ inbox = << >>
        /\ doing[p] = Rest /\ doing[Self] = Rest /\ Rest.at = "rest"
    BY OthersToo DEF RoomInv, CallSettled, GuestsKnown, Rest
  <1>1. codeOf[Self] \in Rooms
    BY <1>0 DEF RoomTypes, CallSettled
  <1>2. ~(codeOf[Self] \in Lobbies /\ members[codeOf[Self]] = NobodyListed)
    BY <1>0 DEF NobodyListed
  <1>3. members[codeOf[Self]][Self] > 0
    BY <1>0, <1>1, <1>2 DEF RoomInv, LobbiesOpened, Departing
  <1>4. Together(p)
    BY <1>0, <1>1, <1>3 DEF Together
  <1>5. ~Announcing(p) /\ ~Correcting(p) /\ ~ListPending
    BY <1>0 DEF Announcing, Correcting, ListPending
  <1>6. InfoInMail(p)
    BY <1>0, <1>4, <1>5 DEF Known, HasInfo
  <1>7. Len(inbox) = 0
    BY <1>0
  <1>8. ShowsInfo(p)
    BY <1>6, <1>7 DEF InfoInMail
  <1> QED
    BY <1>0, <1>8 DEF ShowsInfo, Shows

(* Whoever else is in the room with the client, and whose news did not     *)
(* overtake the list it was given, is shown, with the right mute           *)
(* (handle_join_room, handle_mute_changed and the client's handlers).      *)
THEOREM CallIsShown == RoomSpec => []NobodyMissing
  <1>1. RoomInit => RoomInv
    BY RoomInvInit
  <1>2. RoomInv /\ [RoomNext]_callVars => RoomInv'
    BY RoomInvStep
  <1>3. RoomInv => NobodyMissing
    BY KnownAreShown
  <1> QED
    BY <1>1, <1>2, <1>3, PTL DEF RoomSpec
=============================================================================
