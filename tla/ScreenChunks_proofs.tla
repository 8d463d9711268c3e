------------------------ MODULE ScreenChunks_proofs ------------------------
(***************************************************************************)
(* Proofs about ScreenChunks, for any number of sharers, frames, chunks    *)
(* and sequence numbers: its type invariant, that frames are intact, and   *)
(* that the newest frame arrives.  Inv is inductive; all three follow.     *)
(***************************************************************************)
EXTENDS ScreenChunks, TLAPS

(* Sequence numbers. *)
LEMMA ModOnce ==
  ASSUME NEW w \in Nat \ {0}, NEW c \in Int
  PROVE  /\ c \in 0 .. w - 1 => c % w = c
         /\ c \in -w .. -1 => c % w = c + w
  OBVIOUS

LEMMA DivMod ==
  ASSUME NEW w \in Nat \ {0}, NEW c \in Int
  PROVE  \E p \in Int : c = w * p + (c % w) /\ c % w \in 0 .. w - 1
  <1>1. c = w * (c \div w) + (c % w) /\ c % w \in 0 .. w - 1 /\ c \div w \in Int
    OBVIOUS
  <1> WITNESS c \div w \in Int
  <1> QED
    BY <1>1

LEMMA Multiple ==
  ASSUME NEW w \in Nat \ {0}, NEW p \in Int, NEW q \in Int, NEW c \in Int,
         -w < w * (p - q) + c, w * (p - q) + c < w, -w < c, c < w
  PROVE  p - q \in {-1, 0, 1}
  <1>1. CASE p - q >= 2
    <2>1. w * (p - q) >= w * 2
      BY <1>1
    <2> QED
      BY <2>1
  <1>2. CASE p - q <= -2
    <2>1. w * (p - q) <= w * (-2)
      BY <1>2
    <2> QED
      BY <2>1
  <1> QED
    BY <1>1, <1>2

LEMMA MinusSeq ==
  ASSUME NEW f \in Nat, NEW g \in Nat, g <= f, f - g < Wrap
  PROVE  /\ Minus(SeqNo(f), SeqNo(g)) = f - g
         /\ f # g => Minus(SeqNo(g), SeqNo(f)) = Wrap - (f - g)
  <1> DEFINE W == Wrap
  <1>1. W \in Nat \ {0}
    BY WindowAssumption DEF Wrap
  <1> HIDE DEF W
  <1> DEFINE a == f % W  b == g % W
  <1>2. PICK p \in Int : f = W * p + a /\ a \in 0 .. W - 1
    <2>1. f \in Int
      OBVIOUS
    <2> QED
      BY <1>1, <2>1, DivMod, Zenon
  <1>3. PICK q \in Int : g = W * q + b /\ b \in 0 .. W - 1
    <2>1. g \in Int
      OBVIOUS
    <2> QED
      BY <1>1, <2>1, DivMod, Zenon
  <1> HIDE DEF a, b
  <1>4. f - g = W * (p - q) + (a - b) /\ a \in 0 .. W - 1 /\ b \in 0 .. W - 1
    <2>1. W * (p - q) = W * p - W * q
      BY <1>1
    <2> QED
      BY <1>1, <1>2, <1>3, <2>1
  <1>5. f - g < W
    BY DEF W
  <1>6. p - q \in {-1, 0, 1}
    BY <1>1, <1>4, <1>5, Multiple
  <1>7. CASE p - q = 0
    <2>1. a - b = f - g
      BY <1>1, <1>4, <1>7
    <2>2. (a - b) % W = f - g
      BY <1>1, <1>5, <2>1, ModOnce
    <2>3. f # g => (b - a) % W = W - (f - g)
      BY <1>1, <1>4, <1>5, <2>1, ModOnce
    <2> QED
      BY <2>2, <2>3 DEF Minus, SeqNo, W, a, b
  <1>8. CASE p - q = 1
    <2>1. a - b = (f - g) - W
      BY <1>1, <1>4, <1>8
    <2>2. (a - b) % W = f - g
      BY <1>1, <1>4, <1>5, <2>1, ModOnce
    <2>3. (b - a) % W = W - (f - g) /\ f # g
      BY <1>1, <1>4, <1>5, <2>1, ModOnce
    <2> QED
      BY <2>2, <2>3 DEF Minus, SeqNo, W, a, b
  <1>9. p - q # -1
    <2> SUFFICES ASSUME p - q = -1 PROVE FALSE
      OBVIOUS
    <2>1. W * (p - q) = -W
      BY <1>1
    <2> QED
      BY <1>1, <1>4, <2>1
  <1> QED
    BY <1>6, <1>7, <1>8, <1>9

(* Frames less than half the numbers apart are told apart, and the newer   *)
(* one is known.                                                           *)
LEMMA SeqNewer ==
  ASSUME NEW f \in Nat, NEW g \in Nat, f - g < Half, g - f < Half
  PROVE  /\ SeqNo(f) = SeqNo(g) <=> f = g
         /\ Newer(SeqNo(f), SeqNo(g)) <=> f > g
  <1>1. Half \in Nat \ {0} /\ Wrap = 2 * Half
    BY WindowAssumption DEF Wrap
  <1>2. CASE f = g
    BY <1>2 DEF Newer
  <1>3. CASE f > g
    <2>1. Minus(SeqNo(f), SeqNo(g)) = f - g /\ Minus(SeqNo(g), SeqNo(f)) = Wrap - (f - g)
      BY <1>1, <1>3, MinusSeq
    <2>2. SeqNo(f) # SeqNo(g)
      BY <1>1, <1>3, <2>1
    <2> QED
      BY <1>3, <2>1, <2>2 DEF Newer
  <1>4. CASE f < g
    <2>1. Minus(SeqNo(g), SeqNo(f)) = g - f /\ Minus(SeqNo(f), SeqNo(g)) = Wrap - (g - f)
      BY <1>1, <1>4, MinusSeq
    <2>2. SeqNo(f) # SeqNo(g)
      BY <1>1, <1>4, <2>1
    <2> QED
      BY <1>1, <1>4, <2>1, <2>2 DEF Newer
  <1> QED
    BY <1>2, <1>3, <1>4

-----------------------------------------------------------------------------
(* The inductive invariant: what is in flight or under assembly is recent, *)
(* the packets and parts of one frame agree on its size, and what there is *)
(* of the last frame.                                                      *)
Recent(s, f) == made[s] - Lag < f /\ f <= made[s]

Shape ==
    /\ made \in [ Senders -> 0 .. MaxFrames ]
    /\ size \in [ Senders -> Nat ]
    /\ up \subseteq Packets /\ down \subseteq Packets
    /\ last \in [ Senders -> 0 .. MaxFrames ]
    /\ hand = [ r \in Receivers |-> hand[r] ]
    /\ hurt \in [ Senders -> BOOLEAN ]
    /\ done \in [ Senders -> BOOLEAN ]

PacketsRecent ==
    /\ \A m \in up \cup down : Recent(m.sender, m.frame)
    /\ \A m \in down : m.count <= MaxChunks

LastRecent ==
    \A s \in Senders : last[s] <= made[s] /\ (last[s] # 0 => made[s] - last[s] < Half)

(* An assembler of s holds packets of one recent frame, in their places.   *)
Proper(s, entry) ==
    /\ \E n \in ChunkCounts : n <= MaxChunks /\ entry \in Assemblers(n)
    /\ Recent(s, entry.frame)
    /\ \A i \in 0 .. entry.count - 1 :
          entry.parts[i] \in { None, Packet(s, entry.frame, entry.count, i) }

AssemblersProper ==
    \A s \in Senders : asm[s] # None => Proper(s, asm[s]) /\ ~Complete(asm[s])

CountsAgree ==
    /\ \A m, k \in up \cup down : m.sender = k.sender /\ m.frame = k.frame => m.count = k.count
    /\ \A m \in up \cup down : m.frame = made[m.sender] => m.count = size[m.sender]
    /\ \A s \in Senders : asm[s] # None =>
          /\ asm[s].frame = made[s] => asm[s].count = size[s]
          /\ \A m \in up \cup down :
                m.sender = s /\ m.frame = asm[s].frame => m.count = asm[s].count

(* Every chunk of the last frame is in flight or in its place.             *)
Stored(s, i) == asm[s] # None /\ asm[s].frame = made[s] /\ asm[s].parts[i] # None

LastComes ==
    \A s \in Senders : made[s] > 0 =>
        /\ size[s] > 0
        /\ ~hurt[s] /\ ~done[s] =>
              \A i \in 0 .. size[s] - 1 :
                  Packet(s, made[s], size[s], i) \in up \cup down \/ Stored(s, i)

Inv ==
    /\ Shape /\ PacketsRecent /\ LastRecent /\ AssemblersProper /\ CountsAgree
    /\ LastComes /\ FramesIntact

(* What the definitions say of the data.                                   *)
LEMMA Constants ==
    /\ Half \in Nat \ {0} /\ Lag \in 1 .. Half /\ MaxChunks \in Nat /\ MaxFrames \in Nat
    /\ ChunkCounts \subseteq Nat \ {0} /\ Frames \subseteq Nat \ {0}
    /\ \A m \in Packets : m # None
  BY WindowAssumption, NoneAssumption DEF Frames

LEMMA PacketFields ==
  ASSUME NEW m \in Packets
  PROVE  /\ m.sender \in Senders /\ m.frame \in Frames /\ m.count \in ChunkCounts
         /\ m.index \in 0 .. m.count - 1
         /\ m = Packet(m.sender, m.frame, m.count, m.index)
  <1>1. PICK n \in ChunkCounts :
            m \in [ sender : Senders, frame : Frames, count : {n}, index : 0 .. n - 1 ]
    BY DEF Packets
  <1> QED
    BY <1>1 DEF Packet

LEMMA PacketIn ==
  ASSUME NEW s \in Senders, NEW f \in Frames, NEW n \in ChunkCounts, NEW i \in 0 .. n - 1
  PROVE  Packet(s, f, n, i) \in Packets
  <1>1. Packet(s, f, n, i) \in [ sender : Senders, frame : Frames, count : {n}, index : 0 .. n - 1 ]
    BY DEF Packet
  <1> QED
    BY <1>1 DEF Packets

LEMMA AssemblerFields ==
  ASSUME NEW n \in ChunkCounts, NEW entry \in Assemblers(n)
  PROVE  /\ entry.frame \in Frames /\ entry.count = n
         /\ entry.parts \in [ 0 .. n - 1 -> Packets \cup {None} ]
         /\ entry # None
  BY NoneAssumption DEF Assemblers

(* Two recent frames are less than half the numbers apart.                 *)
LEMMA RecentNewer ==
  ASSUME Shape, NEW s \in Senders, NEW f \in Frames, NEW g \in Frames,
         Recent(s, f), Recent(s, g)
  PROVE  /\ SeqNo(f) = SeqNo(g) <=> f = g
         /\ Newer(SeqNo(f), SeqNo(g)) <=> f > g
  <1>1. f \in Nat /\ g \in Nat /\ made[s] \in Nat /\ Lag \in Nat /\ Lag <= Half /\ Half \in Nat
    BY Constants DEF Shape
  <1>2. f - g < Half /\ g - f < Half
    BY <1>1 DEF Recent
  <1> QED
    BY <1>1, <1>2, SeqNewer

(* The assembler a chunk is stored in, and what storing it there gives.    *)
LEMMA EntryProper ==
  ASSUME Shape, NEW m \in Packets, Recent(m.sender, m.frame), m.count <= MaxChunks,
         NEW old, old # None => Proper(m.sender, old),
         old # None /\ m.frame = old.frame => m.count = old.count,
         ~Ignored(old, m)
  PROVE  LET entry == Store(IF Replaces(old, m) THEN Begin(m) ELSE old, m)
         IN  /\ Proper(m.sender, entry)
             /\ entry.frame = m.frame /\ entry.count = m.count
             /\ entry.parts[m.index] # None
             /\ old # None /\ old.frame = m.frame =>
                    \A i \in 0 .. m.count - 1 : old.parts[i] # None => entry.parts[i] # None
             /\ old # None => m.frame >= old.frame
  <1> DEFINE n == m.count
             base == IF Replaces(old, m) THEN Begin(m) ELSE old
             entry == Store(base, m)
             P(i) == Packet(m.sender, m.frame, n, i)
  <1>1. n \in ChunkCounts /\ m.frame \in Frames /\ m.sender \in Senders /\ m.index \in 0 .. n - 1
        /\ m = P(m.index)
    BY PacketFields
  <1>2. old # None => /\ old.frame \in Frames /\ Recent(m.sender, old.frame)
                      /\ old \in Assemblers(old.count) /\ old.count \in ChunkCounts
    BY AssemblerFields DEF Proper
  <1>3. old # None => /\ SeqNo(m.frame) = SeqNo(old.frame) <=> m.frame = old.frame
                      /\ Newer(SeqNo(m.frame), SeqNo(old.frame)) <=> m.frame > old.frame
    BY <1>1, <1>2, RecentNewer
  <1>0. old # None => m.frame \in Nat /\ old.frame \in Nat
    BY <1>1, <1>2, Constants
  <1>4. old # None => m.frame >= old.frame
    <2>1. old # None => m.frame = old.frame \/ m.frame > old.frame
      BY <1>3, Zenon DEF Ignored, Replaces
    <2> QED
      BY <1>0, <2>1
  <1>5. ~Replaces(old, m) => old # None /\ m.frame = old.frame /\ old.count = n
    BY <1>3 DEF Ignored, Replaces
  <1>6. /\ base \in Assemblers(n) /\ base.frame = m.frame
        /\ \A i \in 0 .. n - 1 : base.parts[i] \in { None, P(i) }
    <2>1. CASE Replaces(old, m)
      BY <1>1, <2>1 DEF Begin, Assemblers
    <2>2. CASE ~Replaces(old, m)
      BY <1>2, <1>5, <2>2 DEF Proper
    <2> QED
      BY <2>1, <2>2
  <1>7. old # None /\ old.frame = m.frame => base = old
    <2>1. old # None /\ old.frame = m.frame => ~(m.frame > old.frame)
      BY <1>0
    <2> QED
      BY <1>3, <2>1, Zenon DEF Replaces
  <1> HIDE DEF base
  <1>8. /\ entry.frame = m.frame /\ entry.count = n
        /\ entry = [ frame |-> m.frame, count |-> n, parts |-> entry.parts ]
        /\ entry.parts = [ i \in 0 .. n - 1 |->
                              IF i = m.index /\ base.parts[i] = None THEN m ELSE base.parts[i] ]
    BY <1>1, <1>6 DEF Store, Assemblers
  <1>9. entry \in Assemblers(n)
    <2>1. base.parts \in [ 0 .. n - 1 -> Packets \cup {None} ]
      BY <1>6 DEF Assemblers
    <2> QED
      BY <1>1, <1>8, <2>1 DEF Assemblers
  <1>10. \A i \in 0 .. n - 1 : entry.parts[i] \in { None, P(i) }
    BY <1>1, <1>6, <1>8
  <1>11. entry.parts[m.index] # None
    BY <1>1, <1>8, Constants
  <1>12. old # None /\ old.frame = m.frame =>
            \A i \in 0 .. n - 1 : old.parts[i] # None => entry.parts[i] # None
    BY <1>7, <1>8, Constants
  <1>13. Proper(m.sender, entry)
    BY <1>1, <1>8, <1>9, <1>10 DEF Proper
  <1> QED
    BY <1>4, <1>8, <1>11, <1>12, <1>13 DEF base

-----------------------------------------------------------------------------
(* The steps.                                                              *)

LEMMA InitInv == Init => Inv
  <1> SUFFICES ASSUME Init PROVE Inv
    OBVIOUS
  <1>1. Shape
    BY Constants DEF Init, Shape
  <1>2. PacketsRecent /\ LastRecent /\ AssemblersProper /\ CountsAgree /\ LastComes
    BY DEF Init, PacketsRecent, LastRecent, AssemblersProper, CountsAgree, LastComes
  <1>3. FramesIntact
    BY DEF Init, FramesIntact
  <1> QED
    BY <1>1, <1>2, <1>3 DEF Inv

(* A packet is lost, refused, copied or handed on: no new one appears.     *)
LEMMA Transit ==
  ASSUME Inv, UNCHANGED <<made, size, asm, hand, latest, done>>,
         up' \cup down' \subseteq up \cup down, \A m \in down' : m.count <= MaxChunks,
         last' \in [ Senders -> 0 .. MaxFrames ], LastRecent',
         hurt' \in [ Senders -> BOOLEAN ], \A s \in Senders : hurt[s] => hurt'[s],
         \A m \in up \cup down :
            m \in up' \cup down' \/ (m.frame = made[m.sender] => hurt'[m.sender])
  PROVE  Inv'
  <1>1. Shape'
    BY DEF Inv, Shape
  <1>2. PacketsRecent'
    BY DEF Inv, PacketsRecent, Recent
  <1>3. AssemblersProper'
    BY DEF Inv, AssemblersProper, Proper, Recent
  <1>4. CountsAgree'
    BY DEF Inv, CountsAgree
  <1>5. LastComes'
    <2> SUFFICES ASSUME NEW s \in Senders, made[s] > 0, ~hurt'[s], ~done[s],
                        NEW i \in 0 .. size[s] - 1
                 PROVE  Packet(s, made[s], size[s], i) \in up' \cup down' \/ Stored(s, i)
      BY DEF Inv, LastComes, Stored
    <2> DEFINE m == Packet(s, made[s], size[s], i)
    <2>1. m \in up \cup down \/ Stored(s, i)
      BY DEF Inv, LastComes
    <2>2. m.sender = s /\ m.frame = made[s]
      BY DEF Packet
    <2> HIDE DEF m
    <2>3. m \in up' \cup down' \/ Stored(s, i)
      BY <2>1, <2>2
    <2> QED
      BY <2>3 DEF m
  <1>6. FramesIntact'
    BY DEF Inv, FramesIntact
  <1> QED
    BY <1>1, <1>2, <1>3, <1>4, <1>5, <1>6 DEF Inv

LEMMA HurtingFacts ==
  ASSUME NEW frames, Shape, Hurting(frames)
  PROVE  /\ hurt' \in [ Senders -> BOOLEAN ]
         /\ \A s \in Senders : hurt[s] => hurt'[s]
         /\ \A f \in frames : f.sender \in Senders /\ f.frame = made[f.sender] => hurt'[f.sender]
  BY DEF Hurting, Shape

LEMMA LoseUpInv ==
  ASSUME Inv, NEW m \in up, LoseUp(m)
  PROVE  Inv'
  <1>1. m.sender \in Senders
    BY PacketFields DEF Inv, Shape
  <1>2. LastRecent' /\ \A k \in down' : k.count <= MaxChunks
    BY DEF Inv, LastRecent, PacketsRecent, LoseUp
  <1> QED
    BY <1>1, <1>2, HurtingFacts, Transit DEF LoseUp, Inv, Shape

LEMMA LoseDownInv ==
  ASSUME Inv, NEW m \in down, LoseDown(m)
  PROVE  Inv'
  <1>1. m.sender \in Senders
    BY PacketFields DEF Inv, Shape
  <1>2. LastRecent' /\ \A k \in down' : k.count <= MaxChunks
    BY DEF Inv, LastRecent, PacketsRecent, LoseDown
  <1> QED
    BY <1>1, <1>2, HurtingFacts, Transit DEF LoseDown, Inv, Shape

(* The server takes no packet of the last frame for an old one.            *)
LEMMA LastNotStale ==
  ASSUME Inv, NEW m \in up, m.frame = made[m.sender]
  PROVE  ~Stale(m)
  <1> DEFINE s == m.sender  l == last[s]  f == made[s]
  <1>1. s \in Senders /\ f \in Nat /\ l \in Nat /\ Half \in Nat \ {0} /\ Wrap = 2 * Half
    BY PacketFields, Constants DEF Inv, Shape, Wrap
  <1>2. l <= f /\ (l # 0 => f - l < Half)
    BY <1>1 DEF Inv, LastRecent
  <1>3. CASE l = 0
    BY <1>1, <1>3, ModOnce DEF Stale, SeqNo
  <1>4. CASE l # 0
    <2>1. f - l < Wrap /\ f - l < Half
      BY <1>1, <1>2, <1>4
    <2>2. Minus(SeqNo(f), SeqNo(l)) = f - l
      BY <1>1, <1>2, <2>1, MinusSeq
    <2> QED
      BY <1>1, <2>1, <2>2 DEF Stale
  <1> QED
    BY <1>3, <1>4

LEMMA RelayRefuseInv ==
  ASSUME Inv, NEW m \in up, RelayRefuse(m)
  PROVE  Inv'
  <1>1. m.sender \in Senders
    BY PacketFields DEF Inv, Shape
  <1>2. LastRecent' /\ \A k \in down' : k.count <= MaxChunks
    BY DEF Inv, LastRecent, PacketsRecent, RelayRefuse
  <1>3. up' \cup down' \subseteq up \cup down /\ \A k \in up \cup down : k = m \/ k \in up' \cup down'
    BY DEF RelayRefuse, Taken
  <1>4. hurt' \in [ Senders -> BOOLEAN ] /\ \A s \in Senders : hurt[s] => hurt'[s]
    BY HurtingFacts DEF RelayRefuse, Inv, Shape
  <1>5. m.frame = made[m.sender] => hurt'[m.sender]
    BY <1>1, HurtingFacts, LastNotStale DEF RelayRefuse, Inv
  <1> QED
    BY <1>2, <1>3, <1>4, <1>5, Transit DEF RelayRefuse, Inv, Shape

LEMMA RelayInv ==
  ASSUME Inv, NEW m \in up, Relay(m)
  PROVE  Inv'
  <1>1. m.sender \in Senders /\ m.frame \in 1 .. MaxFrames /\ MaxFrames \in Nat
    BY PacketFields, Constants DEF Inv, Shape, Frames
  <1>2. \A k \in down' : k.count <= MaxChunks
    BY DEF Inv, PacketsRecent, Relay, Plausible
  <1>3. /\ up' \cup down' \subseteq up \cup down
        /\ \A k \in up \cup down : k \in up' \cup down' \/ (k = m /\ Hurting({m}))
    BY DEF Relay, Taken
  <1>4. /\ hurt' \in [ Senders -> BOOLEAN ] /\ \A s \in Senders : hurt[s] => hurt'[s]
        /\ Hurting({m}) /\ m.frame = made[m.sender] => hurt'[m.sender]
    BY <1>1, HurtingFacts DEF Relay, Inv, Shape
  <1>5. last' \in [ Senders -> 0 .. MaxFrames ]
    BY <1>1 DEF Relay, Inv, Shape
  <1>6. Recent(m.sender, m.frame)
    BY DEF Inv, PacketsRecent
  <1>7. LastRecent'
    <2> SUFFICES ASSUME NEW s \in Senders
                 PROVE  last'[s] <= made[s] /\ (last'[s] # 0 => made[s] - last'[s] < Half)
      BY DEF LastRecent, Relay
    <2>1. last'[s] = last[s] \/ (s = m.sender /\ last'[s] = m.frame)
      BY DEF Relay, Inv, Shape
    <2>2. last[s] <= made[s] /\ (last[s] # 0 => made[s] - last[s] < Half)
      BY DEF Inv, LastRecent
    <2>3. made[s] \in Nat /\ Lag \in Nat /\ Half \in Nat /\ Lag <= Half
      BY Constants DEF Inv, Shape
    <2> QED
      BY <1>1, <1>6, <2>1, <2>2, <2>3 DEF Recent
  <1> QED
    BY <1>2, <1>3, <1>4, <1>5, <1>7, Transit DEF Relay, Inv, Shape

(* Unfinished frames are dropped.                                          *)
LEMMA Dropped ==
  ASSUME Inv, UNCHANGED <<made, size, up, down, last, hand, done>>,
         latest' \in { None, latest },
         NEW stale \in SUBSET Begun,
         asm' = [ s \in Senders |-> IF s \in stale THEN None ELSE asm[s] ],
         Hurting(Unfinished(stale))
  PROVE  Inv'
  <1>1. /\ hurt' \in [ Senders -> BOOLEAN ] /\ \A s \in Senders : hurt[s] => hurt'[s]
        /\ \A s \in stale : asm[s].frame = made[s] => hurt'[s]
    <2>1. \A s \in stale : [ sender |-> s, frame |-> asm[s].frame ] \in Unfinished(stale)
      BY DEF Unfinished
    <2> QED
      BY <2>1, HurtingFacts DEF Inv, Begun
  <1>2. Shape'
    BY <1>1 DEF Inv, Shape
  <1>3. PacketsRecent' /\ LastRecent'
    BY DEF Inv, PacketsRecent, LastRecent, Recent
  <1>4. AssemblersProper'
    BY DEF Inv, AssemblersProper, Proper, Recent
  <1>5. CountsAgree'
    BY DEF Inv, CountsAgree
  <1>6. LastComes'
    <2> SUFFICES ASSUME NEW s \in Senders, made[s] > 0, ~hurt'[s], ~done[s],
                        NEW i \in 0 .. size[s] - 1
                 PROVE  Packet(s, made[s], size[s], i) \in up \cup down \/ Stored(s, i)'
      BY DEF Inv, LastComes
    <2>1. Packet(s, made[s], size[s], i) \in up \cup down \/ Stored(s, i)
      BY <1>1 DEF Inv, LastComes
    <2>2. Stored(s, i) => s \notin stale
      BY <1>1 DEF Stored
    <2> QED
      BY <2>1, <2>2 DEF Stored
  <1>7. FramesIntact'
    BY DEF Inv, FramesIntact
  <1> QED
    BY <1>2, <1>3, <1>4, <1>5, <1>6, <1>7 DEF Inv

LEMMA ExpireInv == Inv /\ Expire => Inv'
  BY Dropped DEF Expire

LEMMA ForgetInv == Inv /\ Forget => Inv'
  <1> SUFFICES ASSUME Inv, Forget PROVE Inv'
    OBVIOUS
  <1>1. asm' = [ s \in Senders |-> IF s \in Begun THEN None ELSE asm[s] ]
    BY DEF Forget, Begun
  <1> QED
    BY <1>1, Dropped DEF Forget

LEMMA StoreLatestInv ==
  ASSUME Inv, NEW r \in Receivers, StoreLatest(r)
  PROVE  Inv'
  <1>1. Shape' /\ PacketsRecent' /\ LastRecent' /\ AssemblersProper' /\ CountsAgree' /\ LastComes'
    BY DEF StoreLatest, Inv, Shape, PacketsRecent, LastRecent, AssemblersProper, CountsAgree,
           LastComes, Proper, Recent, Stored
  <1>2. FramesIntact'
    BY DEF StoreLatest, Inv, Shape, FramesIntact
  <1> QED
    BY <1>1, <1>2 DEF Inv

LEMMA ShowInv == Inv /\ Show => Inv'
  BY DEF Show, Inv, Shape, PacketsRecent, LastRecent, AssemblersProper, CountsAgree,
         LastComes, Proper, Recent, Stored, FramesIntact

LEMMA SendFrameInv ==
  ASSUME Inv, NEW s \in Senders, SendFrame(s)
  PROVE  Inv'
  <1> DEFINE f == made[s] + 1
  <1>1. PICK n \in ChunkCounts :
            /\ size' = [ size EXCEPT ![s] = n ]
            /\ up' = up \cup { Packet(s, f, n, i) : i \in 0 .. n - 1 }
    BY DEF SendFrame
  <1> DEFINE sent == { Packet(s, f, n, i) : i \in 0 .. n - 1 }
  <1>2. f \in Frames /\ f \in 1 .. MaxFrames /\ made[s] \in Nat /\ n \in Nat \ {0}
        /\ Lag \in Nat \ {0} /\ Half \in Nat /\ MaxFrames \in Nat
    BY Constants DEF SendFrame, Inv, Shape, Frames
  <1>3. made' = [ made EXCEPT ![s] = f ] /\ made'[s] = f
        /\ \A t \in Senders : t # s => made'[t] = made[t]
    BY DEF SendFrame, Inv, Shape
  <1>4. \A m \in sent : /\ m \in Packets /\ m.sender = s /\ m.frame = f /\ m.count = n
    <2>1. \A i \in 0 .. n - 1 : Packet(s, f, n, i) \in Packets
      BY <1>2, PacketIn
    <2> QED
      BY <2>1 DEF Packet
  <1>5. \A m \in up \cup down : m \in Packets /\ m.sender \in Senders
    BY PacketFields DEF Inv, Shape
  <1>6. \A m \in up \cup down : m.sender = s => m.frame < f /\ m.frame > f - Lag
    <2> SUFFICES ASSUME NEW m \in up \cup down, m.sender = s
                 PROVE  m.frame < f /\ m.frame > f - Lag
      OBVIOUS
    <2>1. m.frame \in Nat /\ m.frame <= made[s] /\ m.frame > made[s] + 1 - Lag
      BY <1>5, PacketFields, Constants DEF Inv, PacketsRecent, Recent, SendFrame, NothingOld
    <2> QED
      BY <1>2, <2>1
  <1>7. asm[s] # None => /\ asm[s].frame \in Nat
                         /\ asm[s].frame < f /\ asm[s].frame > f - Lag
    <2> SUFFICES ASSUME asm[s] # None
                 PROVE  asm[s].frame \in Nat /\ asm[s].frame < f /\ asm[s].frame > f - Lag
      OBVIOUS
    <2>1. asm[s].frame \in Frames
      BY AssemblerFields DEF Inv, AssemblersProper, Proper
    <2>2. asm[s].frame <= made[s] /\ asm[s].frame > made[s] + 1 - Lag
      BY DEF Inv, AssemblersProper, Proper, Recent, SendFrame, NothingOld
    <2>3. asm[s].frame \in Nat
      BY <2>1, Constants, Zenon
    <2> QED
      BY <1>2, <2>1, <2>2, <2>3
  <1> HIDE DEF sent
  <1>8. up' \cup down' = (up \cup down) \cup sent
    BY <1>1 DEF SendFrame, sent
  <1>9. Shape'
    BY <1>1, <1>2, <1>3, <1>4 DEF SendFrame, Inv, Shape, sent
  <1>10. PacketsRecent'
    <2>1. \A m \in down' : m.count <= MaxChunks
      BY DEF Inv, PacketsRecent, SendFrame
    <2>2. ASSUME NEW m \in up' \cup down' PROVE Recent(m.sender, m.frame)'
      <3>1. CASE m \in sent
        BY <1>2, <1>3, <1>4, <3>1 DEF Recent
      <3>2. CASE m \in up \cup down /\ m.sender = s
        <4>1. m.frame \in Nat
          BY <1>5, <3>2, PacketFields, Constants
        <4> QED
          BY <1>2, <1>3, <1>6, <3>2, <4>1 DEF Recent
      <3>3. CASE m \in up \cup down /\ m.sender # s
        BY <1>3, <1>5, <3>3 DEF Inv, PacketsRecent, Recent
      <3> QED
        BY <1>8, <3>1, <3>2, <3>3
    <2> QED
      BY <2>1, <2>2 DEF PacketsRecent
  <1>11. LastRecent'
    <2> SUFFICES ASSUME NEW t \in Senders
                 PROVE  last[t] <= made'[t] /\ (last[t] # 0 => made'[t] - last[t] < Half)
      BY DEF LastRecent, SendFrame
    <2>1. last[t] <= made[t] /\ (last[t] # 0 => made[t] - last[t] < Half)
      BY DEF Inv, LastRecent
    <2>2. last[s] \in Nat /\ last[t] \in Nat
      BY DEF Inv, Shape
    <2>3. last[s] # 0 => f - last[s] < Half
      <3>1. NothingOld(s)
        BY DEF SendFrame
      <3> QED
        BY <1>2, <2>2, <3>1 DEF NothingOld
    <2> QED
      BY <1>2, <1>3, <2>1, <2>2, <2>3
  <1>12. AssemblersProper'
    <2> SUFFICES ASSUME NEW t \in Senders, asm[t] # None
                 PROVE  Proper(t, asm[t])' /\ ~Complete(asm[t])
      BY DEF AssemblersProper, SendFrame, Complete
    <2>1. Proper(t, asm[t]) /\ ~Complete(asm[t])
      BY DEF Inv, AssemblersProper
    <2>2. Recent(t, asm[t].frame)'
      <3>1. asm' = asm
        BY DEF SendFrame
      <3>2. CASE t = s
        BY <1>2, <1>3, <1>7, <3>1, <3>2 DEF Recent
      <3>3. CASE t # s
        BY <1>3, <2>1, <3>1, <3>3 DEF Proper, Recent
      <3> QED
        BY <3>2, <3>3
    <2> QED
      BY <2>1, <2>2 DEF Proper, SendFrame
  <1>13. CountsAgree'
    <2>1. size'[s] = n /\ \A t \in Senders : t # s => size'[t] = size[t]
      BY <1>1 DEF Inv, Shape
    <2>2. asm' = asm
      BY DEF SendFrame
    <2>3. \A m, k \in up' \cup down' : m.sender = k.sender /\ m.frame = k.frame => m.count = k.count
      <3>1. \A m \in up \cup down, k \in sent : ~(m.sender = k.sender /\ m.frame = k.frame)
        <4> SUFFICES ASSUME NEW m \in up \cup down, m.sender = s PROVE m.frame # f
          BY <1>4
        <4>1. m.frame \in Nat /\ m.frame < f
          BY <1>5, <1>6, PacketFields, Constants
        <4> QED
          BY <1>2, <4>1
      <3> QED
        BY <1>4, <1>8, <3>1 DEF Inv, CountsAgree
    <2>4. \A m \in up' \cup down' : m.frame = made'[m.sender] => m.count = size'[m.sender]
      <3> SUFFICES ASSUME NEW m \in up \cup down, m.frame = made'[m.sender]
                   PROVE  m.count = size'[m.sender]
        BY <1>3, <1>4, <1>8, <2>1
      <3>1. m.frame \in Nat /\ (m.sender = s => m.frame < f)
        BY <1>5, <1>6, PacketFields, Constants
      <3>2. m.sender # s
        BY <1>2, <1>3, <3>1
      <3> QED
        BY <1>3, <1>5, <2>1, <3>2 DEF Inv, CountsAgree
    <2>5. ASSUME NEW t \in Senders, asm[t] # None
          PROVE  /\ asm[t].frame = made'[t] => asm[t].count = size'[t]
                 /\ \A m \in up' \cup down' :
                        m.sender = t /\ m.frame = asm[t].frame => m.count = asm[t].count
      <3>1. CASE t = s
        <4>1. asm[s].frame \in Nat /\ asm[s].frame # f
          BY <1>2, <1>7, <2>5, <3>1
        <4> QED
          BY <1>3, <1>4, <1>8, <2>5, <3>1, <4>1 DEF Inv, CountsAgree
      <3>2. CASE t # s
        BY <1>3, <1>4, <1>8, <2>1, <2>5, <3>2 DEF Inv, CountsAgree
      <3> QED
        BY <3>1, <3>2
    <2> QED
      BY <2>2, <2>3, <2>4, <2>5 DEF CountsAgree
  <1>14. LastComes'
    <2> SUFFICES ASSUME NEW t \in Senders, made'[t] > 0
                 PROVE  /\ size'[t] > 0
                        /\ ~hurt'[t] /\ ~done'[t] =>
                              \A i \in 0 .. size'[t] - 1 :
                                  Packet(t, made'[t], size'[t], i) \in up' \cup down' \/ Stored(t, i)'
      BY DEF LastComes
    <2>1. CASE t = s
      <3>1. size'[s] = n
        BY <1>1 DEF Inv, Shape
      <3> QED
        BY <1>2, <1>3, <1>8, <2>1, <3>1 DEF sent
    <2>2. CASE t # s
      <3>1. /\ size'[t] = size[t] /\ made'[t] = made[t] /\ hurt'[t] = hurt[t] /\ done'[t] = done[t]
            /\ asm' = asm
        BY <1>1, <1>3, <2>2 DEF SendFrame, Inv, Shape
      <3>2. /\ size[t] > 0
            /\ ~hurt[t] /\ ~done[t] =>
                  \A i \in 0 .. size[t] - 1 :
                      Packet(t, made[t], size[t], i) \in up \cup down \/ Stored(t, i)
        BY <3>1 DEF Inv, LastComes
      <3> QED
        BY <1>8, <3>1, <3>2 DEF Stored
    <2> QED
      BY <2>1, <2>2
  <1>15. FramesIntact'
    BY DEF SendFrame, Inv, FramesIntact
  <1> QED
    BY <1>9, <1>10, <1>11, <1>12, <1>13, <1>14, <1>15 DEF Inv

LEMMA AbsorbInv ==
  ASSUME Inv, NEW r \in Receivers, NEW m \in down, Absorb(r, m)
  PROVE  Inv'
  <1> DEFINE s == m.sender
  <1>1. PICK stale \in SUBSET Begun :
          LET kept == [ t \in Senders |-> IF t \in stale THEN None ELSE asm[t] ]
              old == kept[s]
              entry == Store(IF Replaces(old, m) THEN Begin(m) ELSE old, m)
          IN  /\ Hurting(Unfinished(stale))
              /\ \/ /\ Ignored(old, m)
                    /\ asm' = kept
                    /\ UNCHANGED <<hand, done>>
                 \/ /\ ~Ignored(old, m) /\ ~Complete(entry)
                    /\ asm' = [ kept EXCEPT ![s] = entry ]
                    /\ UNCHANGED <<hand, done>>
                 \/ /\ ~Ignored(old, m) /\ Complete(entry)
                    /\ asm' = [ kept EXCEPT ![s] = None ]
                    /\ hand' = [ hand EXCEPT ![r] = [ sender |-> s, parts |-> entry.parts ] ]
                    /\ done' = [ done EXCEPT ![s] = @ \/ m.frame = made[s] ]
    BY DEF Absorb
  <1> DEFINE kept == [ t \in Senders |-> IF t \in stale THEN None ELSE asm[t] ]
             old == kept[s]
             entry == Store(IF Replaces(old, m) THEN Begin(m) ELSE old, m)
  <1>0. Hurting(Unfinished(stale))
    BY <1>1, Zenon
  <1>2. /\ m \in Packets /\ s \in Senders /\ m.frame \in Frames /\ m.frame \in Nat
        /\ m.count \in ChunkCounts /\ m.index \in 0 .. m.count - 1
        /\ Recent(s, m.frame) /\ m.count <= MaxChunks
        /\ m = Packet(s, m.frame, m.count, m.index)
    BY PacketFields, Constants DEF Inv, Shape, PacketsRecent
  <1>3. /\ hurt' \in [ Senders -> BOOLEAN ] /\ \A t \in Senders : hurt[t] => hurt'[t]
        /\ \A t \in stale : asm[t].frame = made[t] => hurt'[t]
    <2>1. \A t \in stale : [ sender |-> t, frame |-> asm[t].frame ] \in Unfinished(stale)
      BY DEF Unfinished
    <2> QED
      BY <1>0, <2>1, HurtingFacts DEF Inv, Begun
  <1>4. /\ made' = made /\ size' = size /\ up' = up /\ last' = last /\ latest' = latest
        /\ down' \subseteq down /\ \A k \in down : k = m \/ k \in down'
    BY DEF Absorb, Taken
  <1>5. \A t \in Senders : kept[t] # None => kept[t] = asm[t] /\ t \notin stale
    OBVIOUS
  <1>6. old # None => Proper(s, old) /\ (m.frame = old.frame => m.count = old.count)
    BY <1>2, <1>5 DEF Inv, AssemblersProper, CountsAgree
  <1>7. PacketsRecent' /\ LastRecent'
    BY <1>4 DEF Inv, PacketsRecent, LastRecent, Recent
  (* What is under assembly of other sharers. *)
  <1>8. ASSUME NEW t \in Senders, kept[t] # None
        PROVE  /\ Proper(t, kept[t]) /\ ~Complete(kept[t])
               /\ kept[t].frame = made[t] => kept[t].count = size[t]
               /\ \A k \in up \cup down :
                     k.sender = t /\ k.frame = kept[t].frame => k.count = kept[t].count
    <2>1. kept[t] = asm[t]
      BY <1>5, <1>8
    <2> QED
      BY <1>8, <2>1 DEF Inv, AssemblersProper, CountsAgree
  (* Chunks of the last frame are the chunk itself, in flight, or kept.    *)
  <1>9. ASSUME NEW t \in Senders, made[t] > 0, ~hurt'[t], ~done[t], NEW i \in 0 .. size[t] - 1
        PROVE  \/ Packet(t, made[t], size[t], i) \in up' \cup down'
               \/ Packet(t, made[t], size[t], i) = m
               \/ kept[t] # None /\ kept[t].frame = made[t] /\ kept[t].parts[i] # None
    <2>1. Packet(t, made[t], size[t], i) \in up \cup down \/ Stored(t, i)
      BY <1>3, <1>9 DEF Inv, LastComes
    <2>2. Stored(t, i) => kept[t] = asm[t]
      BY <1>3, <1>9 DEF Stored
    <2> QED
      BY <1>4, <2>1, <2>2 DEF Stored
  <1>10. \A t \in Senders : made[t] > 0 => size[t] > 0
    BY DEF Inv, LastComes
  <1>11. \A t \in Senders : \A i : Packet(t, made[t], size[t], i) = m =>
            t = s /\ m.frame = made[s] /\ m.index = i
    BY DEF Packet
  <1>12. \A k, l \in up' \cup down' : k.sender = l.sender /\ k.frame = l.frame => k.count = l.count
    BY <1>4 DEF Inv, CountsAgree
  <1>13. \A k \in up' \cup down' : k.frame = made[k.sender] => k.count = size[k.sender]
    BY <1>4 DEF Inv, CountsAgree
  <1> HIDE DEF kept
  <1>14. CASE Ignored(old, m) /\ asm' = kept /\ UNCHANGED <<hand, done>>
    <2>1. Shape'
      BY <1>3, <1>4, <1>14 DEF Inv, Shape
    <2>2. AssemblersProper'
      BY <1>4, <1>8, <1>14 DEF AssemblersProper, Proper, Recent
    <2>3. CountsAgree'
      BY <1>4, <1>8, <1>12, <1>13, <1>14 DEF CountsAgree
    <2>4. m.frame # made[s]
      <3>1. old # None /\ SeqNo(m.frame) # SeqNo(old.frame) /\ ~Newer(SeqNo(m.frame), SeqNo(old.frame))
        BY <1>14 DEF Ignored, Replaces
      <3>2. old.frame \in Frames /\ Recent(s, old.frame)
        BY <1>6, <3>1, AssemblerFields DEF Proper
      <3>3. m.frame # old.frame /\ ~(m.frame > old.frame)
        BY <1>2, <3>1, <3>2, RecentNewer DEF Inv
      <3>4. old.frame \in Nat /\ old.frame <= made[s] /\ made[s] \in Nat
        BY <1>2, <3>2, Constants DEF Recent, Inv, Shape
      <3> QED
        BY <1>2, <3>3, <3>4
    <2>5. LastComes'
      BY <1>4, <1>9, <1>10, <1>11, <1>14, <2>4 DEF LastComes, Stored
    <2>6. FramesIntact'
      BY <1>4, <1>14 DEF Inv, FramesIntact
    <2> QED
      BY <1>7, <2>1, <2>2, <2>3, <2>5, <2>6 DEF Inv
  <1>15. ~Ignored(old, m) =>
            /\ Proper(s, entry) /\ entry.frame = m.frame /\ entry.count = m.count
            /\ entry.parts[m.index] # None
            /\ old # None /\ old.frame = m.frame =>
                  \A i \in 0 .. m.count - 1 : old.parts[i] # None => entry.parts[i] # None
            /\ old # None => m.frame >= old.frame
    BY <1>2, <1>6, EntryProper DEF Inv
  <1>16. m.frame = made[s] => m.count = size[s]
    BY DEF Inv, CountsAgree
  <1>17. \A k \in up \cup down : k.sender = s /\ k.frame = m.frame => k.count = m.count
    BY DEF Inv, CountsAgree
  <1>18. DOMAIN kept = Senders
    BY DEF kept
  (* With the chunk stored, no older chunk of the last frame is forgotten. *)
  <1>19. ~Ignored(old, m) /\ old # None /\ old.frame = made[s] => m.frame = made[s]
    BY <1>2, <1>15 DEF Recent, Inv, Shape
  <1> HIDE DEF entry, old
  <1>20. CASE ~Ignored(old, m) /\ ~Complete(entry) /\ asm' = [ kept EXCEPT ![s] = entry ]
              /\ UNCHANGED <<hand, done>>
    <2>1. Shape'
      BY <1>3, <1>4, <1>20 DEF Inv, Shape
    <2>2. asm'[s] = entry /\ \A t \in Senders : t # s => asm'[t] = kept[t]
      BY <1>2, <1>18, <1>20
    <2>3. AssemblersProper'
      BY <1>4, <1>8, <1>15, <1>20, <2>2 DEF AssemblersProper, Proper, Recent
    <2>4. CountsAgree'
      BY <1>4, <1>8, <1>12, <1>13, <1>15, <1>16, <1>17, <1>20, <2>2 DEF CountsAgree
    <2>5. entry # None
      BY <1>15, <1>20, AssemblerFields DEF Proper
    <2>6. LastComes'
      <3> SUFFICES ASSUME NEW t \in Senders, made[t] > 0, ~hurt'[t], ~done[t],
                          NEW i \in 0 .. size[t] - 1
                   PROVE  Packet(t, made[t], size[t], i) \in up' \cup down' \/ Stored(t, i)'
        BY <1>4, <1>10, <1>20 DEF LastComes
      <3>1. CASE t # s
        BY <1>4, <1>9, <1>11, <2>2, <3>1 DEF Stored
      <3>2. CASE t = s /\ Packet(t, made[t], size[t], i) = m
        BY <1>4, <1>11, <1>15, <1>20, <2>2, <2>5, <3>2 DEF Stored
      <3>3. CASE t = s /\ old # None /\ old.frame = made[s] /\ old.parts[i] # None
        BY <1>4, <1>15, <1>16, <1>19, <1>20, <2>2, <2>5, <3>3 DEF Stored
      <3> QED
        BY <1>9, <3>1, <3>2, <3>3 DEF old
    <2>7. FramesIntact'
      BY <1>4, <1>20 DEF Inv, FramesIntact
    <2> QED
      BY <1>7, <2>1, <2>3, <2>4, <2>6, <2>7 DEF Inv
  <1>21. CASE /\ ~Ignored(old, m) /\ Complete(entry)
              /\ asm' = [ kept EXCEPT ![s] = None ]
              /\ hand' = [ hand EXCEPT ![r] = [ sender |-> s, parts |-> entry.parts ] ]
              /\ done' = [ done EXCEPT ![s] = @ \/ m.frame = made[s] ]
    <2>1. done' \in [ Senders -> BOOLEAN ] /\ \A t \in Senders : done[t] => done'[t]
      BY <1>2, <1>21 DEF Inv, Shape
    <2>2. Shape'
      BY <1>3, <1>4, <1>21, <2>1 DEF Inv, Shape
    <2>3. asm'[s] = None /\ \A t \in Senders : t # s => asm'[t] = kept[t]
      BY <1>2, <1>18, <1>21
    <2>4. AssemblersProper'
      BY <1>4, <1>8, <2>3 DEF AssemblersProper, Proper, Recent
    <2>5. CountsAgree'
      BY <1>4, <1>8, <1>12, <1>13, <2>3 DEF CountsAgree
    <2>6. m.frame = made[s] => done'[s]
      BY <1>2, <1>21 DEF Inv, Shape
    <2>7. LastComes'
      <3> SUFFICES ASSUME NEW t \in Senders, made[t] > 0, ~hurt'[t], ~done'[t],
                          NEW i \in 0 .. size[t] - 1
                   PROVE  Packet(t, made[t], size[t], i) \in up' \cup down' \/ Stored(t, i)'
        BY <1>4, <1>10 DEF LastComes
      <3>1. CASE t # s
        <4>1. ~done[t]
          BY <2>1
        <4>2. asm'[t] = kept[t] /\ Packet(t, made[t], size[t], i) # m
          BY <1>11, <2>3, <3>1
        <4>3. \/ Packet(t, made[t], size[t], i) \in up' \cup down'
              \/ kept[t] # None /\ kept[t].frame = made[t] /\ kept[t].parts[i] # None
          BY <1>9, <4>1, <4>2
        <4> QED
          BY <1>4, <4>2, <4>3 DEF Stored
      <3>2. CASE t = s
        <4>1. ~done[s] /\ m.frame # made[s]
          BY <1>2, <2>1, <2>6, <3>2
        <4>2. ~(old # None /\ old.frame = made[s])
          BY <1>19, <1>21, <4>1
        <4> QED
          BY <1>9, <1>11, <3>2, <4>1, <4>2 DEF old
      <3> QED
        BY <3>1, <3>2
    <2>8. Intact([ sender |-> s, parts |-> entry.parts ])
      <3>1. entry.parts = [ i \in 0 .. m.count - 1 |-> Packet(s, m.frame, m.count, i) ]
        <4>1. DOMAIN entry.parts = 0 .. m.count - 1
              /\ entry.parts = [ i \in 0 .. m.count - 1 |-> entry.parts[i] ]
          <5>1. PICK n \in ChunkCounts : entry \in Assemblers(n)
            BY <1>15, <1>21 DEF Proper
          <5>2. n = m.count /\ entry.parts \in [ 0 .. n - 1 -> Packets \cup {None} ]
            BY <1>15, <1>21, <5>1, AssemblerFields
          <5> QED
            BY <5>2
        <4>2. \A i \in 0 .. m.count - 1 : entry.parts[i] = Packet(s, m.frame, m.count, i)
          BY <1>15, <1>21, <4>1 DEF Proper, Complete
        <4> QED
          BY <4>1, <4>2
      <3> QED
        BY <1>2, <3>1 DEF Intact
    <2>9. FramesIntact'
      BY <1>4, <1>21, <2>8 DEF Inv, FramesIntact, Shape
    <2> QED
      BY <1>7, <2>2, <2>4, <2>5, <2>7, <2>9 DEF Inv
  <1> QED
    BY <1>1, <1>14, <1>20, <1>21 DEF old, entry, kept

-----------------------------------------------------------------------------
LEMMA NextInv == Inv /\ [Next]_vars => Inv'
  <1> SUFFICES ASSUME Inv, [Next]_vars PROVE Inv'
    OBVIOUS
  <1>1. CASE UNCHANGED vars
    BY <1>1 DEF vars, Inv, Shape, PacketsRecent, LastRecent, AssemblersProper, CountsAgree,
           LastComes, Proper, Recent, Stored, FramesIntact
  <1>2. CASE Next
    BY <1>2, SendFrameInv, LoseUpInv, RelayInv, RelayRefuseInv, LoseDownInv, AbsorbInv,
       StoreLatestInv, ShowInv, ExpireInv, ForgetInv DEF Next
  <1> QED
    BY <1>1, <1>2

LEMMA Invariance == Spec => []Inv
  BY InitInv, NextInv, PTL DEF Spec

(* The state keeps its shape, and no frame is begun that the assembler     *)
(* would have to give up for its size (ScreenChunkAssembler, net_control), *)
(* whatever the number of frames and wherever the sequence numbers wrap.   *)
THEOREM TypeCorrect == Spec => []TypeOK
  <1>1. Inv => TypeOK
    <2> SUFFICES ASSUME Inv PROVE TypeOK
      OBVIOUS
    <2>1. \A s \in Senders : asm[s] # None => AsmOK(s)
      BY DEF Inv, AssemblersProper, Proper, Recent, AsmOK
    <2> QED
      BY <2>1 DEF Inv, Shape, LastRecent, TypeOK
  <1> QED
    BY <1>1, Invariance, PTL

(* absorb_screen_chunk never puts chunks of different frames, or of        *)
(* different sharers, together, nor one of them in a wrong place.          *)
THEOREM FramesStayIntact == Spec => []FramesIntact
  <1>1. Inv => FramesIntact
    BY DEF Inv
  <1> QED
    BY <1>1, Invariance, PTL

(* A last frame of which no chunk is lost is put together: no reordering   *)
(* with chunks of older frames makes relay_screen_chunk or                 *)
(* absorb_screen_chunk prefer one of those, also across the wrap.          *)
THEOREM NewestFrameArrives == Spec => []NewestArrives
  <1>1. Inv => NewestArrives
    <2> SUFFICES ASSUME Inv, NEW s \in Senders, made[s] > 0, ~hurt[s], ~done[s],
                        \A m \in up \cup down : m.sender = s => m.frame # made[s]
                 PROVE  FALSE
      BY DEF NewestArrives
    <2>1. size[s] \in Nat /\ size[s] > 0
      BY DEF Inv, Shape, LastComes
    <2>2. \A i \in 0 .. size[s] - 1 : Packet(s, made[s], size[s], i) \notin up \cup down
      <3>1. \A i : Packet(s, made[s], size[s], i).sender = s /\ Packet(s, made[s], size[s], i).frame = made[s]
        BY DEF Packet
      <3> QED
        BY <3>1
    <2>3. \A i \in 0 .. size[s] - 1 : Stored(s, i)
      BY <2>2 DEF Inv, LastComes
    <2>4. asm[s] # None /\ asm[s].frame = made[s] /\ asm[s].count = size[s]
      <3>1. 0 \in 0 .. size[s] - 1
        BY <2>1
      <3> QED
        BY <2>3, <3>1 DEF Stored, Inv, CountsAgree
    <2>5. DOMAIN asm[s].parts = 0 .. size[s] - 1
      BY <2>4, AssemblerFields DEF Inv, AssemblersProper, Proper
    <2>6. Complete(asm[s])
      BY <2>3, <2>5 DEF Complete, Stored
    <2> QED
      BY <2>4, <2>6 DEF Inv, AssemblersProper
  <1> QED
    BY <1>1, Invariance, PTL
=============================================================================
