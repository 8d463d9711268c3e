--------------------------- MODULE VoicePresence ---------------------------
(***************************************************************************)
(* What the voice channels promise, without locks, lists or connections:   *)
(* a peer is in at most one channel at a time, a channel admits no more    *)
(* than its user limit, and its one sharing slot belongs to somebody who   *)
(* is in the channel and who gives it back before going.                   *)
(***************************************************************************)
EXTENDS Integers, FiniteSets

CONSTANTS
    Peers, Channels,
    UserLimit,    \* a natural number, 0 for no limit
    None          \* neither a peer nor a channel

VARIABLES
    where,    \* the channel a peer is in, or None
    slot      \* the peer that shares its screen in a channel, or None

vars == <<where, slot>>

Occupants(c) == { p \in Peers : where[p] = c }

Init ==
    /\ where = [ p \in Peers |-> None ]
    /\ slot = [ c \in Channels |-> None ]

Enter(p, c) ==
    /\ where[p] = None
    /\ UserLimit > 0 => Cardinality(Occupants(c)) < UserLimit
    /\ where' = [ where EXCEPT ![p] = c ]
    /\ UNCHANGED slot

Leave(p) ==
    /\ where[p] # None /\ slot[where[p]] # p
    /\ where' = [ where EXCEPT ![p] = None ]
    /\ UNCHANGED slot

TakeSlot(p) ==
    /\ where[p] # None /\ slot[where[p]] = None
    /\ slot' = [ slot EXCEPT ![where[p]] = p ]
    /\ UNCHANGED where

FreeSlot(p) ==
    /\ where[p] # None /\ slot[where[p]] = p
    /\ slot' = [ slot EXCEPT ![where[p]] = None ]
    /\ UNCHANGED where

Next ==
    \E p \in Peers :
        \/ \E c \in Channels : Enter(p, c)
        \/ Leave(p) \/ TakeSlot(p) \/ FreeSlot(p)

Spec == Init /\ [][Next]_vars
=============================================================================
