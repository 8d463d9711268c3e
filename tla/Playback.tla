------------------------------ MODULE Playback ------------------------------
(***************************************************************************)
(* The buffers of the peers one hears, and the playback callback's copy of *)
(* the list of them.                                                       *)
(*                                                                         *)
(* The engine works under its own lock, one operation at a time.  The      *)
(* callback may not wait, so it keeps a copy of the list and takes a new   *)
(* one when a generation counter has changed; when it cannot get the lock  *)
(* of the list it still remembers the generation it has seen.              *)
(***************************************************************************)
EXTENDS Integers

CONSTANTS
    Peers,         \* who is heard
    NoBuffer,      \* a peer with none
    MaxBuffers,    \* bound: buffers ever made
    MaxStarts,     \* bound: times the stream is started
    MaxStops       \* bound: times it is stopped

VARIABLES
    buffer,        \* peer_buffers: the buffer of each peer, or NoBuffer
    list,          \* playback_peers
    generation,    \* playback_generation
    syncing,       \* where sync_playback_peers is: "idle", "sync", "locked" or "stored"
    stream,        \* the callback: "off", "idle" or "refresh"
    seen,          \* the generation it has loaded
    localGen,      \* local_gen
    local,         \* local_peers
    bufferCount, starts, stops   \* counters of the bounds

playbackVars ==
    << buffer, list, generation, syncing, stream, seen, localGen, local, bufferCount, starts, stops >>
theCallback == << stream, seen, localGen, local >>

Live == { buffer[p] : p \in Peers } \ { NoBuffer }

PlaybackInit ==
    /\ buffer = [ p \in Peers |-> NoBuffer ]
    /\ list = {} /\ generation = 0
    /\ syncing = "idle" /\ stream = "off"
    /\ seen = 0 /\ localGen = 0 /\ local = {}
    /\ bufferCount = 0 /\ starts = 0 /\ stops = 0

-----------------------------------------------------------------------------
(* The engine. *)

(* sync_playback_peers takes the lock of the list, *)
LockList ==
    /\ syncing = "sync"
    /\ syncing' = "locked"
    /\ UNCHANGED << buffer, list, generation, theCallback, bufferCount, starts, stops >>

(* writes it and lets go, *)
StoreList ==
    /\ syncing = "locked"
    /\ list' = Live
    /\ syncing' = "stored"
    /\ UNCHANGED << buffer, generation, theCallback, bufferCount, starts, stops >>

(* and tells the callback. *)
Bump ==
    /\ syncing = "stored"
    /\ generation' = generation + 1
    /\ syncing' = "idle"
    /\ UNCHANGED << buffer, list, theCallback, bufferCount, starts, stops >>

(* decode_and_queue of a frame of a peer that has no buffer: one that is   *)
(* new, or one that has left when audio comes late.  (Another frame goes   *)
(* to the ring of the peer and changes nothing here.)                      *)
DecodeAndQueue(p) ==
    /\ syncing = "idle" /\ buffer[p] = NoBuffer /\ bufferCount < MaxBuffers
    /\ bufferCount' = bufferCount + 1
    /\ buffer' = [ buffer EXCEPT ![p] = bufferCount' ]
    /\ syncing' = "sync"
    /\ UNCHANGED << list, generation, theCallback, starts, stops >>

(* remove_peer.  (handle_peer_left does nothing at all when the engine is  *)
(* locked, which is no step here.)                                         *)
RemovePeer(p) ==
    /\ syncing = "idle" /\ buffer[p] # NoBuffer
    /\ buffer' = [ buffer EXCEPT ![p] = NoBuffer ]
    /\ syncing' = "sync"
    /\ UNCHANGED << list, generation, theCallback, bufferCount, starts, stops >>

(* start_playback: a callback with nothing in hand, *)
StartStream ==
    /\ syncing = "idle" /\ stream = "off" /\ starts < MaxStarts
    /\ starts' = starts + 1
    /\ stream' = "idle" /\ localGen' = 0 /\ local' = {}
    /\ UNCHANGED << buffer, list, generation, syncing, seen, bufferCount, stops >>

(* stop_playback: the stream goes before the lists.  It is also called     *)
(* when there is no stream.                                                *)
StopStream ==
    /\ syncing = "idle" /\ stops < MaxStops
    /\ stops' = stops + 1
    /\ stream' = "off"
    /\ buffer' = [ p \in Peers |-> NoBuffer ]
    /\ list' = {}
    /\ generation' = generation + 1
    /\ UNCHANGED << syncing, seen, localGen, local, bufferCount, starts >>

-----------------------------------------------------------------------------
(* The callback. *)

(* Mutant: the generation is loaded again, after the list was looked at. *)
SeenLate == generation

(* What it remembers to have seen: the generation it went by. *)
Seen == seen

LoadGeneration ==
    /\ stream = "idle"
    /\ seen' = generation
    /\ stream' = "refresh"
    /\ UNCHANGED << buffer, list, generation, syncing, localGen, local, bufferCount, starts, stops >>

(* It takes the list if it may, and then mixes every ring of its copy, or  *)
(* empties them when deafened (module SpscRing).                           *)
Mix ==
    /\ stream = "refresh"
    /\ local' = IF seen # localGen /\ syncing # "locked" THEN list ELSE local
    /\ localGen' = Seen
    /\ stream' = "idle"
    /\ UNCHANGED << buffer, list, generation, syncing, seen, bufferCount, starts, stops >>

PlaybackNext ==
    \/ LockList \/ StoreList \/ Bump
    \/ \E p \in Peers : DecodeAndQueue(p) \/ RemovePeer(p)
    \/ StartStream \/ StopStream
    \/ LoadGeneration \/ Mix

PlaybackSpec == PlaybackInit /\ [][PlaybackNext]_playbackVars

-----------------------------------------------------------------------------
(* Property: a callback that finds no new generation has the buffers of    *)
(* exactly the peers that have one, whoever came, left or came back        *)
(* meanwhile and however often it found the list locked: nobody goes       *)
(* unheard and no buffer of a departed peer is still mixed.                *)
SnapshotFresh ==
    stream = "idle" /\ syncing = "idle" /\ localGen = generation => local = Live
=============================================================================
