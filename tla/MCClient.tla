------------------------------ MODULE MCClient ------------------------------
(***************************************************************************)
(* The desktop client: screen frames put together, the audio engine behind *)
(* the voice controls, the ring a peer's audio goes through, the list of   *)
(* the rings that are mixed, the buffers of captured audio, and the link   *)
(* to the server.  They share nothing here, so a behaviour takes the steps *)
(* of one (focus).                                                         *)
(***************************************************************************)
EXTENDS ScreenChunks, AudioSession, SpscRing, Playback, FramePool, ClientLink, TLC

CONSTANTS ws, udp

VARIABLE focus

(* The two tasks that read packets do the same. *)
ReceiverSymmetry == Permutations({ws, udp})

Wants(asks, calls, faults) ==
    [ asks |-> asks, calls |-> calls, faults |-> faults, sound |-> faults = 0 ]

ClientMixes ==
    { Wants({ "enter", "leave", "leaveSpace", "putOut", "lose", "settings", "preview", "speaker" }, 6, 0),
      Wants({ "enter", "leave", "putOut", "hotplug", "settings" }, 5, 2),
      Wants({ "enter", "mute", "deafen", "mode", "key", "leave" }, 5, 0) }

ClientInit ==
    /\ focus \in { "screen", "audio", "ring", "playback", "pool", "link" }
    /\ Init /\ AudioInit /\ RingInit /\ PlaybackInit /\ PoolInit /\ LinkInit
    /\ focus # "audio" => mix = Wants({ "enter", "leave", "putOut", "hotplug", "settings" }, 5, 2) /\ ~voice.ptt

ClientNext ==
    \/ focus = "screen" /\ Next
       /\ UNCHANGED << audioVars, ringVars, playbackVars, poolVars, linkVars, focus >>
    \/ focus = "audio" /\ AudioNext
       /\ UNCHANGED << vars, ringVars, playbackVars, poolVars, linkVars, focus >>
    \/ focus = "ring" /\ RingNext
       /\ UNCHANGED << vars, audioVars, playbackVars, poolVars, linkVars, focus >>
    \/ focus = "playback" /\ PlaybackNext
       /\ UNCHANGED << vars, audioVars, ringVars, poolVars, linkVars, focus >>
    \/ focus = "pool" /\ PoolNext
       /\ UNCHANGED << vars, audioVars, ringVars, playbackVars, linkVars, focus >>
    \/ focus = "link" /\ LinkNext
       /\ UNCHANGED << vars, audioVars, ringVars, playbackVars, poolVars, focus >>

ClientSpec ==
    /\ ClientInit
    /\ [][ClientNext]_<< vars, audioVars, ringVars, playbackVars, poolVars, linkVars, focus >>
=============================================================================
