---------------------------- MODULE AudioSession ----------------------------
(***************************************************************************)
(* The desktop client's voice controls and its audio engine.               *)
(*                                                                         *)
(* The thread of the window runs callbacks, signals and ticks one after    *)
(* the other; whatever touches the engine is spawned on a runtime with two *)
(* workers and waits there for the engine's lock.  jobs holds what was     *)
(* spawned and has not run: two jobs may run in either order, and the      *)
(* window may go on in between.  A job that lets go of the lock half-way   *)
(* leaves another one behind for the rest.                                 *)
(*                                                                         *)
(* A job cannot touch the window: slint's Weak::upgrade gives nothing on   *)
(* another thread than the window's, so the code of a job under            *)
(* "if let Some(w) = window_weak.upgrade()" never runs.  What a job hands  *)
(* to slint::invoke_from_event_loop is a job of the window ("show").       *)
(***************************************************************************)
EXTENDS Integers, Sequences, SequencesExt, FiniteSetsExt

CONSTANTS
    VoiceMixes,    \* bounds: which requests are made, how often, how often devices fail
    MaxJobs        \* bound: jobs that wait at the same time

(* What the user and the server may ask for. *)
Asks ==
    { "enter", "leave", "leaveSpace", "putOut", "lose", "mute", "deafen", "mode", "key", "settings",
      "preview", "speaker", "hotplug" }

ASSUME AudioAssumption ==
    /\ VoiceMixes \subseteq [ asks : SUBSET Asks, calls : Nat, faults : Nat, sound : BOOLEAN ]
    /\ \A m \in VoiceMixes : m.sound => m.faults = 0     \* sound: no device ever fails

VARIABLES
    voice,         \* VoiceSession: muted, deafened, wasMuted, ptt
    face,          \* the window: started (audio_started), room (it has a room code),
                   \* view, preview, speaker, key (push-to-talk was held), and what it
                   \* shows of muted and deafened
    engine,        \* AudioEngine: open, live (is_capturing), wired, playing, deaf, and the
                   \* streams that are broken
    recovery,      \* AudioRecoveryState: tries, waiting, gaveUp
    jobs,          \* what was spawned, oldest first
    mix,           \* what this behaviour may do
    calm           \* history: no request was made before the jobs of the last one had run

audioVars == << voice, face, engine, recovery, jobs, mix, calm >>

MaxRetries == 5

Job(kind, on) == [ kind |-> kind, on |-> on ]

Spawn(new) == jobs' = jobs \o new

AudioInit ==
    /\ voice \in [ muted : {FALSE}, deafened : {FALSE}, wasMuted : {FALSE}, ptt : BOOLEAN ]
    /\ face = [ started |-> FALSE, room |-> FALSE, view |-> "home", preview |-> FALSE, speaker |-> FALSE,
                key |-> FALSE, muted |-> FALSE, deafened |-> FALSE ]
    /\ engine = [ open |-> FALSE, live |-> FALSE, wired |-> FALSE, playing |-> FALSE,
                  deaf |-> FALSE, broken |-> {} ]
    /\ recovery = [ tries |-> 0, waiting |-> 0, gaveUp |-> FALSE ]
    /\ jobs = <<>>
    /\ mix \in VoiceMixes
    /\ calm = TRUE

(* A request of the user, or a signal of the server, that starts work.     *)
May(ask) ==
    /\ ask \in mix.asks /\ mix.calls > 0
    /\ Len(jobs) < MaxJobs
    /\ mix' = [ mix EXCEPT !.calls = @ - 1 ]
    /\ calm' = (calm /\ jobs = <<>>)

-----------------------------------------------------------------------------
(* VoiceSession.                                                            *)

ToggledMute == [ voice EXCEPT !.muted = ~@ ]

ToggledDeafen ==
    IF voice.deafened
    THEN [ voice EXCEPT !.deafened = FALSE, !.muted = voice.wasMuted ]
    ELSE [ voice EXCEPT !.deafened = TRUE, !.wasMuted = voice.muted, !.muted = TRUE ]

ResetVoice == [ voice EXCEPT !.muted = FALSE, !.deafened = FALSE ]

-----------------------------------------------------------------------------
(* The engine, under its lock.  ok says whether the device could be opened. *)

StartCapture(e, ok) ==
    IF ok THEN [ e EXCEPT !.open = TRUE, !.live = TRUE, !.broken = @ \ { "capture" } ] ELSE e

StopCapture(e) == [ e EXCEPT !.open = FALSE, !.live = FALSE, !.wired = FALSE ]

(* Mutant: the stream is restarted by way of stop_capture. *)
RestartCaptureStopping(e, ok) == StartCapture(StopCapture(e), ok)

(* The callback is left in place, for the frames of the new stream. *)
RestartCapture(e, ok) == StartCapture([ e EXCEPT !.open = FALSE, !.live = FALSE ], ok)

StartPlayback(e, ok) ==
    IF ok THEN [ e EXCEPT !.playing = TRUE, !.broken = @ \ { "playback" } ] ELSE e

StopPlayback(e) == [ e EXCEPT !.playing = FALSE ]

RestartPlayback(e, ok) == StartPlayback(StopPlayback(e), ok)

StopAll(e) == StopPlayback(StopCapture(e))

-----------------------------------------------------------------------------
(* Signals and callbacks that begin or end a call.                          *)

StartAudioIfNeeded ==
    IF face.started THEN UNCHANGED jobs ELSE Spawn(<< Job("wire", FALSE) >>)

(* RoomCreated, RoomJoined and ChannelJoined. *)
EnterVoice ==
    /\ May("enter")
    /\ StartAudioIfNeeded
    /\ face' = [ face EXCEPT !.started = TRUE, !.room = TRUE, !.view = "room" ]
    /\ UNCHANGED << voice, engine, recovery >>

LeftFace == [ face EXCEPT !.started = FALSE, !.room = FALSE, !.key = FALSE, !.muted = FALSE,
                          !.deafened = FALSE, !.view = IF @ = "room" THEN "home" ELSE @ ]

(* The user leaves the room or the channel. *)
LeaveVoice ==
    /\ May("leave") /\ face.room
    /\ voice' = ResetVoice
    /\ face' = LeftFace
    /\ Spawn(<< Job("stop", FALSE) >>)
    /\ UNCHANGED << engine, recovery >>

(* The user leaves the space, and its channel with it. *)
LeaveSpaceToo ==
    /\ May("leaveSpace")
    /\ voice' = IF face.started THEN ResetVoice ELSE voice
    /\ face' = [ LeftFace EXCEPT !.view = "home" ]
    /\ Spawn(<< Job("stop", FALSE) >>)
    /\ UNCHANGED << engine, recovery >>

(* Mutant: the streams are left to the next call. *)
PutOutPlaying ==
    /\ May("putOut") /\ face.started
    /\ face' = [ LeftFace EXCEPT !.view = "home" ]
    /\ UNCHANGED << voice, engine, recovery, jobs >>

(* Kicked, banned, the space or the channel gone: VoiceSession keeps what   *)
(* it had.                                                                 *)
PutOut ==
    /\ May("putOut") /\ face.started
    /\ face' = [ LeftFace EXCEPT !.view = "home" ]
    /\ Spawn(<< Job("stop", FALSE) >>)
    /\ UNCHANGED << voice, engine, recovery >>

(* The connection is lost: the room stays on the screen. *)
LoseConnection ==
    /\ May("lose") /\ face.started
    /\ face' = [ face EXCEPT !.started = FALSE, !.key = FALSE ]
    /\ Spawn(<< Job("stop", FALSE) >>)
    /\ UNCHANGED << voice, engine, recovery >>

-----------------------------------------------------------------------------
(* Voice controls.                                                          *)

ShowVoice(v) == [ face EXCEPT !.muted = v.muted, !.deafened = v.deafened ]

ToggleMute ==
    /\ May("mute") /\ face.room
    /\ voice' = ToggledMute
    /\ face' = [ face EXCEPT !.muted = voice'.muted ]
    /\ Spawn(<< Job("setMuted", voice'.muted) >>)
    /\ UNCHANGED << engine, recovery >>

ToggleDeafen ==
    /\ May("deafen") /\ face.room
    /\ voice' = ToggledDeafen
    /\ face' = ShowVoice(voice')
    /\ Spawn(<< [ kind |-> "setDeafened", on |-> voice'.deafened, muted |-> voice'.muted ] >>)
    /\ UNCHANGED << engine, recovery >>

ToggleMicMode ==
    /\ May("mode")
    /\ voice' = [ voice EXCEPT !.ptt = ~@, !.muted = ~voice.ptt \/ voice.deafened ]
    /\ face' = [ face EXCEPT !.muted = voice'.muted ]
    /\ Spawn(<< Job("setMuted", voice'.muted) >>)
    /\ UNCHANGED << engine, recovery >>

(* The push-to-talk key goes down or up, seen by a tick of a call. *)
PttKey ==
    /\ May("key") /\ face.started /\ voice.ptt
    /\ voice' = [ voice EXCEPT !.muted = face.key \/ voice.deafened ]
    /\ face' = [ face EXCEPT !.key = ~@, !.muted = voice'.muted ]
    /\ Spawn(<< Job("setMuted", voice'.muted) >>)
    /\ UNCHANGED << engine, recovery >>

-----------------------------------------------------------------------------
(* The settings, with their checks of the devices.                          *)

OpenSettings ==
    /\ May("settings") /\ face.view # "settings"
    /\ face' = [ face EXCEPT !.view = "settings" ]
    /\ UNCHANGED << voice, engine, recovery, jobs >>

(* auto_save_settings swaps the devices of a call; a mic check is stopped,  *)
(* and what the job says of that never reaches the window.                 *)
LeaveSettings ==
    /\ May("settings") /\ face.view = "settings"
    /\ \E v \in { "home", "room" } :
          /\ v = "room" => face.room
          /\ face' = [ face EXCEPT !.view = v ]
    /\ Spawn(<< Job("swap", face.started) >>
             \o (IF face.preview THEN << Job("stopCapture", FALSE) >> ELSE <<>>)
             \o (IF face.speaker /\ ~face.started THEN << Job("stopPlayback", FALSE) >> ELSE <<>>))
    /\ UNCHANGED << voice, engine, recovery >>

TogglePreview ==
    /\ May("preview") /\ face.view = "settings" /\ ~face.started
    /\ Spawn(<< Job("preview", ~face.preview) >>)
    /\ UNCHANGED << voice, face, engine, recovery >>

SpeakerTest ==
    /\ May("speaker") /\ face.view = "settings" /\ ~face.speaker
    /\ face' = [ face EXCEPT !.speaker = TRUE ]
    /\ Spawn(<< Job("speaker", ~face.started) >>)
    /\ UNCHANGED << voice, engine, recovery >>

-----------------------------------------------------------------------------
(* Devices that fail, and the tick that looks after them in a call.         *)

DeviceFails ==
    /\ mix.faults > 0
    /\ mix' = [ mix EXCEPT !.faults = @ - 1 ]
    /\ \E stream \in { "capture", "playback" } \ engine.broken :
          /\ IF stream = "capture" THEN engine.open ELSE engine.playing
          /\ engine' = [ engine EXCEPT !.broken = @ \union { stream } ]
    /\ UNCHANGED << voice, face, recovery, jobs, calm >>

(* After the fifth try the recovery gives up for good. *)
Retried ==
    IF recovery.tries + 1 >= MaxRetries
    THEN [ recovery EXCEPT !.tries = @ + 1, !.gaveUp = TRUE ]
    ELSE [ recovery EXCEPT !.tries = @ + 1, !.waiting = 1 ]

CheckAudioRecovery ==
    /\ face.started /\ ~recovery.gaveUp
    /\ Len(jobs) < MaxJobs
    /\ IF recovery.waiting > 0
       THEN recovery' = [ recovery EXCEPT !.waiting = @ - 1 ] /\ UNCHANGED jobs
       ELSE IF engine.broken # {}
       THEN recovery' = Retried /\ Spawn(<< Job("recover", FALSE) >>)
       ELSE /\ recovery.tries > 0
            /\ recovery' = [ tries |-> 0, waiting |-> 0, gaveUp |-> FALSE ]
            /\ UNCHANGED jobs
    /\ UNCHANGED << voice, face, engine, mix, calm >>

(* Streams that broke are opened again, on the default device.             *)
Recovered(e, mic, speakers) ==
    LET captured == IF "capture" \in e.broken THEN RestartCapture(e, mic) ELSE e
    IN  IF "playback" \in e.broken THEN RestartPlayback(captured, speakers) ELSE captured

(* A saved device is unplugged or comes back: the stream is restarted.      *)
Hotplug ==
    /\ May("hotplug") /\ face.started /\ ~recovery.gaveUp /\ recovery.waiting = 0
    /\ \E kind \in { "restartCapture", "restartPlayback" } : Spawn(<< Job(kind, FALSE) >>)
    /\ UNCHANGED << voice, face, engine, recovery >>

-----------------------------------------------------------------------------
(* Jobs.  A device can be opened unless faults are left to happen.          *)

Opens(ok) == ok \/ mix.faults > 0

CountFault(oks) == mix' = [ mix EXCEPT !.faults = Max({ 0, @ - (IF oks THEN 0 ELSE 1) }) ]

(* The first half of start_audio_if_needed: the callback is set before      *)
(* anything is captured.  The lock is free again before the second half.   *)
Wire(i) ==
    /\ jobs[i].kind = "wire"
    /\ engine' = [ engine EXCEPT !.wired = TRUE ]
    /\ jobs' = ReplaceAt(jobs, i, Job("open", FALSE))
    /\ UNCHANGED << voice, face, recovery, mix >>

RunOpen(i) ==
    /\ jobs[i].kind = "open"
    /\ \E mic, speakers \in BOOLEAN :
          /\ Opens(mic /\ speakers)
          /\ engine' = StartPlayback(StartCapture(engine, mic), speakers)
          /\ CountFault(mic /\ speakers)
    /\ jobs' = RemoveAt(jobs, i)
    /\ UNCHANGED << voice, face, recovery >>

RunStop(i) ==
    /\ jobs[i].kind \in { "stop", "stopCapture", "stopPlayback" }
    /\ engine' = CASE jobs[i].kind = "stop" -> StopAll(engine)
                   [] jobs[i].kind = "stopCapture" -> StopCapture(engine)
                   [] OTHER -> StopPlayback(engine)
    /\ jobs' = RemoveAt(jobs, i)
    /\ UNCHANGED << voice, face, recovery, mix >>

RunControl(i) ==
    /\ \/ /\ jobs[i].kind = "setMuted"
          /\ engine' = [ engine EXCEPT !.live = ~jobs[i].on ]
       \/ /\ jobs[i].kind = "setDeafened"
          /\ engine' = [ engine EXCEPT !.live = ~jobs[i].muted, !.deaf = jobs[i].on ]
    /\ jobs' = RemoveAt(jobs, i)
    /\ UNCHANGED << voice, face, recovery, mix >>

RunRestart(i) ==
    /\ jobs[i].kind \in { "swap", "restartCapture", "restartPlayback", "recover" }
    /\ \E mic, speakers \in BOOLEAN :
          /\ Opens(mic /\ speakers)
          /\ engine' = CASE jobs[i].kind = "swap" /\ jobs[i].on ->
                                RestartPlayback(RestartCapture(engine, mic), speakers)
                         [] jobs[i].kind = "restartCapture" -> RestartCapture(engine, mic)
                         [] jobs[i].kind = "restartPlayback" -> RestartPlayback(engine, speakers)
                         [] jobs[i].kind = "recover" -> Recovered(engine, mic, speakers)
                         [] OTHER -> engine
          /\ CountFault(mic /\ speakers)
    /\ jobs' = RemoveAt(jobs, i)
    /\ UNCHANGED << voice, face, recovery >>

RunPreview(i) ==
    /\ jobs[i].kind = "preview"
    /\ \E mic \in BOOLEAN :
          /\ Opens(mic) /\ (mic \/ jobs[i].on)
          /\ engine' = IF jobs[i].on THEN StartCapture(engine, mic) ELSE StopCapture(engine)
          /\ jobs' = ReplaceAt(jobs, i, [ kind |-> "show", on |-> jobs[i].on /\ mic,
                                          what |-> "preview" ])
          /\ CountFault(mic)
    /\ UNCHANGED << voice, face, recovery >>

(* The tone is played on a stream of its own unless a call was on. *)
RunSpeaker(i) ==
    /\ jobs[i].kind = "speaker"
    /\ \E speakers \in BOOLEAN :
          /\ Opens(speakers) /\ (speakers \/ jobs[i].on)
          /\ engine' = IF jobs[i].on THEN StartPlayback(engine, speakers) ELSE engine
          /\ jobs' = ReplaceAt(jobs, i,
                         IF jobs[i].on /\ speakers THEN Job("speakerEnd", TRUE)
                         ELSE [ kind |-> "show", on |-> FALSE, what |-> "speaker" ])
          /\ CountFault(speakers)
    /\ UNCHANGED << voice, face, recovery >>

RunSpeakerEnd(i) ==
    /\ jobs[i].kind = "speakerEnd"
    /\ engine' = StopPlayback(engine)
    /\ jobs' = ReplaceAt(jobs, i, [ kind |-> "show", on |-> FALSE, what |-> "speaker" ])
    /\ UNCHANGED << voice, face, recovery, mix >>

ShowInWindow(i) ==
    /\ jobs[i].kind = "show"
    /\ face' = IF jobs[i].what = "preview" THEN [ face EXCEPT !.preview = jobs[i].on ]
               ELSE [ face EXCEPT !.speaker = jobs[i].on ]
    /\ jobs' = RemoveAt(jobs, i)
    /\ UNCHANGED << voice, engine, recovery, mix >>

RunJob(i) ==
    /\ \/ Wire(i) \/ RunOpen(i) \/ RunStop(i) \/ RunControl(i) \/ RunRestart(i)
       \/ RunPreview(i) \/ RunSpeaker(i) \/ RunSpeakerEnd(i) \/ ShowInWindow(i)
    /\ UNCHANGED calm

AudioNext ==
    \/ EnterVoice \/ LeaveVoice \/ LeaveSpaceToo \/ PutOut \/ LoseConnection
    \/ ToggleMute \/ ToggleDeafen \/ ToggleMicMode \/ PttKey
    \/ OpenSettings \/ LeaveSettings \/ TogglePreview \/ SpeakerTest
    \/ DeviceFails \/ CheckAudioRecovery \/ Hotplug
    \/ \E i \in DOMAIN jobs : RunJob(i)

AudioSpec == AudioInit /\ [][AudioNext]_audioVars

-----------------------------------------------------------------------------
Settled == jobs = <<>>

(* When no call, mic check or speaker test is on and everything that was    *)
(* spawned has run, no device is open, provided that each request waited    *)
(* for the last one's jobs: stopping is left to half a dozen handlers, and  *)
(* the restarts of the settings and of the recovery must not undo it.       *)
QuietOutsideCalls ==
    calm /\ Settled /\ ~face.started /\ ~face.preview /\ ~face.speaker =>
        ~engine.open /\ ~engine.playing

(* In a call, and with no mic check marked as running, the microphone is    *)
(* open and wired to the network and the speakers play, whatever devices    *)
(* were swapped, checked or unplugged since it began, provided again that   *)
(* requests waited for each other, and that devices work.                   *)
CallIsWired ==
    calm /\ Settled /\ face.started /\ ~face.preview /\ mix.sound =>
        engine.open /\ engine.wired /\ engine.playing

(* voice_engine/src/lib.rs:3 says of VoiceSession that it is the "Single    *)
(* source of truth for voice controls - UI and audio engine read from       *)
(* here": in a call, once everything spawned has run, the engine captures   *)
(* only what is not muted, and plays unless deafened.                       *)
EngineFollowsVoice ==
    calm /\ Settled /\ face.started =>
        /\ voice.muted => ~(engine.open /\ engine.live)
        /\ engine.deaf = voice.deafened
=============================================================================
