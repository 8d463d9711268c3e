------------------------------- MODULE MCChat -------------------------------
(***************************************************************************)
(* Messages, and the lock of the server's state: they share nothing here,  *)
(* so a behaviour takes the steps of one of them (focus).  One of messages *)
(* keeps to one of a few sets of requests, each with those that meet in    *)
(* the same state.                                                         *)
(***************************************************************************)
EXTENDS Chat, StateLock

Handlers == INSTANCE LockPrograms

VARIABLE focus

CONSTANTS ann, bob

Bounds(asks, peers, chans, ids, seconds) ==
    [ asks |-> asks, peers |-> peers, chans |-> chans, ids |-> ids, seconds |-> seconds ]

both == {ann, bob}

ChatMixes ==
    { Bounds({ "Text", "Delete", "Crash" }, both, {1}, 2, 0),
      Bounds({ "Text", "Delete", "React", "Crash" }, both, {1}, 1, 0),
      Bounds({ "Upload", "Delete", "Forward", "Crash" }, both, {1}, 3, 0),
      Bounds({ "Schedule", "Cancel", "DeleteChannel", "Tick", "Crash" }, {ann}, {1, 2}, 2, 1),
      Bounds({ "Text", "VoiceNote", "Tick" }, {ann}, {2}, 4, 4),
      Bounds({ "Text", "CreateChannel", "DeleteChannel", "Crash" }, both, {1, 3}, 2, 0),
      Bounds({ "Direct", "EditDirect", "DeleteDirect", "Crash" }, both, {}, 2, 0),
      Bounds({ "Direct", "DeleteDirect", "ReactDirect", "Crash" }, both, {}, 1, 0),
      Bounds({ "CreateGroup", "Group" }, both, {}, 3, 0),
      Bounds({ "Text", "Edit", "Pin", "MarkRead" }, both, {1}, 1, 0),
      Bounds({ "Text", "Sweep", "Tick", "Crash" }, {ann}, {1, 2}, 3, 2) }

(* bob may not post in the second channel. *)
ChatSilenced == { <<bob, 2>> }

ChatFriends == { {ann, bob} }

(* Handlers that take one guard at a time.  Those of LockPrograms that are *)
(* not among them (deleteChannel, getThread, disconnect) take a second one *)
(* inside a section.                                                       *)
SoundTasks == { "relay", "sweeper", "joinChannel", "deleteSpace" }

SoundProgram == [ t \in SoundTasks |-> Handlers!Programs[t] ]
SoundMissing == [ t \in SoundTasks |-> Handlers!MissingPrograms[t] ]

ServerInit ==
    /\ focus \in { "chat", "lock" }
    /\ Init /\ LockInit
    /\ focus = "lock" => mix = Bounds({ "Text", "VoiceNote", "Tick" }, {ann}, {2}, 4, 4)

ServerNext ==
    \/ focus = "chat" /\ Next /\ UNCHANGED << lockVars, focus >>
    \/ focus = "lock" /\ LockNext /\ UNCHANGED << vars, focus >>

(* Fairness and the condition of FairLockSpec, each for its own focus.     *)
ServerFairness ==
    /\ WF_vars(focus = "chat" /\ FetchDue)
    /\ WF_vars(focus = "chat" /\ \E r \in due : Deliver(r))
    /\ WF_vars(focus = "chat" /\ \E t \in tasks : RunTask(t))
    /\ WF_vars(focus = "chat" /\ Tick)
    /\ \A t \in Tasks : WF_lockVars(focus = "lock" /\ Go(t))

ServerSpec ==
    ServerInit /\ [][ServerNext]_<< vars, lockVars, focus >> /\ ServerFairness
=============================================================================
