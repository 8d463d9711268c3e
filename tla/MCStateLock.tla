---------------------------- MODULE MCStateLock ----------------------------
(***************************************************************************)
(* An instance of StateLock for TLC: a task is named for the handler it runs. *)
(***************************************************************************)
EXTENDS StateLock, LockPrograms

(* A peer that goes while the sweeper runs. *)
DisconnectTasks == { "sweeper", "disconnect" }

ProgramOf == [ t \in Tasks |-> Programs[t] ]
OnMissingOf == [ t \in Tasks |-> MissingPrograms[t] ]
=============================================================================
