------------------------------- MODULE DbConn -------------------------------
(***************************************************************************)
(* The one connection to the database, behind a std::sync::Mutex.          *)
(*                                                                         *)
(* A handler runs a method of Database on a thread of the blocking pool    *)
(* (spawn_blocking).  A method is known here by what it does with the      *)
(* connection, in order: it locks it, runs a statement, and lets its guard *)
(* go, once or several times.  The mutex is not reentrant, and lets any of *)
(* those that wait go on.  A thread that panics in a statement lets its    *)
(* guards go, and the mutex is as good as before: lock_conn takes the      *)
(* guard out of the poison.                                                *)
(***************************************************************************)
EXTENDS Naturals, Sequences

CONSTANTS
    Threads,  \* threads of the blocking pool
    Calls,    \* names of methods
    Method,   \* what each does: call |-> sequence of steps
    Nobody    \* not a thread

VARIABLES
    running,  \* the call each thread runs, Nobody for none
    at,       \* the step it is at
    holder    \* the thread whose guard locks the connection

vars == << running, at, holder >>

Busy(t) == running[t] # Nobody

(* The step t takes next, "end" behind the last one. *)
Step(t) == IF at[t] <= Len(Method[running[t]]) THEN Method[running[t]][at[t]] ELSE "end"

Init ==
    /\ running = [ t \in Threads |-> Nobody ]
    /\ at = [ t \in Threads |-> 1 ]
    /\ holder = Nobody

Begin(t, c) ==
    /\ ~Busy(t)
    /\ running' = [ running EXCEPT ![t] = c ]
    /\ at' = [ at EXCEPT ![t] = 1 ]
    /\ UNCHANGED holder

Advance(t) == at' = [ at EXCEPT ![t] = @ + 1 ]

Lock(t) ==
    /\ Busy(t) /\ Step(t) = "lock"
    /\ holder = Nobody
    /\ holder' = t
    /\ Advance(t)
    /\ UNCHANGED running

Run(t) ==
    /\ Busy(t) /\ Step(t) = "run"
    /\ Advance(t)
    /\ UNCHANGED << running, holder >>

Unlock(t) ==
    /\ Busy(t) /\ Step(t) = "unlock"
    /\ holder' = Nobody
    /\ Advance(t)
    /\ UNCHANGED running

(* Also what is left of a thread that panics in a statement. *)
End(t) ==
    /\ Busy(t) /\ Step(t) \in { "run", "end" }
    /\ running' = [ running EXCEPT ![t] = Nobody ]
    /\ at' = [ at EXCEPT ![t] = 1 ]
    /\ holder' = IF holder = t THEN Nobody ELSE holder

Next == \E t \in Threads :
    (\E c \in Calls : Begin(t, c)) \/ Lock(t) \/ Run(t) \/ Unlock(t) \/ End(t)

Spec == Init /\ [][Next]_vars

(* No thread waits for the guard it holds itself, whatever method it runs: *)
(* the connection, and with it every later call, would be stuck for ever.  *)
NoSelfDeadlock == \A t \in Threads : ~ (Busy(t) /\ Step(t) = "lock" /\ holder = t)

-----------------------------------------------------------------------------
(* The methods, read off the code. *)

Locked(body) == << "lock" >> \o body \o << "unlock" >>

(* Most of them: one statement under the lock. *)
Statement == Locked(<< "run" >>)

EnsureColumn == Statement

(* Four definitions, one method each. *)
SeedManagedRoles == Statement \o Statement \o Statement \o Statement

(* The three managed roles are taken away and one is given. *)
SetLegacyRoleAssignment == Statement \o Statement \o Statement \o Statement

(* Two queries, the definitions of a space, an assignment. *)
MigrateLegacyRoles == Statement \o Statement \o SeedManagedRoles \o Statement

(* The migrations run under the lock; it is dropped before the step that   *)
(* moves the roles.                                                        *)
ApplyMigrations == Statement \o MigrateLegacyRoles

(* The tables under the lock, then a column after the other. *)
InitTables == Statement \o EnsureColumn \o EnsureColumn \o ApplyMigrations

(* ensure_column is called under the guard. *)
SetSpaceDescription == Locked(EnsureColumn \o << "run" >>)

Methods ==
    [ saveMessage |-> Statement, setLegacyRoleAssignment |-> SetLegacyRoleAssignment,
      open |-> InitTables, setSpaceDescription |-> SetSpaceDescription ]
=============================================================================
