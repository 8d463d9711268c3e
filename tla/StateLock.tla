------------------------------ MODULE StateLock ------------------------------
(***************************************************************************)
(* The one lock around the server's state, and what handlers do with it.   *)
(*                                                                         *)
(* State is an Arc<tokio::sync::RwLock<ServerState>>.  That lock is fair:  *)
(* requests queue in order, and a reader waits behind a writer that came   *)
(* before it, even while other readers hold the lock.  It does not know    *)
(* who holds it, so a task that asks for a second guard waits like any     *)
(* other, holding its first one.                                           *)
(*                                                                         *)
(* A handler is the sequence of the lock operations it makes (they are in  *)
(* LockPrograms, taken from the code):                                     *)
(*   "read", "write"   wait for a guard of that kind, and get it           *)
(*   "free"            drop the guard taken last                           *)
(*   "lookup"          look a space up, under a guard; when it is gone,    *)
(*                     the handler goes on with OnMissing instead          *)
(*   "remove"          remove that space, under a write guard              *)
(* Tasks run their handler over and over.                                  *)
(***************************************************************************)
EXTENDS Integers, Sequences

CONSTANTS
    Tasks,       \* the tasks of the runtime that take the lock
    Program,     \* Program[t]: the operations of the handler that t runs
    OnMissing,   \* OnMissing[t]: what is left to do when the space is gone
    None

Acquire == {"read", "write"}
Operations == Acquire \cup {"free", "lookup", "remove"}

ASSUME ProgramAssumption ==
    /\ Program \in [ Tasks -> Seq(Operations) ]
    /\ OnMissing \in [ Tasks -> Seq(Operations) ]
    /\ None \notin Tasks

VARIABLES
    todo,       \* the operations a task has yet to make
    queue,      \* the tasks waiting for a guard, first come first
    readers,    \* how many read guards a task holds
    writer,     \* the task that holds the write guard, or None
    present     \* the space that is looked up exists

lockVars == <<todo, queue, readers, writer, present>>

Waiting(t) == \E i \in 1 .. Len(queue) : queue[i] = t

Holding(t) == readers[t] > 0 \/ writer = t

At(t, op) == todo[t] # <<>> /\ Head(todo[t]) = op

Advance(t) == todo' = [ todo EXCEPT ![t] = Tail(@) ]

-----------------------------------------------------------------------------
LockInit ==
    /\ todo = [ t \in Tasks |-> <<>> ]
    /\ queue = <<>>
    /\ readers = [ t \in Tasks |-> 0 ]
    /\ writer = None
    /\ present = TRUE

(* A request, a datagram or a timer starts the handler. *)
Start(t) ==
    /\ todo[t] = <<>>
    /\ todo' = [ todo EXCEPT ![t] = Program[t] ]
    /\ UNCHANGED <<queue, readers, writer, present>>

Ask(t) ==
    /\ At(t, "read") \/ At(t, "write")
    /\ ~Waiting(t)
    /\ queue' = Append(queue, t)
    /\ UNCHANGED <<todo, readers, writer, present>>

(* The first in the queue gets its guard: a writer when nobody holds one,  *)
(* a reader when no writer does.                                           *)
Free == writer = None /\ \A t \in Tasks : readers[t] = 0

GrantRead(t) ==
    /\ queue # <<>> /\ Head(queue) = t /\ At(t, "read")
    /\ writer = None
    /\ readers' = [ readers EXCEPT ![t] = @ + 1 ]
    /\ queue' = Tail(queue)
    /\ Advance(t)
    /\ UNCHANGED <<writer, present>>

GrantWrite(t) ==
    /\ queue # <<>> /\ Head(queue) = t /\ At(t, "write")
    /\ Free
    /\ writer' = t
    /\ queue' = Tail(queue)
    /\ Advance(t)
    /\ UNCHANGED <<readers, present>>

(* A read guard is dropped before a write guard of the same task: no       *)
(* handler takes a write guard while it holds another one.                 *)
DropRead(t) ==
    /\ At(t, "free") /\ readers[t] > 0
    /\ readers' = [ readers EXCEPT ![t] = @ - 1 ]
    /\ Advance(t)
    /\ UNCHANGED <<queue, writer, present>>

DropWrite(t) ==
    /\ At(t, "free") /\ readers[t] = 0 /\ writer = t
    /\ writer' = None
    /\ Advance(t)
    /\ UNCHANGED <<queue, readers, present>>

Lookup(t) ==
    /\ At(t, "lookup")
    /\ todo' = [ todo EXCEPT ![t] = IF present THEN Tail(@) ELSE OnMissing[t] ]
    /\ UNCHANGED <<queue, readers, writer, present>>

RemoveSpace(t) ==
    /\ At(t, "remove")
    /\ present' = FALSE
    /\ Advance(t)
    /\ UNCHANGED <<queue, readers, writer>>

Go(t) ==
    \/ Ask(t) \/ GrantRead(t) \/ GrantWrite(t) \/ DropRead(t) \/ DropWrite(t)
    \/ Lookup(t) \/ RemoveSpace(t)

LockNext == \E t \in Tasks : Start(t) \/ Go(t)

LockSpec == LockInit /\ [][LockNext]_lockVars

(* The runtime polls a task that can go on.  Nothing has to start. *)
FairLockSpec == LockSpec /\ \A t \in Tasks : WF_lockVars(Go(t))

-----------------------------------------------------------------------------
LockTypeOK ==
    /\ todo \in [ Tasks -> Seq(Operations) ]
    /\ queue \in Seq(Tasks)
    /\ readers \in [ Tasks -> Nat ]
    /\ writer \in Tasks \cup {None}
    /\ present \in BOOLEAN

(* No task waits for a guard while it holds one: behind a fair lock that   *)
(* is the way to wait for oneself.  Error paths are where a guard is       *)
(* easily kept over a call that takes another one.                         *)
NoGuardWhileWaiting == \A t \in Tasks : Waiting(t) => ~Holding(t)

(* Whenever somebody waits for the lock, the first in the queue can have   *)
(* it, or a task that holds a guard can go on towards dropping it: the     *)
(* server as a whole is never stuck.                                       *)
NoDeadlock ==
    queue # <<>> =>
        \/ At(Head(queue), "read") /\ writer = None
        \/ At(Head(queue), "write") /\ Free
        \/ \E t \in Tasks : Holding(t) /\ ~Waiting(t) /\ todo[t] # <<>>

(* Every handler that was started ends, whatever the others do: the comment *)
(* on send_to says of an overflowing peer that "the rx loop will then break *)
(* out and `handle_disconnect` will clean up".                              *)
HandlersEnd == \A t \in Tasks : todo[t] # <<>> ~> todo[t] = <<>>

(* What a program must look like for that: critical sections, one after    *)
(* the other.  Rest is what is left of one, inside a section or outside.   *)
Rest(q, inside) ==
    /\ \A i \in 1 .. Len(q) :
          q[i] \in Acquire <=> IF i = 1 THEN ~inside ELSE q[i - 1] = "free"
    /\ IF q = <<>> THEN ~inside ELSE q[Len(q)] = "free"

Flat == \A t \in Tasks : Rest(Program[t], FALSE) /\ Rest(OnMissing[t], TRUE)

(* The inductive invariant: nobody waits twice, whoever waits is about to  *)
(* take a guard, and every task is where its guard says it is: inside a    *)
(* section with exactly one guard, or between two sections with none.      *)

NobodyTwice == \A i, j \in 1 .. Len(queue) : queue[i] = queue[j] => i = j

WaitersAsk == \A t \in Tasks : Waiting(t) => At(t, "read") \/ At(t, "write")

InSections ==
    \A t \in Tasks :
        /\ Rest(todo[t], Holding(t))
        /\ readers[t] \in {0, 1}
        /\ readers[t] = 1 => writer # t

LockInv == LockTypeOK /\ NobodyTwice /\ WaitersAsk /\ InSections
=============================================================================
