------------------------------ MODULE SpscRing ------------------------------
(***************************************************************************)
(* The ring between the thread that decodes a peer's audio and the         *)
(* callback that plays it (SpscRingBuf).                                   *)
(*                                                                         *)
(* There is no lock.  The one producer owns the write cursor, the one      *)
(* consumer the read cursor, and each loads the other's before it touches  *)
(* the cells; a step here is one access to a cursor or to a cell.  (The    *)
(* cursors are stored with Release and loaded with Acquire, so a cell that *)
(* is seen through a cursor is seen as it was written.)                    *)
(*                                                                         *)
(* A sample stands for its number among those that were let in.            *)
(***************************************************************************)
EXTENDS Integers

CONSTANTS
    Cap,          \* the cells of the ring, of which one is always free
    MaxWanted,    \* bound: the samples a callback asks for at a time
    MaxSamples    \* bound: the samples pushed

ASSUME RingAssumption ==
    Cap \in Nat \ {0} /\ MaxWanted \in Nat /\ MaxSamples \in Nat

VARIABLES
    cells,        \* data
    write, read,  \* the cursors
    pushing,      \* where push is: "idle", "write" or "publish"
    taking,       \* what the consumer does: "idle", "drain", "peek" or "clear"
    count,        \* the samples the consumer found and will read
    at,           \* how many of them it has read
    goal,         \* the write cursor as clear has loaded it
    entered,      \* history: samples pushed so far
    gone,         \* history: samples taken so far
    skip          \* history: samples pushed when clear loaded the cursor

ringVars == << cells, write, read, pushing, taking, count, at, goal, entered, gone, skip >>
producer == << cells, write, pushing, entered >>
consumer == << read, taking, count, at, goal, gone, skip >>

Cells == 0 .. Cap - 1

RingInit ==
    /\ cells = [ c \in Cells |-> 0 ]
    /\ write = 0 /\ read = 0
    /\ pushing = "idle" /\ taking = "idle"
    /\ count = 0 /\ at = 0 /\ goal = 0
    /\ entered = 0 /\ gone = 0 /\ skip = 0

-----------------------------------------------------------------------------
(* push, one step each for the cursors, the cell and the own cursor.  A    *)
(* sample that does not fit is dropped.                                    *)

(* Mutant: the ring is full only when every cell is. *)
FullWhole == FALSE

Full == (write + 1) % Cap = read

Push ==
    /\ pushing = "idle" /\ entered < MaxSamples
    /\ ~Full
    /\ pushing' = "write"
    /\ UNCHANGED << cells, write, entered, consumer >>

WriteCell ==
    /\ pushing = "write"
    /\ cells' = [ cells EXCEPT ![write] = entered + 1 ]
    /\ pushing' = "publish"
    /\ UNCHANGED << write, entered, consumer >>

Publish ==
    /\ pushing = "publish"
    /\ write' = (write + 1) % Cap
    /\ entered' = entered + 1
    /\ pushing' = "idle"
    /\ UNCHANGED << cells, consumer >>

-----------------------------------------------------------------------------
(* drain_into and peek_energy load the producer's cursor, read cell by     *)
(* cell, and drain_into then moves the own cursor past what it read.       *)

Available == (write + Cap - read) % Cap

BeginTake(what, wanted) ==
    /\ taking = "idle" /\ Available > 0
    /\ taking' = what
    /\ count' = IF wanted < Available THEN wanted ELSE Available
    /\ at' = 0
    /\ UNCHANGED << read, goal, gone, skip, producer >>

Place == (read + at) % Cap

ReadCell ==
    /\ taking \in { "drain", "peek" } /\ at < count
    /\ at' = at + 1
    /\ UNCHANGED << read, taking, count, goal, gone, skip, producer >>

EndDrain ==
    /\ taking = "drain" /\ at = count
    /\ read' = (read + count) % Cap
    /\ gone' = gone + count
    /\ taking' = "idle"
    /\ UNCHANGED << count, at, goal, skip, producer >>

EndPeek ==
    /\ taking = "peek" /\ at = count
    /\ taking' = "idle"
    /\ UNCHANGED << read, count, at, goal, gone, skip, producer >>

(* clear, when the user is deafened. *)
BeginClear ==
    /\ taking = "idle"
    /\ taking' = "clear"
    /\ goal' = write /\ skip' = entered
    /\ UNCHANGED << read, count, at, gone, producer >>

EndClear ==
    /\ taking = "clear"
    /\ read' = goal /\ gone' = skip
    /\ taking' = "idle"
    /\ UNCHANGED << count, at, goal, skip, producer >>

RingNext ==
    \/ Push \/ WriteCell \/ Publish
    \/ \E wanted \in 1 .. MaxWanted : BeginTake("drain", wanted) \/ BeginTake("peek", wanted)
    \/ ReadCell \/ EndDrain \/ EndPeek \/ BeginClear \/ EndClear

RingSpec == RingInit /\ [][RingNext]_ringVars

-----------------------------------------------------------------------------
(* What is read next is the sample that is due: the one pushed after those *)
(* taken, neither overwritten meanwhile nor not yet written, wherever the  *)
(* two threads are, and across the wrap of both cursors.                   *)
PlayedInOrder ==
    taking \in { "drain", "peek" } /\ at < count => cells[Place] = gone + at + 1

(* The inductive invariant: the cursors count what went in and out, the    *)
(* cells between them hold it, and one cell stays free of it.              *)
RingTypeOK ==
    /\ cells \in [ Cells -> Nat ]
    /\ entered \in Nat /\ gone \in Nat /\ skip \in Nat
    /\ count \in Nat /\ at \in Nat
    /\ pushing \in { "idle", "write", "publish" }
    /\ taking \in { "idle", "drain", "peek", "clear" }

CursorsCount ==
    /\ write = entered % Cap /\ read = gone % Cap
    /\ gone <= entered /\ entered - gone < Cap
    /\ pushing # "idle" => entered - gone + 1 < Cap

Held ==
    /\ \A k \in gone + 1 .. entered : cells[(k - 1) % Cap] = k
    /\ pushing = "publish" => cells[write] = entered + 1

TakingHeld ==
    /\ taking \in { "drain", "peek" } => count <= entered - gone /\ at <= count
    /\ taking = "clear" => /\ goal = skip % Cap
                           /\ gone <= skip /\ skip <= entered

RingInv == RingTypeOK /\ CursorsCount /\ Held /\ TakingHeld
=============================================================================
