----------------------------- MODULE ClientLink -----------------------------
(***************************************************************************)
(* The desktop client's connection: NetworkClient, and the check that runs *)
(* about once a second in the window's thread and reconnects.              *)
(*                                                                         *)
(* What uses the network is spawned and works under the network's lock, so *)
(* a job is one step; jobs run in any order.  (The check does nothing when *)
(* the lock is held.)  A connection is read by a task of its own, which    *)
(* ends when the connection does and says so in a flag that all of them    *)
(* share; connecting again does not end it.                                *)
(*                                                                         *)
(* A job cannot ask the window anything (see AudioSession), so what the    *)
(* check would do to get back into a room or a space is never done.        *)
(***************************************************************************)
EXTENDS Integers, FiniteSets

CONSTANTS
    FirstDelay,    \* checks before the first attempt, 3
    MaxDelay,      \* the longest backoff, 30
    MaxLinks,      \* bound: connections made
    MaxAsks        \* bound: times the user connects or disconnects

ASSUME LinkAssumption == FirstDelay \in Nat \ {0} /\ MaxDelay \in Nat \ {0}

VARIABLES
    url,           \* server_url is known
    sink,          \* ws_tx: the connection written to, 0 for none
    readers,       \* the connections whose reader runs
    connected,     \* the flag
    was,           \* was_connected, what the last check saw
    cooldown,      \* checks until the next attempt, 0 for none
    interval,      \* the backoff
    udpPath,       \* udp_active, and the connection whose token is held
    tasks,         \* jobs that have not run
    links, pressed,\* counters of the bounds
    greeted,       \* history: connections an Authenticate was sent on
    noticed,       \* history: a check has seen a connection
    orderly        \* history: no connection was made while another one was
                   \* read, or about to be made

linkVars ==
    << url, sink, readers, connected, was, cooldown, interval, udpPath, tasks, links, pressed,
       greeted, noticed, orderly >>
theCheck == << was, cooldown, interval, noticed >>

Task(kind, of) == [ kind |-> kind, of |-> of ]

NoUdp == [ on |-> FALSE, of |-> 0 ]

LinkInit ==
    /\ url = FALSE /\ sink = 0 /\ readers = {} /\ connected = FALSE
    /\ was = FALSE /\ cooldown = 0 /\ interval = FirstDelay
    /\ udpPath = NoUdp
    /\ tasks = { Task("connect", 0) }        \* main connects to the saved server
    /\ links = 0 /\ pressed = 0
    /\ greeted = {} /\ noticed = FALSE /\ orderly = TRUE

-----------------------------------------------------------------------------
(* The user. *)

AskConnect ==
    /\ pressed < MaxAsks
    /\ pressed' = pressed + 1
    /\ tasks' = tasks \union { Task("connect", 0) }
    /\ UNCHANGED << url, sink, readers, connected, theCheck, udpPath, links, greeted, orderly >>

AskDisconnect ==
    /\ pressed < MaxAsks
    /\ pressed' = pressed + 1
    /\ tasks' = tasks \union { Task("disconnect", 0) }
    /\ UNCHANGED << url, sink, readers, connected, theCheck, udpPath, links, greeted, orderly >>

-----------------------------------------------------------------------------
(* Jobs. *)

(* connect_internal, when the server answers within five seconds. *)
Connected ==
    /\ links < MaxLinks
    /\ links' = links + 1
    /\ sink' = links' /\ readers' = readers \union { links' } /\ connected' = TRUE
    /\ orderly' = ( /\ orderly /\ readers = {}
                    /\ Cardinality({ t \in tasks : t.kind \in { "connect", "attempt" } }) = 1 )

NotConnected == UNCHANGED << sink, readers, connected, links, orderly >>

(* connect, and Authenticate.  The state of UDP is left as it was. *)
Connect ==
    /\ Task("connect", 0) \in tasks
    /\ tasks' = tasks \ { Task("connect", 0) }
    /\ url' = TRUE
    /\ \/ Connected /\ greeted' = greeted \union { links' }
       \/ NotConnected /\ UNCHANGED greeted
    /\ UNCHANGED << theCheck, udpPath, pressed >>

(* try_reconnect. *)
Attempt ==
    /\ Task("attempt", 0) \in tasks
    /\ tasks' = tasks \ { Task("attempt", 0) }
    /\ udpPath' = NoUdp
    /\ (url /\ Connected) \/ NotConnected
    /\ UNCHANGED << url, theCheck, pressed, greeted >>

(* Once connected again: Authenticate, and no more. *)
Restore ==
    /\ Task("restore", 0) \in tasks
    /\ tasks' = tasks \ { Task("restore", 0) }
    /\ greeted' = greeted \union ({ sink } \ { 0 })
    /\ UNCHANGED << url, sink, readers, connected, theCheck, udpPath, links, pressed, orderly >>

Disconnect ==
    /\ Task("disconnect", 0) \in tasks
    /\ tasks' = tasks \ { Task("disconnect", 0) }
    /\ udpPath' = NoUdp
    /\ sink' = 0 /\ connected' = FALSE
    /\ UNCHANGED << url, readers, theCheck, links, pressed, greeted, orderly >>

(* UdpReady came, in answer to the RequestUdp that follows Authenticated. *)
OfferUdp(k) ==
    /\ k \in readers \intersect greeted
    /\ tasks' = tasks \union { Task("udp", k) }
    /\ UNCHANGED << url, sink, readers, connected, theCheck, udpPath, links, pressed, greeted, orderly >>

SetupUdp(k) ==
    /\ Task("udp", k) \in tasks
    /\ tasks' = tasks \ { Task("udp", k) }
    /\ udpPath' = [ on |-> TRUE, of |-> k ]
    /\ UNCHANGED << url, sink, readers, connected, theCheck, links, pressed, greeted, orderly >>

(* A task that reads a UDP socket, of now or of before, gets an error. *)
UdpFails ==
    /\ udpPath.on
    /\ udpPath' = [ udpPath EXCEPT !.on = FALSE ]
    /\ UNCHANGED << url, sink, readers, connected, theCheck, tasks, links, pressed, greeted, orderly >>

(* A connection breaks or is closed, and its reader ends. *)
ReaderEnds(k) ==
    /\ k \in readers
    /\ readers' = readers \ { k }
    /\ connected' = FALSE
    /\ UNCHANGED << url, sink, theCheck, udpPath, tasks, links, pressed, greeted, orderly >>

-----------------------------------------------------------------------------
(* check_connection. *)

(* Mutants: no attempt is planned; a new connection is not greeted. *)
NoDelay == cooldown
NoticeOnly == tasks

(* Checks from the loss to the first attempt. *)
DelayAtFirst == FirstDelay

(* What is left to do when the connection is there. *)
Notice == IF was THEN tasks ELSE tasks \union { Task("restore", 0) }

CheckUp ==
    /\ connected
    /\ was' = TRUE /\ noticed' = TRUE
    /\ cooldown' = 0 /\ interval' = FirstDelay
    /\ tasks' = Notice
    /\ UNCHANGED << url, sink, readers, connected, udpPath, links, pressed, greeted, orderly >>

(* Lost: audio and screen sharing stop (AudioSession!LoseConnection). *)
CheckLost ==
    /\ ~connected /\ was
    /\ was' = FALSE
    /\ cooldown' = DelayAtFirst /\ interval' = FirstDelay
    /\ UNCHANGED << url, sink, readers, connected, noticed, udpPath, tasks, links, pressed, greeted, orderly >>

(* The interval give or take a quarter. *)
Jittered(i) ==
    LET quarter == IF i \div 4 > 1 THEN i \div 4 ELSE 1
    IN  { IF i + j > 1 THEN i + j ELSE 1 : j \in 0 - quarter .. quarter - 1 }

CheckDown ==
    /\ ~connected /\ ~was /\ cooldown > 0
    /\ IF cooldown = 1
       THEN /\ tasks' = tasks \union { Task("attempt", 0) }
            /\ interval' = IF 2 * interval < MaxDelay THEN 2 * interval ELSE MaxDelay
            /\ cooldown' \in Jittered(interval')
       ELSE cooldown' = cooldown - 1 /\ UNCHANGED << tasks, interval >>
    /\ UNCHANGED << url, sink, readers, connected, was, noticed, udpPath, links, pressed, greeted, orderly >>

LinkNext ==
    \/ AskConnect \/ AskDisconnect
    \/ Connect \/ Attempt \/ Restore \/ Disconnect \/ UdpFails
    \/ \E k \in 1 .. MaxLinks : OfferUdp(k) \/ SetupUdp(k) \/ ReaderEnds(k)
    \/ CheckUp \/ CheckLost \/ CheckDown

LinkSpec == LinkInit /\ [][LinkNext]_linkVars

-----------------------------------------------------------------------------
(* Property: once the client has been connected it never stops trying: as  *)
(* long as a check finds no connection there is one more attempt to come.  *)
(* (So it goes on after the user disconnects, too.)                        *)
NeverGivesUp == noticed /\ ~was => cooldown > 0

(* Property: as long as nobody connects over a connection that is still    *)
(* read, the flag is the truth about the connection that is written to,    *)
(* and a connection that has been noticed has been authenticated when      *)
(* nothing is left to do.                                                  *)
OrderlyLink ==
    orderly => /\ connected <=> sink \in readers
               /\ connected /\ was /\ tasks = {} => sink \in greeted
=============================================================================
