------------------------------ MODULE MCViews ------------------------------
(***************************************************************************)
(* The membership of channels and spaces, and what a client makes of what  *)
(* it is told: the conversation on display, who is typing, who is in the   *)
(* call.  They share nothing here, so a behaviour takes the steps of one   *)
(* (focus).                                                                *)
(***************************************************************************)
EXTENDS MCMembership, TextView, Typing, RoomView

CONSTANTS b3, x1, g1, n1, n2, h1, l1, l2

VARIABLE focus

(* Two text channels in the client's space, and one elsewhere. *)
Homes == (c1 :> s1) @@ (c2 :> s1) @@ (b3 :> s2)

(* Channels, lobbies, and those who type or call are interchangeable. *)
ViewSymmetry == Permutations({c1, c2}) \cup Permutations({l1, l2})

ViewsInit ==
    /\ focus \in { "members", "text", "typing", "call" }
    /\ Init /\ TextInit /\ TypingInit /\ RoomInit
    /\ focus # "text" => groups = {} /\ places = { s2 }
    /\ focus # "typing" => \A q \in Typists : named[q] = n1

ViewsNext ==
    \/ focus = "members" /\ Next /\ UNCHANGED << textVars, typingVars, callVars, focus >>
    \/ focus = "text" /\ TextNext /\ UNCHANGED << vars, typingVars, callVars, focus >>
    \/ focus = "typing" /\ TypingNext /\ UNCHANGED << vars, textVars, callVars, focus >>
    \/ focus = "call" /\ RoomNext /\ UNCHANGED << vars, textVars, typingVars, focus >>

ViewsSpec == ViewsInit /\ [][ViewsNext]_<< vars, textVars, typingVars, callVars, focus >>
=============================================================================
