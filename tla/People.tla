------------------------------- MODULE People -------------------------------
(***************************************************************************)
(* Who is there: connections, which the code calls peers, and the users    *)
(* behind them.  A user may have several.  A connection that ends and the  *)
(* next one of the same client are one device here.                        *)
(***************************************************************************)
EXTENDS FiniteSets

CONSTANTS
    Devices,      \* connections
    UserOf        \* whose each is: connection |-> user

Users == { UserOf[p] : p \in Devices }

ASSUME PeopleAssumption == IsFiniteSet(Devices) /\ UserOf \in [ Devices -> Users ]
=============================================================================
