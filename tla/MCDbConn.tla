------------------------------ MODULE MCDbConn ------------------------------
(***************************************************************************)
(* An instance of DbConn for TLC: two threads and the methods of the code. *)
(***************************************************************************)
EXTENDS DbConn

CONSTANTS t1, t2

CodeCalls == DOMAIN Methods
CodeMethod == Methods
=============================================================================
