------------------------------- MODULE MCHart -------------------------------
(* Hart with one thread of each kind that a run needs.                     *)
EXTENDS Hart
=============================================================================
