------------------------------ MODULE MCEvent ------------------------------
(* The event, with its callers' history, on a few threads, each of which   *)
(* may both wait and wake.                                                 *)
EXTENDS EventHistory
============================================================================
