------------------------------ MODULE MCMachine ------------------------------
(* Machine on a few callers and machines.                                  *)
EXTENDS Machine

CONSTANTS t1, t2, m1, m2

All     == Api \X Machines                 \* every caller drives every machine
OnlyT1  == {t1} \X Machines                \* one caller drives, others run the loop
==============================================================================
