-------------------------------- MODULE RWLock --------------------------------
(***************************************************************************)
(* What a reader/writer lock promises: any number of readers or a single   *)
(* writer hold it.  Who waits, and how, is not part of the promise.        *)
(***************************************************************************)
CONSTANT Threads

VARIABLES
  writers,           \* threads that hold the lock as a writer
  readers            \* threads that hold the lock as a reader

vars == <<writers, readers>>

Init == writers = {} /\ readers = {}

AcquireWrite(t) ==
  /\ writers = {} /\ readers = {}
  /\ writers' = {t}
  /\ UNCHANGED readers

AcquireRead(t) ==
  /\ writers = {} /\ t \notin readers
  /\ readers' = readers \cup {t}
  /\ UNCHANGED writers

Release(t) ==
  /\ t \in writers \cup readers
  /\ writers' = writers \ {t}
  /\ readers' = readers \ {t}

Next == \E t \in Threads : AcquireWrite(t) \/ AcquireRead(t) \/ Release(t)

Spec == Init /\ [][Next]_vars
===============================================================================
