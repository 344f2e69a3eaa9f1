--------------------------- MODULE AutoResetEvent ---------------------------
(***************************************************************************)
(* What rvvm_event_t (threading.h) promises to its callers, without        *)
(* futexes, waiter counts or retries: an auto-reset event.                 *)
(*                                                                         *)
(* A wake leaves the event signaled until one wait consumes the signal.    *)
(* A wait may report TRUE only if a wake call was in progress at some      *)
(* moment of that very wait, or left the event signaled then; it may give  *)
(* up and report FALSE.                                                    *)
(***************************************************************************)
CONSTANT Threads     \* threads that may call the event's operations

VARIABLES
  signaled,          \* a wake is pending
  waking,            \* threads inside a wake call that raised the signal
  waiting,           \* threads inside a wait call
  seen,              \* those of them whose call overlapped a wake
  reported           \* threads whose last completed wait returned TRUE

avars == <<signaled, waking, waiting, seen, reported>>

AInit ==
  /\ signaled = FALSE
  /\ waking = {}
  /\ waiting = {}
  /\ seen = {}
  /\ reported = {}

(* A wake raises the signal: every wait in progress overlaps it.           *)
Signal(t) ==
  /\ t \notin waiting \cup waking
  /\ ~signaled
  /\ signaled' = TRUE
  /\ waking' = waking \cup {t}
  /\ seen' = waiting
  /\ UNCHANGED <<waiting, reported>>

(* The wake call returns.                                                  *)
SignalDone(t) ==
  /\ t \in waking
  /\ waking' = waking \ {t}
  /\ UNCHANGED <<signaled, waiting, seen, reported>>

(* A wait that finds the event signaled takes the signal at once.          *)
TakeAtOnce(t) ==
  /\ t \notin waiting
  /\ signaled
  /\ signaled' = FALSE
  /\ reported' = reported \cup {t}
  /\ UNCHANGED <<waking, waiting, seen>>

(* A wait with no time to spend on an event that is not signaled.          *)
Refuse(t) ==
  /\ t \notin waiting
  /\ ~signaled
  /\ reported' = reported \ {t}
  /\ UNCHANGED <<signaled, waking, waiting, seen>>

(* A wait on an event that is not signaled begins to wait.                 *)
Begin(t) ==
  /\ t \notin waiting
  /\ ~signaled
  /\ waiting' = waiting \cup {t}
  /\ seen' = IF waking # {} THEN seen \cup {t} ELSE seen
  /\ UNCHANGED <<signaled, waking, reported>>

(* A wait in progress takes the pending signal.                            *)
Consume(t) ==
  /\ t \in waiting
  /\ signaled
  /\ signaled' = FALSE
  /\ UNCHANGED <<waking, waiting, seen, reported>>

(* A wait returns TRUE; a wake overlapped the call.                        *)
Succeed(t) ==
  /\ t \in waiting
  /\ t \in seen
  /\ waiting' = waiting \ {t}
  /\ seen' = seen \ {t}
  /\ reported' = reported \cup {t}
  /\ UNCHANGED <<signaled, waking>>

(* A wait returns FALSE.                                                   *)
GiveUp(t) ==
  /\ t \in waiting
  /\ waiting' = waiting \ {t}
  /\ seen' = seen \ {t}
  /\ reported' = reported \ {t}
  /\ UNCHANGED <<signaled, waking>>

ANext ==
  \E t \in Threads :
    \/ Signal(t)
    \/ SignalDone(t)
    \/ TakeAtOnce(t)
    \/ Refuse(t)
    \/ Begin(t)
    \/ Consume(t)
    \/ Succeed(t)
    \/ GiveUp(t)

ASpec == AInit /\ [][ANext]_avars

=============================================================================
