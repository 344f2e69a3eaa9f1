----------------------------- MODULE EventHistory -----------------------------
(***************************************************************************)
(* Event with the history its callers can observe: which waits overlapped  *)
(* a wake call, and what each thread's last wait returned.  The history    *)
(* only watches: every step is a step of Event.                            *)
(***************************************************************************)
EXTENDS Event

VARIABLES
  seen,              \* waits in progress that overlapped a wake call
  reported           \* threads whose last wait returned true

history == <<seen, reported>>
hvars == <<vars, history>>

HInit == Init /\ seen = {} /\ reported = {}

(* A wait that returns at once ...                                         *)
CallFast(t) ==
  /\ WaitFast(t)
  /\ reported' = reported \cup {t}
  /\ UNCHANGED seen

CallNoTimeout(t) ==
  /\ WaitNoTimeout(t)
  /\ reported' = reported \ {t}
  /\ UNCHANGED seen

(* ... or begins: if a wake call is in progress, it overlaps it ...        *)
CallBegin(t) ==
  /\ WaitBegin(t)
  /\ seen' = IF Waking # {} THEN seen \cup {t} ELSE seen
  /\ UNCHANGED reported

(* ... and returns its woken.                                              *)
CallReturn(t) ==
  /\ WaitReturn(t)
  /\ reported' = IF t \in woken THEN reported \cup {t} ELSE reported \ {t}
  /\ seen' = seen \ {t}

(* A wake raises the flag: every wait in progress overlaps it.             *)
CallWake(t) == WakeRaise(t) /\ seen' = Waiting /\ UNCHANGED reported

CallStep(t) == CallReturn(t) \/ (Inner(t) /\ UNCHANGED history)

HNext ==
  \E t \in Threads :
    \/ CallFast(t)
    \/ CallNoTimeout(t)
    \/ CallBegin(t)
    \/ CallWake(t)
    \/ FutexTimeout(t) /\ UNCHANGED history
    \/ CallStep(t)

HSpec == HInit /\ [][HNext]_hvars

(* The host scheduler runs every runnable thread; nothing obliges a thread *)
(* to call the event's operations, and no deadline is relied upon.         *)
FairHSpec == HSpec /\ \A t \in Threads : WF_hvars(CallStep(t))

-----------------------------------------------------------------------------
(* A wait that is about to report a wake-up overlapped a wake call: the    *)
(* late futex_wake of a slow waker may rouse a wait whose signal somebody  *)
(* else consumed, but nothing else makes rvvm_event_wait return true.      *)
NoSpuriousReport == Waiting \cap woken \subseteq seen

(* The strengthening that makes NoSpuriousReport inductive: while the flag *)
(* is up or a waker is still inside rvvm_event_wake, every wait in         *)
(* progress has been marked as overlapping a wake.                         *)
OverlapMarked == (flag = 1 \/ Waking # {}) => Waiting \subseteq seen

(* The event implements the auto-reset event its callers rely on.          *)
Abstract == INSTANCE AutoResetEvent
              WITH signaled <- (flag = 1), waking <- Waking,
                   waiting <- Waiting

ImplementsAutoReset == Abstract!ASpec
===============================================================================
