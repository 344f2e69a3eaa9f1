-------------------------------- MODULE Event --------------------------------
(***************************************************************************)
(* rvvm_event_t: the auto-reset event (also called cond_var_t) on which    *)
(* harts sleep in WFI, the eventloop sleeps between ticks, pool workers    *)
(* sleep for tasks and RCU writers sleep for readers.                      *)
(* (src/rvvm/src/threading.c, "Events", over "Futexes".)                   *)
(*                                                                         *)
(* One action is one atomic access or one futex call; between two of them  *)
(* every other thread may run.  event_update_flag is a single step: if its *)
(* relaxed load already sees the wanted value it changes nothing, and      *)
(* otherwise its swap decides the result, so in both cases one access      *)
(* gives the outcome.                                                      *)
(***************************************************************************)
EXTENDS Integers, FiniteSets

CONSTANT Threads     \* every thread may both wait for and wake the event

ASSUME ThreadsAssumption == IsFiniteSet(Threads)

VARIABLES
  flag,              \* rvvm_event_t.flag: 0 or 1
  waiters,           \* rvvm_event_t.waiters
  pc,                \* where each thread is in the event's code
  woken              \* threads whose local woken of rvvm_event_wait is true

vars == <<flag, waiters, pc, woken>>

(* Program points of rvvm_event_wait ...                                   *)
WaitPoints == {"add", "recheck", "futex", "asleep", "clear", "sub"}

(* ... those between waiters + 1 and waiters - 1 ...                       *)
CountedPoints == {"recheck", "futex", "asleep", "clear", "sub"}

(* ... and of rvvm_event_wake, after the flag was raised.                  *)
WakePoints == {"notify", "futex_wake"}

Waiting == {t \in Threads : pc[t] \in WaitPoints}
Counted == {t \in Threads : pc[t] \in CountedPoints}
Asleep  == {t \in Threads : pc[t] = "asleep"}
Waking  == {t \in Threads : pc[t] \in WakePoints}

Goto(t, from, to) ==
  /\ pc[t] = from
  /\ pc' = [pc EXCEPT ![t] = to]

Init ==
  /\ flag = 0
  /\ waiters = 0
  /\ pc = [t \in Threads |-> "idle"]
  /\ woken = {}

-----------------------------------------------------------------------------
(* rvvm_event_wait                                                         *)

(* Slip: the signal is looked at but not consumed.                         *)
WaitFast_Kept(t) ==
  /\ pc[t] = "idle"
  /\ flag = 1
  /\ UNCHANGED vars

(* The event is already signaled: consume the signal and return true.      *)
WaitFast(t) ==
  /\ pc[t] = "idle"
  /\ flag = 1
  /\ flag' = 0
  /\ UNCHANGED <<waiters, pc, woken>>

(* Not signaled and no time to wait: return false.                         *)
WaitNoTimeout(t) ==
  /\ pc[t] = "idle"
  /\ flag = 0
  /\ UNCHANGED vars

(* Not signaled: go on to wait.                                            *)
WaitBegin(t) ==
  /\ Goto(t, "idle", "add")
  /\ flag = 0
  /\ woken' = woken \ {t}
  /\ UNCHANGED <<flag, waiters>>

(* Slip: the waiter is not counted.                                        *)
WaitAdd_Uncounted(t) ==
  /\ Goto(t, "add", "recheck")
  /\ UNCHANGED <<flag, waiters, woken>>

(* Mark that a thread is about to be waiting here.                         *)
WaitAdd(t) ==
  /\ Goto(t, "add", "recheck")
  /\ waiters' = waiters + 1
  /\ UNCHANGED <<flag, woken>>

(* The second event_update_flag.  A signal found here is consumed, the     *)
(* futex is skipped and woken keeps its initial value.                     *)
WaitRecheck(t) ==
  /\ Goto(t, "recheck", IF flag = 0 THEN "futex" ELSE "sub")
  /\ flag' = 0
  /\ UNCHANGED <<waiters, woken>>

(* Slip: the futex sleeps without comparing the flag.                      *)
FutexWait_NoCompare(t) ==
  /\ Goto(t, "futex", "asleep")
  /\ UNCHANGED <<flag, waiters, woken>>

(* Entry of rvvm_futex_wait(&flag, 0): the kernel (futex_native_wait), or  *)
(* the emulation under its queue lock (futex_emu_wait), compares and       *)
(* enqueues atomically.  A mismatch returns RVVM_FUTEX_MISMATCH, which is  *)
(* nonzero.                                                                *)
FutexWait(t) ==
  /\ Goto(t, "futex", IF flag = 0 THEN "asleep" ELSE "clear")
  /\ woken' = IF flag # 0 THEN woken \cup {t} ELSE woken \ {t}
  /\ UNCHANGED <<flag, waiters>>

(* Slip: an expired deadline is reported as a wake-up.                     *)
FutexTimeout_Woken(t) ==
  /\ Goto(t, "asleep", "clear")
  /\ woken' = woken \cup {t}
  /\ UNCHANGED <<flag, waiters>>

(* The deadline passes, or a host signal interrupts the sleep: the thread  *)
(* leaves the queue with RVVM_FUTEX_TIMEOUT.                               *)
FutexTimeout(t) ==
  /\ Goto(t, "asleep", "clear")
  /\ UNCHANGED <<flag, waiters, woken>>

(* Clear a possibly dangling flag; it counts as a wake-up.                 *)
WaitClear(t) ==
  /\ Goto(t, "clear", "sub")
  /\ flag' = 0
  /\ woken' = IF flag = 1 THEN woken \cup {t} ELSE woken
  /\ UNCHANGED <<waiters>>

(* Slip: the decrement is forgotten on the path that never slept.          *)
WaitReturn_Leak(t) ==
  /\ Goto(t, "sub", "idle")
  /\ waiters' = IF t \in woken THEN waiters - 1 ELSE waiters
  /\ woken' = woken \ {t}
  /\ UNCHANGED flag

(* Leave the waiter count and return woken, a local that is then dead.     *)
WaitReturn(t) ==
  /\ Goto(t, "sub", "idle")
  /\ waiters' = waiters - 1
  /\ woken' = woken \ {t}
  /\ UNCHANGED flag

-----------------------------------------------------------------------------
(* rvvm_event_wake                                                         *)

(* Raise the flag.  If it is already up the call returns false without any *)
(* effect, which is a stuttering step and needs no action.                 *)
WakeRaise(t) ==
  /\ Goto(t, "idle", "notify")
  /\ flag = 0
  /\ flag' = 1
  /\ UNCHANGED <<waiters, woken>>

(* Slip: a single waiter is not worth a system call.                       *)
WakeNotify_OffByOne(t) ==
  /\ Goto(t, "notify", IF waiters > 1 THEN "futex_wake" ELSE "idle")
  /\ UNCHANGED <<flag, waiters, woken>>

(* rvvm_event_waiters: with nobody counted the system call is saved.       *)
WakeNotify(t) ==
  /\ Goto(t, "notify", IF waiters # 0 THEN "futex_wake" ELSE "idle")
  /\ UNCHANGED <<flag, waiters, woken>>

(* rvvm_futex_wake(&flag, 1): one sleeper, if any, gets RVVM_FUTEX_WAKEUP. *)
(* The emulation's queue is a stack and the kernel's a list: any order.    *)
WakeFutex(t) ==
  /\ pc[t] = "futex_wake"
  /\ \/ \E s \in Asleep :
          /\ pc' = [pc EXCEPT ![t] = "idle", ![s] = "clear"]
          /\ woken' = woken \cup {s}
     \/ /\ Asleep = {}
        /\ pc' = [pc EXCEPT ![t] = "idle"]
        /\ UNCHANGED woken
  /\ UNCHANGED <<flag, waiters>>

-----------------------------------------------------------------------------
(* A thread inside the event's code runs to its end unless it is asleep.   *)
Inner(t) ==
  \/ WaitAdd(t)
  \/ WaitRecheck(t)
  \/ FutexWait(t)
  \/ WaitClear(t)
  \/ WakeNotify(t)
  \/ WakeFutex(t)

Step(t) == Inner(t) \/ WaitReturn(t)

Next ==
  \E t \in Threads :
    \/ WaitFast(t)
    \/ WaitNoTimeout(t)
    \/ WaitBegin(t)
    \/ WakeRaise(t)
    \/ FutexTimeout(t)
    \/ Step(t)

Spec == Init /\ [][Next]_vars

-----------------------------------------------------------------------------
(* The event's fields and the threads' program points stay in their range. *)
TypeOK ==
  /\ flag \in {0, 1}
  /\ waiters \in Nat
  /\ pc \in [Threads -> {"idle"} \cup WaitPoints \cup WakePoints]
  /\ woken \subseteq Threads

(* The waiter count is exactly the number of threads between the increment *)
(* and the decrement of rvvm_event_wait, so the wake that reads zero and   *)
(* skips the futex call skips it for nobody.                               *)
WaitersExact == waiters = Cardinality(Counted)

(* No lost wake-up: while the flag is up and a thread sleeps in the futex, *)
(* either a waker has still to notify, or a woken thread has still to      *)
(* clear the flag.  A raised event never lies idle beside a sleeper.       *)
NoLostWakeup ==
  (flag = 1 /\ Asleep # {}) =>
    \E t \in Threads : pc[t] \in WakePoints \cup {"clear"}

(* The inductive invariant of the event.                                   *)
IInv ==
  /\ TypeOK
  /\ WaitersExact
  /\ NoLostWakeup

(* Every signal raised while somebody sleeps is eventually consumed, with  *)
(* no help from deadlines.                                                 *)
SignalConsumed == (flag = 1 /\ Asleep # {}) ~> (flag = 0)

=============================================================================
