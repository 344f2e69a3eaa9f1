----------------------------- MODULE EventProofs -----------------------------
(***************************************************************************)
(* Proofs about Event for every finite set of threads: its inductive       *)
(* invariant, the safety properties it implies, and that it implements the *)
(* auto-reset event of AutoResetEvent.                                     *)
(***************************************************************************)
EXTENDS EventHistory, FiniteSetTheorems, TLAPS

(* The fields of the event, with nothing said of the sign of waiters.      *)
FieldsOK ==
  /\ flag \in {0, 1}
  /\ pc \in [Threads -> {"idle"} \cup WaitPoints \cup WakePoints]
  /\ woken \subseteq Threads

(* Every step of every thread keeps the fields in their range.             *)
LEMMA FieldsStep == FieldsOK /\ [Next]_vars => FieldsOK'
<1> SUFFICES ASSUME FieldsOK, [Next]_vars PROVE FieldsOK'
  OBVIOUS
<1> USE DEF FieldsOK, WaitPoints, WakePoints, Goto
<1>1. CASE UNCHANGED vars
  BY <1>1 DEF vars
<1>2. ASSUME NEW t \in Threads, WaitFast(t) \/ WaitNoTimeout(t) \/ WaitBegin(t)
      PROVE  FieldsOK'
  BY <1>2 DEF WaitFast, WaitNoTimeout, WaitBegin, vars
<1>3. ASSUME NEW t \in Threads, WakeRaise(t) \/ WakeNotify(t)
      PROVE  FieldsOK'
  BY <1>3 DEF WakeRaise, WakeNotify, Waiting
<1>4. ASSUME NEW t \in Threads, WakeFutex(t)
      PROVE  FieldsOK'
  BY <1>4 DEF WakeFutex, Asleep
<1>5. ASSUME NEW t \in Threads, FutexTimeout(t) \/ FutexWait(t)
      PROVE  FieldsOK'
  BY <1>5 DEF FutexTimeout, FutexWait
<1>6. ASSUME NEW t \in Threads, WaitAdd(t) \/ WaitRecheck(t)
      PROVE  FieldsOK'
  BY <1>6 DEF WaitAdd, WaitRecheck
<1>7. ASSUME NEW t \in Threads, WaitClear(t) \/ WaitReturn(t)
      PROVE  FieldsOK'
  BY <1>7 DEF WaitClear, WaitReturn
<1>8. QED
  BY <1>1, <1>2, <1>3, <1>4, <1>5, <1>6, <1>7 DEF Next, Step, Inner

(* The counted threads are finitely many, so their number is a natural.    *)
LEMMA CountedFinite == IsFiniteSet(Counted) /\ Cardinality(Counted) \in Nat
<1>1. IsFiniteSet(Counted)
  BY ThreadsAssumption, FS_Subset DEF Counted
<1>2. QED
  BY <1>1, FS_CardinalityType

(* The waiter count follows the set of counted threads in every step: only *)
(* WaitAdd and WaitReturn change either of them, and both change both.     *)
LEMMA CountStep ==
  FieldsOK /\ WaitersExact /\ [Next]_vars => WaitersExact'
<1> SUFFICES ASSUME FieldsOK, WaitersExact, [Next]_vars PROVE WaitersExact'
  OBVIOUS
<1> USE DEF FieldsOK, WaitPoints, WakePoints, CountedPoints, Goto
<1>1. ASSUME waiters' = waiters, Counted' = Counted
      PROVE  WaitersExact'
  BY <1>1 DEF WaitersExact
<1>2. CASE UNCHANGED vars
  <2>1. waiters' = waiters /\ Counted' = Counted
    BY <1>2 DEF vars, Counted
  <2>2. QED
    BY <2>1, <1>1
<1>3. ASSUME NEW t \in Threads, WaitFast(t) \/ WaitNoTimeout(t) \/ WaitBegin(t)
      PROVE  WaitersExact'
  <2>1. waiters' = waiters /\ Counted' = Counted
    BY <1>3 DEF WaitFast, WaitNoTimeout, WaitBegin, vars, Counted
  <2>2. QED
    BY <2>1, <1>1
<1>4. ASSUME NEW t \in Threads, WakeRaise(t) \/ WakeNotify(t)
      PROVE  WaitersExact'
  <2>1. waiters' = waiters /\ Counted' = Counted
    BY <1>4 DEF WakeRaise, WakeNotify, Counted
  <2>2. QED
    BY <2>1, <1>1
<1>5. ASSUME NEW t \in Threads, WakeFutex(t)
      PROVE  WaitersExact'
  <2>1. waiters' = waiters /\ Counted' = Counted
    BY <1>5 DEF WakeFutex, Asleep, Counted
  <2>2. QED
    BY <2>1, <1>1
<1>6. ASSUME NEW t \in Threads,
             FutexTimeout(t) \/ FutexWait(t) \/ WaitRecheck(t) \/ WaitClear(t)
      PROVE  WaitersExact'
  <2>1. waiters' = waiters /\ Counted' = Counted
    BY <1>6 DEF FutexTimeout, FutexWait, WaitRecheck, WaitClear, Counted
  <2>2. QED
    BY <2>1, <1>1
<1>7. ASSUME NEW t \in Threads, WaitAdd(t)
      PROVE  WaitersExact'
  <2>1. Counted' = Counted \cup {t} /\ t \notin Counted
    BY <1>7 DEF WaitAdd, Counted
  <2>2. Cardinality(Counted') = Cardinality(Counted) + 1
    BY <2>1, CountedFinite, FS_AddElement
  <2>3. QED
    BY <1>7, <2>2 DEF WaitAdd, WaitersExact
<1>8. ASSUME NEW t \in Threads, WaitReturn(t)
      PROVE  WaitersExact'
  <2>1. Counted' = Counted \ {t} /\ t \in Counted
    BY <1>8 DEF WaitReturn, Counted
  <2>2. Cardinality(Counted') = Cardinality(Counted) - 1
    BY <2>1, CountedFinite, FS_RemoveElement
  <2>3. QED
    BY <1>8, <2>2 DEF WaitReturn, WaitersExact
<1>9. QED
  BY <1>2, <1>3, <1>4, <1>5, <1>6, <1>7, <1>8 DEF Next, Step, Inner

(* A waker that reads a zero waiter count leaves no sleeper behind.        *)
LEMMA NobodyCounted == WaitersExact /\ waiters = 0 => Asleep = {}
<1> SUFFICES ASSUME WaitersExact, waiters = 0 PROVE Asleep = {}
  OBVIOUS
<1>1. Counted = {}
  BY CountedFinite, FS_EmptySet DEF WaitersExact
<1>2. QED
  BY <1>1 DEF Counted, Asleep, CountedPoints

(* No step leaves a sleeper beside a raised flag with nobody to wake it.   *)
LEMMA WakeupStep ==
  FieldsOK /\ WaitersExact /\ NoLostWakeup /\ [Next]_vars => NoLostWakeup'
<1> SUFFICES ASSUME FieldsOK, WaitersExact, NoLostWakeup, [Next]_vars
             PROVE  NoLostWakeup'
  OBVIOUS
<1> USE DEF FieldsOK, WaitPoints, WakePoints, Goto, NoLostWakeup, Asleep
<1>1. CASE UNCHANGED vars
  BY <1>1 DEF vars
<1>2. ASSUME NEW t \in Threads, WaitFast(t) \/ WaitNoTimeout(t) \/ WaitBegin(t)
      PROVE  NoLostWakeup'
  BY <1>2 DEF WaitFast, WaitNoTimeout, WaitBegin, vars
<1>3. ASSUME NEW t \in Threads, WakeRaise(t)
      PROVE  NoLostWakeup'
  BY <1>3 DEF WakeRaise
<1>4. ASSUME NEW t \in Threads, WakeNotify(t)
      PROVE  NoLostWakeup'
  <2>1. CASE waiters = 0
    BY <2>1, <1>4, NobodyCounted DEF WakeNotify
  <2>2. CASE waiters # 0
    BY <2>2, <1>4 DEF WakeNotify
  <2>3. QED
    BY <2>1, <2>2
<1>5. ASSUME NEW t \in Threads, WakeFutex(t)
      PROVE  NoLostWakeup'
  BY <1>5 DEF WakeFutex
<1>6. ASSUME NEW t \in Threads, FutexTimeout(t) \/ FutexWait(t)
      PROVE  NoLostWakeup'
  BY <1>6 DEF FutexTimeout, FutexWait
<1>7. ASSUME NEW t \in Threads, WaitAdd(t) \/ WaitRecheck(t)
      PROVE  NoLostWakeup'
  BY <1>7 DEF WaitAdd, WaitRecheck
<1>8. ASSUME NEW t \in Threads, WaitClear(t) \/ WaitReturn(t)
      PROVE  NoLostWakeup'
  BY <1>8 DEF WaitClear, WaitReturn
<1>9. QED
  BY <1>1, <1>2, <1>3, <1>4, <1>5, <1>6, <1>7, <1>8 DEF Next, Step, Inner

(* The inductive invariant holds in every reachable state.                 *)
THEOREM InductiveInvariant == Spec => []IInv
<1>1. Init => IInv
  <2> SUFFICES ASSUME Init PROVE IInv
    OBVIOUS
  <2>1. Counted = {} /\ Asleep = {}
    BY DEF Init, Counted, Asleep, CountedPoints
  <2>2. Cardinality(Counted) = 0
    BY <2>1, FS_EmptySet
  <2>3. QED
    BY <2>1, <2>2 DEF Init, IInv, TypeOK, WaitersExact, NoLostWakeup
<1>2. IInv /\ [Next]_vars => IInv'
  <2> SUFFICES ASSUME IInv, [Next]_vars PROVE IInv'
    OBVIOUS
  <2>1. FieldsOK
    BY DEF IInv, TypeOK, FieldsOK
  <2>2. FieldsOK'
    BY <2>1, FieldsStep
  <2>3. WaitersExact'
    BY <2>1, CountStep DEF IInv
  <2>4. waiters' \in Nat
    <3>1. IsFiniteSet(Counted')
      BY ThreadsAssumption, FS_Subset DEF Counted
    <3>2. QED
      BY <3>1, <2>3, FS_CardinalityType DEF WaitersExact
  <2>5. NoLostWakeup'
    BY <2>1, WakeupStep DEF IInv
  <2>6. QED
    BY <2>2, <2>3, <2>4, <2>5 DEF IInv, TypeOK, FieldsOK
<1>3. QED
  BY <1>1, <1>2, PTL DEF Spec

(* The event's fields have their types: waiters never goes below zero.     *)
THEOREM TypeCorrect == Spec => []TypeOK
<1>1. IInv => TypeOK
  BY DEF IInv
<1>2. QED
  BY <1>1, InductiveInvariant, PTL

(* No wake-up is lost, however many threads wait and wake at once.         *)
THEOREM WakeupsNotLost == Spec => []NoLostWakeup
<1>1. IInv => NoLostWakeup
  BY DEF IInv
<1>2. QED
  BY <1>1, InductiveInvariant, PTL

(* waiters counts exactly the threads between their increment and their    *)
(* decrement, which is what lets condvar_wake skip the futex call at zero. *)
THEOREM WaitersCounted == Spec => []WaitersExact
<1>1. IInv => WaitersExact
  BY DEF IInv
<1>2. QED
  BY <1>1, InductiveInvariant, PTL

-----------------------------------------------------------------------------
(* The history watches the event and does not change what it can do.       *)
LEMMA HistoryWatches == HSpec => Spec
<1>1. HInit => Init
  BY DEF HInit
<1>2. [HNext]_hvars => [Next]_vars
  BY DEF HNext, hvars, CallFast, CallNoTimeout, CallBegin, CallWake, CallReturn,
         CallStep, Next, Step
<1>3. QED
  BY <1>1, <1>2, PTL DEF HSpec, Spec

(* Waits are marked before anything can make them report a wake-up.        *)
LEMMA OverlapStep ==
  FieldsOK /\ OverlapMarked /\ NoSpuriousReport /\ [HNext]_hvars
    => OverlapMarked' /\ NoSpuriousReport'
<1> SUFFICES ASSUME FieldsOK, OverlapMarked, NoSpuriousReport, [HNext]_hvars
             PROVE  OverlapMarked' /\ NoSpuriousReport'
  OBVIOUS
<1> USE DEF FieldsOK, WaitPoints, WakePoints, Goto, OverlapMarked,
            NoSpuriousReport, Waiting, Waking
<1>1. CASE UNCHANGED hvars
  BY <1>1 DEF hvars, vars, history
<1>2. ASSUME NEW t \in Threads, CallFast(t) \/ CallNoTimeout(t)
      PROVE  OverlapMarked' /\ NoSpuriousReport'
  BY <1>2 DEF CallFast, CallNoTimeout, WaitFast, WaitNoTimeout, vars
<1>3. ASSUME NEW t \in Threads, CallBegin(t)
      PROVE  OverlapMarked' /\ NoSpuriousReport'
  BY <1>3 DEF CallBegin, WaitBegin
<1>4. ASSUME NEW t \in Threads, CallWake(t)
      PROVE  OverlapMarked' /\ NoSpuriousReport'
  BY <1>4 DEF CallWake, WakeRaise
<1>5. ASSUME NEW t \in Threads, UNCHANGED history, WakeNotify(t)
      PROVE  OverlapMarked' /\ NoSpuriousReport'
  BY <1>5 DEF WakeNotify, history
<1>6. ASSUME NEW t \in Threads, UNCHANGED history, WakeFutex(t)
      PROVE  OverlapMarked' /\ NoSpuriousReport'
  BY <1>6 DEF WakeFutex, Asleep, history
<1>7. ASSUME NEW t \in Threads, UNCHANGED history, FutexTimeout(t) \/ FutexWait(t)
      PROVE  OverlapMarked' /\ NoSpuriousReport'
  BY <1>7 DEF FutexTimeout, FutexWait, history
<1>8. ASSUME NEW t \in Threads, UNCHANGED history, WaitAdd(t) \/ WaitRecheck(t)
      PROVE  OverlapMarked' /\ NoSpuriousReport'
  BY <1>8 DEF WaitAdd, WaitRecheck, history
<1>9. ASSUME NEW t \in Threads, UNCHANGED history, WaitClear(t)
      PROVE  OverlapMarked' /\ NoSpuriousReport'
  BY <1>9 DEF WaitClear, history
<1>10. ASSUME NEW t \in Threads, CallReturn(t)
       PROVE  OverlapMarked' /\ NoSpuriousReport'
  BY <1>10 DEF CallReturn, WaitReturn
<1>11. QED
  BY <1>1, <1>2, <1>3, <1>4, <1>5, <1>6, <1>7, <1>8, <1>9, <1>10
     DEF HNext, CallStep, Inner

(* rvvm_event_wait returns true only if a wake overlapped the call.        *)
THEOREM ReportsNotSpurious == HSpec => []NoSpuriousReport
<1>1. HInit => OverlapMarked /\ NoSpuriousReport
  BY DEF HInit, Init, OverlapMarked, NoSpuriousReport, Waiting, Waking,
         WaitPoints, WakePoints
<1>2. IInv => FieldsOK
  BY DEF IInv, TypeOK, FieldsOK
<1>3. /\ IInv /\ OverlapMarked /\ NoSpuriousReport
      /\ [HNext]_hvars
      => (OverlapMarked /\ NoSpuriousReport)'
  BY <1>2, OverlapStep
<1>4. QED
  BY <1>1, <1>3, InductiveInvariant, HistoryWatches, PTL DEF HSpec

(* rvvm_event_t implements the auto-reset event: every step of a thread is *)
(* a step of AutoResetEvent or invisible to its callers.                   *)
THEOREM AutoResetRefinement == HSpec => ImplementsAutoReset
<1>1. HInit => Abstract!AInit
  BY DEF HInit, Init, Abstract!AInit, Waiting, Waking, WaitPoints, WakePoints
<1>2. IInv /\ NoSpuriousReport /\ [HNext]_hvars => [Abstract!ANext]_(Abstract!avars)
  <2> SUFFICES ASSUME IInv, NoSpuriousReport, [HNext]_hvars
               PROVE  [Abstract!ANext]_(Abstract!avars)
    OBVIOUS
  <2> USE DEF IInv, TypeOK, Goto, Waiting, Waking, WaitPoints, WakePoints
  <2>1. CASE UNCHANGED hvars
    BY <2>1 DEF hvars, vars, history, Abstract!avars
  <2>2. ASSUME NEW t \in Threads, CallFast(t)
        PROVE  Abstract!TakeAtOnce(t)
    BY <2>2 DEF CallFast, WaitFast, Abstract!TakeAtOnce
  <2>3. ASSUME NEW t \in Threads, CallNoTimeout(t)
        PROVE  Abstract!Refuse(t)
    BY <2>3 DEF CallNoTimeout, WaitNoTimeout, vars, Abstract!Refuse
  <2>4. ASSUME NEW t \in Threads, CallBegin(t)
        PROVE  Abstract!Begin(t)
    BY <2>4 DEF CallBegin, WaitBegin, Abstract!Begin
  <2>5. ASSUME NEW t \in Threads, CallWake(t)
        PROVE  Abstract!Signal(t)
    BY <2>5 DEF CallWake, WakeRaise, Abstract!Signal
  <2>6. ASSUME NEW t \in Threads, UNCHANGED history, WakeNotify(t)
        PROVE  Abstract!SignalDone(t) \/ UNCHANGED Abstract!avars
    BY <2>6 DEF WakeNotify, history, Abstract!SignalDone, Abstract!avars
  <2>7. ASSUME NEW t \in Threads, UNCHANGED history, WakeFutex(t)
        PROVE  Abstract!SignalDone(t)
    BY <2>7 DEF WakeFutex, history, Asleep, Abstract!SignalDone
  <2>8. ASSUME NEW t \in Threads, UNCHANGED history,
               FutexTimeout(t) \/ FutexWait(t) \/ WaitAdd(t)
        PROVE  UNCHANGED Abstract!avars
    BY <2>8 DEF FutexTimeout, FutexWait, WaitAdd, history, Abstract!avars
  <2>9. ASSUME NEW t \in Threads, UNCHANGED history, WaitRecheck(t) \/ WaitClear(t)
        PROVE  Abstract!Consume(t) \/ UNCHANGED Abstract!avars
    BY <2>9 DEF WaitRecheck, WaitClear, history, Abstract!Consume, Abstract!avars
  <2>10. ASSUME NEW t \in Threads, CallReturn(t)
         PROVE  Abstract!Succeed(t) \/ Abstract!GiveUp(t)
    BY <2>10 DEF CallReturn, WaitReturn, NoSpuriousReport, Abstract!Succeed, Abstract!GiveUp
  <2>11. QED
    BY <2>1, <2>2, <2>3, <2>4, <2>5, <2>6, <2>7, <2>8, <2>9, <2>10
       DEF HNext, CallStep, Inner, Abstract!ANext
<1>3. QED
  BY <1>1, <1>2, InductiveInvariant, HistoryWatches, ReportsNotSpurious, PTL
     DEF HSpec, ImplementsAutoReset, Abstract!ASpec
==============================================================================
