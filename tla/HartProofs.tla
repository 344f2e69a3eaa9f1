------------------------------ MODULE HartProofs ------------------------------
(***************************************************************************)
(* Proofs about Hart, for any number of devices, other harts, interrupt    *)
(* lines and ticks.                                                        *)
(***************************************************************************)
EXTENDS Hart, TLAPS

(* The typing that the two proofs below need.                              *)
Points ==
  /\ at \in [Threads -> HartPoints \cup CallPoints]
  /\ running \in BOOLEAN
  /\ mie \in BOOLEAN

(* Everything that is not the hart's own code leaves these alone.          *)
Quiet == UNCHANGED <<at, running, pendingIrqs, pendingEvents, ie, ip, mie>>

-----------------------------------------------------------------------------
(* Every step of Next is one of the actions, for some thread.              *)
LEMMA NextActions ==
  ASSUME Next
  PROVE  \/ \E t \in Threads :
              \/ Restart(t) \/ CondvarWake(t)
              \/ TimecmpTest(t) \/ TimecmpRaise(t) \/ TimecmpClear(t)
              \/ CheckTimerBegin(t) \/ CheckTimerClock(t)
              \/ CheckTimerCompare(t) \/ CheckTimerSet(t) \/ CheckTimerKick(t)
              \/ \E k \in Timers, time \in 0..MaxTime \cup {Never} :
                   t \in {HartThread} \cup OtherHarts /\ TimecmpSet(t, k, time)
              \/ \E time \in RebaseTimes :
                   t \in {HartThread} \cup OtherHarts /\ Rebase(t, time)
              \/ \E l \in DeviceIrqs :
                   t # Supervisor /\ (RaiseLine(t, l) \/ LowerLine(t, l))
              \/ Wfi!Step(t) /\ UNCHANGED hvars
         \/ Spawn \/ ResetState \/ QueuePause \/ Join \/ Preempt \/ PreemptKick
         \/ RunArm \/ RunEvents \/ RunIrqs \/ RunDispatch
         \/ InsnOther \/ InsnTrap \/ InsnWfi
         \/ \E lines \in SUBSET Lines : InsnWriteIe(lines)
         \/ \E lines \in SUBSET SoftIrqs : InsnWriteIp(lines)
         \/ \E b \in BOOLEAN : InsnMret(b) \/ InsnStatus(b)
         \/ WfiTest \/ WfiDelay \/ WfiWait
         \/ WfiTimeout \/ Tick
<1>1. HartThread \in Threads /\ Supervisor \in Threads
  BY DEF Threads
<1>2. Devices \cup OtherHarts \subseteq Threads
  BY DEF Threads
<1>3. \A t \in Devices \cup OtherHarts : t # Supervisor
  BY HartAssumption
<1>4. HartThread # Supervisor
  BY HartAssumption
<1>5. MTIMER \in Timers
  BY HartAssumption DEF MTIMER, STIMER
<1>6. HartThread \in {HartThread} \cup OtherHarts
      /\ \A t \in OtherHarts : t \in {HartThread} \cup OtherHarts
  OBVIOUS
<1>7. ASSUME NEW t \in Threads, Continue(t)
      PROVE  \/ Restart(t) \/ CondvarWake(t)
             \/ TimecmpTest(t) \/ TimecmpRaise(t) \/ TimecmpClear(t)
             \/ CheckTimerClock(t) \/ CheckTimerCompare(t)
             \/ CheckTimerSet(t) \/ CheckTimerKick(t)
             \/ Wfi!Step(t) /\ UNCHANGED hvars
  BY <1>7 DEF Continue
<1>8. CASE HartRun
  BY <1>1, <1>4, <1>6, <1>7, <1>8, Zenon DEF HartRun
<1>9. CASE SupervisorRun
  BY <1>1, <1>7, <1>9, Zenon DEF SupervisorRun
<1>10. CASE \E t \in Devices \cup OtherHarts : Continue(t)
  BY <1>2, <1>7, <1>10, Zenon
<1>11. CASE Environment
  BY <1>1, <1>2, <1>3, <1>5, <1>6, <1>11, Zenon DEF Environment
<1>12. CASE Tick
  BY <1>12
<1>13. QED
  BY <1>8, <1>9, <1>10, <1>11, <1>12 DEF Next

(* The same, where the event and the clocks do not matter.                 *)
LEMMA NextCases ==
  ASSUME Next
  PROVE  \/ \E t \in Threads :
              \/ Restart(t) \/ CondvarWake(t)
              \/ TimecmpTest(t) \/ TimecmpRaise(t) \/ TimecmpClear(t)
              \/ CheckTimerBegin(t) \/ CheckTimerClock(t)
              \/ CheckTimerCompare(t) \/ CheckTimerSet(t) \/ CheckTimerKick(t)
              \/ \E k \in Timers, time \in 0..MaxTime \cup {Never} :
                   t # Supervisor /\ TimecmpSet(t, k, time)
              \/ \E time \in RebaseTimes : t # Supervisor /\ Rebase(t, time)
              \/ \E l \in DeviceIrqs :
                   t # Supervisor /\ (RaiseLine(t, l) \/ LowerLine(t, l))
         \/ Spawn \/ ResetState \/ QueuePause \/ Join \/ Preempt \/ PreemptKick
         \/ RunArm \/ RunEvents \/ RunIrqs \/ RunDispatch
         \/ InsnOther \/ InsnTrap \/ InsnWfi
         \/ \E lines \in SUBSET Lines : InsnWriteIe(lines)
         \/ \E lines \in SUBSET SoftIrqs : InsnWriteIp(lines)
         \/ \E b \in BOOLEAN : InsnMret(b) \/ InsnStatus(b)
         \/ WfiTest \/ WfiDelay \/ WfiWait
         \/ Quiet
<1>1. (WfiTimeout \/ Tick \/ UNCHANGED hvars) => Quiet
  BY DEF WfiTimeout, Tick, Quiet, hvars, csrs
<1>2. \A t \in {HartThread} \cup OtherHarts : t # Supervisor
  BY HartAssumption
<1>3. QED
  BY <1>1, <1>2, NextActions, Zenon

-----------------------------------------------------------------------------
(* Every action keeps the threads' program points in their range.          *)
LEMMA PointsStep ==
  ASSUME Points, [Next]_vars
  PROVE  Points'
<1>1. HartThread \in Threads /\ Supervisor \in Threads
  BY DEF Threads
<1>2. \A t \in Threads : \A from, to :
        (Goto(t, from, to) /\ to \in HartPoints \cup CallPoints) =>
          at' \in [Threads -> HartPoints \cup CallPoints]
  BY DEF Points, Goto
<1>3. \A t : /\ Home(t) \in HartPoints \cup CallPoints
            /\ CheckTimerDone(t) \in HartPoints \cup CallPoints
  BY DEF Home, CheckTimerDone, HartPoints, CallPoints
<1>4. ASSUME NEW t \in Threads, NextTimer(t)
      PROVE  at' \in [Threads -> HartPoints \cup CallPoints]
  BY <1>3, <1>4 DEF NextTimer, Points, CallPoints
<1>5. CASE UNCHANGED vars
  BY <1>5 DEF vars, hvars, csrs, Points
<1>6. CASE Quiet
  BY <1>6 DEF Quiet, Points
<1>7. ASSUME NEW t \in Threads,
             \/ Restart(t) \/ CondvarWake(t)
             \/ TimecmpTest(t) \/ TimecmpRaise(t) \/ TimecmpClear(t)
             \/ \E k, time : TimecmpSet(t, k, time)
             \/ \E time : Rebase(t, time)
             \/ \E l : RaiseLine(t, l) \/ LowerLine(t, l)
      PROVE  Points'
  <2>1. CASE Restart(t)
    BY <2>1, <1>2 DEF Restart, csrs, Points, CallPoints
  <2>2. CASE CondvarWake(t)
    BY <2>2, <1>2, <1>3 DEF CondvarWake, csrs, Points, CallPoints
  <2>3. CASE TimecmpTest(t)
    BY <2>3, <1>2 DEF TimecmpTest, csrs, Points, CallPoints
  <2>4. CASE TimecmpRaise(t)
    BY <2>4, <1>2, <1>3 DEF TimecmpRaise, SetLine, csrs, Points, CallPoints
  <2>5. CASE TimecmpClear(t)
    BY <2>5, <1>2, <1>3 DEF TimecmpClear, ClearLine, csrs, Points
  <2>6. CASE \E k, time : TimecmpSet(t, k, time)
    BY <2>6, <1>2 DEF TimecmpSet, csrs, Points, CallPoints
  <2>7. CASE \E time : Rebase(t, time)
    BY <2>7, <1>2, <1>3 DEF Rebase, csrs, Points
  <2>8. CASE \E l : RaiseLine(t, l) \/ LowerLine(t, l)
    BY <2>8, <1>2, <1>3 DEF RaiseLine, LowerLine, SetLine, ClearLine, csrs,
                            Points, CallPoints
  <2>9. QED
    BY <1>7, <2>1, <2>2, <2>3, <2>4, <2>5, <2>6, <2>7, <2>8
<1>8. ASSUME NEW t \in Threads,
             \/ CheckTimerBegin(t) \/ CheckTimerClock(t)
             \/ CheckTimerCompare(t) \/ CheckTimerSet(t) \/ CheckTimerKick(t)
      PROVE  Points'
  <2>1. CASE CheckTimerBegin(t)
    BY <2>1, <1>2, <1>3 DEF CheckTimerBegin, csrs, Points, CallPoints
  <2>2. CASE CheckTimerClock(t)
    BY <2>2, <1>2 DEF CheckTimerClock, csrs, Points, CallPoints
  <2>3. CASE CheckTimerCompare(t)
    BY <2>3, <1>4 DEF CheckTimerCompare, csrs, Points, CallPoints
  <2>4. CASE CheckTimerSet(t)
    BY <2>4, <1>4 DEF CheckTimerSet, csrs, Points, CallPoints
  <2>5. CASE CheckTimerKick(t)
    BY <2>5, <1>4 DEF CheckTimerKick, csrs, Points
  <2>6. QED
    BY <1>8, <2>1, <2>2, <2>3, <2>4, <2>5
<1>9. CASE Spawn \/ ResetState \/ QueuePause \/ Join \/ Preempt \/ PreemptKick
  BY <1>1, <1>2, <1>9 DEF Spawn, ResetState, QueuePause, Join, Preempt,
                          PreemptKick, csrs, Points, HartPoints, CallPoints
<1>10. CASE RunArm \/ RunEvents \/ RunIrqs \/ RunDispatch
  BY <1>1, <1>2, <1>10 DEF RunArm, RunEvents, RunIrqs, RunDispatch, csrs, Points,
                           HartPoints
<1>11. CASE \/ InsnOther \/ InsnTrap \/ InsnWfi
            \/ \E lines : InsnWriteIe(lines) \/ InsnWriteIp(lines)
            \/ \E b \in BOOLEAN : InsnMret(b) \/ InsnStatus(b)
  BY <1>1, <1>2, <1>11 DEF InsnOther, InsnTrap, InsnWfi, InsnWriteIe, InsnWriteIp,
                           InsnMret, InsnStatus, csrs, Points, HartPoints
<1>12. CASE WfiTest \/ WfiDelay \/ WfiWait
  BY <1>1, <1>2, <1>12 DEF WfiTest, WfiDelay, WfiWait, csrs, Points, HartPoints
<1>13. QED
  BY <1>5, <1>6, <1>7, <1>8, <1>9, <1>10, <1>11, <1>12, NextCases, Zenon

-----------------------------------------------------------------------------
(* An interrupt that would be taken finds the dispatch stopped, or a thread *)
(* about to stop it, at every point of every instruction.                  *)

(* A thread that is about to stop the dispatch.                            *)
Stopping(t) == at[t] \in {"restart", "kick"}

LEMMA CoveredStep ==
  ASSUME Points, InterruptCovered, [Next]_vars
  PROVE  InterruptCovered'
<1> USE DEF Stopping
<1>1. HartThread \in Threads /\ Supervisor \in Threads /\ HartThread # Supervisor
  BY HartAssumption DEF Threads
<1>2. at \in [Threads -> HartPoints \cup CallPoints] /\ running \in BOOLEAN
        /\ mie \in BOOLEAN
  BY DEF Points
(* A step that leaves the interrupt state alone and moves no thread that   *)
(* is about to stop the dispatch.                                          *)
<1>3. ASSUME UNCHANGED <<running, ie, ip, mie>>,
             pendingIrqs' \subseteq pendingIrqs,
             \A t \in Threads : Stopping(t) => at'[t] = at[t],
             at'[HartThread] \notin Outside => at[HartThread] \notin Outside
      PROVE  InterruptCovered'
  BY <1>3 DEF InterruptCovered, Pending
<1>4. (running' = FALSE) => InterruptCovered'
  BY DEF InterruptCovered
<1>5. ASSUME NEW t \in Threads, NEW from, NEW to, Goto(t, from, to),
             from \notin {"restart", "kick"}
      PROVE  /\ \A u \in Threads : Stopping(u) => at'[u] = at[u]
             /\ at'[t] = to
             /\ \A u \in Threads \ {t} : at'[u] = at[u]
  BY <1>2, <1>5 DEF Goto
<1>6. ASSUME NEW t \in Threads, NextTimer(t), at[t] = "cmp" \/ at[t] = "set"
      PROVE  /\ \A u \in Threads : Stopping(u) => at'[u] = at[u]
             /\ at'[t] \notin Outside
             /\ \A u \in Threads \ {t} : at'[u] = at[u]
  BY <1>2, <1>6 DEF NextTimer, CheckTimerDone, Outside
<1>7. CASE UNCHANGED vars \/ Quiet
  BY <1>3, <1>7 DEF vars, hvars, csrs, Quiet
<1>8. ASSUME NEW t \in Threads, NEW l, NEW from, SetLine(t, l, from),
             from \notin {"restart", "kick"} \cup Outside
      PROVE  InterruptCovered'
  <2>1. CASE l \in pendingIrqs
    <3>1. pendingIrqs' = pendingIrqs /\ UNCHANGED <<running, ie, ip, mie>>
      BY <1>8, <2>1 DEF SetLine, csrs
    <3>2. at'[HartThread] \notin Outside => at[HartThread] \notin Outside
      BY <1>1, <1>2, <1>5, <1>8 DEF SetLine, Goto
    <3>3. QED
      BY <1>3, <1>5, <1>8, <3>1, <3>2 DEF SetLine
  <2>2. CASE l \notin pendingIrqs
    <3>1. at'[t] = "restart"
      BY <1>2, <1>8, <2>2 DEF SetLine, Goto
    <3>2. QED
      BY <3>1 DEF InterruptCovered
  <2>3. QED
    BY <2>1, <2>2
<1>9. ASSUME NEW t \in Threads, NEW l, NEW from, ClearLine(t, l, from),
             from \notin {"restart", "kick"} \cup Outside
      PROVE  InterruptCovered'
  <2>1. pendingIrqs' \subseteq pendingIrqs /\ UNCHANGED <<running, ie, ip, mie>>
    BY <1>9 DEF ClearLine, csrs
  <2>2. at'[HartThread] \notin Outside => at[HartThread] \notin Outside
    BY <1>1, <1>2, <1>5, <1>9 DEF ClearLine, Goto
  <2>3. QED
    BY <1>3, <1>5, <1>9, <2>1, <2>2 DEF ClearLine
<1>10. \A t : Ready(t) \notin {"restart", "kick"} \cup Outside
  BY DEF Ready, Outside
<1>11. ASSUME NEW t \in Threads,
              \/ Restart(t) \/ CondvarWake(t)
              \/ TimecmpTest(t) \/ TimecmpRaise(t) \/ TimecmpClear(t)
              \/ \E k, time : TimecmpSet(t, k, time)
              \/ \E time : Rebase(t, time)
              \/ \E l : RaiseLine(t, l) \/ LowerLine(t, l)
       PROVE  InterruptCovered'
  <2>1. CASE Restart(t)
    BY <1>4, <2>1 DEF Restart
  <2>2. CASE CondvarWake(t)
    BY <1>1, <1>2, <1>3, <1>5, <2>2 DEF CondvarWake, Goto, csrs, Outside
  <2>3. CASE TimecmpTest(t)
    BY <1>1, <1>2, <1>3, <1>5, <2>3 DEF TimecmpTest, Goto, csrs, Outside
  <2>4. CASE TimecmpRaise(t)
    BY <1>8, <2>4 DEF TimecmpRaise, Outside
  <2>5. CASE TimecmpClear(t)
    BY <1>9, <2>5 DEF TimecmpClear, Outside
  <2>6. CASE \E k, time : TimecmpSet(t, k, time)
    BY <1>1, <1>2, <1>3, <1>5, <1>10, <2>6 DEF TimecmpSet, Goto, csrs
  <2>7. CASE \E time : Rebase(t, time)
    BY <1>1, <1>2, <1>3, <1>5, <1>10, <2>7 DEF Rebase, Goto, csrs
  <2>8. CASE \E l : RaiseLine(t, l) \/ LowerLine(t, l)
    BY <1>8, <1>9, <1>10, <2>8 DEF RaiseLine, LowerLine
  <2>9. QED
    BY <1>11, <2>1, <2>2, <2>3, <2>4, <2>5, <2>6, <2>7, <2>8
<1>12. ASSUME NEW t \in Threads,
              \/ CheckTimerBegin(t) \/ CheckTimerClock(t)
              \/ CheckTimerCompare(t) \/ CheckTimerSet(t) \/ CheckTimerKick(t)
       PROVE  InterruptCovered'
  <2>1. CASE CheckTimerBegin(t)
    BY <1>1, <1>2, <1>3, <1>5, <2>1 DEF CheckTimerBegin, Goto, csrs, Outside
  <2>2. CASE CheckTimerClock(t)
    BY <1>1, <1>2, <1>3, <1>5, <2>2 DEF CheckTimerClock, Goto, csrs, Outside
  <2>3. CASE CheckTimerCompare(t)
    <3>1. UNCHANGED <<running, pendingIrqs, ie, ip, mie>> /\ at[t] = "cmp"
      BY <2>3 DEF CheckTimerCompare, csrs
    <3>2. CASE NextTimer(t)
      BY <1>1, <1>3, <1>6, <3>1, <3>2 DEF Outside
    <3>3. CASE at' = [at EXCEPT ![t] = "set"]
      BY <1>1, <1>2, <1>3, <3>1, <3>3 DEF Outside
    <3>4. QED
      BY <2>3, <3>2, <3>3 DEF CheckTimerCompare
  <2>4. CASE CheckTimerSet(t)
    <3>1. UNCHANGED <<running, ie, ip, mie>> /\ at[t] = "set"
      BY <2>4 DEF CheckTimerSet, csrs
    <3>2. CASE line[t] \in pendingIrqs
      <4>1. NextTimer(t) /\ pendingIrqs' = pendingIrqs
        BY <2>4, <3>2 DEF CheckTimerSet
      <4>2. QED
        BY <1>1, <1>3, <1>6, <3>1, <4>1 DEF Outside
    <3>3. CASE line[t] \notin pendingIrqs
      <4>1. at'[t] = "kick"
        BY <1>2, <2>4, <3>3 DEF CheckTimerSet
      <4>2. QED
        BY <4>1 DEF InterruptCovered
    <3>4. QED
      BY <3>2, <3>3
  <2>5. CASE CheckTimerKick(t)
    BY <1>4, <2>5 DEF CheckTimerKick
  <2>6. QED
    BY <1>12, <2>1, <2>2, <2>3, <2>4, <2>5
<1>13. CASE Spawn \/ ResetState \/ Join \/ QueuePause \/ Preempt \/ PreemptKick
  <2>1. CASE Spawn
    BY <1>1, <1>2, <1>3, <2>1 DEF Spawn, csrs, Outside
  <2>2. CASE Join
    BY <1>1, <1>2, <1>3, <2>2 DEF Join, csrs, Outside
  <2>3. CASE QueuePause \/ Preempt
    BY <1>1, <1>2, <1>3, <1>5, <2>3 DEF QueuePause, Preempt, csrs
  <2>4. CASE PreemptKick
    BY <1>4, <2>4 DEF PreemptKick
  <2>5. CASE ResetState
    BY <1>1, <1>2, <2>5 DEF ResetState, Goto, InterruptCovered, Outside
  <2>6. QED
    BY <1>13, <2>1, <2>2, <2>3, <2>4, <2>5
<1>14. CASE RunArm \/ RunEvents
  <2>1. at'[HartThread] \in Outside
    BY <1>1, <1>2, <1>14 DEF RunArm, RunEvents, Goto, Outside
  <2>2. QED
    BY <2>1 DEF InterruptCovered
<1>15. CASE RunIrqs
  <2>1. mie' => Pending = {}
    BY <1>15 DEF RunIrqs
  <2>2. Pending' = Pending
    BY <1>15 DEF RunIrqs, Pending
  <2>3. QED
    BY <2>1, <2>2 DEF InterruptCovered
<1>16. CASE RunDispatch \/ InsnOther \/ InsnWfi \/ WfiTest \/ WfiDelay \/ WfiWait
  BY <1>1, <1>2, <1>3, <1>5, <1>16 DEF RunDispatch, InsnOther, InsnWfi, WfiTest,
     WfiDelay, WfiWait, Goto, csrs, Outside
<1>17. CASE InsnTrap
  BY <1>4, <1>17 DEF InsnTrap
(* The four instructions that may enable an interrupt look for one.        *)
<1>18. ASSUME NEW lines, InsnWriteIe(lines) \/ InsnWriteIp(lines)
       PROVE  InterruptCovered'
  <2>1. running' => Pending' = {}
    BY <1>18 DEF InsnWriteIe, InsnWriteIp, Pending
  <2>2. QED
    BY <2>1 DEF InterruptCovered
<1>19. ASSUME NEW b \in BOOLEAN, InsnMret(b)
       PROVE  InterruptCovered'
  <2>1. running' => Pending' = {}
    BY <1>19 DEF InsnMret, Pending
  <2>2. QED
    BY <2>1 DEF InterruptCovered
<1>20. ASSUME NEW b \in BOOLEAN, InsnStatus(b)
       PROVE  InterruptCovered'
  <2>1. Pending' = Pending /\ at[HartThread] = "insn"
    BY <1>20 DEF InsnStatus, Pending, Goto
  <2>2. (running' /\ mie' /\ Pending # {}) => (running /\ mie)
    BY <1>2, <1>20 DEF InsnStatus
  <2>3. \A t \in Threads : Stopping(t) => at'[t] = at[t]
    BY <1>1, <1>5, <1>20 DEF InsnStatus
  <2>4. QED
    BY <2>1, <2>2, <2>3 DEF InterruptCovered, Outside
<1>21. QED
  BY <1>7, <1>11, <1>12, <1>13, <1>14, <1>15, <1>16, <1>17, <1>18, <1>19, <1>20,
     NextCases, Zenon

(* While the hart executes instructions with an interrupt enabled and      *)
(* pending, some thread is about to stop the dispatch: riscv_hart_run's    *)
(* re-arming of `running`, riscv_interrupt's notification of new lines     *)
(* only and check_interrupts in the instructions leave no gap.             *)
THEOREM InterruptsNotOverlooked == Spec => []InterruptNotOverlooked
<1>1. Init => Points /\ InterruptCovered
  BY DEF Init, Points, InterruptCovered, HartPoints, CallPoints
<1>2. Points /\ InterruptCovered /\ [Next]_vars => (Points /\ InterruptCovered)'
  BY PointsStep, CoveredStep
<1>3. InterruptCovered => InterruptNotOverlooked
  BY DEF InterruptCovered, InterruptNotOverlooked, Outside
<1>4. QED
  BY <1>1, <1>2, <1>3, PTL DEF Spec

-----------------------------------------------------------------------------
(* The supervisor, once it has posted a pause, finds the request posted or *)
(* the hart stopped, until it has joined it.                               *)
LEMMA PostedStep ==
  ASSUME Points, PausePosted, [Next]_vars
  PROVE  PausePosted'
<1>1. HartThread \in Threads /\ Supervisor \in Threads /\ HartThread # Supervisor
  BY HartAssumption DEF Threads
<1>2. at \in [Threads -> HartPoints \cup CallPoints]
  BY DEF Points
(* A step of another thread that does not take the request away.           *)
<1>3. ASSUME at'[Supervisor] = at[Supervisor],
             pendingEvents \subseteq pendingEvents',
             at[HartThread] = "exited" => at'[HartThread] = "exited"
      PROVE  PausePosted'
  BY <1>3 DEF PausePosted
<1>4. ASSUME NEW t \in Threads, NEW from, NEW to, Goto(t, from, to)
      PROVE  /\ at[t] = from /\ at'[t] = to
             /\ \A u \in Threads \ {t} : at'[u] = at[u]
  BY <1>2, <1>4 DEF Goto
(* A step of some thread that is not in the middle of a pause.             *)
<1>5. ASSUME NEW t \in Threads, NEW from, NEW to, Goto(t, from, to),
             UNCHANGED pendingEvents,
             t = Supervisor => to \in {"idle", "preempt", "clock", "cmp", "set",
                                       "kick"},
             t = HartThread => from # "exited"
      PROVE  PausePosted'
  <2>1. CASE t = Supervisor
    BY <1>4, <1>5, <2>1 DEF PausePosted
  <2>2. CASE t # Supervisor
    BY <1>1, <1>3, <1>4, <1>5, <2>2
  <2>3. QED
    BY <2>1, <2>2
<1>6. ASSUME NEW t \in Threads, NextTimer(t), at[t] \in {"cmp", "set", "kick"},
             UNCHANGED pendingEvents
      PROVE  PausePosted'
  <2>1. /\ at'[t] \in {"cmp", "wfi", "idle"}
        /\ t = Supervisor => at'[t] # "wfi"
        /\ \A u \in Threads \ {t} : at'[u] = at[u]
    BY <1>1, <1>2, <1>6 DEF NextTimer, CheckTimerDone
  <2>2. CASE t = Supervisor
    BY <2>1, <2>2 DEF PausePosted
  <2>3. CASE t # Supervisor
    BY <1>1, <1>3, <1>6, <2>1, <2>3
  <2>4. QED
    BY <2>2, <2>3
<1>7. CASE UNCHANGED vars \/ Quiet
  BY <1>3, <1>7 DEF vars, hvars, Quiet
<1>8. Ready(HartThread) # "exited" /\ Home(HartThread) # "exited"
  BY DEF Ready, Home
<1>9. ASSUME NEW t \in Threads,
             \/ Restart(t) \/ CondvarWake(t)
             \/ TimecmpTest(t) \/ TimecmpRaise(t) \/ TimecmpClear(t)
             \/ t # Supervisor /\ \E k, time : TimecmpSet(t, k, time)
             \/ t # Supervisor /\ \E time : Rebase(t, time)
             \/ t # Supervisor /\ \E l : RaiseLine(t, l) \/ LowerLine(t, l)
      PROVE  PausePosted'
  <2>1. CASE Restart(t)
    <3>1. Goto(t, "restart", "wake") /\ UNCHANGED pendingEvents
      BY <2>1 DEF Restart
    <3>2. CASE t = Supervisor
      BY <1>1, <1>4, <3>1, <3>2 DEF PausePosted
    <3>3. CASE t # Supervisor
      BY <1>5, <3>1, <3>3
    <3>4. QED
      BY <3>2, <3>3
  <2>2. CASE CondvarWake(t)
    <3>1. /\ Goto(t, "wake", IF t = Supervisor THEN "join" ELSE Home(t))
          /\ UNCHANGED pendingEvents
      BY <2>2 DEF CondvarWake
    <3>2. CASE t = Supervisor
      BY <1>1, <1>4, <3>1, <3>2 DEF PausePosted
    <3>3. CASE t # Supervisor
      BY <1>5, <3>1, <3>3
    <3>4. QED
      BY <3>2, <3>3
  <2>3. CASE TimecmpTest(t) \/ TimecmpRaise(t) \/ TimecmpClear(t)
    <3>1. t # Supervisor
      BY <2>3 DEF TimecmpTest, TimecmpRaise, TimecmpClear, SetLine, ClearLine,
                  Goto, PausePosted
    <3>2. QED
      BY <1>5, <2>3, <3>1 DEF TimecmpTest, TimecmpRaise, TimecmpClear, SetLine,
                              ClearLine
  <2>4. CASE t # Supervisor /\ \E k, time : TimecmpSet(t, k, time)
    BY <1>5, <1>8, <2>4 DEF TimecmpSet
  <2>5. CASE t # Supervisor /\ \E time : Rebase(t, time)
    BY <1>5, <1>8, <2>5 DEF Rebase
  <2>6. CASE t # Supervisor /\ \E l : RaiseLine(t, l) \/ LowerLine(t, l)
    BY <1>5, <1>8, <2>6 DEF RaiseLine, LowerLine, SetLine, ClearLine
  <2>7. QED
    BY <1>9, <2>1, <2>2, <2>3, <2>4, <2>5, <2>6
<1>10. ASSUME NEW t \in Threads,
              \/ CheckTimerBegin(t) \/ CheckTimerClock(t)
              \/ CheckTimerCompare(t) \/ CheckTimerSet(t) \/ CheckTimerKick(t)
       PROVE  PausePosted'
  <2>1. CASE CheckTimerBegin(t)
    BY <1>1, <1>5, <2>1 DEF CheckTimerBegin, CheckTimerDone
  <2>2. CASE CheckTimerClock(t)
    BY <1>5, <2>2 DEF CheckTimerClock
  <2>3. ASSUME at[t] \in {"cmp", "set"}, UNCHANGED pendingEvents,
               NEW to \in {"set", "kick"}, at' = [at EXCEPT ![t] = to]
        PROVE  PausePosted'
    BY <1>1, <1>2, <2>3 DEF PausePosted
  <2>4. CASE CheckTimerCompare(t)
    BY <1>6, <2>3, <2>4 DEF CheckTimerCompare
  <2>5. CASE CheckTimerSet(t)
    BY <1>6, <2>3, <2>5 DEF CheckTimerSet
  <2>6. CASE CheckTimerKick(t)
    BY <1>6, <2>6 DEF CheckTimerKick
  <2>7. QED
    BY <1>10, <2>1, <2>2, <2>4, <2>5, <2>6
<1>11. CASE Spawn \/ ResetState \/ Join \/ QueuePause \/ Preempt \/ PreemptKick
  <2>1. CASE Spawn
    BY <1>1, <1>2, <2>1 DEF Spawn, PausePosted
  <2>2. CASE Join
    BY <1>1, <1>2, <2>2 DEF Join, PausePosted
  <2>3. CASE QueuePause
    BY <1>1, <1>4, <2>3 DEF QueuePause, PausePosted
  <2>4. CASE Preempt
    BY <1>1, <1>4, <2>4 DEF Preempt, PausePosted
  <2>5. CASE PreemptKick
    BY <1>1, <1>4, <2>5 DEF PreemptKick, PausePosted
  <2>6. CASE ResetState
    BY <1>1, <1>5, <2>6 DEF ResetState
  <2>7. QED
    BY <1>11, <2>1, <2>2, <2>3, <2>4, <2>5, <2>6
<1>12. CASE RunEvents
  BY <1>1, <1>4, <1>12 DEF RunEvents, PausePosted
<1>13. CASE \/ RunArm \/ RunIrqs \/ RunDispatch \/ InsnOther \/ InsnTrap \/ InsnWfi
            \/ WfiTest \/ WfiDelay \/ WfiWait
  BY <1>1, <1>5, <1>13 DEF RunArm, RunIrqs, RunDispatch, InsnOther, InsnTrap,
                           InsnWfi, WfiTest, WfiDelay, WfiWait
<1>14. CASE \/ \E lines : InsnWriteIe(lines) \/ InsnWriteIp(lines)
            \/ \E b \in BOOLEAN : InsnMret(b) \/ InsnStatus(b)
  BY <1>1, <1>5, <1>14 DEF InsnWriteIe, InsnWriteIp, InsnMret, InsnStatus
<1>15. QED
  BY <1>7, <1>9, <1>10, <1>11, <1>12, <1>13, <1>14, NextCases, Zenon

(* A pause request is not dropped: neither a preemption that is handled    *)
(* first, nor an interrupt loses it before riscv_hart_pause has joined     *)
(* the hart.                                                               *)
THEOREM PauseRequestsKept == Spec => []PauseNotDropped
<1>1. HartThread # Supervisor /\ Supervisor \in Threads
  BY HartAssumption DEF Threads
<1>2. Init => Points /\ PausePosted
  BY <1>1 DEF Init, Points, PausePosted, HartPoints, CallPoints
<1>3. Points /\ PausePosted /\ [Next]_vars => (Points /\ PausePosted)'
  BY PointsStep, PostedStep
<1>4. PausePosted => PauseNotDropped
  BY DEF PausePosted, PauseNotDropped
<1>5. QED
  BY <1>2, <1>3, <1>4, PTL DEF Spec

-----------------------------------------------------------------------------
(* Types, and the sleep in WFI                                             *)

(* The hart's fields; a call about an interrupt line that outlasts a step  *)
(* is about a timer.                                                       *)
FieldsOK ==
  /\ Points
  /\ line \in [Threads -> Timers]
  /\ snap \in [Threads -> Int]
  /\ pendingIrqs \subseteq Lines
  /\ pendingEvents \subseteq {"PAUSE", "PREEMPT"}
  /\ ie \subseteq Lines
  /\ ip \subseteq SoftIrqs
  /\ timecmp \in [Timers -> 0..MaxTime \cup {Never}]
  /\ host \in 0..MaxTime
  /\ begin \in Int
  /\ deadline \in Int

(* The event: only the hart waits, and a raised flag beside a sleeping     *)
(* hart is about to be notified.                                           *)
EventOK ==
  /\ flag \in {0, 1}
  /\ pc \in [Threads -> {"idle"} \cup Wfi!WaitPoints \cup Wfi!WakePoints]
  /\ \A t \in Threads \ {HartThread} :
       pc[t] \in {"idle", "notify", "futex_wake"}
  /\ waiters = IF pc[HartThread] \in Wfi!CountedPoints THEN 1 ELSE 0
  /\ pc[HartThread] \in Wfi!WaitPoints => at[HartThread] = "timer"
  /\ (flag = 1 /\ pc[HartThread] = "asleep") =>
       \E t \in Threads : pc[t] \in Wfi!WakePoints

(* A nonempty set of at most three integers has a least element.           *)
LEMMA LeastOfThree ==
  ASSUME NEW a \in Int, NEW b \in Int, NEW c \in Int, NEW S,
         S \subseteq {a, b, c}, a \in S
  PROVE  Min(S) \in S /\ \A y \in S : Min(S) <= y
<1>1. \E x \in S : \A y \in S : x <= y
  <2>1. CASE \A y \in S : a <= y
    BY <2>1
  <2>2. CASE b \in S /\ \A y \in S : b <= y
    BY <2>2
  <2>3. CASE c \in S /\ \A y \in S : c <= y
    BY <2>3
  <2>4. QED
    BY <2>1, <2>2, <2>3
<1>2. QED
  BY <1>1, Zenon DEF Min

(* The delay of WFI is an integer no longer than that of any enabled timer.*)
LEMMA DelayLeast ==
  ASSUME FieldsOK
  PROVE  LET d == Min({Never} \cup {Delay(k) : k \in Timers \cap ie})
         IN  d \in Int /\ \A k \in Timers \cap ie : d <= Delay(k)
<1> DEFINE S == {Never} \cup {Delay(k) : k \in Timers \cap ie}
<1>1. Never \in Int /\ Timers \subseteq {MTIMER, STIMER}
  BY HartAssumption DEF Never
<1>2. ASSUME NEW k \in Timers PROVE Delay(k) \in Int
  BY <1>1 DEF FieldsOK, Delay, Mtime
<1> DEFINE b == IF MTIMER \in Timers THEN Delay(MTIMER) ELSE 0
           c == IF STIMER \in Timers THEN Delay(STIMER) ELSE 0
<1>3. b \in Int /\ c \in Int
  BY <1>2
<1>4. S \subseteq {Never, b, c} /\ Never \in S
  BY <1>1
<1> HIDE DEF b, c
<1>5. ASSUME NEW k \in Timers \cap ie PROVE Delay(k) \in S
  BY <1>5
<1> HIDE DEF S
<1>6. Min(S) \in S /\ \A y \in S : Min(S) <= y
  BY <1>1, <1>3, <1>4, LeastOfThree
<1>7. Min(S) \in Int
  BY <1>1, <1>3, <1>4, <1>6
<1>8. QED
  BY <1>5, <1>6, <1>7 DEF S

(* Every action keeps the fields in their range.                           *)
LEMMA FieldsStep ==
  ASSUME FieldsOK, [Next]_vars
  PROVE  FieldsOK'
<1>0. Points'
  BY PointsStep DEF FieldsOK
<1>1. HartThread \in Threads /\ Supervisor \in Threads
  BY DEF Threads
<1>2. /\ MTIMER \in Timers /\ Timers \subseteq Lines /\ DeviceIrqs \subseteq Lines
      /\ SoftIrqs \subseteq Lines /\ MaxTime \in Nat /\ RebaseTimes \subseteq Int
  BY HartAssumption DEF MTIMER, STIMER, Lines
<1>3. ASSUME NEW t \in Threads, NextTimer(t)
      PROVE  line' \in [Threads -> Timers] /\ snap' \in [Threads -> Int]
  BY <1>2, <1>3 DEF NextTimer, FieldsOK
<1> USE DEF FieldsOK, locals, csrs, clocks, hvars
<1>4. CASE UNCHANGED vars
  BY <1>0, <1>4 DEF vars
<1>5. ASSUME NEW t \in Threads, Restart(t) \/ CondvarWake(t) \/ TimecmpTest(t)
      PROVE  FieldsOK'
  BY <1>0, <1>5 DEF Restart, CondvarWake, TimecmpTest
<1>6. ASSUME NEW t \in Threads, TimecmpRaise(t) \/ TimecmpClear(t)
      PROVE  FieldsOK'
  BY <1>0, <1>2, <1>6 DEF TimecmpRaise, TimecmpClear, SetLine, ClearLine
<1>7. ASSUME NEW t \in Threads, CheckTimerBegin(t) \/ CheckTimerClock(t)
      PROVE  FieldsOK'
  <2>1. CASE CheckTimerBegin(t)
    BY <1>0, <1>2, <2>1 DEF CheckTimerBegin
  <2>2. CASE CheckTimerClock(t)
    <3>1. host \in Int /\ Mtime \in Int
      BY <1>2 DEF Mtime
    <3>2. snap' \in [Threads -> Int]
      BY <2>2, <3>1 DEF CheckTimerClock
    <3>3. QED
      BY <1>0, <2>2, <3>2 DEF CheckTimerClock
  <2>3. QED
    BY <1>7, <2>1, <2>2
<1>8. ASSUME NEW t \in Threads,
             CheckTimerCompare(t) \/ CheckTimerSet(t) \/ CheckTimerKick(t)
      PROVE  FieldsOK'
  <2>1. line' \in [Threads -> Timers] /\ snap' \in [Threads -> Int]
    BY <1>3, <1>8 DEF CheckTimerCompare, CheckTimerSet, CheckTimerKick
  <2>2. QED
    BY <1>0, <1>2, <1>8, <2>1 DEF CheckTimerCompare, CheckTimerSet, CheckTimerKick
<1>9. ASSUME NEW t \in Threads, NEW k \in Timers,
             NEW time \in 0..MaxTime \cup {Never}, TimecmpSet(t, k, time)
      PROVE  FieldsOK'
  BY <1>0, <1>9 DEF TimecmpSet
<1>10. ASSUME NEW t \in Threads, NEW time \in RebaseTimes, Rebase(t, time)
       PROVE  FieldsOK'
  BY <1>0, <1>2, <1>10 DEF Rebase
<1>11. ASSUME NEW t \in Threads, NEW l \in DeviceIrqs, RaiseLine(t, l) \/ LowerLine(t, l)
       PROVE  FieldsOK'
  BY <1>0, <1>2, <1>11 DEF RaiseLine, LowerLine, SetLine, ClearLine
<1>12. CASE UNCHANGED hvars
  BY <1>0, <1>12
<1>13. CASE Spawn \/ ResetState \/ QueuePause \/ Join \/ Preempt \/ PreemptKick
  <2>1. CASE Spawn \/ Join \/ PreemptKick
    BY <1>0, <2>1 DEF Spawn, Join, PreemptKick
  <2>2. CASE QueuePause \/ Preempt
    BY <1>0, <2>2 DEF QueuePause, Preempt
  <2>3. CASE ResetState
    BY <1>0, <1>2, <2>3 DEF ResetState
  <2>4. QED
    BY <1>13, <2>1, <2>2, <2>3
<1>14. CASE RunArm \/ RunEvents \/ RunIrqs \/ RunDispatch \/ InsnOther
            \/ InsnTrap \/ InsnWfi \/ WfiTest \/ WfiWait
  BY <1>0, <1>14 DEF RunArm, RunEvents, RunIrqs, RunDispatch, InsnOther,
                     InsnTrap, InsnWfi, WfiTest, WfiWait
<1>15. ASSUME NEW lines, \/ lines \in SUBSET Lines /\ InsnWriteIe(lines)
                         \/ lines \in SUBSET SoftIrqs /\ InsnWriteIp(lines)
       PROVE  FieldsOK'
  BY <1>0, <1>15 DEF InsnWriteIe, InsnWriteIp
<1>16. ASSUME NEW b \in BOOLEAN, InsnMret(b) \/ InsnStatus(b)
       PROVE  FieldsOK'
  BY <1>0, <1>16 DEF InsnMret, InsnStatus
<1>17. CASE WfiDelay
  <2> DEFINE d == Min({Never} \cup {Delay(k) : k \in Timers \cap ie})
  <2>1. d \in Int
    BY DelayLeast
  <2>2. deadline' = host + d
    BY <1>17 DEF WfiDelay
  <2> HIDE DEF d
  <2>3. deadline' \in Int
    BY <1>2, <2>1, <2>2
  <2>4. QED
    BY <1>0, <1>17, <2>3 DEF WfiDelay
<1>18. CASE Tick
  BY <1>0, <1>2, <1>18 DEF Tick
<1>19. CASE WfiTimeout
  BY <1>12, <1>19 DEF WfiTimeout
<1>20. QED
  BY <1>4, <1>5, <1>6, <1>7, <1>8, <1>9, <1>10, <1>11, <1>12, <1>13, <1>14,
     <1>15, <1>16, <1>17, <1>18, <1>19, NextActions, Zenon

(* Only four actions touch the event, and no other moves a hart that is    *)
(* inside its wait.                                                        *)
LEMMA EventEffects ==
  ASSUME FieldsOK, EventOK, [Next]_vars
  PROVE  \/ /\ UNCHANGED evars
            /\ pc[HartThread] \in Wfi!WaitPoints =>
                 at'[HartThread] = at[HartThread]
         \/ \E t \in Threads : CondvarWake(t)
         \/ \E t \in Threads : Wfi!Step(t) /\ UNCHANGED hvars
         \/ WfiWait \/ WfiTimeout
<1> DEFINE Aside == /\ UNCHANGED evars
                    /\ pc[HartThread] \in Wfi!WaitPoints =>
                         at'[HartThread] = at[HartThread]
<1>1. /\ HartThread \in Threads /\ Supervisor \in Threads
      /\ HartThread # Supervisor /\ at \in [Threads -> HartPoints \cup CallPoints]
  BY HartAssumption DEF Threads, FieldsOK, Points
<1>2. "idle" \notin Wfi!WaitPoints
  BY DEF Wfi!WaitPoints
<1>3. pc[HartThread] \in Wfi!WaitPoints => at[HartThread] = "timer"
  BY DEF EventOK
<1>4. ASSUME NEW t \in Threads, UNCHANGED evars, pc[t] = "idle",
             NEW to, at' = [at EXCEPT ![t] = to]
      PROVE  Aside
  BY <1>1, <1>2, <1>4
<1>5. ASSUME NEW t \in Threads, NEW from, NEW to, Goto(t, from, to), UNCHANGED evars
      PROVE  Aside
  BY <1>4, <1>5 DEF Goto
<1>6. ASSUME NEW t \in Threads, pc[t] = "idle", NextTimer(t), UNCHANGED evars
      PROVE  Aside
  BY <1>4, <1>6 DEF NextTimer
<1> HIDE DEF Aside
<1>7. ASSUME UNCHANGED vars PROVE Aside
  BY <1>7 DEF vars, hvars, Aside
<1>8. ASSUME NEW t \in Threads,
             \/ Restart(t)
             \/ TimecmpTest(t) \/ TimecmpRaise(t) \/ TimecmpClear(t)
             \/ \E k, time : TimecmpSet(t, k, time)
             \/ \E time : Rebase(t, time)
             \/ \E l : RaiseLine(t, l) \/ LowerLine(t, l)
             \/ CheckTimerBegin(t) \/ CheckTimerClock(t)
      PROVE  Aside
  BY <1>5, <1>8 DEF Restart, TimecmpTest, TimecmpRaise, TimecmpClear,
       TimecmpSet, Rebase, RaiseLine, LowerLine, SetLine, ClearLine,
       CheckTimerBegin, CheckTimerClock
<1>9. ASSUME NEW t \in Threads,
             CheckTimerCompare(t) \/ CheckTimerSet(t) \/ CheckTimerKick(t)
      PROVE  Aside
  BY <1>4, <1>6, <1>9 DEF CheckTimerCompare, CheckTimerSet, CheckTimerKick
<1>10. ASSUME Spawn \/ Join PROVE Aside
  BY <1>1, <1>3, <1>10 DEF Spawn, Join, Aside
<1>11. ASSUME ResetState \/ QueuePause \/ Preempt \/ PreemptKick
       PROVE  Aside
  BY <1>1, <1>5, <1>11 DEF ResetState, QueuePause, Preempt, PreemptKick
<1>12. ASSUME RunArm \/ RunEvents \/ RunIrqs \/ RunDispatch \/ InsnOther
              \/ InsnTrap \/ InsnWfi \/ WfiTest \/ WfiDelay
       PROVE  Aside
  BY <1>1, <1>5, <1>12 DEF RunArm, RunEvents, RunIrqs, RunDispatch, InsnOther,
       InsnTrap, InsnWfi, WfiTest, WfiDelay
<1>13. ASSUME \/ \E lines : InsnWriteIe(lines) \/ InsnWriteIp(lines)
              \/ \E b \in BOOLEAN : InsnMret(b) \/ InsnStatus(b)
       PROVE  Aside
  BY <1>1, <1>5, <1>13 DEF InsnWriteIe, InsnWriteIp, InsnMret, InsnStatus
<1>14. ASSUME Tick PROVE Aside
  BY <1>14 DEF Tick, Aside
<1>15. QED
  BY <1>7, <1>8, <1>9, <1>10, <1>11, <1>12, <1>13, <1>14, NextActions, Zenon
     DEF Aside

(* The event keeps its invariant: a notifier that sees no waiter was       *)
(* there before the hart was counted, so the hart will see the flag.       *)
LEMMA EventStep ==
  ASSUME FieldsOK, EventOK, [Next]_vars
  PROVE  EventOK'
<1> USE DEF EventOK, Wfi!WaitPoints, Wfi!WakePoints, Wfi!CountedPoints
<1>1. HartThread \in Threads /\ at \in [Threads -> HartPoints \cup CallPoints]
  BY DEF Threads, FieldsOK, Points
<1>2. CASE /\ UNCHANGED evars
           /\ pc[HartThread] \in Wfi!WaitPoints => at'[HartThread] = at[HartThread]
  BY <1>2 DEF evars
<1>3. ASSUME NEW t \in Threads, CondvarWake(t)
      PROVE  EventOK'
  <2>1. pc[t] = "idle" /\ at' = [at EXCEPT ![t] = IF t = Supervisor THEN "join"
                                                ELSE Home(t)]
    BY <1>3 DEF CondvarWake, Goto
  <2>2. CASE UNCHANGED evars
    BY <1>1, <2>1, <2>2 DEF evars
  <2>3. CASE Wfi!WakeRaise(t)
    BY <1>1, <2>1, <2>3 DEF Wfi!WakeRaise, Wfi!Goto
  <2>4. QED
    BY <1>3, <2>2, <2>3 DEF CondvarWake
<1>4. CASE WfiWait
  <2>1. pc[HartThread] = "idle" /\ at'[HartThread] = "timer"
    BY <1>1, <1>4 DEF WfiWait, Goto
  <2>2. CASE Wfi!WaitFast(HartThread) \/ Wfi!WaitNoTimeout(HartThread)
    BY <1>1, <2>1, <2>2 DEF Wfi!WaitFast, Wfi!WaitNoTimeout, Wfi!vars
  <2>3. CASE Wfi!WaitBegin(HartThread)
    BY <1>1, <2>1, <2>3 DEF Wfi!WaitBegin, Wfi!Goto
  <2>4. QED
    BY <1>4, <2>2, <2>3 DEF WfiWait
<1>5. CASE WfiTimeout
  BY <1>1, <1>5 DEF WfiTimeout, Wfi!FutexTimeout, Wfi!Goto, hvars
<1>6. ASSUME NEW t \in Threads, Wfi!Step(t), UNCHANGED hvars
      PROVE  EventOK'
  <2>1. UNCHANGED at
    BY <1>6 DEF hvars
  <2>2. CASE Wfi!WaitAdd(t) \/ Wfi!WaitRecheck(t) \/ Wfi!FutexWait(t)
             \/ Wfi!WaitClear(t) \/ Wfi!WaitReturn(t)
    <3>1. t = HartThread
      BY <2>2 DEF Wfi!WaitAdd, Wfi!WaitRecheck, Wfi!FutexWait, Wfi!WaitClear,
                  Wfi!WaitReturn, Wfi!Goto
    <3>2. QED
      BY <1>1, <2>1, <2>2, <3>1 DEF Wfi!WaitAdd, Wfi!WaitRecheck, Wfi!FutexWait,
            Wfi!WaitClear, Wfi!WaitReturn, Wfi!Goto
  <2>3. CASE Wfi!WakeNotify(t)
    BY <1>1, <2>1, <2>3 DEF Wfi!WakeNotify, Wfi!Goto
  <2>4. CASE Wfi!WakeFutex(t)
    <3>1. pc[t] = "futex_wake" /\ UNCHANGED <<flag, waiters>>
      BY <2>4 DEF Wfi!WakeFutex
    <3>2. ASSUME NEW s \in Wfi!Asleep,
                 pc' = [pc EXCEPT ![t] = "idle", ![s] = "clear"]
          PROVE  EventOK'
      <4>1. s = HartThread /\ pc[s] = "asleep"
        BY DEF Wfi!Asleep
      <4>2. QED
        BY <1>1, <2>1, <3>1, <3>2, <4>1
    <3>3. ASSUME Wfi!Asleep = {}, pc' = [pc EXCEPT ![t] = "idle"]
          PROVE  EventOK'
      <4>1. pc[HartThread] # "asleep"
        BY <1>1, <3>3 DEF Wfi!Asleep
      <4>2. QED
        BY <1>1, <2>1, <3>1, <3>3, <4>1
    <3>4. QED
      BY <2>4, <3>2, <3>3 DEF Wfi!WakeFutex
  <2>5. QED
    BY <1>6, <2>2, <2>3, <2>4 DEF Wfi!Step, Wfi!Inner
<1>7. QED
  BY <1>2, <1>3, <1>4, <1>5, <1>6, EventEffects

(* The invariant of the hart's fields and of its event.                    *)
LEMMA HartInvariant == Spec => [](FieldsOK /\ EventOK)
<1>1. Init => FieldsOK /\ EventOK
  <2> SUFFICES ASSUME Init PROVE FieldsOK /\ EventOK
    OBVIOUS
  <2>1. MTIMER \in Timers /\ MaxTime \in Nat /\ HartThread \in Threads
    BY HartAssumption DEF MTIMER, STIMER, Threads
  <2>2. FieldsOK
    <3>1. at \in [Threads -> HartPoints \cup CallPoints]
      BY DEF Init, HartPoints, CallPoints
    <3>2. host \in 0..MaxTime /\ begin \in Int /\ deadline \in Int
      BY <2>1 DEF Init
    <3>3. timecmp \in [Timers -> 0..MaxTime \cup {Never}]
      BY DEF Init
    <3>4. line \in [Threads -> Timers] /\ snap \in [Threads -> Int]
      BY <2>1 DEF Init
    <3>5. QED
      BY <3>1, <3>2, <3>3, <3>4 DEF Init, FieldsOK, Points
  <2>3. EventOK
    BY <2>1 DEF Init, EventOK, Wfi!Init, Wfi!WaitPoints, Wfi!WakePoints,
          Wfi!CountedPoints
  <2>4. QED
    BY <2>2, <2>3
<1>2. (FieldsOK /\ EventOK) /\ [Next]_vars => (FieldsOK /\ EventOK)'
  BY FieldsStep, EventStep
<1>3. QED
  BY <1>1, <1>2, PTL DEF Spec

(* The hart's registers, its pending lines and events, its timers and      *)
(* wfi_cond stay in their ranges for any number of devices, harts and      *)
(* lines; nobody but the hart waits on wfi_cond, so condvar_waiters says   *)
(* whether the hart sleeps.                                                *)
THEOREM TypeCorrect == Spec => []TypeOK
<1>1. FieldsOK /\ EventOK => TypeOK
  <2> SUFFICES ASSUME FieldsOK, EventOK PROVE TypeOK
    OBVIOUS
  <2>1. line \in [Threads -> Lines]
    BY DEF FieldsOK, Lines
  <2>2. QED
    BY <2>1 DEF FieldsOK, Points, EventOK, TypeOK
<1>2. QED
  BY <1>1, HartInvariant, PTL

-----------------------------------------------------------------------------
(* A device interrupt and a hart on its way to sleep                       *)

(* While the hart stalls in WFI with a device interrupt pending and        *)
(* enabled, its dispatch is stopped or about to be.                        *)
StallCovered ==
  (InWfi /\ Pending \cap DeviceIrqs # {}) =>
    ~running \/ \E t \in Threads : at[t] = "restart"

(* Once the hart has looked at `running`, it is the event that keeps it    *)
(* from sleeping: it is raised, or somebody is on the way to it.           *)
AboutToSleep ==
  \/ at[HartThread] \in {"delay", "wait"}
  \/ pc[HartThread] \in {"add", "recheck", "futex", "asleep"}
SleepCovered ==
  (AboutToSleep /\ Pending \cap DeviceIrqs # {}) =>
    flag = 1 \/ \E t \in Threads : at[t] \in {"restart", "wake"}

(* Every action keeps the two.                                             *)
LEMMA SleepStep ==
  ASSUME FieldsOK, EventOK, StallCovered, SleepCovered, [Next]_vars
  PROVE  StallCovered' /\ SleepCovered'
<1> DEFINE Goal == StallCovered' /\ SleepCovered'
<1> DEFINE WfiPoints == {"wfi", "delay", "wait", "timer", "clock", "cmp", "set", "kick"}
<1>1. /\ HartThread \in Threads /\ Supervisor \in Threads
      /\ HartThread # Supervisor /\ at \in [Threads -> HartPoints \cup CallPoints]
      /\ pc \in [Threads -> {"idle"} \cup Wfi!WaitPoints \cup Wfi!WakePoints]
      /\ flag \in {0, 1} /\ line \in [Threads -> Timers]
  BY HartAssumption DEF Threads, FieldsOK, Points, EventOK
<1>2. Timers \cap DeviceIrqs = {}
  BY HartAssumption
<1>3. pc[HartThread] \in {"add", "recheck", "futex", "asleep"} =>
        at[HartThread] = "timer"
  BY DEF EventOK, Wfi!WaitPoints
(* Steps that only move threads, and none that is on its way to the hart.  *)
<1>4. ASSUME UNCHANGED <<ie, ip, evars>>, running' = running \/ running' = FALSE,
             pendingIrqs' \cap DeviceIrqs \subseteq pendingIrqs,
             \A t \in Threads : at[t] \in {"restart", "wake"} => at'[t] = at[t],
             at'[HartThread] \in WfiPoints => at[HartThread] \in WfiPoints,
             at'[HartThread] \in {"delay", "wait"} =>
               at[HartThread] \in {"delay", "wait"}
      PROVE  Goal
  <2>1. Pending' \cap DeviceIrqs \subseteq Pending \cap DeviceIrqs
    BY <1>4 DEF Pending
  <2>2. StallCovered'
    BY <1>4, <2>1 DEF StallCovered, InWfi
  <2>3. UNCHANGED <<flag, pc>>
    BY <1>4 DEF evars
  <2>4. SleepCovered'
    BY <1>4, <2>1, <2>3 DEF SleepCovered, AboutToSleep
  <2>5. QED
    BY <2>2, <2>4
<1>5. ASSUME NEW t \in Threads, at'[t] = "restart" PROVE Goal
  BY <1>5 DEF StallCovered, SleepCovered
(* Steps of a hart that is not in WFI afterwards.                          *)
<1>6. ASSUME at'[HartThread] \notin WfiPoints, pc'[HartThread] = pc[HartThread],
             pc[HartThread] \notin {"add", "recheck", "futex", "asleep"}
      PROVE  Goal
  BY <1>6 DEF StallCovered, SleepCovered, InWfi, AboutToSleep
<1>7. ASSUME NEW t \in Threads, NEW from, NEW to, Goto(t, from, to),
             from \notin {"restart", "wake"}, UNCHANGED <<ie, ip, evars>>,
             running' = running \/ running' = FALSE,
             pendingIrqs' \cap DeviceIrqs \subseteq pendingIrqs,
             (t = HartThread /\ to \in WfiPoints) =>
               from \in WfiPoints /\ to \notin {"delay", "wait"}
      PROVE  Goal
  BY <1>1, <1>4, <1>7 DEF Goto
<1>8. ASSUME NEW from, NEW to, Goto(HartThread, from, to), UNCHANGED evars,
             to \notin WfiPoints
      PROVE  Goal
  <2>1. pc'[HartThread] = pc[HartThread] /\ pc[HartThread] = "idle"
    BY <1>8 DEF evars, Goto
  <2>2. at'[HartThread] = to
    BY <1>1, <1>8 DEF Goto
  <2>3. QED
    BY <1>6, <1>8, <2>1, <2>2
<1>9. ASSUME NEW t \in Threads, NEW l, NEW from, SetLine(t, l, from),
             from \notin {"restart", "wake"} \cup WfiPoints
      PROVE  Goal
  <2>1. CASE l \in pendingIrqs
    <3>1. /\ Goto(t, from, Home(t)) /\ pendingIrqs' = pendingIrqs
          /\ UNCHANGED <<ie, ip, evars, running>>
      BY <1>9, <2>1 DEF SetLine, csrs
    <3>2. Home(t) \notin WfiPoints
      BY DEF Home
    <3>3. QED
      BY <1>7, <1>9, <3>1, <3>2
  <2>2. CASE l \notin pendingIrqs
    BY <1>1, <1>5, <1>9, <2>2 DEF SetLine, Goto
  <2>3. QED
    BY <2>1, <2>2
<1>10. ASSUME NEW t \in Threads, NEW l, NEW from, ClearLine(t, l, from),
              from \notin {"restart", "wake"} \cup WfiPoints
       PROVE  Goal
  <2>1. /\ Goto(t, from, Home(t)) /\ pendingIrqs' \subseteq pendingIrqs
        /\ UNCHANGED <<ie, ip, evars, running>>
    BY <1>10 DEF ClearLine, csrs
  <2>2. Home(t) \notin WfiPoints
    BY DEF Home
  <2>3. QED
    BY <1>7, <1>10, <2>1, <2>2
<1>11. ASSUME NEW t \in Threads, NextTimer(t), at[t] \in {"cmp", "set", "kick"},
              UNCHANGED <<ie, ip, evars>>,
              running' = running \/ running' = FALSE,
              pendingIrqs' \cap DeviceIrqs \subseteq pendingIrqs
       PROVE  Goal
  <2>1. PICK to \in {"cmp", "wfi", "idle"} : at' = [at EXCEPT ![t] = to]
    BY <1>11 DEF NextTimer, CheckTimerDone
  <2>2. QED
    BY <1>1, <1>4, <1>11, <2>1
<1>12. \A t \in Threads :
         line[t] \in Timers
         /\ (pendingIrqs \cup {line[t]}) \cap DeviceIrqs \subseteq pendingIrqs
  BY <1>1, <1>2
<1>13. \A t : Ready(t) \notin {"restart", "wake"} \cup WfiPoints
              /\ Home(t) \notin WfiPoints
  BY DEF Ready, Home
<1> HIDE DEF Goal
<1>14. ASSUME UNCHANGED vars PROVE Goal
  BY <1>4, <1>14 DEF vars, hvars, csrs
<1>15. ASSUME NEW t \in Threads, Restart(t) PROVE Goal
  <2>1. at'[t] = "wake" /\ running' = FALSE
    BY <1>1, <1>15 DEF Restart, Goto
  <2>2. QED
    BY <2>1 DEF StallCovered, SleepCovered, Goal
<1>16. ASSUME NEW t \in Threads, CondvarWake(t) PROVE Goal
  <2>1. /\ at[t] = "wake" /\ UNCHANGED <<running, pendingIrqs, ie, ip>>
        /\ at' = [at EXCEPT ![t] = IF t = Supervisor THEN "join" ELSE Home(t)]
    BY <1>16 DEF CondvarWake, Goto, csrs
  <2>2. flag' = 1
    BY <1>1, <1>16 DEF CondvarWake, Wfi!WakeRaise, evars
  <2>3. SleepCovered'
    BY <2>2 DEF SleepCovered
  <2>4. \A u \in Threads : at[u] = "restart" => at'[u] = at[u]
    BY <1>1, <2>1
  <2>5. at'[HartThread] \in WfiPoints => at[HartThread] \in WfiPoints
    BY <1>1, <1>13, <2>1
  <2>6. StallCovered'
    BY <2>1, <2>4, <2>5 DEF StallCovered, InWfi, Pending
  <2>7. QED
    BY <2>3, <2>6 DEF Goal
<1>17. ASSUME NEW t \in Threads, TimecmpTest(t) PROVE Goal
  BY <1>7, <1>17 DEF TimecmpTest, csrs
<1>18. ASSUME NEW t \in Threads,
              TimecmpRaise(t) \/ TimecmpClear(t)
              \/ \E l : RaiseLine(t, l) \/ LowerLine(t, l)
       PROVE  Goal
  BY <1>9, <1>10, <1>13, <1>18 DEF TimecmpRaise, TimecmpClear, RaiseLine, LowerLine
<1>19. ASSUME NEW t \in Threads, NEW k, NEW time, TimecmpSet(t, k, time)
       PROVE  Goal
  BY <1>7, <1>13, <1>19 DEF TimecmpSet, csrs
<1>20. ASSUME NEW t \in Threads, NEW time, Rebase(t, time)
       PROVE  Goal
  BY <1>7, <1>13, <1>20 DEF Rebase, csrs
<1>21. ASSUME NEW t \in Threads, CheckTimerBegin(t) PROVE Goal
  <2>1. CheckTimerDone(HartThread) = "wfi"
    BY DEF CheckTimerDone
  <2>2. QED
    BY <1>1, <1>7, <1>21, <2>1 DEF CheckTimerBegin, csrs
<1>22. ASSUME NEW t \in Threads, CheckTimerClock(t) PROVE Goal
  BY <1>7, <1>22 DEF CheckTimerClock, csrs
<1>23. ASSUME NEW t \in Threads, CheckTimerCompare(t) PROVE Goal
  <2>1. UNCHANGED <<running, pendingIrqs, ie, ip, evars>> /\ at[t] = "cmp"
    BY <1>23 DEF CheckTimerCompare, csrs
  <2>2. CASE NextTimer(t)
    BY <1>11, <2>1, <2>2
  <2>3. CASE at' = [at EXCEPT ![t] = "set"]
    BY <1>1, <1>4, <2>1, <2>3
  <2>4. QED
    BY <1>23, <2>2, <2>3 DEF CheckTimerCompare
<1>24. ASSUME NEW t \in Threads, CheckTimerSet(t) PROVE Goal
  <2>1. /\ UNCHANGED <<running, ie, ip, evars>> /\ at[t] = "set"
        /\ pendingIrqs' \cap DeviceIrqs \subseteq pendingIrqs
    BY <1>12, <1>24 DEF CheckTimerSet, csrs
  <2>2. CASE NextTimer(t)
    BY <1>11, <2>1, <2>2
  <2>3. CASE at' = [at EXCEPT ![t] = "kick"]
    BY <1>1, <1>4, <2>1, <2>3
  <2>4. QED
    BY <1>24, <2>2, <2>3 DEF CheckTimerSet
<1>25. ASSUME NEW t \in Threads, CheckTimerKick(t) PROVE Goal
  BY <1>11, <1>25 DEF CheckTimerKick, csrs
<1>26. ASSUME NEW t \in Threads, Wfi!Step(t), UNCHANGED hvars PROVE Goal
  <2>1. UNCHANGED <<at, running, pendingIrqs, ie, ip>>
    BY <1>26 DEF hvars, csrs
  <2>2. StallCovered'
    BY <2>1 DEF StallCovered, InWfi, Pending
  <2>3. Wfi!WaitPoints = {"add", "recheck", "futex", "asleep", "clear", "sub"}
        /\ Wfi!WakePoints = {"notify", "futex_wake"}
    BY DEF Wfi!WaitPoints, Wfi!WakePoints
  <2>4. (AboutToSleep' => AboutToSleep) /\ (AboutToSleep' /\ flag = 1 => flag' = 1)
    <3>1. CASE Wfi!WaitAdd(t) \/ Wfi!FutexWait(t) \/ Wfi!WakeNotify(t)
      BY <1>1, <2>1, <2>3, <3>1 DEF AboutToSleep, Wfi!WaitAdd, Wfi!FutexWait,
            Wfi!WakeNotify, Wfi!Goto
    <3>2. CASE Wfi!WaitRecheck(t) \/ Wfi!WaitClear(t) \/ Wfi!WaitReturn(t)
      <4>1. t = HartThread /\ at[t] = "timer"
        BY <3>2 DEF EventOK, Wfi!WaitPoints, Wfi!WaitRecheck, Wfi!WaitClear,
              Wfi!WaitReturn, Wfi!Goto
      <4>2. QED
        BY <1>1, <2>1, <2>3, <3>2, <4>1 DEF AboutToSleep, Wfi!WaitRecheck,
              Wfi!WaitClear, Wfi!WaitReturn, Wfi!Goto
    <3>3. CASE Wfi!WakeFutex(t)
      <4>1. flag' = flag /\ \A u \in Threads : pc'[u] \in {pc[u], "idle", "clear"}
        BY <1>1, <3>3 DEF Wfi!WakeFutex, Wfi!Asleep
      <4>2. QED
        BY <1>1, <2>1, <4>1 DEF AboutToSleep
    <3>4. QED
      BY <1>26, <3>1, <3>2, <3>3 DEF Wfi!Step, Wfi!Inner
  <2>5. SleepCovered'
    BY <2>1, <2>4 DEF SleepCovered, Pending
  <2>6. QED
    BY <2>2, <2>5 DEF Goal
<1>27. ASSUME Spawn \/ Join PROVE Goal
  <2>1. /\ at'[HartThread] \notin WfiPoints /\ at[HartThread] # "timer"
        /\ pc'[HartThread] = pc[HartThread]
    BY <1>1, <1>27 DEF Spawn, Join, evars
  <2>2. QED
    BY <1>3, <1>6, <2>1
<1>28. ASSUME QueuePause PROVE Goal
  BY <1>1, <1>5, <1>28 DEF QueuePause, Goto
<1>29. ASSUME ResetState \/ Preempt \/ PreemptKick PROVE Goal
  BY <1>1, <1>7, <1>29 DEF ResetState, Preempt, PreemptKick, csrs
<1>30. ASSUME RunArm \/ RunEvents \/ RunIrqs \/ RunDispatch \/ InsnOther \/ InsnTrap
       PROVE  Goal
  BY <1>8, <1>30 DEF RunArm, RunEvents, RunIrqs, RunDispatch, InsnOther, InsnTrap
<1>31. ASSUME \/ \E lines : InsnWriteIe(lines) \/ InsnWriteIp(lines)
              \/ \E b \in BOOLEAN : InsnMret(b) \/ InsnStatus(b)
       PROVE  Goal
  BY <1>8, <1>31 DEF InsnWriteIe, InsnWriteIp, InsnMret, InsnStatus
(* The hart stalls only if nothing is pending ...                          *)
<1>32. ASSUME InsnWfi PROVE Goal
  <2>1. CASE Pending = {}
    <3>1. Pending' = {}
      BY <1>32, <2>1 DEF InsnWfi, csrs, Pending
    <3>2. QED
      BY <3>1 DEF StallCovered, SleepCovered, Goal
  <2>2. CASE Pending # {}
    BY <1>8, <1>32, <2>2 DEF InsnWfi
  <2>3. QED
    BY <2>1, <2>2
(* ... goes on only if its dispatch was not stopped ...                    *)
<1>33. ASSUME WfiTest PROVE Goal
  <2>1. CASE running
    <3>1. /\ at[HartThread] = "wfi" /\ at' = [at EXCEPT ![HartThread] = "delay"]
          /\ UNCHANGED <<running, pendingIrqs, ie, ip>>
      BY <1>33, <2>1 DEF WfiTest, Goto, csrs
    <3>2. \A t \in Threads : at[t] = "restart" => at'[t] = "restart"
      BY <1>1, <3>1
    <3>3. Pending' = Pending /\ InWfi
      BY <3>1 DEF Pending, InWfi
    <3>4. (Pending \cap DeviceIrqs # {}) => \E t \in Threads : at'[t] = "restart"
      BY <2>1, <3>2, <3>3 DEF StallCovered
    <3>5. QED
      BY <3>3, <3>4 DEF StallCovered, SleepCovered, Goal
  <2>2. CASE ~running
    BY <1>8, <1>33, <2>2 DEF WfiTest
  <2>3. QED
    BY <2>1, <2>2
<1>34. ASSUME WfiDelay PROVE Goal
  <2>1. /\ at[HartThread] = "delay" /\ at' = [at EXCEPT ![HartThread] = "wait"]
        /\ UNCHANGED <<running, pendingIrqs, ie, ip, evars>>
    BY <1>34 DEF WfiDelay, Goto, csrs
  <2>2. QED
    BY <1>1, <1>4, <2>1
(* ... and waits only if the event is not raised.                          *)
<1>35. ASSUME WfiWait PROVE Goal
  <2>1. /\ at[HartThread] = "wait" /\ at' = [at EXCEPT ![HartThread] = "timer"]
        /\ UNCHANGED <<running, pendingIrqs, ie, ip>> /\ pc[HartThread] = "idle"
    BY <1>35 DEF WfiWait, Goto, csrs
  <2>2. \A t \in Threads : at[t] \in {"restart", "wake"} => at'[t] = at[t]
    BY <1>1, <2>1
  <2>3. StallCovered'
    BY <1>1, <2>1, <2>2 DEF StallCovered, InWfi, Pending
  <2>4. pc'[HartThread] = "idle" \/ flag' = flag
    BY <1>35, <2>1 DEF WfiWait, Wfi!WaitFast, Wfi!WaitNoTimeout, Wfi!WaitBegin,
          Wfi!vars
  <2>5. SleepCovered'
    BY <1>1, <2>1, <2>2, <2>4 DEF SleepCovered, AboutToSleep, Pending
  <2>6. QED
    BY <2>3, <2>5 DEF Goal
<1>36. ASSUME WfiTimeout PROVE Goal
  <2>1. /\ UNCHANGED <<at, running, pendingIrqs, ie, ip>>
        /\ pc[HartThread] = "asleep" /\ pc'[HartThread] = "clear"
    BY <1>1, <1>36 DEF WfiTimeout, Wfi!FutexTimeout, Wfi!Goto, hvars, csrs
  <2>2. QED
    BY <1>3, <2>1 DEF StallCovered, SleepCovered, AboutToSleep, InWfi, Pending, Goal
<1>37. ASSUME Tick PROVE Goal
  BY <1>4, <1>37 DEF Tick, csrs
<1>38. Goal
  BY <1>14, <1>15, <1>16, <1>17, <1>18, <1>19, <1>20, <1>21, <1>22, <1>23, <1>24,
     <1>25, <1>26, <1>27, <1>28, <1>29, <1>30, <1>31, <1>32, <1>33, <1>34, <1>35,
     <1>36, <1>37, NextActions, Zenon
<1>39. QED
  BY <1>38 DEF Goal

(* A hart never sleeps in WFI on a pending, enabled device interrupt       *)
(* without somebody about to wake it, wherever riscv_interrupt's three     *)
(* steps (set the line, stop the dispatch, wake wfi_cond) fall between     *)
(* WFI's looks at the lines, at `running` and at the event.                *)
THEOREM SleepersNotified == Spec => []SleepsOnlyUnnotified
<1>1. Init => StallCovered /\ SleepCovered
  <2> SUFFICES ASSUME Init PROVE StallCovered /\ SleepCovered
    OBVIOUS
  <2>1. Pending = {}
    BY DEF Init, Pending
  <2>2. QED
    BY <2>1 DEF StallCovered, SleepCovered
<1>2. Spec => [](StallCovered /\ SleepCovered)
  BY <1>1, HartInvariant, SleepStep, PTL DEF Spec
<1>3. FieldsOK /\ EventOK /\ SleepCovered => SleepsOnlyUnnotified
  <2> SUFFICES ASSUME EventOK, SleepCovered, pc[HartThread] = "asleep",
                      Pending \cap DeviceIrqs # {}
               PROVE  Notifying # {}
    BY DEF SleepsOnlyUnnotified
  <2>1. flag = 1 \/ \E t \in Threads : at[t] \in {"restart", "wake"}
    BY DEF SleepCovered, AboutToSleep
  <2>2. \E t \in Threads : at[t] \in {"restart", "wake"} \/ pc[t] \in Wfi!WakePoints
    BY <2>1 DEF EventOK
  <2>3. QED
    BY <2>2 DEF Notifying
<1>4. QED
  BY <1>2, <1>3, HartInvariant, PTL

-----------------------------------------------------------------------------
(* The timers and a hart on its way to sleep                               *)

(* From the moment the delay of WFI is computed to the end of the wait,    *)
(* the deadline is no later than the expiry of any enabled timer, or past. *)
Stalling == at[HartThread] = "wait" \/ pc[HartThread] \in Wfi!WaitPoints
TimersCovered ==
  Stalling => \A k \in Timers \cap ie :
                deadline <= timecmp[k] + begin \/ deadline <= host

(* Without other harts only the hart itself moves its timers and the time, *)
(* and it does so outside WFI.                                             *)
LEMMA TimersStep ==
  ASSUME OtherHarts = {}, FieldsOK, EventOK, TimersCovered, [Next]_vars
  PROVE  TimersCovered'
<1> DEFINE Goal == TimersCovered'
<1>1. /\ HartThread \in Threads /\ Supervisor \in Threads
      /\ HartThread # Supervisor /\ at \in [Threads -> HartPoints \cup CallPoints]
      /\ pc \in [Threads -> {"idle"} \cup Wfi!WaitPoints \cup Wfi!WakePoints]
      /\ host \in Int /\ begin \in Int /\ deadline \in Int
      /\ timecmp \in [Timers -> Int]
  <2>1. Never \in Int
    BY HartAssumption DEF Never
  <2>2. timecmp \in [Timers -> Int] /\ host \in Int
    BY <2>1, HartAssumption DEF FieldsOK
  <2>3. QED
    BY <2>2, HartAssumption DEF Threads, FieldsOK, Points, EventOK
<1>2. "idle" \notin Wfi!WaitPoints
  BY DEF Wfi!WaitPoints
<1>3. ASSUME UNCHANGED <<ie, timecmp, begin, deadline>>,
             host' = host \/ host' = host + 1, Stalling' => Stalling
      PROVE  Goal
  BY <1>1, <1>3 DEF TimersCovered
<1>4. ASSUME at'[HartThread] # "wait", pc'[HartThread] = "idle"
      PROVE  Goal
  BY <1>2, <1>4 DEF TimersCovered, Stalling
<1>5. ASSUME NEW t \in Threads, NEW from, NEW to, Goto(t, from, to),
             UNCHANGED <<ie, timecmp, begin, deadline, host, evars>>,
             to # "wait"
      PROVE  Goal
  BY <1>1, <1>3, <1>5 DEF Goto, Stalling, evars
<1>6. ASSUME NEW from, NEW to, Goto(HartThread, from, to), UNCHANGED evars,
             to # "wait"
      PROVE  Goal
  BY <1>1, <1>4, <1>6 DEF Goto, evars
<1>7. ASSUME NEW t \in Threads, NextTimer(t), UNCHANGED <<csrs, clocks, evars>>
      PROVE  Goal
  <2>1. PICK to \in {"cmp", "wfi", "idle"} : at' = [at EXCEPT ![t] = to]
    BY <1>7 DEF NextTimer, CheckTimerDone
  <2>2. Stalling' => Stalling
    BY <1>1, <1>7, <2>1 DEF Stalling, evars
  <2>3. QED
    BY <1>3, <1>7, <2>2 DEF csrs, clocks
<1>8. \A t : Home(t) # "wait"
  BY DEF Home
<1> HIDE DEF Goal
<1>9. ASSUME UNCHANGED vars PROVE Goal
  BY <1>3, <1>9 DEF vars, hvars, csrs, clocks, evars, Stalling
<1>10. ASSUME NEW t \in Threads, Restart(t) \/ TimecmpTest(t) PROVE Goal
  BY <1>5, <1>10 DEF Restart, TimecmpTest, csrs, clocks
<1>11. ASSUME NEW t \in Threads, NEW l, NEW from,
              SetLine(t, l, from) \/ ClearLine(t, l, from)
       PROVE  Goal
  BY <1>5, <1>8, <1>11 DEF SetLine, ClearLine, csrs, clocks
<1>12. ASSUME NEW t \in Threads,
              \/ TimecmpRaise(t) \/ TimecmpClear(t)
              \/ \E l : RaiseLine(t, l) \/ LowerLine(t, l)
       PROVE  Goal
  BY <1>11, <1>12 DEF TimecmpRaise, TimecmpClear, RaiseLine, LowerLine
<1>13. ASSUME NEW t \in Threads, CondvarWake(t) PROVE Goal
  <2>1. /\ UNCHANGED <<ie, timecmp, begin, deadline, host>> /\ pc[t] = "idle"
        /\ at' = [at EXCEPT ![t] = IF t = Supervisor THEN "join" ELSE Home(t)]
    BY <1>13 DEF CondvarWake, Goto, csrs, clocks
  <2>2. pc' = pc \/ pc' = [pc EXCEPT ![t] = "notify"]
    BY <1>13 DEF CondvarWake, Wfi!WakeRaise, Wfi!Goto, evars
  <2>3. Stalling' => Stalling
    BY <1>1, <1>8, <2>1, <2>2 DEF Stalling, Wfi!WaitPoints
  <2>4. QED
    BY <1>3, <2>1, <2>3
<1>14. ASSUME NEW t \in {HartThread} \cup OtherHarts,
              \/ \E k, time : TimecmpSet(t, k, time)
              \/ \E time : Rebase(t, time)
       PROVE  Goal
  <2>1. t = HartThread
    OBVIOUS
  <2>2. QED
    BY <1>6, <1>8, <1>14, <2>1 DEF TimecmpSet, Rebase
<1>15. ASSUME NEW t \in Threads, CheckTimerBegin(t) PROVE Goal
  <2>1. PICK from \in {"timer", "idle"}, to \in {"clock", "wfi", "idle"} :
          Goto(t, from, to)
    BY <1>15 DEF CheckTimerBegin, CheckTimerDone
  <2>2. UNCHANGED <<ie, timecmp, begin, host, evars>>
    BY <1>15 DEF CheckTimerBegin, csrs
  <2>3. CASE t = HartThread
    BY <1>6, <2>1, <2>2, <2>3
  <2>4. CASE t # HartThread
    BY <1>5, <1>15, <2>1, <2>2, <2>4 DEF CheckTimerBegin
  <2>5. QED
    BY <2>3, <2>4
<1>16. ASSUME NEW t \in Threads, CheckTimerClock(t) PROVE Goal
  BY <1>5, <1>16 DEF CheckTimerClock, csrs, clocks
<1>17. ASSUME NEW t \in Threads,
              CheckTimerCompare(t) \/ CheckTimerSet(t) \/ CheckTimerKick(t)
       PROVE  Goal
  <2>1. UNCHANGED <<csrs, clocks, evars>>
    BY <1>17 DEF CheckTimerCompare, CheckTimerSet, CheckTimerKick
  <2>2. CASE NextTimer(t)
    BY <1>7, <2>1, <2>2
  <2>3. CASE \E to \in {"set", "kick"} : at' = [at EXCEPT ![t] = to]
    <3>1. Stalling' => Stalling
      BY <1>1, <2>1, <2>3 DEF Stalling, evars
    <3>2. QED
      BY <1>3, <2>1, <3>1 DEF csrs, clocks
  <2>4. QED
    BY <1>17, <2>2, <2>3 DEF CheckTimerCompare, CheckTimerSet, CheckTimerKick
<1>18. ASSUME NEW t \in Threads, Wfi!Step(t), UNCHANGED hvars PROVE Goal
  <2>1. UNCHANGED <<at, ie, timecmp, begin, deadline, host>>
    BY <1>18 DEF hvars, csrs, clocks
  <2>2. pc'[HartThread] \in Wfi!WaitPoints => pc[HartThread] \in Wfi!WaitPoints
    <3>1. CASE Wfi!WaitAdd(t) \/ Wfi!WaitRecheck(t) \/ Wfi!FutexWait(t)
               \/ Wfi!WaitClear(t) \/ Wfi!WaitReturn(t) \/ Wfi!WakeNotify(t)
      BY <1>1, <3>1 DEF Wfi!WaitAdd, Wfi!WaitRecheck, Wfi!FutexWait,
           Wfi!WaitClear, Wfi!WaitReturn, Wfi!WakeNotify, Wfi!Goto, Wfi!WaitPoints
    <3>2. CASE Wfi!WakeFutex(t)
      BY <1>1, <3>2 DEF Wfi!WakeFutex, Wfi!Asleep, Wfi!WaitPoints
    <3>3. QED
      BY <1>18, <3>1, <3>2 DEF Wfi!Step, Wfi!Inner
  <2>3. QED
    BY <1>3, <2>1, <2>2 DEF Stalling
<1>19. ASSUME Spawn \/ Join PROVE Goal
  <2>1. /\ UNCHANGED <<ie, timecmp, begin, deadline, host, pc>>
        /\ at'[HartThread] # "wait"
    BY <1>1, <1>19 DEF Spawn, Join, csrs, clocks, evars
  <2>2. QED
    BY <1>3, <2>1 DEF Stalling
<1>20. ASSUME QueuePause \/ Preempt \/ PreemptKick PROVE Goal
  BY <1>1, <1>5, <1>20 DEF QueuePause, Preempt, PreemptKick, csrs, clocks
(* The reset moves the time, but of a hart that is stopped.                *)
<1>21. ASSUME ResetState PROVE Goal
  <2>1. /\ at[HartThread] = "off" /\ at'[HartThread] = "off"
        /\ pc' = pc
    BY <1>1, <1>21 DEF ResetState, Goto, evars
  <2>2. pc[HartThread] \notin Wfi!WaitPoints
    BY <2>1 DEF EventOK
  <2>3. QED
    BY <2>1, <2>2 DEF TimersCovered, Stalling, Goal
<1>22. ASSUME RunArm \/ RunEvents \/ RunIrqs \/ RunDispatch \/ InsnOther
              \/ InsnTrap \/ InsnWfi \/ WfiTest
       PROVE  Goal
  BY <1>6, <1>22 DEF RunArm, RunEvents, RunIrqs, RunDispatch, InsnOther,
       InsnTrap, InsnWfi, WfiTest
<1>23. ASSUME \/ \E lines : InsnWriteIe(lines) \/ InsnWriteIp(lines)
              \/ \E b \in BOOLEAN : InsnMret(b) \/ InsnStatus(b)
       PROVE  Goal
  BY <1>6, <1>23 DEF InsnWriteIe, InsnWriteIp, InsnMret, InsnStatus
(* The delay is the least of the enabled timers'.                          *)
<1>24. ASSUME WfiDelay PROVE Goal
  <2> DEFINE d == Min({Never} \cup {Delay(k) : k \in Timers \cap ie})
  <2>1. d \in Int /\ \A k \in Timers \cap ie : d <= Delay(k)
    BY DelayLeast
  <2>2. deadline' = host + d /\ UNCHANGED <<ie, timecmp, host, begin>>
    BY <1>24 DEF WfiDelay, csrs
  <2> HIDE DEF d
  <2>3. ASSUME NEW k \in Timers \cap ie
        PROVE  deadline' <= timecmp[k] + begin \/ deadline' <= host
    <3>1. d <= Delay(k) /\ timecmp[k] \in Int
      BY <1>1, <2>1
    <3>2. CASE host - begin < timecmp[k]
      BY <1>1, <2>1, <2>2, <3>1, <3>2 DEF Delay, Mtime
    <3>3. CASE ~(host - begin < timecmp[k])
      BY <1>1, <2>1, <2>2, <3>1, <3>3 DEF Delay, Mtime
    <3>4. QED
      BY <3>2, <3>3
  <2>4. QED
    BY <2>2, <2>3 DEF TimersCovered, Goal
<1>25. ASSUME WfiWait \/ WfiTimeout PROVE Goal
  <2>1. UNCHANGED <<ie, timecmp, begin, deadline, host>>
    BY <1>25 DEF WfiWait, WfiTimeout, hvars, csrs, clocks
  <2>2. Stalling
    BY <1>25 DEF WfiWait, WfiTimeout, Goto, Wfi!FutexTimeout, Wfi!Goto, Stalling,
          Wfi!WaitPoints
  <2>3. QED
    BY <1>3, <2>1, <2>2
<1>26. ASSUME Tick PROVE Goal
  BY <1>3, <1>26 DEF Tick, csrs, evars, Stalling
<1>27. Goal
  BY <1>9, <1>10, <1>12, <1>13, <1>14, <1>15, <1>16, <1>17, <1>18, <1>19, <1>20,
     <1>21, <1>22, <1>23, <1>24, <1>25, <1>26, NextActions, Zenon
<1>28. QED
  BY <1>27 DEF Goal

(* "WFI precisely checks timers by itself": on a machine whose other harts *)
(* do not write this hart's mtimecmp or mtime, a hart asleep in WFI has a  *)
(* deadline no later than the expiry of any enabled timer, for any number  *)
(* of devices and both timers.  (With other harts it does not hold: the    *)
(* run hart_remote_timer shows how.)                                       *)
THEOREM SleepsUntilTimers ==
  ASSUME OtherHarts = {}
  PROVE  Spec => []SleepCoversTimers
<1>1. Init => TimersCovered
  <2> SUFFICES ASSUME Init PROVE TimersCovered
    OBVIOUS
  <2>1. HartThread \in Threads
    BY DEF Threads
  <2>2. QED
    BY <2>1 DEF Init, Wfi!Init, TimersCovered, Stalling, Wfi!WaitPoints
<1>2. FieldsOK /\ EventOK /\ TimersCovered /\ [Next]_vars => TimersCovered'
  BY TimersStep
<1>3. Spec => []TimersCovered
  BY <1>1, <1>2, HartInvariant, PTL DEF Spec
<1>4. TimersCovered => SleepCoversTimers
  BY DEF TimersCovered, SleepCoversTimers, Stalling, Wfi!WaitPoints
<1>5. QED
  BY <1>3, <1>4, PTL
===============================================================================
