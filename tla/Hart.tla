--------------------------------- MODULE Hart ---------------------------------
(***************************************************************************)
(* One hart and the threads that act on it (src/rvvm/src/riscv_hart.c,     *)
(* riscv_priv.c, riscv_csr.c, devices/riscv-aclint.c).                     *)
(*                                                                         *)
(* The hart thread runs riscv_hart_run: it re-arms `running`, takes the    *)
(* pending events, takes a pending interrupt, and executes instructions    *)
(* until `running` is cleared.  WFI sleeps on the event wfi_cond (module   *)
(* Event).  Devices raise and clear interrupt lines; other harts write     *)
(* this hart's mtimecmp and the machine's mtime through the ACLINT; the    *)
(* supervisor (the eventloop, or an API call: both hold global_lock)       *)
(* checks timers, preempts, pauses and spawns.                             *)
(*                                                                         *)
(* The guest stays in M-mode with nothing delegated, so that one bit, mie, *)
(* decides whether an enabled pending interrupt traps.  An action is one   *)
(* access to shared state, with the thread's private code around it; the   *)
(* machine's time, and a timecmp with the time it is compared to, are read *)
(* in one step, since what is done with the result is a later step anyway. *)
(***************************************************************************)
EXTENDS Integers, FiniteSets, FiniteSetsExt

CONSTANTS
  HartThread,        \* the thread of the hart
  Supervisor,        \* the thread that holds global_lock
  Devices,           \* threads of devices
  OtherHarts,        \* threads of the machine's other harts
  DeviceIrqs,        \* interrupt lines that devices drive
  SoftIrqs,          \* interrupt lines the guest sets in csr.ip
  Timers,            \* timer lines in use: {MTIMER} or {MTIMER, STIMER}
  MaxTime,           \* bound on the host clock
  RebaseTimes        \* values guests write to mtime

MTIMER == 7          \* RISCV_INTERRUPT_MTIMER
STIMER == 5          \* RISCV_INTERRUPT_STIMER

Threads == {HartThread, Supervisor} \cup Devices \cup OtherHarts
Lines   == DeviceIrqs \cup SoftIrqs \cup Timers

(* A timecmp of -1: no time reaches it.                                    *)
Never == 3 * MaxTime + 1

ASSUME HartAssumption ==
  /\ HartThread # Supervisor
  /\ {HartThread, Supervisor} \cap (Devices \cup OtherHarts) = {}
  /\ Devices \cap OtherHarts = {}
  /\ Timers \in {{MTIMER}, {MTIMER, STIMER}}
  /\ DeviceIrqs \cup SoftIrqs \subseteq Nat \ {MTIMER, STIMER}
  /\ MaxTime \in Nat
  /\ RebaseTimes \subseteq 0..MaxTime

VARIABLES
  at,                \* program point of each thread outside the event's code
  line,              \* per thread: the interrupt line its call is about
  snap,              \* per thread: `timer` in riscv_hart_check_timer
  running,           \* vm->running: keep executing instructions
  pendingIrqs,       \* vm->pending_irqs
  pendingEvents,     \* vm->pending_events
  ie,                \* csr.ie
  ip,                \* csr.ip: lines the guest itself sets pending
  mie,               \* csr.status.MIE
  timecmp,           \* mtimecmp and stimecmp
  host,              \* the host's clock
  begin,             \* machine->timer.begin: mtime is host - begin
  deadline           \* end of the hart's wait on wfi_cond, counted from the
                     \* moment its delay was computed; it may expire later

locals == <<line, snap>>
csrs == <<ie, ip, mie>>
clocks == <<timecmp, host, begin, deadline>>
hvars == <<at, locals, running, pendingIrqs, pendingEvents, csrs, clocks>>

VARIABLES flag, waiters, pc, woken   \* of wfi_cond

Wfi == INSTANCE Event
evars == <<flag, waiters, pc, woken>>
vars == <<hvars, evars>>

Mtime == host - begin                             \* rvtimer_get
Pending == (pendingIrqs \cup ip) \cap ie           \* riscv_interrupts_pending
Expired(k) == Mtime >= timecmp[k]                 \* rvtimecmp_pending
InWfi == at[HartThread] \in {"wfi", "delay", "wait", "timer", "clock", "cmp",
                           "set", "kick"}

Init ==
  /\ at = [t \in Threads |-> IF t = HartThread THEN "off" ELSE "idle"]
  /\ line = [t \in Threads |-> MTIMER]
  /\ snap = [t \in Threads |-> 0]
  /\ running = FALSE
  /\ pendingIrqs = {}
  /\ pendingEvents = {}
  /\ ie = {}
  /\ ip = {}
  /\ mie = FALSE
  /\ timecmp = [k \in Timers |-> Never]
  /\ host = 0
  /\ begin = 0
  /\ deadline = 0
  /\ Wfi!Init

(* t moves from one program point to another, outside the event's code.    *)
Goto(t, from, to) ==
  /\ pc[t] = "idle"
  /\ at[t] = from
  /\ at' = [at EXCEPT ![t] = to]

(* Where a thread is when it may start an operation on the hart, and where *)
(* it goes when the operation is done.                                     *)
Ready(t) == IF t = HartThread THEN "insn" ELSE "idle"
Home(t)  == IF t = HartThread THEN "exec" ELSE "idle"

-----------------------------------------------------------------------------
(* riscv_interrupt and riscv_interrupt_clear                               *)

(* Slip: the line is set and nobody is told.                               *)
SetLine_Silent(t, l, from) ==
  /\ Goto(t, from, Home(t))
  /\ line' = [line EXCEPT ![t] = MTIMER]
  /\ pendingIrqs' = pendingIrqs \cup {l}
  /\ UNCHANGED <<snap, running, pendingEvents, csrs, clocks, evars>>

(* riscv_interrupt_set; only the thread that newly set the bit notifies.   *)
SetLine(t, l, from) ==
  /\ Goto(t, from, IF l \in pendingIrqs THEN Home(t) ELSE "restart")
  /\ line' = [line EXCEPT ![t] = MTIMER]
  /\ pendingIrqs' = pendingIrqs \cup {l}
  /\ UNCHANGED <<snap, running, pendingEvents, csrs, clocks, evars>>

ClearLine(t, l, from) ==
  /\ Goto(t, from, Home(t))
  /\ line' = [line EXCEPT ![t] = MTIMER]
  /\ pendingIrqs' = pendingIrqs \ {l}
  /\ UNCHANGED <<snap, running, pendingEvents, csrs, clocks, evars>>

(* Slip: the hart is restarted but not woken.                              *)
Restart_NoWake(t) ==
  /\ Goto(t, "restart", IF t = Supervisor THEN "join" ELSE Home(t))
  /\ running' = FALSE
  /\ UNCHANGED <<locals, pendingIrqs, pendingEvents, csrs, clocks, evars>>

(* riscv_hart_notify, first half: riscv_restart_dispatch.                  *)
Restart(t) ==
  /\ Goto(t, "restart", "wake")
  /\ running' = FALSE
  /\ UNCHANGED <<locals, pendingIrqs, pendingEvents, csrs, clocks, evars>>

(* Second half: condvar_wake(wfi_cond), which continues in Wfi!Step.  The  *)
(* supervisor notifies only in riscv_hart_pause and goes on to join.       *)
CondvarWake(t) ==
  /\ Goto(t, "wake", IF t = Supervisor THEN "join" ELSE Home(t))
  /\ IF flag = 0 THEN Wfi!WakeRaise(t) ELSE UNCHANGED evars
  /\ UNCHANGED <<locals, running, pendingIrqs, pendingEvents, csrs, clocks>>

(* A device drives a line, or a hart writes an MSIP register.              *)
RaiseLine(t, l) == SetLine(t, l, Ready(t))
LowerLine(t, l) == ClearLine(t, l, Ready(t))

-----------------------------------------------------------------------------
(* aclint_mtimer_write (any hart) and riscv_csr_stimecmp_set (this hart)   *)

(* Slip: one tick too late.                                                *)
TimecmpSet_Late(t, k, time) ==
  /\ Goto(t, Ready(t), "test")
  /\ timecmp' = [timecmp EXCEPT ![k] = time + 1]
  /\ line' = [line EXCEPT ![t] = k]
  /\ UNCHANGED <<snap, running, pendingIrqs, pendingEvents, csrs, host, begin,
                 deadline, evars>>

(* rvtimecmp_set                                                           *)
TimecmpSet(t, k, time) ==
  /\ Goto(t, Ready(t), "test")
  /\ timecmp' = [timecmp EXCEPT ![k] = time]
  /\ line' = [line EXCEPT ![t] = k]
  /\ UNCHANGED <<snap, running, pendingIrqs, pendingEvents, csrs, host,
                 begin, deadline, evars>>

(* rvtimecmp_pending: raise the line or clear it.                          *)
TimecmpTest(t) ==
  /\ Goto(t, "test", IF Expired(line[t]) THEN "raise" ELSE "clear")
  /\ UNCHANGED <<locals, running, pendingIrqs, pendingEvents, csrs, clocks,
                 evars>>

TimecmpRaise(t) == SetLine(t, line[t], "raise")
TimecmpClear(t) == ClearLine(t, line[t], "clear")

(* A write to mtime: rvtimer_rebase, and nobody is told.                   *)
Rebase(t, time) ==
  /\ Goto(t, Ready(t), Home(t))
  /\ begin' = host - time
  /\ UNCHANGED <<locals, running, pendingIrqs, pendingEvents, csrs,
                 timecmp, host, deadline, evars>>

-----------------------------------------------------------------------------
(* riscv_hart_check_timer, by the supervisor on every tick and by the hart *)
(* each time it wakes in WFI                                               *)

CheckTimerDone(t) == IF t = HartThread THEN "wfi" ELSE "idle"

(* Slip: the hart, too, takes itself for a sleeper.                        *)
CheckTimerBegin_SkipsSelf(t) ==
  /\ t \in {HartThread, Supervisor}
  /\ Goto(t, IF t = HartThread THEN "timer" ELSE "idle",
             IF waiters = 0 /\ t # HartThread THEN "clock"
                                              ELSE CheckTimerDone(t))
  /\ line' = [line EXCEPT ![t] = MTIMER]
  /\ deadline' = IF t = HartThread THEN 0 ELSE deadline
  /\ UNCHANGED <<snap, running, pendingIrqs, pendingEvents, csrs, timecmp, host,
                 begin, evars>>

(* condvar_waiters: a hart that is counted as waiting is left to look      *)
(* after itself.                                                           *)
CheckTimerBegin(t) ==
  /\ t \in {HartThread, Supervisor}
  /\ Goto(t, IF t = HartThread THEN "timer" ELSE "idle",
             IF waiters = 0 THEN "clock" ELSE CheckTimerDone(t))
  /\ line' = [line EXCEPT ![t] = MTIMER]
  /\ deadline' = IF t = HartThread THEN 0 ELSE deadline
  /\ UNCHANGED <<snap, running, pendingIrqs, pendingEvents, csrs, timecmp, host,
                 begin, evars>>

(* timer = rvtimer_get(&machine->timer)                                    *)
CheckTimerClock(t) ==
  /\ Goto(t, "clock", "cmp")
  /\ snap' = [snap EXCEPT ![t] = Mtime]
  /\ UNCHANGED <<line, running, pendingIrqs, pendingEvents, csrs, clocks, evars>>

(* After one timer the other one, if this machine has it.  A local that    *)
(* is dead is reset, which keeps the model small.                          *)
NextTimer(t) ==
  IF line[t] = MTIMER /\ STIMER \in Timers
    THEN /\ at' = [at EXCEPT ![t] = "cmp"]
         /\ line' = [line EXCEPT ![t] = STIMER]
         /\ UNCHANGED snap
    ELSE /\ at' = [at EXCEPT ![t] = CheckTimerDone(t)]
         /\ line' = [line EXCEPT ![t] = MTIMER]
         /\ snap' = [snap EXCEPT ![t] = 0]

(* timer >= rvtimecmp_get(cmp)                                             *)
CheckTimerCompare(t) ==
  /\ pc[t] = "idle" /\ at[t] = "cmp"
  /\ IF snap[t] >= timecmp[line[t]]
       THEN at' = [at EXCEPT ![t] = "set"] /\ UNCHANGED locals
       ELSE NextTimer(t)
  /\ UNCHANGED <<running, pendingIrqs, pendingEvents, csrs, clocks,
                 evars>>

(* riscv_interrupt_set                                                     *)
CheckTimerSet(t) ==
  /\ pc[t] = "idle" /\ at[t] = "set"
  /\ pendingIrqs' = pendingIrqs \cup {line[t]}
  /\ IF line[t] \in pendingIrqs
       THEN NextTimer(t)
       ELSE at' = [at EXCEPT ![t] = "kick"] /\ UNCHANGED locals
  /\ UNCHANGED <<running, pendingEvents, csrs, clocks, evars>>

(* riscv_restart_dispatch, without waking wfi_cond.                        *)
CheckTimerKick(t) ==
  /\ pc[t] = "idle" /\ at[t] = "kick"
  /\ running' = FALSE
  /\ NextTimer(t)
  /\ UNCHANGED <<pendingIrqs, pendingEvents, csrs, clocks, evars>>

-----------------------------------------------------------------------------
(* The supervisor's other operations                                       *)

(* riscv_hart_spawn                                                        *)
Spawn ==
  /\ pc[Supervisor] = "idle" /\ at[Supervisor] = "idle"
  /\ at[HartThread] = "off"
  /\ pendingEvents' = {}
  /\ at' = [at EXCEPT ![HartThread] = "loop"]
  /\ UNCHANGED <<locals, running, pendingIrqs, csrs, clocks, evars>>

(* rvvm_reset_machine_state, of a machine whose harts are stopped: zero    *)
(* MIE, restart the timer.  Interrupt lines and timecmps stay.             *)
ResetState ==
  /\ Goto(Supervisor, "idle", "idle")
  /\ at[HartThread] = "off"
  /\ mie' = FALSE
  /\ begin' = host
  /\ UNCHANGED <<locals, running, pendingIrqs, pendingEvents, ie, ip, timecmp,
                 host, deadline, evars>>

(* riscv_hart_queue_pause; Restart and CondvarWake follow.                 *)
QueuePause ==
  /\ Goto(Supervisor, "idle", "restart")
  /\ at[HartThread] # "off"
  /\ pendingEvents' = pendingEvents \cup {"PAUSE"}
  /\ UNCHANGED <<locals, running, pendingIrqs, csrs, clocks, evars>>

(* riscv_hart_pause: thread_join, thread = NULL.                           *)
Join ==
  /\ pc[Supervisor] = "idle" /\ at[Supervisor] = "join"
  /\ at[HartThread] = "exited"
  /\ at' = [at EXCEPT ![Supervisor] = "idle", ![HartThread] = "off"]
  /\ UNCHANGED <<locals, running, pendingIrqs, pendingEvents, csrs, clocks,
                 evars>>

(* riscv_hart_preempt: post the event ...                                  *)
Preempt ==
  /\ Goto(Supervisor, "idle", "preempt")
  /\ at[HartThread] # "off"
  /\ pendingEvents' = pendingEvents \cup {"PREEMPT"}
  /\ UNCHANGED <<locals, running, pendingIrqs, csrs, clocks, evars>>

(* ... and restart the dispatch; a hart asleep in WFI is not disturbed.    *)
PreemptKick ==
  /\ Goto(Supervisor, "preempt", "idle")
  /\ running' = FALSE
  /\ UNCHANGED <<locals, pendingIrqs, pendingEvents, csrs, clocks, evars>>

-----------------------------------------------------------------------------
(* The hart thread: riscv_hart_run                                         *)

(* Allow the hart to run.                                                  *)
RunArm ==
  /\ Goto(HartThread, "loop", "events")
  /\ running' = TRUE
  /\ UNCHANGED <<locals, pendingIrqs, pendingEvents, csrs, clocks, evars>>

(* Slip: PREEMPT is looked at first and PAUSE is lost with it.             *)
RunEvents_PreemptFirst ==
  /\ Goto(HartThread, "events",
          IF pendingEvents = {"PAUSE"} THEN "exited" ELSE "irqs")
  /\ pendingEvents' = {}
  /\ UNCHANGED <<locals, running, pendingIrqs, csrs, clocks, evars>>

(* Take all pending events; PREEMPT only sleeps for a while.               *)
RunEvents ==
  /\ Goto(HartThread, "events",
          IF "PAUSE" \in pendingEvents THEN "exited" ELSE "irqs")
  /\ pendingEvents' = {}
  /\ UNCHANGED <<locals, running, pendingIrqs, csrs, clocks, evars>>

(* Slip: `running` is re-armed after the events were taken.                *)
RunIrqs_LateArm ==
  /\ Goto(HartThread, "irqs", "insn")
  /\ mie' = (mie /\ Pending = {})
  /\ running' = TRUE
  /\ UNCHANGED <<locals, pendingIrqs, pendingEvents, ie, ip, clocks, evars>>

(* riscv_handle_irqs: an enabled pending interrupt traps and masks MIE.    *)
RunIrqs ==
  /\ Goto(HartThread, "irqs", "insn")
  /\ mie' = (mie /\ Pending = {})
  /\ UNCHANGED <<locals, running, pendingIrqs, pendingEvents, ie, ip, clocks,
                 evars>>

(* The dispatch loop's test, after an instruction.                         *)
RunDispatch ==
  /\ Goto(HartThread, "exec", IF running THEN "insn" ELSE "loop")
  /\ UNCHANGED <<locals, running, pendingIrqs, pendingEvents, csrs, clocks,
                 evars>>

(* An instruction that touches none of this state.                         *)
InsnOther ==
  /\ Goto(HartThread, "insn", "exec")
  /\ UNCHANGED <<locals, running, pendingIrqs, pendingEvents, csrs, clocks,
                 evars>>

(* A write to csr.ie, with riscv_hart_check_interrupts.                    *)
InsnWriteIe(lines) ==
  /\ Goto(HartThread, "insn", "exec")
  /\ ie' = lines
  /\ running' = (running /\ (pendingIrqs \cup ip) \cap lines = {})
  /\ UNCHANGED <<locals, pendingIrqs, pendingEvents, ip, mie, clocks, evars>>

(* A write to csr.ip, likewise.                                            *)
InsnWriteIp(lines) ==
  /\ Goto(HartThread, "insn", "exec")
  /\ ip' = lines
  /\ running' = (running /\ (pendingIrqs \cup lines) \cap ie = {})
  /\ UNCHANGED <<locals, pendingIrqs, pendingEvents, ie, mie, clocks, evars>>

(* Slip: interrupts are enabled without a look at the pending ones.        *)
InsnMret_NoCheck(mpie) ==
  /\ Goto(HartThread, "insn", "exec")
  /\ mie' = mpie
  /\ UNCHANGED <<locals, running, pendingIrqs, pendingEvents, ie, ip, clocks,
                 evars>>

(* MRET: MIE becomes MPIE, which is the guest's to choose, then            *)
(* riscv_hart_check_interrupts.                                            *)
InsnMret(mpie) ==
  /\ Goto(HartThread, "insn", "exec")
  /\ mie' = mpie
  /\ running' = (running /\ Pending = {})
  /\ UNCHANGED <<locals, pendingIrqs, pendingEvents, ie, ip, clocks, evars>>

(* A write to csr.status checks the interrupts only if it enables MIE.     *)
InsnStatus(enable) ==
  /\ Goto(HartThread, "insn", "exec")
  /\ mie' = enable
  /\ running' = (running /\ ~(enable /\ ~mie /\ Pending # {}))
  /\ UNCHANGED <<locals, pendingIrqs, pendingEvents, ie, ip, clocks, evars>>

(* An exception: riscv_trap masks MIE and restarts the dispatch.           *)
InsnTrap ==
  /\ Goto(HartThread, "insn", "exec")
  /\ mie' = FALSE
  /\ running' = FALSE
  /\ UNCHANGED <<locals, pendingIrqs, pendingEvents, ie, ip, clocks, evars>>

(* WFI does not stall while an enabled interrupt is pending.               *)
InsnWfi ==
  /\ Goto(HartThread, "insn", IF Pending = {} THEN "wfi" ELSE "exec")
  /\ UNCHANGED <<locals, running, pendingIrqs, pendingEvents, csrs, clocks,
                 evars>>

(* The stall's loop test.                                                  *)
WfiTest ==
  /\ Goto(HartThread, "wfi", IF running THEN "delay" ELSE "exec")
  /\ UNCHANGED <<locals, running, pendingIrqs, pendingEvents, csrs, clocks,
                 evars>>

(* rvtimecmp_delay_ns: the wait ends no later than the first enabled timer.*)
Delay(k) == IF Mtime < timecmp[k] THEN timecmp[k] - Mtime ELSE 0

(* Slip: the later timer is waited for.                                    *)
WfiDelay_LastTimer ==
  /\ Goto(HartThread, "delay", "wait")
  /\ deadline' = host + IF Timers \cap ie = {} THEN Never
                        ELSE Max({Delay(k) : k \in Timers \cap ie})
  /\ UNCHANGED <<locals, running, pendingIrqs, pendingEvents, csrs, timecmp,
                 host, begin, evars>>

(* The hart-private computation of WFI's delay.                            *)
WfiDelay ==
  /\ Goto(HartThread, "delay", "wait")
  /\ deadline' = host + Min({Never} \cup {Delay(k) : k \in Timers \cap ie})
  /\ UNCHANGED <<locals, running, pendingIrqs, pendingEvents, csrs,
                 timecmp, host, begin, evars>>

(* condvar_wait_ns(wfi_cond, delay): a zero delay does not wait.           *)
WfiWait ==
  /\ Goto(HartThread, "wait", "timer")
  /\ \/ Wfi!WaitFast(HartThread)
     \/ deadline <= host /\ Wfi!WaitNoTimeout(HartThread)
     \/ deadline > host /\ Wfi!WaitBegin(HartThread)
  /\ UNCHANGED <<locals, running, pendingIrqs, pendingEvents, csrs, clocks>>

WfiTimeout ==
  /\ host >= deadline
  /\ Wfi!FutexTimeout(HartThread)
  /\ UNCHANGED hvars

-----------------------------------------------------------------------------
(* Every thread finishes the operation it began ...                        *)
Continue(t) ==
  \/ Restart(t)
  \/ CondvarWake(t)
  \/ TimecmpTest(t)
  \/ TimecmpRaise(t)
  \/ TimecmpClear(t)
  \/ CheckTimerClock(t)
  \/ CheckTimerCompare(t)
  \/ CheckTimerSet(t)
  \/ CheckTimerKick(t)
  \/ Wfi!Step(t) /\ UNCHANGED hvars

(* ... the hart thread runs, whatever its guest executes ...               *)
HartRun ==
  \/ RunArm
  \/ RunEvents
  \/ RunIrqs
  \/ RunDispatch
  \/ InsnOther
  \/ \E lines \in SUBSET Lines : InsnWriteIe(lines)
  \/ \E lines \in SUBSET SoftIrqs : InsnWriteIp(lines)
  \/ \E b \in BOOLEAN : InsnMret(b) \/ InsnStatus(b)
  \/ InsnTrap
  \/ InsnWfi
  \/ \E k \in Timers, time \in 0..MaxTime \cup {Never} :
       TimecmpSet(HartThread, k, time)
  \/ \E time \in RebaseTimes : Rebase(HartThread, time)
  \/ \E l \in DeviceIrqs : RaiseLine(HartThread, l) \/ LowerLine(HartThread, l)
  \/ WfiTest
  \/ WfiDelay
  \/ WfiWait
  \/ WfiTimeout
  \/ CheckTimerBegin(HartThread)
  \/ Continue(HartThread)

(* ... the supervisor finishes what it began ...                           *)
SupervisorRun == Join \/ PreemptKick \/ Continue(Supervisor)

(* ... and starts new operations at will, as the other threads do.         *)
Environment ==
  \/ Spawn
  \/ ResetState
  \/ QueuePause
  \/ Preempt
  \/ CheckTimerBegin(Supervisor)
  \/ \E t \in Devices \cup OtherHarts, l \in DeviceIrqs :
       RaiseLine(t, l) \/ LowerLine(t, l)
  \/ \E t \in OtherHarts :
       \/ \E time \in 0..MaxTime \cup {Never} : TimecmpSet(t, MTIMER, time)
       \/ \E time \in RebaseTimes : Rebase(t, time)

Tick ==
  /\ host < MaxTime
  /\ host' = host + 1
  /\ UNCHANGED <<at, locals, running, pendingIrqs, pendingEvents, csrs,
                 timecmp, begin, deadline, evars>>

Next ==
  \/ HartRun
  \/ SupervisorRun
  \/ \E t \in Devices \cup OtherHarts : Continue(t)
  \/ Environment
  \/ Tick

Spec == Init /\ [][Next]_vars

(* The host schedules every runnable thread and its clock advances.  No    *)
(* thread is obliged to start an operation.                                *)
FairSpec ==
  /\ Spec
  /\ WF_vars(HartRun)
  /\ WF_vars(SupervisorRun)
  /\ \A t \in Devices \cup OtherHarts : WF_vars(Continue(t))
  /\ WF_vars(Tick)
-----------------------------------------------------------------------------
HartPoints == {"off", "loop", "events", "irqs", "insn", "exec", "exited",
               "wfi", "delay", "wait", "timer"}
CallPoints == {"idle", "test", "raise", "clear", "restart", "wake", "clock",
               "cmp", "set", "kick", "join", "preempt"}

(* Every variable stays in its range; in particular nobody but the hart    *)
(* waits on wfi_cond, so waiters is 0 or 1.                                *)
TypeOK ==
  /\ at \in [Threads -> HartPoints \cup CallPoints]
  /\ line \in [Threads -> Lines]
  /\ snap \in [Threads -> Int]
  /\ running \in BOOLEAN
  /\ pendingIrqs \subseteq Lines
  /\ pendingEvents \subseteq {"PAUSE", "PREEMPT"}
  /\ ie \subseteq Lines
  /\ ip \subseteq SoftIrqs
  /\ mie \in BOOLEAN
  /\ timecmp \in [Timers -> 0..MaxTime \cup {Never}]
  /\ host \in 0..MaxTime
  /\ begin \in Int
  /\ deadline \in Int
  /\ waiters \in {0, 1}
  /\ \A t \in Threads \ {HartThread} :
       pc[t] \in {"idle", "notify", "futex_wake"}

(* Threads that have begun, and not finished, to notify the hart.          *)
Notifying ==
  {t \in Threads : at[t] \in {"restart", "wake"} \/ pc[t] \in Wfi!WakePoints}

(* A hart asleep in WFI with an enabled device interrupt pending is about  *)
(* to be woken: the thread that set the line has still to notify it.       *)
SleepsOnlyUnnotified ==
  (pc[HartThread] = "asleep" /\ Pending \cap DeviceIrqs # {}) => Notifying # {}

(* While the hart executes instructions with interrupts enabled and one    *)
(* pending, some thread is about to restart its dispatch: no interrupt is  *)
(* overlooked when `running` is re-armed, when it is enabled by the guest  *)
(* or when its line was already set.                                       *)
InterruptNotOverlooked ==
  (at[HartThread] \in {"insn", "exec"} /\ running /\ mie /\ Pending # {}) =>
    \E t \in Threads : at[t] \in {"restart", "kick"}

(* Its strengthening: this holds wherever the hart is inside the dispatch  *)
(* loop, in the middle of an instruction and asleep in WFI included.       *)
Outside == {"off", "loop", "events", "irqs", "exited"}
InterruptCovered ==
  (at[HartThread] \notin Outside /\ running /\ mie /\ Pending # {}) =>
    \E t \in Threads : at[t] \in {"restart", "kick"}

(* "WFI precisely checks timers by itself": once nobody is in the middle   *)
(* of an operation on it, a hart asleep in WFI has a deadline no later     *)
(* than the expiry of any enabled timer.                                   *)
SleepCoversTimers ==
  /\ pc[HartThread] = "asleep"
  /\ \A t \in Threads \ {HartThread} : at[t] = "idle" /\ pc[t] = "idle"
  => \A k \in Timers \cap ie :
       timecmp[k] # Never => (deadline <= timecmp[k] + begin \/ deadline <= host)

(* A pause request stays posted, or the hart has taken it and stopped,     *)
(* until the supervisor has joined the hart's thread.                      *)
PauseNotDropped ==
  at[Supervisor] = "join" =>
    "PAUSE" \in pendingEvents \/ at[HartThread] = "exited"

(* Its strengthening: from the moment it is posted.                        *)
PausePosted ==
  /\ at[Supervisor] \in {"idle", "restart", "wake", "join", "preempt", "clock",
                         "cmp", "set", "kick"}
  /\ at[Supervisor] \in {"restart", "wake", "join"} =>
       "PAUSE" \in pendingEvents \/ at[HartThread] = "exited"

(* A device interrupt that stays pending and enabled ends WFI.             *)
WfiEnds ==
  (InWfi /\ Pending \cap DeviceIrqs # {})
    ~> (~InWfi \/ Pending \cap DeviceIrqs = {})

(* riscv_hart_pause returns: the hart leaves WFI, or its guest's loop, and *)
(* stops, whatever the guest and the devices do.                           *)
PauseReturns == (at[Supervisor] = "join") ~> (at[Supervisor] = "idle")

(* A timer that expires while the hart is in WFI with that timer enabled   *)
(* takes the hart out of WFI.                                              *)
TimerEndsWfi ==
  \A k \in Timers : (InWfi /\ k \in ie /\ Expired(k)) ~> ~InWfi
===============================================================================
