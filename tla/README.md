# RVVM: a verification project

TLA+ models of the concurrent core of RVVM, the RISC-V virtual machine under
`src/rvvm/`, with TLC runs on small instances and TLAPS proofs for every
instance. The repository collects RVVM and vendored copies of QEMU, Spike,
Renode and tlib; only RVVM is modelled. Its difficulty is concurrency: each
hart is a host thread, devices call into harts from any thread, interrupt
controllers are lock-free, an eventloop thread supervises all machines, and a
pool of workers serves the devices.

Paths below are relative to `src/rvvm/`; the map from each definition to the
lines it models is in `PROJECT.json`.

1. [The system](#the-system)
2. [Modules and the code](#modules-and-the-code)
3. [Runs](#runs)
4. [Fairness](#fairness)
5. [Proofs](#proofs)
6. [Findings and observations](#findings-and-observations)
7. [What is not modelled](#what-is-not-modelled)
8. [Plan](#plan)

## The system

| Part | State | Operations | Interacts with |
|---|---|---|---|
| Events and futexes (`src/threading.c`) | `flag`, `waiters`, the futex queue | `rvvm_event_wait`, `rvvm_event_wake` | WFI of harts, eventloop, pool workers, RCU writers |
| Hart (`src/riscv_hart.c`, `riscv_priv.c`, `riscv_csr.c`) | `running`, `pending_irqs`, `pending_events`, `csr.ie/ip/status`, timecmps, `wfi_cond` | run loop, traps, WFI, `riscv_interrupt`, pause, preempt, spawn, check_timer | eventloop and API (under `global_lock`), ACLINT, PLIC |
| ACLINT, timers (`src/devices/riscv-aclint.c`, `rvtimer.c`) | `mtime` base, `mtimecmp`, MSIP | register writes of any hart | this hart's lines |
| Machine and eventloop (`src/rvvm.c`) | list of machines, `global_manual`, eventloop thread and condition variable, `running`, `power_state`, two locks | start, pause, reset, power-off, free, attach and remove devices, `rvvm_run_eventloop` | harts; guests that reset or power off |
| PLIC (`src/devices/riscv-plic.c`) | `prio`, `threshold`, `enable`, `pending`, `raised`, lines of contexts | register writes, claim, complete, send, raise, lower, reset | device threads and hart threads, no lock |
| Thread pool (`src/threading.c`) | ring of slots with turns, `head`, `tail`, `pool_run`, `pool_shut`, `pool_cond` | `thread_create_task`, workers, terminate | storage and sound devices |
| Spinlock (`src/spinlock.h`, `spinlock.c`) | one word: writer bit, reader count, waiters bit | lock, read lock, try variants, unlock, busy-loop form | everything |
| RCU (`src/rcu_lib.c`) | reader generations | read lock, synchronize | devices' hot paths |
| AIA: IMSIC (`src/riscv_hart.c`, `devices/riscv-imsic.c`), APLIC | `eip`, `eie`, the external interrupt line | messages of any thread; `eie` writes and `topei` claims of the hart | MSI and MSI-X of PCI devices, harts |
| NVMe and its MSI-X vector (`src/devices/nvme.c`, `pci-bus.c`) | queue heads and tails, `threads`, rings in guest memory, mask and pending bits | doorbells, workers that complete, reset, mask and unmask | thread pool, IMSIC, the guest's driver |
| MMU, TLB | TLB, `satp` | translate, fence | hart |
| Instructions, FPU, JIT | registers | decode, execute | hart |
| Other devices, GDB stub, userland, tools | host I/O | | interrupts, pause and start |

**What is hard.** A request to a hart is a bit set in one word, a flag cleared
in another and a wake-up of an event, all without a lock; the hart re-arms,
reads and sleeps on the same words in the opposite order. A timer is looked at
by the eventloop, by the hart in WFI and by whoever writes it. The life of a
machine is decided under two locks that are never held together, plus atomics
that the guest writes. The PLIC computes from five registers one after the
other while others write them. The work queue relies on a turn number per slot
and on 32-bit counters that wrap. Every lock is one word in which waiters mark
somebody else's lock. A disk's completion passes through workers that share a
ring, a vector that may be masked and an interrupt file that is scanned while
messages arrive, without a lock anywhere. `PROJECT.json` lists these hazards line by
line with the properties aimed at each.

**What makes each part correct.**

- Event: no lost wake-up, exact waiter count, no report without a wake.
- Hart: a deliverable interrupt is never overlooked, a sleeping hart is told of
  interrupts, a pause request is not lost and returns, WFI ends at a timer.
- Machine: `running`, the list and the hart threads agree; nothing freed is
  used; every API call returns; power-off ends a manual eventloop; a reset is
  carried out.
- PLIC: a pending interrupt somebody takes is signalled, a raised one is
  pending or in service, each is claimed once.
- Pool: each task is performed exactly once, a slot has one owner, no task lies
  beside sleeping workers, termination ends.
- Spinlock: it is a reader/writer lock, the word says who holds it, nobody
  sleeps forgotten, it is not left free while somebody waits.
- Storage: each command is completed exactly once and the guest notices; a
  reset finds the queues unused; no message of an enabled identity is lost.

## Modules and the code

| Module | Role |
|---|---|
| `AutoResetEvent` | what an event promises: the abstract specification |
| `Event` | `rvvm_event_wait` and `rvvm_event_wake` |
| `EventHistory` | `Event` with what callers observe; refinement of `AutoResetEvent` |
| `EventProofs` | proofs about both |
| `Hart` | one hart, its supervisor, devices and other harts; contains an `Event` |
| `HartProofs` | proofs about it |
| `Machine`, `MachineProofs` | life cycle of machines and the eventloop, and proofs |
| `Plic`, `PlicProofs` | the interrupt controller, and proofs for every guest |
| `PlicSignalProofs` | the proof of `PendingSignalled`, for the guests of `GuestAssumption` |
| `Workqueue`, `WorkqueueProofs` | the thread pool and its queue, and proofs |
| `RWLock` | what a reader/writer lock promises: the abstract specification |
| `Spinlock`, `SpinlockProofs` | the lock word and its futex; refinement of `RWLock`; proofs |
| `Imsic` | a hart's interrupt file: messages, scan and claim |
| `Nvme` | an I/O queue pair of the NVMe controller and its MSI-X vector |
| `Storage`, `StorageProofs` | both, tied together, with a guest's driver; proofs |
| `MCEvent`, `MCHart`, `MCMachine`, `MCPlic`, `MCStorage` | instances for TLC |

Some definitions are followed by a variant with a suffix (`WaitFast_Kept`,
`Restart_NoWake`): a slip that could plausibly be made there. `PROJECT.json` pairs
every checked property with one that breaks it, so that each property is known
to be able to fail. The specifications do not use them.

**Memory.** Atomics are sequentially consistent throughout. RVVM's atomics
default to acquire loads, release stores and acquire-release read-modify-writes
(`src/atomics.h`); what these weaker orderings allow beyond interleavings, such
as a store delayed past a later load, is out of the models.

### Event

`flag` and `waiters` are the fields of `rvvm_event_t`; `pc[t]` is where thread
`t` is; `"asleep"` are the threads in the futex queue; `woken` is the local of
`rvvm_event_wait`. Each atomic access and each futex call is one action:
`WaitFast`, `WaitBegin`, `WaitAdd`, `WaitRecheck`, `FutexWait`,
`FutexTimeout`, `WaitClear`, `WaitReturn`; `WakeRaise`, `WakeNotify`,
`WakeFutex`. A deadline is an arbitrary moment (`FutexTimeout` is always
possible for a sleeper); a spurious return of the futex that counts as a timeout
(a signal, say) is covered by it. One that reports a wake-up nobody made (a
native wait that returns 0) is not modelled: `rvvm_event_wait` would then report
TRUE without a wake.
`event_update_flag`, a load and a swap, is one step since its outcome is that
of one access.

`EventHistory` adds two variables that only watch: the waits that overlapped a
wake call, and the last result of each thread. `AutoResetEvent` is refined by
`signaled <- flag = 1`, `waking`, `waiting <-` the threads at those program
points. Its contract says what callers may use: a wake leaves the event
signaled until one wait takes the signal, and a wait reports TRUE only if it
overlapped a wake call.

### Hart

`at[t]` is the program point of each thread outside the event's code; inside
`condvar_wait` and `condvar_wake` it is the event's `pc[t]`, so every
interleaving of WFI with its wakers is covered. The correspondences:

| Code | Actions |
|---|---|
| `riscv_interrupt`, `riscv_interrupt_clear` | `SetLine` (fetch-or; notifies only if the line was clear), `ClearLine` |
| `riscv_restart_dispatch`, `condvar_wake` | `Restart`, `CondvarWake` |
| `riscv_hart_run` | `RunArm`, `RunEvents`, `RunIrqs`, `RunDispatch` |
| `riscv_handle_irqs`, trap, `mret` | `RunIrqs`, `InsnTrap`, `InsnMret` |
| CSR writes to `mie`, `mip`, `mstatus` | `InsnWriteIe`, `InsnWriteIp`, `InsnStatus` |
| `riscv_wfi` | `InsnWfi`, `WfiTest`, `WfiDelay`, `WfiWait`, `WfiTimeout` |
| `riscv_hart_check_timer` | `CheckTimerBegin` ... `CheckTimerKick` |
| ACLINT mtimer and MSIP, `stimecmp` | `TimecmpSet`, `TimecmpTest`, `TimecmpRaise`, `TimecmpClear`, `Rebase`, `RaiseLine`, `LowerLine` |
| spawn, pause, preempt, reset | `Spawn`, `QueuePause`, `Join`, `Preempt`, `PreemptKick`, `ResetState` |

Abstractions: the guest stays in M-mode and delegates nothing, so one bit
decides whether a pending enabled interrupt traps; every interleaving with the
instructions that read or write interrupt state is kept, every other
instruction is `InsnOther`. Time is a small counter (`host`, up to `MaxTime`)
that advances at any moment; a timecmp is compared with the time in one step,
and what is done with the outcome is a later step. `Never` is a timecmp of -1.
Time is counted in ticks of the timer: the conversion of a delay to nanoseconds
(`rvtimer_convert_freq`, `rvtimer.c:268`) and its rounding are left out.

### Machine

One action is one atomic access, or one critical section nothing else can
observe halfway; `globalLock` and `eventloopLock` hold their owner. Both forms
of the eventloop run the same actions (`LoopWait`, `TickLock`, `TickMachine`,
`TickJoin`, `TickReset`, `TickSpawn`, `TickOff`, `TickErase`, `TickEnd`), in
the thread `Loop` or in a caller between `ManualOn` and `ManualOff`.
`riscv_hart_pause` is one step that is enabled when the hart is between two
instructions; `Hart`'s `PauseReturns` is the reason. A guest that resets or
powers off (`GuestStore`, `GuestWake`) is inside an instruction until it has
got `eventloop_lock`. The eventloop's wait ends at any time, because its
timeout is 1/60 s. The work of a tick on a powered machine, and what a reset
does to RAM and devices, change nothing modelled here. Freeing a machine is
allowed to a caller that drives it, once.

`Hotplug = FALSE` confines `PlugLock` to machines that do not run: on a running
one the call deadlocks with itself (see below), which the repository's own
callers avoid. The checks of `rvvm_attach_mmio` that precede it are left out:
those that fail return before anything modelled changes, and
`rvvm_mmio_zone_auto` takes and releases `global_lock` on its own to look at
addresses only.

### Plic

`at[t]` is a record of where a thread is and its locals (context, interrupt,
remaining sources, best so far, count). `plic_notify_ctx_irq`,
`plic_update_ctx`, `plic_full_update`, claim and complete are cut at each
atomic access; `service` and `credit` are history, and no step reads them except
that a guest completes what it claimed. `plic_complete_irq` does not ask whether
the interrupt was claimed: a guest that strays (`strays`) completes interrupts
along its routes at any time.

Abstractions: all sources are in one 32-bit register, where the code has two
(`PLIC_SRC_REGS`) and loads `pending` and `enable` of each in turn; a write to an enable
register changes one bit; `workaround_intx_storm` is off, its default; a reset
is one step and happens while no hart accesses the controller (a device may); the first load of
a claim is merged with the start of the scan. `Guests` are the ways a guest uses
the controller; `GuestAssumption` names the uses under which
`PendingSignalled` holds: thresholds are written only with a single hart, and
a source shared by several contexts is neither masked, nor used with
thresholds, nor completed unclaimed (the completion notifies its own context
only, and another one may be the one that has enabled the source). What happens outside of
them is under *Findings and observations*. `RaisedKept` and its theorem do not need that assumption.

### Workqueue

One action is one access to `head`, `tail`, a slot's `seq` or its contents.
`SubmitCas` and `WorkerCas` claim a slot, `SubmitCasFails`/`WorkerCasFails` is
the failure of a weak compare-and-swap, with a reason or without. When the
queue is full the producer performs the task itself (`SubmitInline`). The pool's
condition variable is used by its contract, `AutoResetEvent`: a wake leaves it
signaled, a wait may end without taking the signal. `Wrap` stands for 2^32,
`Diff` for the signed difference of two words, computed modulo `Wrap`
(the C expression subtracts two `int32_t`, which overflows when the counters are
on both sides of 2^31; compilers wrap, though C leaves it undefined). `Start`
is the number of tasks that have gone through an idle queue before.
`WorkqueueAssumption` keeps `MaxTasks + Size` below half of `Wrap`: a thread
that sleeps while 2^31 tasks pass is not considered. The pool is terminated
only when no submission is under way. A call of `thread_create_task_va` with an
invalid number of arguments, which warns and drops the task
(`threading.c:1326-1328`), is left out: callers pass constants.

### Spinlock

`flag` is the word, as a record of its writer bit, reader count and waiters
bit; `pc[t]` is where a thread is, `seen[t]` the value it loaded in the wait
loop. `kind` says whether the lock at hand is one that is taken with
`spin_lock_busy_loop`, which neither sleeps nor has readers.

| Code | Actions |
|---|---|
| `spin_lock`, `spin_read_lock` and the try variants | `Lock`, `LockSpurious` (the weak CAS of the fast path) |
| `spin_lock_try_wait_user` | `UserSpin`, `UserClaim` |
| `spin_lock_wait_internal` | `KernelLoad`, `KernelClaim`, `Mark`, `FutexWait`, `FutexTimeout` |
| `spin_unlock`, `spin_lock_wake` | `UnlockWrite`, `FutexWake`; `UnlockBusyLoop` |
| `spin_read_unlock`, `spin_read_lock_wake` | `UnlockRead`, `ReadWakeClear`, `FutexWake` |

A compare-and-swap loop is the step in which it succeeds or gives up; iterations
that see an unavailable lock are stuttering. Reaching `rvvm_fatal` is the point
`"fatal"`. The reader count is not bounded by its 30 bits: more than 2^30 threads
would be needed. The deadlock timer only decides what is logged. `RWLock` is
refined by taking the holders as its writers and readers; everything else is
invisible.

### Storage: Nvme, Imsic and a driver

`Nvme` has the queue pair (`sq`, `cq` heads and tails, and the rings `sqMem`,
`cqMem` in guest memory), the count `threads`, the pool's queue `tasks`, and per
thread the command in its hands. `door` is the driver's hart inside a doorbell
or a reset, `bell` the handler's hart inside a write to the device.

| Code | Actions |
|---|---|
| `nvme_doorbell`, `nvme_drain_sq` | `SqDoorbell`, `Dequeue`, `CreateTask` (`Queue` or `Inline`); `CqDoorbell`, `CqLower` |
| `nvme_cmd_worker`, `nvme_complete_cmd_cs` | `TakeTask`, `Enqueue`, `WriteEntry`, `Finish` |
| `pci_func_send_msix_irq` | `RaiseMsi`, `RaiseMasked`, `SetPending` |
| `pci_msix_bar_write`, `pci_func_update_msix_mask` | `Mask`, `Unmask`, `ResendEnd` |
| `nvme_reset` | `ResetBegin`, `ResetQueues` |
| `nvme_create_io_cq`, `nvme_create_io_sq` after a reset | `Recreate` (one step: no other thread uses the queues) |
| `riscv_send_aia_irq` | `SendBegin`, `SendSet`, `SendSignal` |
| `riscv_update_aia_internal` from `eie` and `topei` | `EieWrite`, `TopeiAccess`, `ScanClear`, `ScanRegister`, `ScanClaim`, `ScanSignal`, `ScanReturn` |

Merged steps, and why nothing is lost: `CreateTask` counts the command and
queues it, and only a reset, made by the same hart, reads the count in between;
`SendBegin` includes the look at the mask that precedes the message, and `eie`
is what it decides on; `TopeiAccess` takes the line down in the step in which
the interrupt is taken, which begins that instruction; an `EieWrite` scans once,
where a 64-bit hart that changes both registers of a pair scans after each
(`riscv_csr.c:502-504`), the second time with all it has written; the loads of `eip` and
`eie` of one register are one step because only the hart writes `eie`; `Unmask`
swaps the mask and takes the pending bit, and a bit set between the two is set
before the unmasking in another behaviour that looks the same. The pool is the
queue that `Workqueue` shows it to be: it performs each task once, and a
submission that finds no free slot is run by the submitter. A plain read of
`topei` (`riscv_csr.c:307` with nothing to write) scans without claiming; it has
no action of its own, since its steps are those that follow an `EieWrite`.

The guest (`Place` to `OtherSends`) is not in the repository. What is assumed of
it:

- A slot of the submission queue is not reused while its command is
  outstanding. The controller reads the CID from the slot when it completes
  (`nvme.c:530`), so a guest that reuses slots as soon as the head passes them
  would get wrong CIDs; Linux's driver uses as many tags as slots minus one.
- Doorbells of a submission queue are serialised, as drivers do with a lock.
- There are at most as many commands as entries (the queues' contract).
- After it unmasks the vector the guest looks at the queue (see *Findings and
  observations*).
- The vector is delivered as MSI-X to an IMSIC with delivery on and threshold 0;
  identities in `Steady` are not masked in `eie` while in use, others may be.
- At a reset all outstanding commands are given up.

`Guests` are drivers: how many commands at a time, and whether they mask the
vector (`"mask"`), share the hart with another device's interrupt (`"share"`) or
reset the controller (`"reset"`).

## Runs

`expect` is `pass` unless stated. State counts are distinct states.

| Run | Instance | States | What it shows |
|---|---|---|---|
| `event` | 3 threads, each waits and wakes | 33,672 | `TypeOK`, `WaitersExact`, `NoLostWakeup`, `NoSpuriousReport`; refinement of `AutoResetEvent`; a signal beside a sleeper is consumed without the help of a timeout |
| `hart_irqs` | another hart, lines 1, 3, 7, clock stands | 1,718,616 | no deliverable interrupt is overlooked, a sleeper is notified, a pause is not dropped |
| `hart_timers` | both timers, clock 0..1, mtime rewritten | 745,726 | the sleep is never longer than the earliest enabled timer; an expired enabled timer ends WFI |
| `hart_live` | a device, a timer | 208,302 | a device interrupt ends WFI; `riscv_hart_pause` returns |
| `hart_remote_timer` (violation) | another hart writes `mtimecmp` | | a sleeping hart oversleeps a timer moved by another hart |
| `machine` | one caller, 2 machines, guests | 24,562 | list, flag and hart agree, nothing freed is used, condition variable outlives loops, loops exclude each other, calls return, power-off ends a manual eventloop |
| `machine_reset` (violation) | one caller, one machine | | a reset is not carried out after the eventloop thread ended |
| `machine_deadlock` (violation) | a driver and a caller of the eventloop | | pause, `rvvm_run_eventloop` and a guest's reset wait for each other |
| `plic` | 2 harts, a device, 2 contexts, 2 sources, 2 priorities, 4 guests | 1,246,649 | pending is signalled, raised is kept, each interrupt is claimed once |
| `workqueue` | 2 producers, 2 workers, 2 slots, 3 tasks, counters start at 15 of 16 | 128,560 | slots have one owner, each task is performed once, workers notice tasks, the pool terminates |
| `spinlock` | 4 threads, reading and writing, sleeping or busy-looping | 620,751 | the word is exact, no sleeper is forgotten, refinement of `RWLock`, the lock is not left free while somebody waits |
| `storage` | 1 worker and the driver as inline worker, 3 drivers with up to 2 commands, rings of 3 entries, pool queue of 1, 2 identities in 2 registers | 342,800 | each command is completed once and noticed, resets find the queues unused, no steady message is lost, every command completes |

**Why the bounds are enough to be interesting.**

- *Three threads on an event* are a sleeper, a waker that is slow, and a third
  that consumes the signal in between; each can play every part.
- *Hart.* Each line belongs to a kind (device, software, timer), and lines of a
  kind are treated alike, so one of each suffices; the second hart is the
  remote writer, the supervisor the eventloop and the API, which exclude each
  other by `global_lock`. With `MaxTime = 1` a timer is in the past, now, in the
  future or never, and mtime can be set back. The questions are split into
  runs because interrupts with a clock and two remote threads at once exceed
  what can be enumerated in minutes.
- *Machine.* Two machines make the list's order and the removal of one of them
  during a tick matter. With one caller the eventloop thread, guests and API
  already interleave; for `TypeOK`, `RunningServed` and `FreedNotUsed` the
  proofs cover any number of callers. `CondOutlivesLoop` and `LoopsExclusive`
  are claims, and theorems, about one caller only (see *Findings and
  observations*).
- *Plic.* Two sources make the scan choose; two harts and two contexts make
  claims compete; the device raises, lowers and sends at any moment. Symmetry
  over harts is sound: the set of guests is closed under it, no property is
  temporal.
- *Workqueue.* Three tasks overfill two slots, `Start = 15` of `Wrap = 16` makes
  both counters and the turns wrap in the middle of the run.
- *Spinlock.* Four threads are a holder, a sleeper, a thread that unlocks late
  and one that takes the lock in between; each reads or writes.
- *Storage.* Two commands with a worker and the inline fallback are two threads
  that complete at once, in either order; rings of three entries wrap and the
  phase turns over; a pool queue of one slot is full at once. The three drivers
  separate what need not be combined (two commands with resets; masking with
  resets; sharing the hart); two commands with masking instead of resets (490,896
  states) were checked too. Both identities of a register pending at once, the
  case in which a claim raises the line again by itself, is left to the proof of
  `PendingCovered`.

Deadlock is checked in every passing run except `workqueue`, whose pool stops
for good when it has been terminated.

## Fairness

- *Threads run.* A thread in the middle of a call, and a hart, gets to take its
  next step (`WF`): the host's scheduler. Nothing obliges a caller, a guest or
  a device to begin an operation, and no timeout of an event is assumed to
  pass, except by the clock's `WF_vars(Tick)` in `Hart`.
- *Locks.* In `Machine` a step that is enabled again and again is taken
  (`SF`): the eventloop sleeps 1/60 s between ticks, which leaves `global_lock`
  free almost always, and `spin_unlock` wakes a waiter.
- *Compare-and-swap.* In `Workqueue` one that could succeed again and again
  does (`SF`): a weak CAS fails without a reason only now and then.
- *Waking workers.* A worker waiting beside a signal ends its wait: that is
  `SignalConsumed`, checked on the event itself.
- *Critical sections end.* In `Spinlock` a thread that holds the lock, or is
  inside its code, goes on (`WF`); nobody has to lock, and the futex's deadline
  is not assumed to pass. `LockProgress` is about the lock, not about each
  thread: a lock that spinning newcomers may take is not starvation-free.
- *Guest and controller.* In `Storage` each thread takes the next step of its
  program (`WF`), the driver rings for what it placed, and the handler's hart
  takes an interrupt that is up again and again and unmasks the vector (`SF`):
  it may do other things for a while but not forever.

## Proofs

The theorems hold for every value of the constants that meets the named
assumptions; runs and proofs use the same definitions. Every invariant and every
action property that a passing run checks is a theorem, and so are the two
refinements; what a run adds is the check of the instance itself, and liveness.
The added parts of each inductive invariant were first checked by TLC on the
run's instance.

**`EventProofs`** (assumes a finite set of threads).

- `InductiveInvariant`: `Spec => []IInv`, with `IInv` the conjunction of
  `TypeOK`, `WaitersExact` and `NoLostWakeup`. `NoLostWakeup` is not inductive
  alone: a waker that reads `waiters = 0` leaves without a futex call, and only
  the exact count says that then nobody sleeps (lemma `NobodyCounted`). The
  count's steps are a lemma on cardinalities, `CountStep`.
- `TypeCorrect`, `WaitersCounted`, `WakeupsNotLost`: its parts, as theorems of
  `Spec`.
- `ReportsNotSpurious`: `HSpec => []NoSpuriousReport`, from `OverlapMarked`:
  while the flag is up or a waker is inside its call, every wait in progress is
  marked as overlapping a wake. The history only watches (`HistoryWatches`),
  which lifts `IInv`.
- `AutoResetRefinement`: `HSpec => ImplementsAutoReset`, one step per action:
  each maps to a step of the contract or a stutter.

**`HartProofs`** (assumes `HartAssumption`: threads are distinct, lines of
different kinds too).

- `InterruptsNotOverlooked`: `Spec => []InterruptNotOverlooked`, for any number
  of devices, harts and lines and any bound on time. Invariant: `Points` (where
  threads can be) and `InterruptCovered`, which extends the claim from "about
  to fetch an instruction" to every point inside the dispatch loop, since an
  interrupt raised during WFI or in the middle of a CSR write must be covered
  until that instruction ends.
- `PauseRequestsKept`: `Spec => []PauseNotDropped`, from `PausePosted`: the
  request holds from the moment it is posted, through the restart and the wake
  that precede the join.
- `TypeCorrect`: `FieldsOK` for the hart and `EventOK` for the event in it. Only
  the hart waits on `wfi_cond`, so `waiters` is 1 or 0 as the hart is between
  counting itself in and out, which replaces the cardinality of `EventProofs`.
- `SleepersNotified` (`SleepsOnlyUnnotified`). Two more parts: `StallCovered`, an
  interrupt that arrives while the hart is in `riscv_wfi` has cleared `running`
  or its sender is about to; `SleepCovered`, once the hart is past its look at
  `running` the event is signaled, or the sender has still to restart or wake.
  The second follows from the first at the step that looks, and from the order
  restart-then-wake afterwards.
- `SleepsUntilTimers` (`SleepCoversTimers`), under the hypothesis
  `OtherHarts = {}`. `TimersCovered` says of every enabled timer that the
  deadline is no later, or has passed. It is the hypothesis the code needs: with
  another hart that writes `mtimecmp` the property fails, which is the run
  `hart_remote_timer`.

**`PlicProofs`** (any harts, devices, contexts and sources of one register;
assumes nothing of the guest: it may write registers, claim, and complete what it
claimed or has a route for, at any time).

- `RaisedInterruptsKept`: `Spec => []RaisedKept`. Invariant: where threads are
  (`AtOK`) and `RaisedCovered`: a raised source is pending, or in service, or
  some thread has still to make it pending. The hard case is a completion that
  races with a device: each looks at what the other writes.
- `TypeCorrect`: `RegsOK` for the registers, `ThreadsOK` for the locals of every
  access. That the count of notifying interrupts does not go below zero when a
  claim subtracts the one it takes needs a fact about the scan (`Consistent`): a
  claim whose best exceeds the threshold has counted at least one.
- `InterruptsClaimedOnce`: `ClaimedOnce` is inductive with the types; a claim
  takes its interrupt by the exchange of the pending bit alone.

**`PlicSignalProofs`** (assumes `GuestAssumption`).

- `PendingInterruptsSignalled`: `Spec => []PendingSignalled`. The property speaks
  of the moment when all accesses are through; the invariant `PendingCovered`
  says for every pending interrupt that some context takes, at every moment, who
  will have signalled it by then: the context's line is up, or some thread is at a
  point of a notification (`NotifyCovers`), of a scan over a register
  (`RegCovers`), of an update or of a claim (`UpdateCovers`) from which it goes on
  to set the line or to take the interrupt. A step either hands its cover on
  (`Relays`: from one point of the thread to a later one, to the line, or to
  another context) or changes what is deliverable and starts a cover.
  `RoutesOK` carries what threads remember: a scan's candidates are routed to its
  context and the threshold it loaded is still the threshold. This is where the
  assumption is used. Guests that neither mask, nor use thresholds,
  nor stray are `Growing`:
  what is deliverable stays so, and a stale candidate is still one. With masks,
  thresholds or strays each interrupt has one context, and whoever changes the answer for
  it is the one who updates that context afterwards.

**`MachineProofs`** (assumes `MachineAssumption` and, as a hypothesis of the first
four theorems, `Disciplined`: each machine is driven by one thread, though a thread
may drive many, and nothing is hot-plugged).

- `InductiveInvariant`: `IInv` says who holds `global_lock` and that one thread
  does (`LockHeld`), that a tick's index is in the list (`IndexInList`), which
  has no machine twice (`ListedOnce`); that who works on a machine is its driver
  (`JobDriven`); and `Agreement`, the relation of a machine's flag, hart and
  place in the list inside and outside of starts, pauses and ticks. The subtle
  part is a start that overtakes the tick that is shutting the machine down: it
  has set the flag, the tick has still to unlist it. `GoneQuietly` carries
  `rvvm_free_machine` through its two reconfigurations: after the second, no tick
  has the machine in hand. One lemma per action; `RemoveAtUnlists` and
  `RemoveAtShifts` are the facts about the list.
- `MachinesServed`, `FreedMachinesUnused`: `RunningServed` and `FreedNotUsed`.
- `TypeCorrect`: with `FieldsOK`, which adds that `eventloop_lock` is held exactly
  by the thread that joins or creates the loop.
- `CondOutlives`, `LoopsExclude`: `CondOutlivesLoop` and `LoopsExclusive`, under
  the hypothesis `OneCaller` instead of `Disciplined`: any machines, any order of
  calls, any guests. `LoopsOK` relates what the caller has computed that the
  eventloop needs (`need`) to what exists: a thread needs the condition variable,
  a caller on its way into a manual eventloop needs the one and not the other, and
  inside it has them so. With a second caller, one that
  only runs the eventloop, TLC finds both violated.

**`WorkqueueProofs`** (assumes `WorkqueueAssumption`: any number of producers and
workers, any size of at least 2 of which `Wrap` is an even multiple, any `Start`, fewer
tasks than half of `Wrap` minus the size).

- The size: with one slot the turn of a filled slot is the turn of the next empty
  one, and a producer would overwrite the task. The code's queue has 256
  (`WORKQUEUE_SIZE`, `threading.c:1163`).
- `SlotsBelongToOne` (`SlotsExclusive`). Words are compared through `Off`, the
  distance from `Start` modulo `Wrap`, which does not wrap while fewer than half
  of `Wrap` tasks pass; in these distances the ring is ordered. `HeadBounded`: the
  head has advanced at most once per task created. `RingOK`: the tail is not
  beyond the head, every position before the tail has a later turn in its slot
  (`TurnsOK`); a producer or worker that has claimed a position finds its slot in
  that turn, and one whose compare-and-swap is about to succeed found it so
  (`ProducerOK`, `WorkerOK`); two claims are of different positions
  (`ClaimsDistinct`). The hard case is a stale counter: a producer that loaded the
  head long ago must fail its swap, though its slot may be free again. Division
  with remainder is stated as lemmas, because the provers do not reason about `%`.
- `TypeCorrect`: with `ShutCounted`, `pool_shut` is the number of workers gone.
- `ReadyTasksNoticed` (`TaskNoticed`): inductive over `RingInv`; the producer wakes
  after it publishes and a worker waits after it looked, so one sees the other.
- `TasksNotLost` (`TasksConserved`): `TasksOK` gives each task created and not
  performed one holder. `MineOK` is about tasks in threads' hands, `SlotsOK` about
  tasks in slots, `CopiesOK` about the moment a worker has read a slot it has not
  released, when the task is in both, and `DoneOK` says that what was performed is
  nowhere.

**`SpinlockProofs`** (assumes a finite set of threads).

- `InductiveInvariant`, in two halves. `Holders`: the word is exact and holders
  exclude each other; each needs the other, since an unlock of one writer clears
  the whole word. `Waiters`: what a thread remembers is still enough when it
  compares (`Remembered`), a marked free lock is about to be cleared
  (`FreeUnmarked`), and a sleeper has a marked lock or a thread that will mark it
  or wake it (`SleepersCovered`). `NoLostWakeup` adds that a marked lock has a
  holder.
- `TypeCorrect`, `WordExact`, `NobodyForgotten`: parts of it.
- `Refinement`: `Spec => ImplementsRWLock`; claims and unlocks map to the lock's
  steps, all else stutters.

**`StorageProofs`** (assumes `NvmeAssumption`, `ImsicAssumption`,
`StorageAssumption`; nothing of the queues' sizes beyond them, any number of
workers, identities and registers, any driver).

- `InductiveInvariant`: `TypeOK`, `ThreadsExact` (the count of threads is that of
  tasks and threads with a command), `SteadyEnabled` and `PendingCovered`. The
  last is inductive with `SteadyEnabled`: a sender of a steady identity saw it
  enabled, so it raises the line unless the bit was already set and then covered.
  The case that needs care is a claim that clears a bit set again after the
  scan's load: the bit is then no longer pending, which is right, because the
  handler looks at the queue after its claim.
- `TypeCorrect`, `MessagesCovered` (`PendingCovered`), `ResetsFindQuiet`
  (`ResetQuiet`, from `ThreadsExact`).
- `CompletionsNoticed` (`CompletionNoticed`). The property's list of who has still
  to tell the guest is not inductive: a thread that found the vector masked, or one
  that has set the identity and is about to raise the line, may be overtaken by a
  handler that unmasks or claims, looks, and rests. `HeadNoticed` therefore counts
  only threads that have not looked at the mask, messages not yet set, the pending
  bit and a claim in progress; `PendingCovered` turns the pending bit into the
  cover the property asks for. `ScanOwned` says which of the hart's instructions
  is scanning and that only the one that reads `topei` claims.
- `CommandsNotLost` (`CommandsConserved`). The sum of five cardinalities is
  replaced by one relation, `Holds(kind, place, command)`: `Located` says that the
  commands the guest waits for, and no others, are each in one place, and a step
  moves one command from a place to a free one (`OneMoves`), shifts the pool's
  queue, adds one or removes one. What that needs: a command outstanding has one
  slot and keeps it until it is consumed (`SlotsOK`), since the thread reads the CID
  from the slot; the doorbell is not ahead of what was placed (`DoorbellOK`);
  entries that nobody reserved do not show the phase the guest expects, and those
  reserved and not written have one writer (`PhasesOK`), so that a phase flipped
  with what is found in memory is always the right one. Neither ring overruns:
  `RoomToComplete` and `PlaceStep` use the pigeonhole principle on tags and
  indices (`TooManyTags`), which is where the number of tags is compared with the
  sizes of the queues.

**Model-checked only.** Liveness under fairness is out of the prover's reach:
`SignalConsumed`, `WfiEnds`, `TimerEndsWfi`, `PauseReturns`, `CallsReturn`,
`PowerOffEndsManual`, `TasksPerformed`, `TerminateReturns`, `LockProgress` and
`CommandsComplete` hold on the instances above. So do the three violations, which
are behaviours and need no proof.

## Findings and observations

Three disagreements between the code and what it says of itself, each shown by
a run that TLC must find violated:

1. `hart_remote_timer`. A hart asleep in WFI keeps the deadline it computed.
   Another hart's write to its `mtimecmp` (`riscv-aclint.c:90`) does not wake
   it, and `riscv_hart_check_timer` leaves a waiting hart alone because "WFI
   precisely checks timers by itself" (`riscv_hart.c:334`).
2. `machine_reset`. When the last running machine powers itself off, the
   eventloop's thread ends by itself but `eventloop_thread` stays set, so the
   next `rvvm_start_machine` creates none (`rvvm.c:456`), and a later
   `rvvm_reset_machine` of that machine is not carried out ("Handled by
   eventloop", `rvvm.c:752`).
3. `machine_deadlock`. `rvvm_pause_machine` holds `global_lock` and joins a hart
   that waits for `eventloop_lock` in `rvvm_reset_machine`;
   `rvvm_run_eventloop` holds `eventloop_lock` and joins the eventloop thread,
   which waits for `global_lock`. `rvvm.h:125` documents only success or
   "wasn't running yet".

Met while modelling, without a line in the repository that says otherwise, or
excluded from the passing runs by a named assumption:

- `threading.c:1076`: a signal found at the second look is consumed but the
  wait reports FALSE; the contract `AutoResetEvent` allows it.
- `rvvm.c:921`: attaching or removing a device on a running machine takes
  `global_lock` and pauses the machine, which takes it again (`Hotplug`).
- `rvvm.c:314`: a power-off stored during a reset is overwritten when the reset
  completes.
- `rvvm.c:443-456`: with several callers, what the eventloop needs may be stale
  when it is carried out: a start may join a loop that is needed again, or the
  condition variable may be freed under a manual eventloop.
- `rvvm.h:152`: a manual eventloop that looks once per tick does not notice a
  machine that is paused and restarted between two looks.
- `riscv-aclint.c:91`: `check_timer` may set MTIP after a write to `mtimecmp`
  has cleared it: a spurious timer interrupt.
- `riscv-plic.c:118`: a threshold loaded before the line is cleared is stale
  when another hart lowers it: the line the other has set is wiped out.
- `riscv-plic.c:206`: raising a threshold updates this context only; another
  context that takes a pending shared source is not told. The comment at
  158-163 asks for a full update after such operations.
- `riscv-plic.c:231`: completing a source on a context that has disabled it
  meanwhile, or never enabled it, notifies nobody.
- `riscv-plic.c:190`: a write that disables one source and enables another
  takes the first branch only.
- `riscv_hart.c:253`: `riscv_send_aia_irq` loads `eie` before it sets `eip`. If
  the hart enables the identity and scans in between, the bit is set and nobody
  raises the line until the next message or scan. Stated for all enabled
  identities instead of steady ones, `PendingCovered` fails after a dozen steps.
- `pci-bus.c:294-301`: a worker that found the vector masked may set the pending
  bit after `pci_func_update_msix_mask` has looked; the message is then sent at
  the next completion or unmasking only. A guest that looks at its queue after
  unmasking is not affected.
- `riscv_hart.c:248`: with `eidelivery` off a message is dropped, not kept
  pending. `riscv_hart.c:284-287`: of a register only the largest pending
  identity is compared with the threshold, so a smaller one below it is not found.
- `nvme.c:709-723`: deleting an I/O queue does not wait for commands of that queue.
- `rvvm.c:1055`: the list of MSI targets is read without a lock, as its TODO says.

## What is not modelled

- RCU: planned. `Machine` uses the spinlock as an atomic lock; `Spinlock` shows
  that it is one.
- The APLIC, an IMSIC with delivery off or a threshold, privilege modes and
  interrupt delegation, the MMU and the TLB: planned.
- Instruction semantics, FPU and JIT: sequential computation on 64-bit words,
  out of reach of small value sets.
- NVMe: admin commands (one thread, in the doorbell) but for queue creation, `INTMS` and `INTMC`, which
  MSI-X guests do not use, INTx and plain MSI, errors of commands (each ends in
  the same completion), what commands read and write. A command whose entry, or
  whose completion's entry, lies outside of guest memory ends without a
  completion (`nvme.c:949`, `nvme.c:529`): queues are taken to be in memory.
- ATA, network, serial, input, display and sound devices, the PCI configuration
  space: host I/O behind registers; their interrupts are the devices of `Hart`
  and `Plic` and the other sender of `Storage`, their tasks those of `Workqueue`.
- GDB stub, userland emulation, isolation, device tree, ELF loading, command
  line: text protocols, parsing and host calls without concurrent state.
- QEMU, Spike, Renode, tlib: vendored third-party code.

## Plan

The order so far was: the event, on which all else sleeps; the hart, the heart
of the program; the machine, which runs harts; the PLIC; the pool; the spinlock
that all of them use; and the way of a disk's command through the pool, the
vector and the interrupt file. Next:

1. Proofs: what the liveness properties need and can be stated as safety, that
   is, in each state where something is awaited, who is able to take the next
   step towards it.
2. `Rcu`: reader generations and `rcu_synchronize`; no reader survives a
   synchronize that began after it.
3. `Trap`: delegation and privilege, `mideleg` writes, on top of `Hart`.
4. `Mmu`: TLB entries against `satp` and `sfence.vma`, A/D bits.
5. The APLIC in its two modes, in front of `Imsic`.
6. `rvtimer_convert_freq` and the ring buffer as pure operators with a
   reference definition.

Runs are kept one per question: where a component's questions fit one instance
they share a run.
