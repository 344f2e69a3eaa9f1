-------------------------------- MODULE Machine --------------------------------
(***************************************************************************)
(* The life of machines in a process: start, pause, reset, power-off, free *)
(* and the eventloop (src/rvvm/src/rvvm.c).                                *)
(*                                                                         *)
(* Two locks protect it: global_lock, over the list of running machines,   *)
(* and eventloop_lock, over the eventloop's thread and condition variable. *)
(* Callers' threads run the API; the eventloop runs in a thread of its own *)
(* or, through rvvm_run_eventloop, in a caller's; a guest powers off or    *)
(* resets its machine from its hart's thread.                              *)
(*                                                                         *)
(* A machine has one hart, and pausing it is one step that waits until the *)
(* hart is between two instructions (module Hart shows that the wait       *)
(* ends).  The eventloop's wait on its condition variable ends at any      *)
(* time: it is woken, or 1/60 s has passed.  What a tick does for a        *)
(* powered machine (timers, preemption, device updates) and what a reset   *)
(* does to devices and RAM is left out.  One action is one access to an    *)
(* atomic, or one critical section that nothing else can observe halfway.  *)
(***************************************************************************)
EXTENDS Integers, Sequences, FiniteSets, SequencesExt

CONSTANTS
  Api,               \* threads that call the API
  Loop,              \* the eventloop's own thread
  Machines,
  Drives,            \* <<t, m>>: thread t starts, pauses, resets and frees m
  LoopCallers,       \* threads that call rvvm_run_eventloop
  Hotplug            \* devices are attached to, or removed from, running machines

Threads == Api \cup {Loop}

ASSUME MachineAssumption ==
  /\ IsFiniteSet(Threads) /\ IsFiniteSet(Machines) /\ Machines # {}
  /\ Loop \notin Api
  /\ Drives \subseteq Api \X Machines
  /\ LoopCallers \subseteq Api
  /\ Hotplug \in BOOLEAN

VARIABLES
  pc, job, ret,      \* per thread: where it is, its machine, where it returns
  need,              \* per thread: needs_cond, needs_thread
  idx, state, quit,  \* per thread, in a tick: machine index, its power, result
  globalLock,        \* the thread that holds global_lock, as a set
  eventloopLock,     \* the thread that holds eventloop_lock, as a set
  machines,          \* global_machines
  manual,            \* global_manual
  cond,              \* eventloop_cond # NULL
  thread,            \* eventloop_thread # NULL
  running,           \* machine->running
  power,             \* machine->power_state
  hart,              \* what the machine's hart thread does, "off" if none
  freed              \* machines that were freed

ticks == <<idx, state, quit>>
calls == <<job, ret, need>>
locks == <<globalLock, eventloopLock>>
loops == <<manual, cond, thread>>
mvars == <<running, power, hart, freed>>
vars == <<pc, ticks, calls, locks, machines, loops, mvars>>

Init ==
  /\ pc = [t \in Threads |-> IF t = Loop THEN "off" ELSE "idle"]
  /\ job = [t \in Threads |-> CHOOSE m \in Machines : TRUE]
  /\ ret = [t \in Threads |-> "idle"]
  /\ need = [t \in Threads |-> [cond |-> FALSE, thread |-> FALSE]]
  /\ idx = [t \in Threads |-> 0]
  /\ state = [t \in Threads |-> "on"]
  /\ quit = [t \in Threads |-> FALSE]
  /\ globalLock = {}
  /\ eventloopLock = {}
  /\ machines = <<>>
  /\ manual = FALSE
  /\ cond = FALSE
  /\ thread = FALSE
  /\ running = [m \in Machines |-> FALSE]
  /\ power = [m \in Machines |-> "off"]
  /\ hart = [m \in Machines |-> "off"]
  /\ freed = {}

Goto(t, from, to) ==
  /\ pc[t] = from
  /\ pc' = [pc EXCEPT ![t] = to]

Lock(lock, t)   == lock = {} /\ lock' = {t}
Unlock(lock, t) == lock' = lock \ {t}
Free(lock)      == lock = {}

(* The eventloop's list has m.                                             *)
Listed(m) == \E i \in 1..Len(machines) : machines[i] = m

(* t calls an operation on m that ends at program point `back`.            *)
Call(t, m, to, back) ==
  /\ <<t, m>> \in Drives
  /\ m \notin freed
  /\ Goto(t, "idle", to)
  /\ job' = [job EXCEPT ![t] = m]
  /\ ret' = [ret EXCEPT ![t] = back]
  /\ UNCHANGED need

(* riscv_hart_spawn                                                        *)
Spawned(m) == [hart EXCEPT ![m] = IF @ = "off" THEN "run" ELSE @]

(* riscv_hart_pause: thread_join waits for a hart between instructions.    *)
Stop(m) ==
  /\ hart[m] \in {"off", "run"}
  /\ hart' = [hart EXCEPT ![m] = "off"]

-----------------------------------------------------------------------------
(* rvvm_start_machine                                                      *)

StartSwap(t, m) ==
  /\ Call(t, m, "start_lock", "idle")
  /\ ~running[m]
  /\ running' = [running EXCEPT ![m] = TRUE]
  /\ UNCHANGED <<ticks, locks, machines, loops, power, hart, freed>>

(* rvvm_machine_powered: a machine that is off is reset.                   *)
StartLock(t) ==
  /\ Goto(t, "start_lock", IF power[job[t]] = "off" THEN "start_reset" ELSE "start_spawn")
  /\ Lock(globalLock, t)
  /\ UNCHANGED <<ticks, calls, eventloopLock, machines, loops, mvars>>

StartReset(t) ==
  /\ Goto(t, "start_reset", "start_spawn")
  /\ power' = [power EXCEPT ![job[t]] = "on"]
  /\ UNCHANGED <<ticks, calls, locks, machines, loops, running, hart, freed>>

(* Spawn the harts and register the machine as running.                    *)
StartSpawn(t) ==
  /\ Goto(t, "start_spawn", "need")
  /\ hart' = Spawned(job[t])
  /\ machines' = Append(machines, job[t])
  /\ Unlock(globalLock, t)
  /\ UNCHANGED <<ticks, calls, eventloopLock, loops, running, power, freed>>

-----------------------------------------------------------------------------
(* rvvm_pause_machine                                                      *)

PauseSwap(t, m) ==
  /\ Call(t, m, "pause_lock", "idle")
  /\ running[m]
  /\ running' = [running EXCEPT ![m] = FALSE]
  /\ UNCHANGED <<ticks, locks, machines, loops, power, hart, freed>>

PauseLock(t) ==
  /\ Goto(t, "pause_lock", "pause_join")
  /\ Lock(globalLock, t)
  /\ UNCHANGED <<ticks, calls, eventloopLock, machines, loops, mvars>>

(* Stop the hart and take the machine off the list.                        *)
PauseJoin(t) ==
  /\ Goto(t, "pause_join", "need")
  /\ Stop(job[t])
  /\ \/ \E i \in 1..Len(machines) :
          /\ machines[i] = job[t]
          /\ \A j \in (i + 1)..Len(machines) : machines[j] # job[t]
          /\ machines' = RemoveAt(machines, i)
     \/ ~Listed(job[t]) /\ UNCHANGED machines
  /\ Unlock(globalLock, t)
  /\ UNCHANGED <<ticks, calls, eventloopLock, loops, running, power, freed>>

-----------------------------------------------------------------------------
(* rvvm_reconfigure_eventloop, at the end of every operation above         *)

(* Slip: the manual mode is forgotten.                                     *)
ReconfigureNeed_NoManual(t) ==
  /\ Goto(t, "need", "reconf")
  /\ Free(globalLock)
  /\ need' = [need EXCEPT ![t] = [cond   |-> machines # <<>>,
                                  thread |-> machines # <<>>]]
  /\ UNCHANGED <<ticks, job, ret, locks, machines, loops, mvars>>

(* What the eventloop needs, decided under global_lock ...                 *)
ReconfigureNeed(t) ==
  /\ Goto(t, "need", "reconf")
  /\ Free(globalLock)
  /\ need' = [need EXCEPT ![t] = [cond   |-> manual \/ machines # <<>>,
                                  thread |-> ~manual /\ machines # <<>>]]
  /\ UNCHANGED <<ticks, job, ret, locks, machines, loops, mvars>>

(* ... and carried out under eventloop_lock: stop a thread that is not     *)
(* needed ...                                                              *)
ReconfigureLock(t) ==
  /\ Goto(t, "reconf", IF ~need[t].thread /\ thread THEN "join" ELSE "create")
  /\ Lock(eventloopLock, t)
  /\ UNCHANGED <<ticks, calls, globalLock, machines, loops, mvars>>

ReconfigureJoin(t) ==
  /\ Goto(t, "join", "create")
  /\ pc[Loop] = "off"
  /\ thread' = FALSE
  /\ UNCHANGED <<ticks, calls, locks, machines, manual, cond, mvars>>

(* ... then free or create the condition variable, create the thread.      *)
ReconfigureCreate(t) ==
  /\ pc[t] = "create"
  /\ LET start == need[t].thread /\ ~thread
     IN  /\ pc' = [pc EXCEPT ![t] = ret[t],
                             ![Loop] = IF start THEN "wait" ELSE @]
         /\ thread' = (thread \/ start)
  /\ cond' = need[t].cond
  /\ need' = [need EXCEPT ![t] = [cond |-> FALSE, thread |-> FALSE]]
  /\ ret' = [ret EXCEPT ![t] = "idle"]
  /\ Unlock(eventloopLock, t)
  /\ UNCHANGED <<ticks, job, globalLock, machines, manual, mvars>>

-----------------------------------------------------------------------------
(* rvvm_free_machine: pause, reconfigure, clean up                         *)

FreePause(t, m) ==
  /\ Call(t, m, IF running[m] THEN "pause_lock" ELSE "free", "free")
  /\ running' = [running EXCEPT ![m] = FALSE]
  /\ UNCHANGED <<ticks, locks, machines, loops, power, hart, freed>>

(* Slip: a machine that was not running is freed at once.                  *)
FreeReconfigure_Skipped(t) ==
  /\ Goto(t, "free", "freed")
  /\ ret' = [ret EXCEPT ![t] = "idle"]
  /\ UNCHANGED <<ticks, job, need, locks, machines, loops, mvars>>

FreeReconfigure(t) ==
  /\ Goto(t, "free", "need")
  /\ ret' = [ret EXCEPT ![t] = "freed"]
  /\ UNCHANGED <<ticks, job, need, locks, machines, loops, mvars>>

FreeDone(t) ==
  /\ Goto(t, "freed", "idle")
  /\ freed' = freed \cup {job[t]}
  /\ UNCHANGED <<ticks, calls, locks, machines, loops, running, power, hart>>

-----------------------------------------------------------------------------
(* rvvm_reset_machine, by a caller or by the guest                         *)

(* Store the wanted power state ...                                        *)
ResetStore(t, m, p) ==
  /\ Call(t, m, "reset", "idle")
  /\ power' = [power EXCEPT ![m] = p]
  /\ UNCHANGED <<ticks, locks, machines, loops, running, hart, freed>>

(* ... and wake the eventloop, under eventloop_lock.                       *)
ResetWake(t) ==
  /\ Goto(t, "reset", "idle")
  /\ Free(eventloopLock)
  /\ UNCHANGED <<ticks, calls, locks, machines, loops, mvars>>

GuestStore(m, p) ==
  /\ hart[m] = "run"
  /\ hart' = [hart EXCEPT ![m] = "reset"]
  /\ power' = [power EXCEPT ![m] = p]
  /\ UNCHANGED <<pc, ticks, calls, locks, machines, loops, running, freed>>

GuestWake(m) ==
  /\ hart[m] = "reset"
  /\ Free(eventloopLock)
  /\ hart' = [hart EXCEPT ![m] = "run"]
  /\ UNCHANGED <<pc, ticks, calls, locks, machines, loops, running, power,
                 freed>>

-----------------------------------------------------------------------------
(* rvvm_attach_mmio, rvvm_remove_mmio: global_lock is taken first          *)

PlugLock(t, m) ==
  /\ Call(t, m, "plug", "idle")
  /\ Hotplug \/ ~running[m]
  /\ Lock(globalLock, t)
  /\ UNCHANGED <<ticks, eventloopLock, machines, loops, mvars>>

(* A running machine is paused, as rvvm_pause_machine does it; otherwise   *)
(* the device list is changed and the lock released.                       *)
PlugPause(t) ==
  /\ Goto(t, "plug", IF running[job[t]] THEN "pause_lock" ELSE "idle")
  /\ running' = [running EXCEPT ![job[t]] = FALSE]
  /\ globalLock' = IF running[job[t]] THEN globalLock ELSE {}
  /\ UNCHANGED <<ticks, calls, eventloopLock, machines, loops, power, hart,
                 freed>>

-----------------------------------------------------------------------------
(* rvvm_run_eventloop                                                      *)

(* rvvm_set_manual_eventloop(true), then rvvm_eventloop ...                *)
ManualOn(t) ==
  /\ Goto(t, "idle", "need")
  /\ t \in LoopCallers
  /\ Free(globalLock)
  /\ manual' = TRUE
  /\ ret' = [ret EXCEPT ![t] = "wait"]
  /\ UNCHANGED <<ticks, job, need, locks, machines, cond, thread, mvars>>

(* ... then rvvm_set_manual_eventloop(false).                              *)
ManualOff(t) ==
  /\ Goto(t, "manual_off", "need")
  /\ Free(globalLock)
  /\ manual' = FALSE
  /\ UNCHANGED <<ticks, calls, locks, machines, cond, thread, mvars>>

-----------------------------------------------------------------------------
(* rvvm_eventloop and rvvm_eventloop_tick                                  *)

(* Out of the loop: the thread exits, or rvvm_run_eventloop goes on.       *)
LoopEnd(t) == IF t = Loop THEN "off" ELSE "manual_off"

(* The wait on eventloop_cond is over.                                     *)
LoopWait(t) ==
  /\ Goto(t, "wait", "tick_lock")
  /\ UNCHANGED <<ticks, calls, locks, machines, loops, mvars>>

(* Slip: the background thread goes on beside a manual eventloop.          *)
TickLock_IgnoreMode(t) ==
  LET over == machines = <<>>
  IN  /\ Goto(t, "tick_lock", IF over THEN LoopEnd(t) ELSE "tick")
      /\ Free(globalLock)
      /\ globalLock' = IF over THEN {} ELSE {t}
      /\ idx' = [idx EXCEPT ![t] = IF over THEN 0 ELSE Len(machines)]
      /\ UNCHANGED <<state, quit, calls, eventloopLock, machines, loops, mvars>>

(* No running machines left, or the mode was switched: the loop ends.      *)
TickLock(t) ==
  LET over == machines = <<>> \/ manual = (t = Loop)
  IN  /\ Goto(t, "tick_lock", IF over THEN LoopEnd(t) ELSE "tick")
      /\ Free(globalLock)
      /\ globalLock' = IF over THEN {} ELSE {t}
      /\ idx' = [idx EXCEPT ![t] = IF over THEN 0 ELSE Len(machines)]
      /\ UNCHANGED <<state, quit, calls, eventloopLock, machines, loops, mvars>>

(* The next machine, from the last to the first; one that is on needs no   *)
(* more than its periodic updates.                                         *)
TickMachine(t) ==
  /\ pc[t] = "tick"
  /\ idx[t] > 0
  /\ LET p == power[machines[idx[t]]]
     IN  IF p = "on"
           THEN /\ idx' = [idx EXCEPT ![t] = @ - 1]
                /\ UNCHANGED <<pc, state>>
           ELSE /\ pc' = [pc EXCEPT ![t] = "tick_join"]
                /\ state' = [state EXCEPT ![t] = p]
                /\ UNCHANGED idx
  /\ UNCHANGED <<quit, calls, locks, machines, loops, mvars>>

(* It was shut down or reset: stop its hart.                               *)
TickJoin(t) ==
  /\ Goto(t, "tick_join", IF state[t] = "reset" THEN "tick_reset" ELSE "tick_off")
  /\ Stop(machines[idx[t]])
  /\ UNCHANGED <<ticks, calls, locks, machines, loops, running, power, freed>>

(* rvvm_reset_machine_state ...                                            *)
TickReset(t) ==
  /\ Goto(t, "tick_reset", "tick_spawn")
  /\ power' = [power EXCEPT ![machines[idx[t]]] = "on"]
  /\ UNCHANGED <<ticks, calls, locks, machines, loops, running, hart, freed>>

(* ... and start its hart again.                                           *)
TickSpawn(t) ==
  /\ Goto(t, "tick_spawn", "tick")
  /\ hart' = Spawned(machines[idx[t]])
  /\ idx' = [idx EXCEPT ![t] = @ - 1]
  /\ state' = [state EXCEPT ![t] = "on"]
  /\ UNCHANGED <<quit, calls, locks, machines, loops, running, power, freed>>

(* Shut down: running = false ...                                          *)
TickOff(t) ==
  /\ Goto(t, "tick_off", "tick_erase")
  /\ running' = [running EXCEPT ![machines[idx[t]]] = FALSE]
  /\ UNCHANGED <<ticks, calls, locks, machines, loops, power, hart, freed>>

(* Slip: the machine that was shut down stays on the list.                 *)
TickErase_Keep(t) ==
  /\ Goto(t, "tick_erase", "tick")
  /\ idx' = [idx EXCEPT ![t] = @ - 1]
  /\ state' = [state EXCEPT ![t] = "on"]
  /\ quit' = [quit EXCEPT ![t] = t # Loop]
  /\ UNCHANGED <<calls, locks, machines, loops, mvars>>

(* Slip: the index is not moved on.                                        *)
TickErase_SameIndex(t) ==
  /\ Goto(t, "tick_erase", "tick")
  /\ machines' = RemoveAt(machines, idx[t])
  /\ state' = [state EXCEPT ![t] = "on"]
  /\ quit' = [quit EXCEPT ![t] = t # Loop]
  /\ UNCHANGED <<idx, calls, locks, loops, mvars>>

(* Slip: a manual eventloop does not return.                               *)
TickErase_NoReturn(t) ==
  /\ Goto(t, "tick_erase", "tick")
  /\ machines' = RemoveAt(machines, idx[t])
  /\ idx' = [idx EXCEPT ![t] = @ - 1]
  /\ state' = [state EXCEPT ![t] = "on"]
  /\ UNCHANGED <<quit, calls, locks, loops, mvars>>

(* ... and off the list; a manual eventloop then returns.                  *)
TickErase(t) ==
  /\ Goto(t, "tick_erase", "tick")
  /\ machines' = RemoveAt(machines, idx[t])
  /\ idx' = [idx EXCEPT ![t] = @ - 1]
  /\ state' = [state EXCEPT ![t] = "on"]
  /\ quit' = [quit EXCEPT ![t] = t # Loop]
  /\ UNCHANGED <<calls, locks, loops, mvars>>

TickEnd(t) ==
  /\ Goto(t, "tick", IF quit[t] THEN LoopEnd(t) ELSE "wait")
  /\ idx[t] = 0
  /\ quit' = [quit EXCEPT ![t] = FALSE]
  /\ Unlock(globalLock, t)
  /\ UNCHANGED <<idx, state, calls, eventloopLock, machines, loops, mvars>>

-----------------------------------------------------------------------------
(* A call in progress, or an eventloop, takes its next step.               *)
Step(t) ==
  \/ StartLock(t) \/ StartReset(t) \/ StartSpawn(t)
  \/ PauseLock(t) \/ PauseJoin(t)
  \/ ReconfigureNeed(t) \/ ReconfigureLock(t) \/ ReconfigureJoin(t)
  \/ ReconfigureCreate(t)
  \/ FreeReconfigure(t) \/ FreeDone(t)
  \/ ResetWake(t) \/ PlugPause(t) \/ ManualOff(t)
  \/ LoopWait(t) \/ TickLock(t) \/ TickMachine(t) \/ TickJoin(t)
  \/ TickReset(t) \/ TickSpawn(t) \/ TickOff(t) \/ TickErase(t) \/ TickEnd(t)

(* A caller begins an operation.                                           *)
Begin(t) ==
  \/ \E m \in Machines :
       \/ StartSwap(t, m)
       \/ PauseSwap(t, m)
       \/ FreePause(t, m)
       \/ PlugLock(t, m)
       \/ \E p \in {"off", "reset"} : ResetStore(t, m, p)
  \/ ManualOn(t)

Guest(m) == \E p \in {"off", "reset"} : GuestStore(m, p)

Next ==
  \/ \E t \in Threads : Step(t)
  \/ \E t \in Api : Begin(t)
  \/ \E m \in Machines : Guest(m) \/ GuestWake(m)

Spec == Init /\ [][Next]_vars

(* The host runs every thread, and a thread that waits for a lock gets it  *)
(* if it is free again and again: the eventloop sleeps 1/60 s between its  *)
(* ticks and an unlock wakes a waiter.  Nobody has to begin an operation.  *)
FairSpec ==
  /\ Spec
  /\ \A t \in Threads : SF_vars(Step(t))
  /\ \A m \in Machines : SF_vars(GuestWake(m))
-----------------------------------------------------------------------------
LoopPoints == {"wait", "tick_lock", "tick", "tick_join", "tick_reset",
               "tick_spawn", "tick_off", "tick_erase"}
CallPoints == {"start_lock", "start_reset", "start_spawn", "pause_lock",
               "pause_join", "need", "reconf", "join", "create", "free",
               "freed", "reset", "plug", "manual_off"}
(* Inside a critical section of global_lock.                               *)
LockedPoints == {"start_reset", "start_spawn", "pause_join", "plug"}
                  \cup (LoopPoints \ {"wait", "tick_lock"})

(* Every variable stays in its range; only the holder of a lock is inside  *)
(* the code it protects.                                                   *)
TypeOK ==
  /\ pc \in [Threads -> {"idle", "off"} \cup LoopPoints \cup CallPoints]
  /\ job \in [Threads -> Machines]
  /\ ret \in [Threads -> {"idle", "wait", "free", "freed"}]
  /\ need \in [Threads -> [cond : BOOLEAN, thread : BOOLEAN]]
  /\ idx \in [Threads -> 0..Len(machines)]
  /\ state \in [Threads -> {"on", "off", "reset"}]
  /\ quit \in [Threads -> BOOLEAN]
  /\ globalLock = {t \in Threads : pc[t] \in LockedPoints}
  /\ eventloopLock = {t \in Threads : pc[t] \in {"join", "create"}}
  /\ Cardinality(globalLock) <= 1 /\ Cardinality(eventloopLock) <= 1
  /\ machines \in Seq(Machines)
  /\ manual \in BOOLEAN /\ cond \in BOOLEAN /\ thread \in BOOLEAN
  /\ running \in [Machines -> BOOLEAN]
  /\ power \in [Machines -> {"on", "off", "reset"}]
  /\ hart \in [Machines -> {"off", "run", "reset"}]
  /\ freed \subseteq Machines

Listings(m) == Cardinality({i \in 1..Len(machines) : machines[i] = m})

(* Somebody is in the middle of starting or stopping m.                    *)
InTransition(m) ==
  \/ \E t \in Api : /\ job[t] = m
                    /\ pc[t] \in {"start_lock", "start_reset", "start_spawn",
                                  "pause_lock", "pause_join"}
  \/ \E t \in Threads : /\ pc[t] \in {"tick_reset", "tick_spawn", "tick_off",
                                       "tick_erase"}
                        /\ machines[idx[t]] = m

(* Outside of such transitions a machine says it is running exactly if the *)
(* eventloop's list has it, once, and its hart thread exists: start, pause *)
(* and a guest's power-off agree however they interleave.                  *)
RunningServed ==
  \A m \in Machines :
    ~InTransition(m) =>
      /\ Listings(m) = IF running[m] THEN 1 ELSE 0
      /\ hart[m] # "off" <=> running[m]

(* A machine that was freed is on no list and has no hart: in particular   *)
(* the eventloop's tick that shuts a machine down has finished with it     *)
(* before rvvm_free_machine, which finds it not running, destroys it.      *)
FreedNotUsed ==
  \A m \in freed : Listings(m) = 0 /\ hart[m] = "off"

(* What those two rest on, for any number of callers and machines as long  *)
(* as each machine is driven by one thread and nothing is hot-plugged.     *)
Disciplined ==
  /\ ~Hotplug
  /\ \A t, u \in Api, m \in Machines :
       <<t, m>> \in Drives /\ <<u, m>> \in Drives => t = u

(* The driver of m is inside a start, a pause ...                          *)
Starting(m) == \E t \in Api : /\ job[t] = m
                               /\ pc[t] \in {"start_lock", "start_reset", "start_spawn"}
Pausing(m) == \E t \in Api : job[t] = m /\ pc[t] \in {"pause_lock", "pause_join"}
(* ... or an eventloop has stopped its hart, or is about to unlist it.     *)
Ticked(m) ==
  \E t \in Threads : /\ pc[t] \in {"tick_reset", "tick_spawn", "tick_off", "tick_erase"}
                     /\ machines[idx[t]] = m
Erasing(m) == \E t \in Threads : pc[t] = "tick_erase" /\ machines[idx[t]] = m

(* t has decided to free its machine, which is not running any more ...    *)
Freeing(t) ==
  \/ pc[t] \in {"free", "freed"}
  \/ pc[t] \in {"need", "reconf", "join", "create"} /\ ret[t] \in {"free", "freed"}
(* ... and has since held global_lock, so no tick has it in hand.          *)
Releasing(t) ==
  \/ pc[t] = "freed"
  \/ pc[t] \in {"reconf", "join", "create"} /\ ret[t] = "freed"

Ranges ==
  /\ pc \in [Threads -> {"idle", "off"} \cup LoopPoints \cup CallPoints]
  /\ pc[Loop] \in {"off"} \cup LoopPoints
  /\ job \in [Threads -> Machines]
  /\ ret \in [Threads -> {"idle", "wait", "free", "freed"}]
  /\ idx \in [Threads -> Nat]
  /\ machines \in Seq(Machines)
  /\ running \in [Machines -> BOOLEAN]
  /\ hart \in [Machines -> {"off", "run", "reset"}]
  /\ freed \subseteq Machines
LockHeld ==
  /\ globalLock = {t \in Threads : pc[t] \in LockedPoints}
  /\ \A t, u \in globalLock : t = u
IndexInList ==
  \A t \in Threads :
    /\ pc[t] = "tick" => idx[t] <= Len(machines)
    /\ pc[t] \in LockedPoints \cap LoopPoints /\ pc[t] # "tick"
         => idx[t] \in 1..Len(machines)
ListedOnce ==
  \A i, j \in 1..Len(machines) : machines[i] = machines[j] => i = j
LoopExists == ~thread => pc[Loop] = "off"
RetKept ==
  \A t \in Threads :
    /\ pc[t] \in LoopPoints \cup {"off", "manual_off"} => ret[t] = "idle"
    /\ pc[t] \in {"start_lock", "start_reset", "start_spawn"} => ret[t] = "idle"
    /\ pc[t] \in {"pause_lock", "pause_join"} => ret[t] \in {"idle", "free"}
(* Who works on a machine is its driver.                                   *)
JobDriven ==
  \A t \in Threads :
    (\/ pc[t] \in {"start_lock", "start_reset", "start_spawn", "pause_lock",
                   "pause_join", "plug"}
     \/ Freeing(t))
      => <<t, job[t]>> \in Drives /\ job[t] \notin freed
(* The machine's flag, its hart and the list, in and out of transitions.   *)
Agreement ==
  \A m \in Machines :
    /\ hart[m] # "off" => Listed(m)
    /\ Listed(m) => hart[m] # "off" \/ Ticked(m)
    /\ Ticked(m) => hart[m] = "off"
    /\ running[m] => Listed(m) \/ Starting(m)
    /\ Listed(m) => running[m] \/ Pausing(m) \/ Erasing(m)
    /\ Starting(m) => running[m] /\ (Listed(m) => Erasing(m))
    /\ Pausing(m) => ~running[m]
    /\ Erasing(m) /\ running[m] => Starting(m)
GoneQuietly ==
  /\ \A m \in freed : ~running[m] /\ ~Listed(m)
  /\ \A t \in Threads :
       /\ pc[t] = "plug" => ~running[job[t]]
       /\ Freeing(t) => ~running[job[t]] /\ (Listed(job[t]) => Erasing(job[t]))
       /\ Releasing(t) => ~Listed(job[t])
IInv ==
  /\ Ranges /\ LockHeld /\ IndexInList /\ ListedOnce /\ LoopExists /\ RetKept
  /\ JobDriven /\ Agreement /\ GoneQuietly

(* An eventloop that waits has its condition variable: it is not freed     *)
(* under it.                                                               *)
CondOutlivesLoop == \A t \in Threads : pc[t] = "wait" => cond

(* A caller's eventloop and the background thread do not run side by side. *)
LoopsExclusive ==
  \A t \in Api : pc[t] \in LoopPoints => pc[Loop] = "off"

(* Every call returns, or gets to run the eventloop: no two threads, and   *)
(* no thread and a guest, wait for each other's locks and exits forever.   *)
CallsReturn ==
  \A t \in Api : (pc[t] \in CallPoints) ~> (pc[t] \notin CallPoints)

(* rvvm_run_eventloop returns when a machine is powered off.               *)
PowerOffEndsManual ==
  \A t \in Api, m \in Machines :
    (pc[t] \in LoopPoints /\ Listings(m) > 0 /\ power[m] = "off")
      ~> (pc[t] \notin LoopPoints \/ power[m] # "off")

(* A reset of a running machine is "handled by eventloop".                 *)
ResetHandled ==
  \A m \in Machines :
    (running[m] /\ power[m] = "reset") ~> (power[m] # "reset" \/ ~running[m])
================================================================================
