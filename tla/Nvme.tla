--------------------------------- MODULE Nvme ---------------------------------
(***************************************************************************)
(* An NVMe controller with one I/O submission queue and one completion     *)
(* queue, and the MSI-X vector of its function                             *)
(* (src/rvvm/src/devices/nvme.c, src/rvvm/src/devices/pci-bus.c).          *)
(*                                                                         *)
(* A write to a doorbell runs in the thread of the hart that made it; each *)
(* command is a task of the thread pool, or runs in that same thread when  *)
(* the pool's queue is full.  Workers complete commands in any order and   *)
(* share the completion queue without a lock.  One action is one access to *)
(* shared state.  What a command does to the disk has no step of its own,  *)
(* and the fields of an entry but its CID and phase are left out.          *)
(***************************************************************************)
EXTENDS Integers, Sequences, FiniteSets

CONSTANTS
  Tags,              \* command identifiers
  None,              \* an entry of no use to the guest
  Workers,           \* threads of the pool
  Driver,            \* the hart that rings the submission queue's doorbell
  Handler,           \* the hart that handles the completion interrupt
  SqSize, CqSize,    \* the size registers: the last index of each ring
  PoolSize           \* slots of the pool's queue

Runners == Workers \cup {Driver}
Slots == 0..SqSize
Entries == 0..CqSize

ASSUME NvmeAssumption ==
  /\ IsFiniteSet(Tags) /\ Tags # {} /\ None \notin Tags /\ IsFiniteSet(Runners)
  /\ Driver \notin Workers /\ Handler \notin Runners
  /\ SqSize \in Nat \ {0} /\ CqSize \in Nat \ {0} /\ PoolSize \in Nat
  /\ Cardinality(Tags) <= SqSize /\ Cardinality(Tags) <= CqSize

VARIABLES
  sqMem, cqMem,      \* the rings in guest memory: CIDs; CIDs and phases
  sq, cq,            \* nvme_queue_t: head and tail
  threads,           \* nvme_dev_t.threads
  tasks,             \* the pool's queue, of submission queue indices
  door,              \* the driver's hart in nvme_doorbell or nvme_reset
  run,               \* per thread: its nvme_cmd_worker
  masked, pending,   \* the vector's mask bit and pending bit
  bell               \* the handler's hart in a write to the device

queueVars == <<sqMem, cqMem, sq, cq>>
doorVars  == <<threads, tasks, door>>
msixVars  == <<masked, pending>>
nvmeVars  == <<queueVars, doorVars, run, msixVars, bell>>

Resting == [at |-> "idle", slot |-> 0, entry |-> 0]
Running(s) == [at |-> "run", slot |-> s, entry |-> 0]

NvmeInit ==
  /\ sqMem = [i \in Slots |-> None]
  /\ cqMem = [i \in Entries |-> [cid |-> None, phase |-> 0]]
  /\ sq = [head |-> 0, tail |-> 0]
  /\ cq = [head |-> 0, tail |-> 0]
  /\ threads = 0
  /\ tasks = <<>>
  /\ door = [at |-> "idle", slot |-> 0]
  /\ run = [t \in Runners |-> Resting]
  /\ masked = FALSE /\ pending = FALSE
  /\ bell = "idle"

Wrap(i, size) == IF i < size THEN i + 1 ELSE 0

-----------------------------------------------------------------------------
(* nvme_doorbell, nvme_drain_sq: the submission side                       *)

SqDoorbell(val) ==
  /\ door.at = "idle"
  /\ sq' = [sq EXCEPT !.tail = val]
  /\ door' = [door EXCEPT !.at = "drain"]
  /\ UNCHANGED <<sqMem, cqMem, cq, threads, tasks, run, msixVars, bell>>

(* Slip: the last slot is taken for one past the end.                      *)
Dequeue_SizeExclusive ==
  /\ door.at = "drain"
  /\ IF sq.head = sq.tail \/ sq.tail >= SqSize
       THEN /\ door' = [at |-> "idle", slot |-> 0]
            /\ UNCHANGED sq
       ELSE /\ door' = [at |-> "task", slot |-> sq.head]
            /\ sq' = [sq EXCEPT !.head = Wrap(@, SqSize)]
  /\ UNCHANGED <<sqMem, cqMem, cq, threads, tasks, run, msixVars, bell>>

(* nvme_queue_dequeue; the guest serialises doorbells of a queue.          *)
Dequeue ==
  /\ door.at = "drain"
  /\ IF sq.head = sq.tail \/ sq.tail > SqSize
       THEN /\ door' = [at |-> "idle", slot |-> 0]
            /\ UNCHANGED sq
       ELSE /\ door' = [at |-> "task", slot |-> sq.head]
            /\ sq' = [sq EXCEPT !.head = Wrap(@, SqSize)]
  /\ UNCHANGED <<sqMem, cqMem, cq, threads, tasks, run, msixVars, bell>>

(* Put the task in the pool's queue, or become its worker when no slot is  *)
(* free: each has a task, or one that a worker has just taken (Workqueue). *)
Queue(slot) ==
  /\ Len(tasks) < PoolSize
  /\ tasks' = Append(tasks, slot)
  /\ door' = [at |-> "drain", slot |-> 0]
  /\ UNCHANGED run

Inline(slot) ==
  /\ Len(tasks) + Cardinality({w \in Workers : run[w].at = "run"}) >= PoolSize
  /\ run' = [run EXCEPT ![Driver] = Running(slot)]
  /\ door' = [at |-> "inline", slot |-> 0]
  /\ UNCHANGED tasks

(* Slip: only a task that was queued is counted.                           *)
CreateTask_QueuedOnly ==
  /\ door.at = "task"
  /\ \/ Queue(door.slot) /\ threads' = threads + 1
     \/ Inline(door.slot) /\ threads' = threads
  /\ UNCHANGED <<queueVars, msixVars, bell>>

(* nvme_drain_sq counts the command, then thread_create_task_va.           *)
CreateTask ==
  /\ door.at = "task"
  /\ threads' = threads + 1
  /\ Queue(door.slot) \/ Inline(door.slot)
  /\ UNCHANGED <<queueVars, msixVars, bell>>

TakeTask(w) ==
  /\ run[w] = Resting /\ tasks # <<>>
  /\ run' = [run EXCEPT ![w] = Running(Head(tasks))]
  /\ tasks' = Tail(tasks)
  /\ UNCHANGED <<queueVars, threads, door, msixVars, bell>>

-----------------------------------------------------------------------------
(* nvme_cmd_worker, nvme_run_cmd, nvme_complete_cmd_cs                     *)

Goto(t, from, to) ==
  /\ run[t].at = from
  /\ run' = [run EXCEPT ![t].at = to]

(* Slip: the tail is loaded here and stored with the entry.                *)
Enqueue_NotSwapped(t) ==
  /\ run[t].at = "run"
  /\ run' = [run EXCEPT ![t] = [@ EXCEPT !.at = "write", !.entry = cq.tail]]
  /\ cq' = IF \E u \in Runners : run[u].at = "write" THEN cq
           ELSE [cq EXCEPT !.tail = Wrap(@, CqSize)]
  /\ UNCHANGED <<sqMem, cqMem, sq, doorVars, msixVars, bell>>

(* nvme_queue_enqueue: reserve an entry by a compare-and-swap of the tail. *)
Enqueue(t) ==
  /\ run[t].at = "run"
  /\ run' = [run EXCEPT ![t] = [@ EXCEPT !.at = "write", !.entry = cq.tail]]
  /\ cq' = [cq EXCEPT !.tail = Wrap(@, CqSize)]
  /\ UNCHANGED <<sqMem, cqMem, sq, doorVars, msixVars, bell>>

(* The CID comes from the submission queue's entry in guest memory, the    *)
(* phase is the opposite of the one found in the completion queue's.       *)
WriteEntry(t) ==
  /\ run[t].at = "write"
  /\ run' = [run EXCEPT ![t] = [Resting EXCEPT !.at = "raise"]]
  /\ cqMem' = [cqMem EXCEPT ![run[t].entry] =
                 [cid |-> sqMem[run[t].slot], phase |-> 1 - @.phase]]
  /\ UNCHANGED <<sqMem, sq, cq, doorVars, msixVars, bell>>

(* nvme_queue_raise_irq, pci_func_send_msix_irq: is the vector masked?     *)
RaiseMasked(t) ==
  /\ masked /\ Goto(t, "raise", "pend")
  /\ UNCHANGED <<queueVars, doorVars, msixVars, bell>>

(* Vector is masked, set pending bit.                                      *)
SetPending(t) ==
  /\ Goto(t, "pend", "finish")
  /\ pending' = TRUE
  /\ UNCHANGED <<queueVars, doorVars, masked, bell>>

(* It is not: perform an MSI write (module Imsic) ...                      *)
RaiseMsi(t) ==
  /\ ~masked /\ Goto(t, "raise", "finish")
  /\ UNCHANGED <<queueVars, doorVars, msixVars, bell>>

(* ... and be done with the command.                                       *)
Finish(t) ==
  /\ run[t].at = "finish"
  /\ run' = [run EXCEPT ![t] = Resting]
  /\ threads' = threads - 1
  /\ door' = IF t = Driver THEN [door EXCEPT !.at = "drain"] ELSE door
  /\ UNCHANGED <<queueVars, tasks, msixVars, bell>>

-----------------------------------------------------------------------------
(* nvme_reset, by a write that disables the controller                     *)

ResetBegin ==
  /\ door.at = "idle"
  /\ door' = [door EXCEPT !.at = "reset"]
  /\ UNCHANGED <<queueVars, threads, tasks, run, msixVars, bell>>

(* Wait for IO workers to halt, lower the interrupt, reset queues.         *)
ResetQueues ==
  /\ door.at = "reset" /\ threads = 0
  /\ door' = [door EXCEPT !.at = "disabled"]
  /\ sq' = [head |-> 0, tail |-> 0]
  /\ cq' = [head |-> 0, tail |-> 0]
  /\ pending' = FALSE
  /\ UNCHANGED <<sqMem, cqMem, threads, tasks, run, masked, bell>>

(* nvme_create_io_cq, nvme_create_io_sq: the guest enables the controller  *)
(* and creates the queues again, with a completion queue of zeroes; a new  *)
(* completion queue lowers the interrupt, and nvme_queue_setup resets both.*)
Recreate ==
  /\ door.at = "disabled"
  /\ door' = [door EXCEPT !.at = "idle"]
  /\ cqMem' = [i \in Entries |-> [cid |-> None, phase |-> 0]]
  /\ sqMem' = [i \in Slots |-> None]
  /\ sq' = [head |-> 0, tail |-> 0]
  /\ cq' = [head |-> 0, tail |-> 0]
  /\ pending' = FALSE
  /\ UNCHANGED <<threads, tasks, run, masked, bell>>

-----------------------------------------------------------------------------
(* The handler's hart: completion queue doorbell and MSI-X table           *)

(* nvme_doorbell: the new head; the interrupt goes if that is all.         *)
CqDoorbell(val) ==
  /\ bell = "idle"
  /\ cq' = [cq EXCEPT !.head = val]
  /\ bell' = IF cq.tail = val THEN "lower" ELSE "idle"
  /\ UNCHANGED <<sqMem, cqMem, sq, doorVars, run, msixVars>>

(* nvme_queue_lower_irq, pci_func_lower_msix_irq                           *)
CqLower ==
  /\ bell = "lower"
  /\ bell' = "idle"
  /\ pending' = FALSE
  /\ UNCHANGED <<queueVars, doorVars, run, masked>>

Mask ==
  /\ bell = "idle" /\ ~masked
  /\ masked' = TRUE
  /\ UNCHANGED <<queueVars, doorVars, run, pending, bell>>

(* pci_msix_bar_write unmasks a masked vector, pci_func_update_msix_mask   *)
(* takes what is pending and sends it.                                     *)
Unmask ==
  /\ bell = "idle" /\ masked
  /\ masked' = FALSE /\ pending' = FALSE
  /\ bell' = IF pending THEN "resend" ELSE "idle"
  /\ UNCHANGED <<queueVars, doorVars, run>>

ResendEnd ==
  /\ bell = "resend"
  /\ bell' = "idle"
  /\ UNCHANGED <<queueVars, doorVars, run, msixVars>>

-----------------------------------------------------------------------------
NvmeTypeOK ==
  /\ sqMem \in [Slots -> Tags \cup {None}]
  /\ cqMem \in [Entries -> [cid : Tags \cup {None}, phase : {0, 1}]]
  /\ sq \in [head : Slots, tail : Slots] /\ cq \in [head : Entries, tail : Entries]
  /\ threads \in Nat
  /\ tasks \in Seq(Slots) /\ Len(tasks) <= PoolSize
  /\ door \in [at : {"idle", "drain", "task", "inline", "reset", "disabled"}, slot : Slots]
  /\ run \in [Runners -> [at : {"idle", "run", "write", "raise", "pend", "finish"},
                         slot : Slots, entry : Entries]]
  /\ masked \in BOOLEAN /\ pending \in BOOLEAN
  /\ bell \in {"idle", "lower", "resend"}

(* The submission queue's entries between head and tail, and the           *)
(* completion queue's between an index and the tail.                       *)
Between(from, to, size) ==
  IF from <= to THEN from..(to - 1) ELSE (from..size) \cup (0..(to - 1))

(* The commands a thread has taken and not yet written a completion for.   *)
InHand == {t \in Runners : run[t].at \in {"run", "write"}}

(* The threads with a command.                                             *)
Busy == {t \in Runners : run[t].at # "idle"}

(* nvme_dev_t.threads counts the commands with the pool and with threads,  *)
(* the driver's own among them while it works for a full pool.             *)
ThreadsExact ==
  /\ threads = Len(tasks) + Cardinality(Busy)
  /\ Driver \in Busy <=> door.at = "inline"
  /\ \A t \in Runners : run[t].at = "idle" => run[t] = Resting
  /\ door.at = "disabled" => threads = 0
===============================================================================
