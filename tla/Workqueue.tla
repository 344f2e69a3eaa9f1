------------------------------ MODULE Workqueue ------------------------------
(***************************************************************************)
(* The thread pool and its bounded queue of tasks, through which the       *)
(* storage and sound devices hand their work to worker threads             *)
(* (src/rvvm/src/threading.c, "Threadpool").                               *)
(*                                                                         *)
(* The queue is a ring of slots; a slot's seq tells its turn: seq = head   *)
(* lets a producer fill it, seq = tail + 1 lets a worker empty it.         *)
(* Counters and turns are 32-bit words that wrap around.                   *)
(*                                                                         *)
(* pool_cond is the auto-reset event of module AutoResetEvent: a wake      *)
(* leaves it signaled, one wait takes the signal, and a wait may also end  *)
(* for a wake it merely overlapped.  A task's function is one step.        *)
(***************************************************************************)
EXTENDS Integers, FiniteSets

CONSTANTS
  Producers,         \* threads that call thread_create_task
  Workers,           \* pool_threads
  Size,              \* WORKQUEUE_SIZE
  Wrap,              \* 2^32, the range of the counters
  Start,             \* tasks that went through the queue before
  MaxTasks           \* bound: tasks that are created from here on

Threads == Producers \cup Workers
Words   == 0..Wrap - 1
Slots   == 0..Size - 1
Tasks   == 1..MaxTasks
NoTask  == 0

(* WORKQUEUE_SIZE is a power of two above one: with a single slot, the     *)
(* turn of a filled slot would be that of the next one when empty.         *)
ASSUME WorkqueueAssumption ==
  /\ IsFiniteSet(Threads) /\ Producers \cap Workers = {}
  /\ Size \in Nat \ {0, 1} /\ Wrap \in Nat /\ Wrap % (2 * Size) = 0
  /\ MaxTasks \in Nat /\ Start \in Words
  /\ MaxTasks + Size < Wrap \div 2

VARIABLES
  head, tail,        \* work_queue_t
  seq,               \* turn of each slot
  task,              \* func and arg of each slot
  pc, local, mine,   \* per thread: where it is, its head or tail, its task
  created,           \* how many tasks were created
  performed,         \* how often each task was performed
  signaled,          \* pool_cond
  run, shut          \* pool_run, pool_shut

queue == <<head, tail, seq, task>>
pool  == <<signaled, run, shut>>
tally == <<created, performed>>
vars  == <<queue, pool, tally, pc, local, mine>>

Slot(n)   == n % Size
Add(n, k) == (n + k) % Wrap

(* (int32_t)a - (int32_t)b                                                 *)
Diff(a, b) == ((a - b + Wrap \div 2) % Wrap) - Wrap \div 2

Goto(t, from, to) ==
  /\ pc[t] = from
  /\ pc' = [pc EXCEPT ![t] = to]

(* threadpool_init, workqueue_init; then Start tasks came and went, so     *)
(* that every slot waits for the turn it has next.                         *)
Init ==
  /\ head = Start
  /\ tail = Start
  /\ seq = [s \in Slots |-> Add(Start, (s - Start) % Size)]
  /\ task = [s \in Slots |-> NoTask]
  /\ pc = [t \in Threads |-> IF t \in Workers THEN "run" ELSE "idle"]
  /\ local = [t \in Threads |-> 0]
  /\ mine = [t \in Threads |-> NoTask]
  /\ created = 0
  /\ performed = [k \in Tasks |-> 0]
  /\ signaled = FALSE
  /\ run = TRUE
  /\ shut = 0

(* The task function runs.                                                 *)
Perform(t) ==
  /\ performed' = [performed EXCEPT ![mine[t]] = @ + 1]
  /\ mine' = [mine EXCEPT ![t] = NoTask]

-----------------------------------------------------------------------------
(* thread_create_task: workqueue_submit                                    *)

(* A caller comes with a task and loads head.                              *)
SubmitBegin(p) ==
  /\ Goto(p, "idle", "slot")
  /\ run
  /\ created < MaxTasks
  /\ created' = created + 1
  /\ mine' = [mine EXCEPT ![p] = created + 1]
  /\ local' = [local EXCEPT ![p] = head]
  /\ UNCHANGED <<queue, pool, performed>>

(* Slip: a full queue is not noticed.                                      *)
SubmitSlot_Overwrite(p) ==
  /\ Goto(p, "slot", IF Diff(seq[Slot(local[p])], local[p]) <= 0 THEN "cas"
                     ELSE "reload")
  /\ UNCHANGED <<queue, pool, tally, local, mine>>

(* Load the slot's turn: it is empty, the queue is full, or another        *)
(* producer stole it.                                                      *)
SubmitSlot(p) ==
  LET diff == Diff(seq[Slot(local[p])], local[p])
  IN  /\ Goto(p, "slot", IF diff = 0 THEN "cas"
                         ELSE IF diff < 0 THEN "inline" ELSE "reload")
      /\ UNCHANGED <<queue, pool, tally, local, mine>>

(* Slip: head is not loaded again.                                         *)
SubmitReload_Stale(p) ==
  /\ Goto(p, "reload", "slot")
  /\ UNCHANGED <<queue, pool, tally, local, mine>>

SubmitReload(p) ==
  /\ Goto(p, "reload", "slot")
  /\ local' = [local EXCEPT ![p] = head]
  /\ UNCHANGED <<queue, pool, tally, mine>>

(* Slip: head is stored without a comparison.                              *)
SubmitCas_Store(p) ==
  /\ Goto(p, "cas", "fill")
  /\ head' = Add(local[p], 1)
  /\ UNCHANGED <<tail, seq, task, pool, tally, local, mine>>

(* The slot is claimed by a compare-and-swap on head.                      *)
SubmitCas(p) ==
  /\ Goto(p, "cas", "fill")
  /\ head = local[p]
  /\ head' = Add(head, 1)
  /\ UNCHANGED <<tail, seq, task, pool, tally, local, mine>>

(* It fails, perhaps for no reason: it is a weak one.                      *)
SubmitCasFails(p) ==
  /\ Goto(p, "cas", "slot")
  /\ UNCHANGED <<queue, pool, tally, local, mine>>

SubmitFill(p) ==
  /\ Goto(p, "fill", "publish")
  /\ task' = [task EXCEPT ![Slot(local[p])] = mine[p]]
  /\ mine' = [mine EXCEPT ![p] = NoTask]
  /\ UNCHANGED <<head, tail, seq, pool, tally, local>>

(* Mark the slot as filled.                                                *)
SubmitPublish(p) ==
  /\ Goto(p, "publish", "wake")
  /\ seq' = [seq EXCEPT ![Slot(local[p])] = Add(local[p], 1)]
  /\ local' = [local EXCEPT ![p] = 0]
  /\ UNCHANGED <<head, tail, task, pool, tally, mine>>

(* thread_queue_task: condvar_wake                                         *)
SubmitWake(p) ==
  /\ Goto(p, "wake", "idle")
  /\ signaled' = TRUE
  /\ UNCHANGED <<queue, run, shut, tally, local, mine>>

(* "Assuming entire threadpool is busy, just do a blocking task".          *)
SubmitInline(p) ==
  /\ Goto(p, "inline", "idle")
  /\ Perform(p)
  /\ local' = [local EXCEPT ![p] = 0]
  /\ UNCHANGED <<queue, pool, created>>

-----------------------------------------------------------------------------
(* threadpool_worker: workqueue_try_perform until the queue is empty       *)

WorkerRun(w) ==
  /\ Goto(w, "run", IF run THEN "load" ELSE "shut")
  /\ UNCHANGED <<queue, pool, tally, local, mine>>

(* Load tail, at the beginning or after another worker stole the slot.     *)
WorkerLoad(w) ==
  /\ Goto(w, "load", "slot")
  /\ local' = [local EXCEPT ![w] = tail]
  /\ UNCHANGED <<queue, pool, tally, mine>>

(* Load the slot's turn: it is filled, the queue is empty, or stolen.      *)
WorkerSlot(w) ==
  LET diff == Diff(seq[Slot(local[w])], Add(local[w], 1))
  IN  /\ Goto(w, "slot", IF diff = 0 THEN "cas"
                         ELSE IF diff < 0 THEN "wait" ELSE "load")
      /\ local' = IF diff = 0 THEN local ELSE [local EXCEPT ![w] = 0]
      /\ UNCHANGED <<queue, pool, tally, mine>>

WorkerCas(w) ==
  /\ Goto(w, "cas", "take")
  /\ tail = local[w]
  /\ tail' = Add(tail, 1)
  /\ UNCHANGED <<head, seq, task, pool, tally, local, mine>>

WorkerCasFails(w) ==
  /\ Goto(w, "cas", "slot")
  /\ UNCHANGED <<queue, pool, tally, local, mine>>

(* Copy the task out of the slot ...                                       *)
WorkerTake(w) ==
  /\ Goto(w, "take", "release")
  /\ mine' = [mine EXCEPT ![w] = task[Slot(local[w])]]
  /\ UNCHANGED <<queue, pool, tally, local>>

(* Slip: the next turn of the slot does not wrap around.                   *)
WorkerRelease_Wide(w) ==
  /\ Goto(w, "release", "perform")
  /\ seq' = [seq EXCEPT ![Slot(local[w])] = local[w] + Size]
  /\ task' = [task EXCEPT ![Slot(local[w])] = NoTask]
  /\ local' = [local EXCEPT ![w] = 0]
  /\ UNCHANGED <<head, tail, pool, tally, mine>>

(* ... mark the slot as reusable (what it holds is then dead) ...          *)
WorkerRelease(w) ==
  /\ Goto(w, "release", "perform")
  /\ seq' = [seq EXCEPT ![Slot(local[w])] = Add(local[w], Size)]
  /\ task' = [task EXCEPT ![Slot(local[w])] = NoTask]
  /\ local' = [local EXCEPT ![w] = 0]
  /\ UNCHANGED <<head, tail, pool, tally, mine>>

(* Slip: a worker that has done a task goes to sleep.                      *)
WorkerPerform_Once(w) ==
  /\ Goto(w, "perform", "wait")
  /\ Perform(w)
  /\ UNCHANGED <<queue, pool, created, local>>

(* ... and run it, then look for the next.                                 *)
WorkerPerform(w) ==
  /\ Goto(w, "perform", "load")
  /\ Perform(w)
  /\ UNCHANGED <<queue, pool, created, local>>

(* condvar_wait ends by taking the signal ...                              *)
WorkerWait(w) ==
  /\ Goto(w, "wait", "run")
  /\ signaled
  /\ signaled' = FALSE
  /\ UNCHANGED <<queue, run, shut, tally, local, mine>>

(* ... or without one that is left.                                        *)
WorkerWaitEnds(w) ==
  /\ Goto(w, "wait", "run")
  /\ UNCHANGED <<queue, pool, tally, local, mine>>

WorkerShut(w) ==
  /\ Goto(w, "shut", "exit")
  /\ shut' = shut + 1
  /\ UNCHANGED <<queue, signaled, run, tally, local, mine>>

-----------------------------------------------------------------------------
(* thread_workers_terminate, when the process exits and the devices that   *)
(* create tasks are gone                                                   *)

Terminate ==
  /\ run
  /\ \A p \in Producers : pc[p] = "idle"
  /\ run' = FALSE
  /\ UNCHANGED <<queue, signaled, shut, tally, pc, local, mine>>

(* Slip: one wake-up is enough.                                            *)
TerminateWake_Once ==
  /\ ~run
  /\ shut = 0
  /\ signaled' = TRUE
  /\ UNCHANGED <<queue, run, shut, tally, pc, local, mine>>

(* Wake the workers until all of them are shut down.                       *)
TerminateWake ==
  /\ ~run
  /\ shut # Cardinality(Workers)
  /\ signaled' = TRUE
  /\ UNCHANGED <<queue, run, shut, tally, pc, local, mine>>

-----------------------------------------------------------------------------
Submit(p) ==
  \/ SubmitSlot(p) \/ SubmitReload(p) \/ SubmitCas(p) \/ SubmitCasFails(p)
  \/ SubmitFill(p) \/ SubmitPublish(p) \/ SubmitWake(p) \/ SubmitInline(p)

Work(w) ==
  \/ WorkerRun(w) \/ WorkerLoad(w) \/ WorkerSlot(w) \/ WorkerCas(w)
  \/ WorkerCasFails(w) \/ WorkerTake(w) \/ WorkerRelease(w)
  \/ WorkerPerform(w) \/ WorkerWait(w) \/ WorkerShut(w)

Next ==
  \/ \E p \in Producers : SubmitBegin(p) \/ Submit(p)
  \/ \E w \in Workers : Work(w) \/ WorkerWaitEnds(w)
  \/ Terminate
  \/ TerminateWake

Spec == Init /\ [][Next]_vars

(* Threads run; a compare-and-swap does not fail forever without a reason; *)
(* a waiter that is asleep beside a signal gets it (SignalConsumed of      *)
(* module Event), though which of several does is not determined.          *)
FairSpec ==
  /\ Spec
  /\ \A p \in Producers : WF_vars(Submit(p)) /\ SF_vars(SubmitCas(p))
  /\ \A w \in Workers : WF_vars(Work(w)) /\ SF_vars(WorkerCas(w))
  /\ WF_vars(TerminateWake)
-----------------------------------------------------------------------------
(* Every variable stays in its range; the counters are 32-bit words.       *)
TypeOK ==
  /\ head \in Words /\ tail \in Words
  /\ seq \in [Slots -> Words]
  /\ task \in [Slots -> Tasks \cup {NoTask}]
  /\ pc \in [Threads -> {"idle", "slot", "reload", "cas", "fill", "publish",
                         "wake", "inline", "run", "load", "take", "release",
                         "perform", "wait", "shut", "exit"}]
  /\ local \in [Threads -> Words]
  /\ mine \in [Threads -> Tasks \cup {NoTask}]
  /\ created \in 0..MaxTasks
  /\ performed \in [Tasks -> Nat]
  /\ signaled \in BOOLEAN /\ run \in BOOLEAN
  /\ shut \in 0..Cardinality(Workers)

(* Threads that write or read the contents of slot s.                      *)
Inside(s) ==
  {t \in Threads : /\ pc[t] \in {"fill", "publish", "take", "release"}
                   /\ Slot(local[t]) = s}

(* A slot's contents belong to one thread at a time, although they are no  *)
(* atomics: also when the queue is full and when the counters wrap around. *)
SlotsExclusive == \A s \in Slots : Cardinality(Inside(s)) <= 1

(* Every task that was created has been performed once, or is held by one  *)
(* thread or slot that will: nothing is lost, overwritten or run twice.    *)
TasksConserved ==
  \A k \in 1..created :
    performed[k] + Cardinality({t \in Threads : mine[t] = k})
      + Cardinality({s \in Slots : /\ task[s] = k
                                   /\ \A w \in Workers : mine[w] # k}) = 1

(* Workers do not all sleep beside a task that is ready: somebody is about *)
(* to signal, or the signal is there.                                      *)
TaskNoticed ==
  (seq[Slot(tail)] = Add(tail, 1) /\ \A w \in Workers : pc[w] = "wait") =>
    signaled \/ \E p \in Producers : pc[p] = "wake"

(* Every task is performed, unless the pool is terminated first.           *)
TasksPerformed ==
  \A k \in Tasks : (created = k) ~> (performed[k] = 1 \/ ~run)

(* thread_workers_terminate gets all workers to leave, and can join them.  *)
TerminateReturns ==
  ~run ~> (shut = Cardinality(Workers) /\ \A w \in Workers : pc[w] = "exit")
==============================================================================
