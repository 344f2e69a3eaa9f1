---------------------------- MODULE StorageProofs ----------------------------
(***************************************************************************)
(* Theorems about Storage, for any number of pool threads, any queue sizes *)
(* and any set of interrupt identities: no message of a steady identity is *)
(* lost by the interrupt file; the controller's count of its threads is    *)
(* exact, so that a reset finds it quiet; no completion goes unnoticed;    *)
(* and every command the guest waits for is in exactly one place.          *)
(***************************************************************************)
EXTENDS Storage, FiniteSetTheorems, TLAPS

IInv == TypeOK /\ ThreadsExact /\ SteadyEnabled /\ PendingCovered

-----------------------------------------------------------------------------
(* What happens to the interrupt file in one step.                         *)
ImsicStep ==
  \/ \E t \in Senders : \/ \E id \in Ids : SendBegin(t, id)
                        \/ SendSet(t)
                        \/ SendSignal(t)
  \/ \E id \in Ids : EieWrite(id)
  \/ TopeiAccess \/ ScanClear \/ ScanRegister \/ ScanClaim \/ ScanSignal \/ ScanReturn

(* An identity's register is one of the file's.                            *)
LEMMA RegType == \A id \in Ids : Reg(id) \in 0..LastReg
  BY ImsicAssumption DEF Reg

(* The file's invariant holds at first ...                                 *)
LEMMA ImsicStarts ==
  ASSUME ImsicInit
  PROVE  ImsicTypeOK /\ SteadyEnabled /\ PendingCovered
<1>1. 0 \in 0..LastReg /\ Steady \subseteq Ids
  BY ImsicAssumption
<1>2. ImsicTypeOK
  BY <1>1 DEF ImsicInit, ImsicTypeOK, NotScanning
<1>3. SteadyEnabled
  BY <1>1 DEF ImsicInit, SteadyEnabled, NotSending, NotScanning
<1>4. PendingCovered
  BY DEF ImsicInit, PendingCovered
<1>5. QED BY <1>2, <1>3, <1>4

(* ... and every step of a sender or of the hart's scan keeps it.          *)
LEMMA ImsicStepsKeep ==
  ASSUME ImsicTypeOK, SteadyEnabled, PendingCovered, ImsicStep
  PROVE  ImsicTypeOK' /\ SteadyEnabled' /\ PendingCovered'
<1>a. Steady \subseteq Ids /\ LastReg \in Nat /\ 0 \in 0..LastReg
  BY ImsicAssumption
<1>1. ASSUME NEW t \in Senders, NEW id \in Ids, SendBegin(t, id)
      PROVE  ImsicTypeOK' /\ SteadyEnabled' /\ PendingCovered'
  <2>1. ImsicTypeOK'
    BY <1>1 DEF SendBegin, ImsicTypeOK, NotSending
  <2>2. SteadyEnabled'
    BY <1>1 DEF SendBegin, ImsicTypeOK, SteadyEnabled, NotSending
  <2>3. PendingCovered'
    BY <1>1 DEF SendBegin, ImsicTypeOK, PendingCovered, Covered, NotSending
  <2>4. QED BY <2>1, <2>2, <2>3
<1>2. ASSUME NEW t \in Senders, SendSet(t)
      PROVE  ImsicTypeOK' /\ SteadyEnabled' /\ PendingCovered'
  <2>1. ImsicTypeOK'
    BY <1>2 DEF SendSet, ImsicTypeOK, NotSending
  <2>2. SteadyEnabled'
    BY <1>2 DEF SendSet, ImsicTypeOK, SteadyEnabled, NotSending
  <2>3. PendingCovered'
    BY <1>2 DEF SendSet, ImsicTypeOK, SteadyEnabled, PendingCovered, Covered, NotSending
  <2>4. QED BY <2>1, <2>2, <2>3
<1>3. ASSUME NEW t \in Senders, SendSignal(t)
      PROVE  ImsicTypeOK' /\ SteadyEnabled' /\ PendingCovered'
  BY <1>3 DEF SendSignal, ImsicTypeOK, SteadyEnabled, PendingCovered, Covered, NotSending
<1>4. ASSUME NEW id \in Ids, EieWrite(id)
      PROVE  ImsicTypeOK' /\ SteadyEnabled' /\ PendingCovered'
  <2>1. ImsicTypeOK'
    BY <1>a, <1>4 DEF EieWrite, ImsicTypeOK, NotScanning
  <2>2. SteadyEnabled'
    BY <1>4 DEF EieWrite, SteadyEnabled, NotScanning
  <2>3. scan'.at = "clear"
    BY <1>4 DEF EieWrite, NotScanning
  <2>4. PendingCovered'
    BY <2>3 DEF PendingCovered, Covered
  <2>5. QED BY <2>1, <2>2, <2>4
<1>5. CASE TopeiAccess
  <2>1. scan'.at = "scan" /\ scan'.reg = 0
    BY <1>5 DEF TopeiAccess, NotScanning
  <2>2. ImsicTypeOK' /\ SteadyEnabled'
    BY <1>a, <1>5 DEF TopeiAccess, ImsicTypeOK, SteadyEnabled, NotScanning
  <2>3. PendingCovered'
    <3>1. \A id \in Ids : 0 <= Reg(id)
      BY RegType
    <3>2. QED BY <1>a, <2>1, <3>1 DEF PendingCovered, Covered
  <2>4. QED BY <2>2, <2>3
<1>6. CASE ScanClear
  <2>1. scan'.at = "scan" /\ scan'.reg = 0
    BY <1>6 DEF ScanClear, ImsicTypeOK, SteadyEnabled
  <2>2. ImsicTypeOK' /\ SteadyEnabled'
    BY <1>6, <2>1 DEF ScanClear, ImsicTypeOK, SteadyEnabled
  <2>3. PendingCovered'
    <3>1. \A id \in Ids : 0 <= Reg(id)
      BY RegType
    <3>2. QED BY <1>a, <2>1, <3>1 DEF PendingCovered, Covered
  <2>4. QED BY <2>2, <2>3
<1>b. ASSUME scan.at \in {"scan", "claim"}
      PROVE  /\ Advance(scan) \in [at : {"idle", "clear", "scan", "claim", "signal", "return"},
                   claim : BOOLEAN, reg : 0..LastReg, ret : Ids \cup {0}, more : BOOLEAN]
             /\ Advance(scan).at # "clear"
             /\ \A id \in Ids : scan.reg < Reg(id) =>
                  Advance(scan).at = "scan" /\ Advance(scan).reg <= Reg(id)
  <2>1. CASE scan.reg < LastReg
    <3>1. Advance(scan) = [scan EXCEPT !.at = "scan", !.reg = @ + 1]
      BY <2>1 DEF Advance
    <3>2. scan.reg + 1 \in 0..LastReg
      BY <1>a, <2>1 DEF ImsicTypeOK
    <3>3. \A id \in Ids : scan.reg < Reg(id) => scan.reg + 1 <= Reg(id)
      BY <1>a, RegType DEF ImsicTypeOK
    <3>4. QED BY <3>1, <3>2, <3>3, ZenonT(30) DEF ImsicTypeOK
  <2>2. CASE ~ (scan.reg < LastReg)
    <3>1. Advance(scan) = [NotScanning EXCEPT !.at = "return",
                                              !.ret = IF scan.claim THEN scan.ret ELSE 0]
      BY <2>2 DEF Advance, Returning
    <3>2. \A id \in Ids : ~ (scan.reg < Reg(id))
      BY <1>a, <2>2, RegType DEF ImsicTypeOK
    <3>3. QED BY <1>a, <3>1, <3>2 DEF ImsicTypeOK, NotScanning
  <2>3. QED BY <2>1, <2>2
<1>7. CASE ScanRegister
  <2> DEFINE bits == {id \in eip \cap eie : Reg(id) = scan.reg}
  <2>a. scan.at = "scan" /\ UNCHANGED <<eip, eie, line, send>>
    BY <1>7 DEF ScanRegister
  <2>1. CASE bits = {} /\ scan' = Advance(scan)
    <3>1. \A id \in eip \cap Steady : id \in Ids /\ Reg(id) # scan.reg
      BY <1>a, <2>1 DEF SteadyEnabled
    <3>2. \A id \in eip \cap Steady : scan.reg <= Reg(id) => scan.reg < Reg(id)
      BY <3>1, RegType DEF ImsicTypeOK
    <3>3. PendingCovered'
      BY <1>b, <2>1, <2>a, <3>1, <3>2 DEF PendingCovered, Covered
    <3>4. QED BY <1>b, <2>1, <2>a, <3>3 DEF ImsicTypeOK, SteadyEnabled
  <2>2. CASE scan' = [scan EXCEPT !.at = "signal"]
    BY <2>2, <2>a DEF ImsicTypeOK, SteadyEnabled, PendingCovered, Covered
  <2>3. CASE \E irq \in bits :
               scan' = [scan EXCEPT !.ret = irq,
                                    !.more = scan.claim /\ bits # {irq},
                                    !.at = IF scan.claim THEN "claim" ELSE "signal"]
    <3>1. PICK irq \in bits :
               scan' = [scan EXCEPT !.ret = irq,
                                    !.more = scan.claim /\ bits # {irq},
                                    !.at = IF scan.claim THEN "claim" ELSE "signal"]
      BY <2>3
    <3>2. irq \in Ids
      BY DEF ImsicTypeOK
    <3>a. (scan.claim /\ bits # {irq}) \in BOOLEAN
      OBVIOUS
    <3>3. ImsicTypeOK' /\ SteadyEnabled'
      BY <2>a, <3>1, <3>2, <3>a DEF ImsicTypeOK, SteadyEnabled
    <3>4. ASSUME NEW id \in eip \cap Steady, scan.claim, ~ line,
                 ~ \E t \in Senders : send[t].at = "signal" /\ send[t].id = id
          PROVE  irq = id \/ bits # {irq} \/ scan.reg < Reg(id)
      <4>1. scan.reg <= Reg(id)
        BY <2>a, <3>4 DEF PendingCovered, Covered
      <4>2. Reg(id) = scan.reg => id \in bits
        BY DEF SteadyEnabled
      <4>3. QED BY <1>a, <4>1, <4>2, RegType DEF ImsicTypeOK
    <3>5. /\ scan'.at = IF scan.claim THEN "claim" ELSE "signal"
          /\ scan'.ret = irq /\ scan'.reg = scan.reg
          /\ scan'.more = (scan.claim /\ bits # {irq})
      BY <3>1 DEF ImsicTypeOK
    <3>6. PendingCovered'
      BY <2>a, <3>4, <3>5 DEF PendingCovered, Covered
    <3>7. QED BY <3>3, <3>6
  <2>4. QED BY <1>7, <2>1, <2>2, <2>3 DEF ScanRegister
<1>8. CASE ScanClaim
  <2>a. scan.at = "claim" /\ eip' = eip \ {scan.ret} /\ UNCHANGED <<eie, line, send>>
    BY <1>8 DEF ScanClaim
  <2>1. CASE scan.more
    BY <1>8, <2>1, <2>a DEF ScanClaim, ImsicTypeOK, SteadyEnabled, PendingCovered, Covered
  <2>2. CASE ~ scan.more
    <3>1. scan' = Advance(scan)
      BY <1>8, <2>2 DEF ScanClaim
    <3>2. PendingCovered'
      BY <1>a, <1>b, <2>2, <2>a, <3>1 DEF PendingCovered, Covered
    <3>3. QED BY <1>b, <2>a, <3>1, <3>2 DEF ImsicTypeOK, SteadyEnabled
  <2>3. QED BY <2>1, <2>2
<1>9. CASE ScanSignal
  BY <1>a, <1>9 DEF ScanSignal, Returning, NotScanning, ImsicTypeOK, SteadyEnabled,
     PendingCovered, Covered
<1>10. CASE ScanReturn
  BY <1>a, <1>10 DEF ScanReturn, NotScanning, ImsicTypeOK, SteadyEnabled, PendingCovered, Covered
<1>11. QED BY <1>1, <1>2, <1>3, <1>4, <1>5, <1>6, <1>7, <1>8, <1>9, <1>10 DEF ImsicStep

-----------------------------------------------------------------------------
(* An index that is advanced stays in its ring.                            *)
LEMMA WrapType ==
  ASSUME NEW n \in Nat, NEW i \in 0..n
  PROVE  Wrap(i, n) \in 0..n
  BY DEF Wrap

(* The rings have a first index, the pool some capacity; threads are       *)
(* finitely many.                                                          *)
LEMMA Sizes ==
  /\ SqSize \in Nat /\ CqSize \in Nat /\ PoolSize \in Nat
  /\ 0 \in Slots /\ 0 \in Entries
  /\ IsFiniteSet(Runners) /\ Driver \in Runners /\ Workers \subseteq Runners
  /\ Driver \notin Workers
  BY NvmeAssumption DEF Slots, Entries, Runners

(* Threads with a command: one more, one less, the same.                   *)
LEMMA BusyFinite == IsFiniteSet(Busy) /\ Cardinality(Busy) \in Nat
  BY Sizes, FS_Subset, FS_CardinalityType DEF Busy

LEMMA BusyMore ==
  ASSUME NEW t \in Runners, run[t].at = "idle", run'[t].at # "idle",
         \A u \in Runners : u # t => run'[u] = run[u]
  PROVE  Cardinality(Busy') = Cardinality(Busy) + 1
<1>1. Busy' = Busy \cup {t} /\ t \notin Busy
  BY DEF Busy
<1>2. QED BY <1>1, BusyFinite, FS_AddElement

LEMMA BusyLess ==
  ASSUME NEW t \in Runners, run[t].at # "idle", run'[t].at = "idle",
         \A u \in Runners : u # t => run'[u] = run[u]
  PROVE  /\ Cardinality(Busy') = Cardinality(Busy) - 1
         /\ Cardinality(Busy') \in Nat
<1>1. Busy' = Busy \ {t} /\ t \in Busy
  BY DEF Busy
<1>2. IsFiniteSet(Busy \ {t})
  BY BusyFinite, FS_Subset
<1>3. QED BY <1>1, <1>2, BusyFinite, FS_RemoveElement, FS_CardinalityType

-----------------------------------------------------------------------------
(* The controller's invariant holds at first ...                           *)
LEMMA NvmeStarts ==
  ASSUME NvmeInit
  PROVE  NvmeTypeOK /\ ThreadsExact
<1>1. NvmeTypeOK
  <2>1. <<>> \in Seq(Slots) /\ Len(<<>>) <= PoolSize
    BY Sizes
  <2>2. tasks \in Seq(Slots) /\ Len(tasks) <= PoolSize
    BY <2>1 DEF NvmeInit
  <2>3. Resting \in [at : {"idle", "run", "write", "raise", "pend", "finish"},
                     slot : Slots, entry : Entries]
    BY Sizes DEF Resting
  <2>4. QED BY <2>2, <2>3, Sizes DEF NvmeInit, NvmeTypeOK
<1>2. Busy = {}
  BY DEF NvmeInit, Busy, Resting
<1>3. Cardinality(Busy) = 0
  BY <1>2, FS_EmptySet
<1>4. QED BY <1>1, <1>2, <1>3, Sizes DEF NvmeInit, ThreadsExact, Resting

(* ... and the steps that move no command between the pool and threads     *)
(* keep the count: those that leave the threads alone, ...                 *)
LEMMA CountKept ==
  ASSUME ThreadsExact, UNCHANGED <<threads, tasks, run>>,
         door'.at = "inline" <=> door.at = "inline",
         door'.at = "disabled" => threads = 0
  PROVE  ThreadsExact'
  BY DEF ThreadsExact, Busy

(* ... and those of a thread that keeps its command.                       *)
LEMMA CountKeptByThread ==
  ASSUME NvmeTypeOK, ThreadsExact, NEW t \in Runners,
         run[t].at # "idle", run'[t].at # "idle",
         \A u \in Runners : u # t => run'[u] = run[u],
         UNCHANGED <<threads, tasks, door>>
  PROVE  ThreadsExact'
<1>1. Busy' = Busy
  BY DEF Busy
<1>2. QED BY <1>1 DEF ThreadsExact

(* The steps of a thread with a command.                                   *)
LEMMA CommandStepsKeep ==
  ASSUME NvmeTypeOK, ThreadsExact, NEW t \in Runners,
         \/ Enqueue(t) \/ WriteEntry(t) \/ RaiseMasked(t) \/ SetPending(t)
         \/ RaiseMsi(t)
  PROVE  NvmeTypeOK' /\ ThreadsExact'
<1> USE Sizes
<1>1. CASE Enqueue(t)
  <2>1. cq.tail \in Entries /\ Wrap(cq.tail, CqSize) \in Entries
    BY WrapType DEF NvmeTypeOK, Entries
  <2>2. NvmeTypeOK'
    BY <1>1, <2>1, ZenonT(30) DEF Enqueue, NvmeTypeOK, doorVars, msixVars
  <2>3. ThreadsExact'
    BY <1>1, CountKeptByThread DEF Enqueue, NvmeTypeOK, doorVars
  <2>4. QED BY <2>2, <2>3
<1>2. CASE WriteEntry(t)
  <2>1. /\ run[t].entry \in Entries /\ sqMem[run[t].slot] \in Tags \cup {None}
        /\ 1 - cqMem[run[t].entry].phase \in {0, 1}
    BY DEF NvmeTypeOK
  <2>2. NvmeTypeOK'
    BY <1>2, <2>1 DEF WriteEntry, NvmeTypeOK, Resting, doorVars, msixVars
  <2>3. ThreadsExact'
    BY <1>2, CountKeptByThread DEF WriteEntry, NvmeTypeOK, Resting, doorVars
  <2>4. QED BY <2>2, <2>3
<1>3. CASE RaiseMasked(t) \/ SetPending(t) \/ RaiseMsi(t)
  <2>1. NvmeTypeOK'
    <3>1. /\ UNCHANGED <<queueVars, doorVars, masked, bell>>
          /\ pending' \in BOOLEAN
      BY <1>3 DEF RaiseMasked, SetPending, RaiseMsi, msixVars, NvmeTypeOK
    <3>2. \E to \in {"pend", "finish"} : run' = [run EXCEPT ![t].at = to]
      BY <1>3 DEF RaiseMasked, SetPending, RaiseMsi, Goto
    <3>3. QED BY <3>1, <3>2 DEF NvmeTypeOK, queueVars, doorVars
  <2>2. ThreadsExact'
    BY <1>3, CountKeptByThread DEF RaiseMasked, SetPending, RaiseMsi, Goto, NvmeTypeOK, doorVars
  <2>3. QED BY <2>1, <2>2
<1>4. QED BY <1>1, <1>2, <1>3

(* A command ends: the thread is free and the count goes down.             *)
LEMMA FinishKeeps ==
  ASSUME NvmeTypeOK, ThreadsExact, NEW t \in Runners, Finish(t)
  PROVE  NvmeTypeOK' /\ ThreadsExact'
<1> USE Sizes
<1>1. /\ run[t].at = "finish" /\ run' = [run EXCEPT ![t] = Resting]
      /\ threads' = threads - 1 /\ tasks' = tasks
      /\ door' = IF t = Driver THEN [door EXCEPT !.at = "drain"] ELSE door
  BY DEF Finish
<1>2. /\ run'[t] = Resting /\ run'[t].at = "idle"
      /\ \A u \in Runners : u # t => run'[u] = run[u]
  BY <1>1 DEF NvmeTypeOK, Resting
<1>3. Cardinality(Busy') = Cardinality(Busy) - 1 /\ Cardinality(Busy') \in Nat
  BY <1>1, <1>2, BusyLess
<1>4. Len(tasks) \in Nat
  BY DEF NvmeTypeOK
<1>5. threads' = Len(tasks') + Cardinality(Busy') /\ threads' \in Nat
  BY <1>1, <1>3, <1>4, BusyFinite DEF ThreadsExact
<1>6. NvmeTypeOK'
  BY <1>1, <1>5, SMTT(30) DEF Finish, NvmeTypeOK, Resting, queueVars, msixVars
<1>7. t \in Busy
  BY <1>1 DEF Busy
<1>8. Driver \in Busy' <=> door'.at = "inline"
  BY <1>1, <1>2 DEF ThreadsExact, Busy, NvmeTypeOK
<1>9. door'.at = "disabled" => threads' = 0
  <2>1. threads # 0
    BY <1>3, <1>4, BusyFinite DEF ThreadsExact
  <2>2. QED BY <1>1, <2>1 DEF ThreadsExact, NvmeTypeOK
<1>10. QED BY <1>2, <1>5, <1>6, <1>8, <1>9 DEF ThreadsExact

(* A pool thread takes a task.                                             *)
LEMMA TakeTaskKeeps ==
  ASSUME NvmeTypeOK, ThreadsExact, NEW w \in Workers, TakeTask(w)
  PROVE  NvmeTypeOK' /\ ThreadsExact'
<1> USE Sizes
<1>1. /\ run[w] = Resting /\ tasks # <<>>
      /\ run' = [run EXCEPT ![w] = Running(Head(tasks))]
      /\ tasks' = Tail(tasks) /\ UNCHANGED <<threads, door>>
  BY DEF TakeTask
<1>2. /\ tasks' \in Seq(Slots) /\ Head(tasks) \in Slots
      /\ Len(tasks') = Len(tasks) - 1 /\ Len(tasks) \in Nat
  BY <1>1 DEF NvmeTypeOK
<1>3. /\ run'[w].at = "run" /\ run[w].at = "idle"
      /\ \A u \in Runners : u # w => run'[u] = run[u]
  BY <1>1 DEF NvmeTypeOK, Resting, Running
<1>4. Cardinality(Busy') = Cardinality(Busy) + 1
  BY <1>3, BusyMore
<1>5. threads' = Len(tasks') + Cardinality(Busy')
  BY <1>1, <1>2, <1>4, BusyFinite DEF ThreadsExact
<1>6. NvmeTypeOK'
  <2>1. Len(tasks') <= PoolSize
    BY <1>2 DEF NvmeTypeOK
  <2>2. QED BY <1>1, <1>2, <2>1 DEF TakeTask, NvmeTypeOK, Running, queueVars, msixVars
<1>7. Driver \in Busy' <=> Driver \in Busy
  BY <1>3 DEF Busy
<1>8. QED BY <1>1, <1>3, <1>5, <1>6, <1>7 DEF ThreadsExact

(* The driver's hart counts a command, then queues it or runs it.          *)
LEMMA CreateTaskKeeps ==
  ASSUME NvmeTypeOK, ThreadsExact, CreateTask
  PROVE  NvmeTypeOK' /\ ThreadsExact'
<1> USE Sizes
<1>1. /\ door.at = "task" /\ threads' = threads + 1 /\ door.slot \in Slots
      /\ UNCHANGED <<queueVars, msixVars, bell>>
      /\ Len(tasks) \in Nat
  BY DEF CreateTask, NvmeTypeOK
<1>2. Driver \notin Busy /\ run[Driver].at = "idle"
  BY <1>1 DEF ThreadsExact, Busy
<1>3. CASE Queue(door.slot)
  <2>1. /\ tasks' \in Seq(Slots) /\ Len(tasks') = Len(tasks) + 1
        /\ Len(tasks') <= PoolSize
        /\ door' = [at |-> "drain", slot |-> 0] /\ run' = run
    BY <1>1, <1>3 DEF Queue, NvmeTypeOK
  <2>2. NvmeTypeOK'
    BY <1>1, <2>1 DEF NvmeTypeOK, queueVars, msixVars
  <2>3. Busy' = Busy
    BY <2>1 DEF Busy
  <2>4. ThreadsExact'
    BY <1>1, <1>2, <2>1, <2>3, BusyFinite DEF ThreadsExact
  <2>5. QED BY <2>2, <2>4
<1>4. CASE Inline(door.slot)
  <2>1. /\ run' = [run EXCEPT ![Driver] = Running(door.slot)]
        /\ door' = [at |-> "inline", slot |-> 0] /\ tasks' = tasks
    BY <1>4 DEF Inline
  <2>2. /\ run'[Driver].at = "run"
        /\ \A u \in Runners : u # Driver => run'[u] = run[u]
    BY <2>1 DEF NvmeTypeOK, Running
  <2>3. Cardinality(Busy') = Cardinality(Busy) + 1
    BY <1>2, <2>2, BusyMore
  <2>4. NvmeTypeOK'
    BY <1>1, <2>1 DEF NvmeTypeOK, Running, queueVars, msixVars
  <2>5. Driver \in Busy'
    BY <2>2 DEF Busy
  <2>6. ThreadsExact'
    BY <1>1, <2>1, <2>2, <2>3, <2>5, BusyFinite DEF ThreadsExact
  <2>7. QED BY <2>4, <2>6
<1>5. QED BY <1>3, <1>4 DEF CreateTask

(* What the driver's hart does besides, and the handler's doorbells.       *)
LEMMA DoorStepsKeep ==
  ASSUME NvmeTypeOK, ThreadsExact,
         \/ \E val \in Slots : SqDoorbell(val)
         \/ Dequeue \/ ResetBegin \/ ResetQueues \/ Recreate
         \/ \E val \in Entries : CqDoorbell(val)
         \/ CqLower \/ Mask \/ Unmask \/ ResendEnd
  PROVE  NvmeTypeOK' /\ ThreadsExact'
<1> USE Sizes
<1>1. ASSUME NEW val \in Slots, SqDoorbell(val)
      PROVE  NvmeTypeOK' /\ ThreadsExact'
  <2>1. NvmeTypeOK'
    BY <1>1 DEF SqDoorbell, NvmeTypeOK, msixVars
  <2>2. ThreadsExact'
    BY <1>1, CountKept DEF SqDoorbell, NvmeTypeOK
  <2>3. QED BY <2>1, <2>2
<1>2. CASE Dequeue
  <2>1. sq.head \in Slots /\ Wrap(sq.head, SqSize) \in Slots
    BY WrapType DEF NvmeTypeOK, Slots
  <2>2. NvmeTypeOK'
    BY <1>2, <2>1 DEF Dequeue, NvmeTypeOK, msixVars
  <2>3. ThreadsExact'
    BY <1>2, CountKept DEF Dequeue, NvmeTypeOK
  <2>4. QED BY <2>2, <2>3
<1>3. CASE ResetBegin
  <2>1. NvmeTypeOK'
    BY <1>3 DEF ResetBegin, NvmeTypeOK, queueVars, msixVars
  <2>2. ThreadsExact'
    BY <1>3, CountKept DEF ResetBegin, NvmeTypeOK
  <2>3. QED BY <2>1, <2>2
<1>4. CASE ResetQueues
  <2>1. NvmeTypeOK'
    BY <1>4 DEF ResetQueues, NvmeTypeOK
  <2>2. ThreadsExact'
    BY <1>4, CountKept DEF ResetQueues, NvmeTypeOK
  <2>3. QED BY <2>1, <2>2
<1>5. CASE Recreate
  <2>1. NvmeTypeOK'
    BY <1>5 DEF Recreate, NvmeTypeOK
  <2>2. ThreadsExact'
    BY <1>5, CountKept DEF Recreate, NvmeTypeOK
  <2>3. QED BY <2>1, <2>2
<1>6. ASSUME NEW val \in Entries, CqDoorbell(val)
      PROVE  NvmeTypeOK' /\ ThreadsExact'
  <2>1. NvmeTypeOK'
    BY <1>6 DEF CqDoorbell, NvmeTypeOK, doorVars, msixVars
  <2>2. ThreadsExact'
    BY <1>6, CountKept DEF CqDoorbell, ThreadsExact, doorVars
  <2>3. QED BY <2>1, <2>2
<1>7. CASE CqLower \/ Mask \/ Unmask \/ ResendEnd
  <2>1. /\ UNCHANGED <<queueVars, doorVars, run>>
        /\ masked' \in BOOLEAN /\ pending' \in BOOLEAN
        /\ bell' \in {"idle", "lower", "resend"}
    BY <1>7 DEF CqLower, Mask, Unmask, ResendEnd, msixVars, NvmeTypeOK
  <2>2. NvmeTypeOK'
    BY <2>1 DEF NvmeTypeOK, queueVars, doorVars
  <2>3. ThreadsExact'
    BY <2>1, CountKept DEF ThreadsExact, doorVars
  <2>4. QED BY <2>2, <2>3
<1>8. QED BY <1>1, <1>2, <1>3, <1>4, <1>5, <1>6, <1>7

-----------------------------------------------------------------------------
(* The guest's own state has its type, whatever the step.                  *)
GuestTypeOK ==
  /\ guest \in Guests /\ out \subseteq Tags /\ next \in Slots
  /\ head \in Entries /\ phase \in {0, 1}
  /\ isr \in {"idle", "topei", "eie", "poll"}

(* Every step is one of the interrupt file or leaves it alone.             *)
LEMMA StepOfImsic ==
  ASSUME Next
  PROVE  ImsicStep \/ UNCHANGED irqVars
<1>1. /\ Runners \subseteq Senders /\ Workers \subseteq Senders
      /\ Driver \in Senders /\ Handler \in Senders /\ Other \in Senders
      /\ NvmeId \in Ids /\ OtherId \in Ids
  BY StorageAssumption, ImsicAssumption DEF Runners
<1>2. ASSUME NEW t \in Senders, CommandStep(t)
      PROVE  ImsicStep \/ UNCHANGED irqVars
  BY <1>1, <1>2 DEF CommandStep, SendMsi, SendStep, CommandEnd, Sending, ImsicStep, irqVars
<1>3. ASSUME NEW w \in Workers, WorkerStep(w)
      PROVE  ImsicStep \/ UNCHANGED irqVars
  BY <1>1, <1>2, <1>3 DEF WorkerStep, irqVars
<1>4. CASE DriverStep
  BY <1>1, <1>2, <1>4 DEF DriverStep, RecreateQueues, irqVars
<1>5. CASE HandlerStep
  BY <1>1, <1>5 DEF HandlerStep, SendStep, Sending, Scanning, UnmaskEnd, Claimed, Consume,
     PollEnd, ImsicStep, irqVars
<1>6. CASE SendStep(Other) \/ OtherSends
  BY <1>1, <1>6 DEF SendStep, Sending, OtherSends, ImsicStep
<1>7. CASE Place \/ RingSq \/ ResetCtrl
  BY <1>7 DEF Place, RingSq, ResetCtrl, irqVars
<1>8. CASE TakeIrq \/ MaskVector \/ UnmaskVector \/ SwitchOther
  BY <1>1, <1>8 DEF TakeIrq, MaskVector, UnmaskVector, SwitchOther, ImsicStep
<1>9. QED BY <1>3, <1>4, <1>5, <1>6, <1>7, <1>8 DEF Next

(* A step that leaves the controller alone keeps its invariant.            *)
LEMMA NvmeStutters ==
  ASSUME NvmeTypeOK, ThreadsExact, UNCHANGED nvmeVars
  PROVE  NvmeTypeOK' /\ ThreadsExact'
  BY DEF nvmeVars, queueVars, doorVars, msixVars, NvmeTypeOK, ThreadsExact, Busy

(* Every step keeps the invariant of the controller.                       *)
LEMMA StepOfNvme ==
  ASSUME NvmeTypeOK, ThreadsExact, GuestTypeOK, Next
  PROVE  NvmeTypeOK' /\ ThreadsExact'
<1>1. ASSUME NEW t \in Runners, CommandStep(t)
      PROVE  NvmeTypeOK' /\ ThreadsExact'
  BY <1>1, CommandStepsKeep, FinishKeeps, NvmeStutters
     DEF CommandStep, SendMsi, SendStep, CommandEnd
<1>2. ASSUME NEW w \in Workers, WorkerStep(w)
      PROVE  NvmeTypeOK' /\ ThreadsExact'
  BY <1>1, <1>2, Sizes, TakeTaskKeeps DEF WorkerStep
<1>3. CASE DriverStep
  BY <1>1, <1>3, Sizes, CreateTaskKeeps, DoorStepsKeep DEF DriverStep, RecreateQueues
<1>4. CASE Consume
  <2>1. /\ sqMem' \in [Slots -> Tags \cup {None}]
        /\ cqMem' \in [Entries -> [cid : Tags \cup {None}, phase : {0, 1}]]
        /\ UNCHANGED <<sq, cq, doorVars, run, msixVars, bell>>
    BY <1>4 DEF Consume, NvmeTypeOK, GuestTypeOK
  <2>2. QED BY <2>1, CountKept DEF NvmeTypeOK, ThreadsExact, doorVars, msixVars
<1>5. CASE Place
  <2>1. /\ sqMem' \in [Slots -> Tags \cup {None}]
        /\ UNCHANGED <<cqMem, sq, cq, doorVars, run, msixVars, bell>>
    BY <1>5 DEF Place, NvmeTypeOK, GuestTypeOK
  <2>2. QED BY <2>1, CountKept DEF NvmeTypeOK, ThreadsExact, doorVars, msixVars
<1>6. CASE HandlerStep
  <2>1. CASE CqLower \/ UnmaskEnd
    BY <2>1, DoorStepsKeep DEF UnmaskEnd
  <2>2. CASE PollEnd
    BY <2>2, DoorStepsKeep, NvmeStutters DEF PollEnd, GuestTypeOK
  <2>3. CASE UNCHANGED nvmeVars
    BY <2>3, NvmeStutters
  <2>4. QED BY <1>4, <1>6, <2>1, <2>2, <2>3 DEF HandlerStep, SendStep, Claimed
<1>7. CASE RingSq \/ ResetCtrl \/ MaskVector \/ UnmaskVector
  BY <1>7, DoorStepsKeep DEF RingSq, ResetCtrl, MaskVector, UnmaskVector, GuestTypeOK
<1>8. CASE SendStep(Other) \/ OtherSends \/ TakeIrq \/ SwitchOther
  BY <1>8, NvmeStutters DEF SendStep, OtherSends, TakeIrq, SwitchOther
<1>9. QED BY <1>2, <1>3, <1>5, <1>6, <1>7, <1>8 DEF Next

(* ... and the types of the guest's state.                                 *)
LEMMA StepOfGuest ==
  ASSUME NvmeTypeOK, GuestTypeOK, Next
  PROVE  GuestTypeOK'
<1>1. CASE UNCHANGED guestVars
  BY <1>1 DEF guestVars, driverVars, GuestTypeOK
<1>2. CASE RecreateQueues
  BY <1>2, Sizes DEF RecreateQueues, GuestTypeOK
<1>3. CASE Consume
  <2>1. Wrap(head, CqSize) \in Entries
    BY Sizes, WrapType DEF GuestTypeOK, Entries
  <2>2. QED BY <1>3, <2>1 DEF Consume, GuestTypeOK
<1>4. CASE Place
  <2>1. Wrap(next, SqSize) \in Slots
    BY Sizes, WrapType DEF GuestTypeOK, Slots
  <2>2. QED BY <1>4, <2>1 DEF Place, GuestTypeOK
<1>5. CASE Claimed \/ PollEnd \/ TakeIrq \/ MaskVector \/ UnmaskVector \/ SwitchOther
  BY <1>5 DEF Claimed, PollEnd, TakeIrq, MaskVector, UnmaskVector, SwitchOther,
     driverVars, GuestTypeOK
<1>6. ASSUME NEW t, CommandStep(t)
      PROVE  UNCHANGED guestVars
  BY <1>6 DEF CommandStep, SendMsi, SendStep, CommandEnd
<1>7. ASSUME NEW w \in Workers, WorkerStep(w)
      PROVE  UNCHANGED guestVars
  BY <1>6, <1>7 DEF WorkerStep
<1>8. CASE DriverStep
  BY <1>1, <1>2, <1>6, <1>8 DEF DriverStep
<1>9. CASE HandlerStep
  BY <1>1, <1>3, <1>5, <1>9 DEF HandlerStep, SendStep, UnmaskEnd
<1>10. CASE SendStep(Other) \/ OtherSends \/ RingSq \/ ResetCtrl
  BY <1>1, <1>10 DEF SendStep, OtherSends, RingSq, ResetCtrl
<1>11. QED BY <1>1, <1>4, <1>5, <1>7, <1>8, <1>9, <1>10 DEF Next

-----------------------------------------------------------------------------
(* The inductive invariant: types, the exact count of the controller's     *)
(* threads (nvme_drain_sq, nvme_cmd_worker), and the cover of every        *)
(* pending steady identity (riscv_send_aia_irq against                     *)
(* riscv_update_aia_internal).                                             *)
THEOREM InductiveInvariant == Spec => []IInv
<1>1. Init => IInv
  <2>1. ASSUME Init
        PROVE  IInv
    BY <2>1, NvmeStarts, ImsicStarts, Sizes DEF Init, IInv, TypeOK
  <2>2. QED BY <2>1
<1>2. IInv /\ [Next]_vars => IInv'
  <2>1. ASSUME IInv, Next
        PROVE  IInv'
    <3>1. NvmeTypeOK /\ ImsicTypeOK /\ GuestTypeOK
      BY <2>1 DEF IInv, TypeOK, GuestTypeOK
    <3>2. NvmeTypeOK' /\ ThreadsExact'
      BY <2>1, <3>1, StepOfNvme DEF IInv
    <3>3. GuestTypeOK'
      BY <2>1, <3>1, StepOfGuest
    <3>4. ImsicTypeOK' /\ SteadyEnabled' /\ PendingCovered'
      <4>1. CASE ImsicStep
        BY <2>1, <3>1, <4>1, ImsicStepsKeep DEF IInv
      <4>2. CASE UNCHANGED irqVars
        BY <2>1, <3>1, <4>2 DEF IInv, irqVars, ImsicTypeOK, SteadyEnabled, PendingCovered, Covered
      <4>3. QED BY <2>1, <4>1, <4>2, StepOfImsic
    <3>5. QED BY <3>2, <3>3, <3>4 DEF IInv, TypeOK, GuestTypeOK
  <2>2. ASSUME IInv, UNCHANGED vars
        PROVE  IInv'
    <3>1. UNCHANGED nvmeVars /\ UNCHANGED irqVars /\ UNCHANGED guestVars
      BY <2>2 DEF vars
    <3>2. NvmeTypeOK' /\ ThreadsExact'
      BY <2>2, <3>1, NvmeStutters DEF IInv, TypeOK
    <3>3. ImsicTypeOK' /\ SteadyEnabled' /\ PendingCovered'
      BY <2>2, <3>1 DEF IInv, TypeOK, irqVars, ImsicTypeOK, SteadyEnabled, PendingCovered, Covered
    <3>4. QED BY <2>2, <3>1, <3>2, <3>3 DEF IInv, TypeOK, guestVars, driverVars
  <2>3. QED BY <2>1, <2>2
<1>3. QED BY <1>1, <1>2, PTL DEF Spec

(* Every variable stays in its range: in particular, the count of threads  *)
(* does not wrap below zero.                                               *)
THEOREM TypeCorrect == Spec => []TypeOK
<1>1. IInv => TypeOK
  BY DEF IInv
<1>2. QED BY <1>1, InductiveInvariant, PTL

(* No message of a steady identity is stranded, for any number of senders, *)
(* identities and registers.                                               *)
THEOREM MessagesCovered == Spec => []PendingCovered
<1>1. IInv => PendingCovered
  BY DEF IInv
<1>2. QED BY <1>1, InductiveInvariant, PTL

(* A controller that counts no threads has no task and no thread at work.  *)
LEMMA DisabledIsQuiet ==
  ASSUME IInv
  PROVE  ResetQuiet
<1>1. SUFFICES ASSUME door.at = "disabled"
               PROVE  tasks = <<>> /\ \A t \in Runners : run[t] = Resting
  BY DEF ResetQuiet
<1>2. Len(tasks) = 0 /\ Cardinality(Busy) = 0
  BY <1>1, BusyFinite DEF IInv, ThreadsExact, TypeOK, NvmeTypeOK
<1>3. tasks = <<>>
  BY <1>2 DEF IInv, TypeOK, NvmeTypeOK
<1>4. Busy = {}
  BY <1>2, BusyFinite, FS_EmptySet
<1>5. QED BY <1>3, <1>4 DEF IInv, ThreadsExact, Busy

(* nvme_reset resets the queues only when no thread has a command of the   *)
(* controller, for any number of pool threads and any pool capacity.       *)
THEOREM ResetsFindQuiet == Spec => []ResetQuiet
<1>1. IInv => ResetQuiet
  BY DisabledIsQuiet
<1>2. QED BY <1>1, InductiveInvariant, PTL

-----------------------------------------------------------------------------
(* Completions and the interrupt                                           *)

(* Every step of Next is one of the actions, for some thread.              *)
LEMMA NextActions ==
  ASSUME Next
  PROVE  \/ \E t \in Runners :
              \/ (Enqueue(t) \/ WriteEntry(t) \/ RaiseMasked(t) \/ SetPending(t))
                 /\ UNCHANGED <<irqVars, guestVars>>
              \/ SendMsi(t) \/ CommandEnd(t)
         \/ \E w \in Workers : TakeTask(w) /\ UNCHANGED <<irqVars, guestVars>>
         \/ \E t \in Senders : SendStep(t)
         \/ (Dequeue \/ CreateTask \/ ResetQueues \/ CqLower)
            /\ UNCHANGED <<irqVars, guestVars>>
         \/ Scanning /\ UNCHANGED <<nvmeVars, guestVars>>
         \/ RecreateQueues \/ UnmaskEnd \/ Claimed \/ Consume \/ PollEnd
         \/ Place \/ RingSq \/ ResetCtrl
         \/ TakeIrq \/ MaskVector \/ UnmaskVector \/ SwitchOther \/ OtherSends
<1>1. /\ Runners \subseteq Senders /\ Workers \subseteq Runners /\ Driver \in Runners
      /\ Handler \in Senders /\ Other \in Senders
  BY StorageAssumption DEF Runners
<1>2. ASSUME NEW t \in Runners, CommandStep(t)
      PROVE  \/ (Enqueue(t) \/ WriteEntry(t) \/ RaiseMasked(t) \/ SetPending(t))
                /\ UNCHANGED <<irqVars, guestVars>>
             \/ SendMsi(t) \/ CommandEnd(t) \/ SendStep(t)
  BY <1>2 DEF CommandStep
<1>3. CASE \E w \in Workers : WorkerStep(w)
  BY <1>1, <1>2, <1>3, Zenon DEF WorkerStep
<1>4. CASE DriverStep
  BY <1>1, <1>2, <1>4, Zenon DEF DriverStep
<1>5. CASE HandlerStep
  BY <1>1, <1>5, Zenon DEF HandlerStep
<1>6. CASE SendStep(Other)
  BY <1>1, <1>6
<1>7. QED
  BY <1>3, <1>4, <1>5, <1>6, Zenon DEF Next

(* The hart scans in an instruction of its interrupt handler that reads    *)
(* topei, or in a write to eie; only the first claims.                     *)
ScanOwned ==
  /\ isr \in {"topei", "eie"} <=> scan.at # "idle"
  /\ isr = "topei" /\ scan.at # "return" => scan.claim
  /\ scan.claim => isr = "topei"
  /\ scan.at = "claim" => scan.claim

(* An entry the guest has yet to look at was written by a thread that has  *)
(* still to send its message, or the message is pending, or claimed.       *)
(* Neither a thread that found the vector masked nor one that has set the  *)
(* identity and is about to raise the line counts: the handler may have    *)
(* unmasked, or claimed, and looked since.                                 *)
HeadNoticed ==
  (cqMem[head].phase = phase /\ ~masked /\ isr # "poll") =>
    \/ \E t \in Runners : run[t].at = "raise"
    \/ \E t \in Senders : send[t].at = "set" /\ send[t].id = NvmeId
    \/ NvmeId \in eip
    \/ isr = "topei" /\ scan.ret = NvmeId

(* Every step keeps who scans.                                             *)
LEMMA ScanOwnedStep ==
  ASSUME IInv, ScanOwned, [Next]_vars
  PROVE  ScanOwned'
<1>1. scan \in [at : {"idle", "clear", "scan", "claim", "signal", "return"},
                claim : BOOLEAN, reg : 0..LastReg, ret : Ids \cup {0},
                more : BOOLEAN]
  BY DEF IInv, TypeOK, ImsicTypeOK
<1>2. ASSUME UNCHANGED <<scan, isr>> PROVE ScanOwned'
  BY <1>2 DEF ScanOwned
<1>3. ASSUME Scanning, UNCHANGED isr PROVE ScanOwned'
  <2>1. CASE ScanClear
    BY <1>1, <1>3, <2>1 DEF ScanClear, ScanOwned
  <2>2. CASE ScanRegister
    BY <1>1, <1>3, <2>2 DEF ScanRegister, Advance, Returning, NotScanning, ScanOwned
  <2>3. CASE ScanClaim
    BY <1>1, <1>3, <2>3 DEF ScanClaim, Advance, Returning, NotScanning, ScanOwned
  <2>4. CASE ScanSignal
    BY <1>1, <1>3, <2>4 DEF ScanSignal, Returning, NotScanning, ScanOwned
  <2>5. QED
    BY <1>3, <2>1, <2>2, <2>3, <2>4 DEF Scanning
<1>4. ASSUME NEW t \in Senders, SendStep(t) PROVE ScanOwned'
  BY <1>2, <1>4 DEF SendStep, Sending, SendSet, SendSignal, guestVars
<1>5. CASE TakeIrq
  BY <1>5 DEF TakeIrq, TopeiAccess, NotScanning, ScanOwned
<1>6. CASE SwitchOther
  BY <1>6 DEF SwitchOther, EieWrite, NotScanning, ScanOwned
<1>7. CASE Claimed \/ MaskVector
  BY <1>7 DEF Claimed, MaskVector, ScanReturn, NotScanning, ScanOwned
<1>8. CASE PollEnd \/ UnmaskVector
  <2>1. isr \in {"idle", "poll"} /\ isr' \in {"idle", "poll"} /\ scan' = scan
    BY <1>8 DEF PollEnd, UnmaskVector, Rested, SendBegin, irqVars
  <2>2. QED
    BY <2>1 DEF ScanOwned
<1>9. CASE OtherSends \/ \E t \in Runners : SendMsi(t)
  BY <1>2, <1>9 DEF OtherSends, SendMsi, SendBegin, guestVars
<1>10. CASE UNCHANGED <<irqVars, isr>>
  BY <1>2, <1>10 DEF irqVars
<1>11. CASE RecreateQueues \/ Consume \/ Place \/ RingSq \/ ResetCtrl \/ UnmaskEnd
            \/ \E t \in Runners : CommandEnd(t)
  BY <1>10, <1>11 DEF RecreateQueues, Consume, Place, RingSq, ResetCtrl, UnmaskEnd,
     CommandEnd, guestVars
<1>12. CASE UNCHANGED vars
  BY <1>10, <1>12 DEF vars, guestVars
<1>13. UNCHANGED guestVars => UNCHANGED isr
  BY DEF guestVars
<1>14. QED
  BY <1>3, <1>4, <1>5, <1>6, <1>7, <1>8, <1>9, <1>10, <1>11, <1>12, <1>13,
     NextActions

(* Every step keeps the completion noticed.                                *)
LEMMA HeadNoticedStep ==
  ASSUME IInv, ScanOwned, HeadNoticed, [Next]_vars
  PROVE  HeadNoticed'
<1> DEFINE Told == \/ \E t \in Runners : run[t].at = "raise"
                   \/ \E t \in Senders : send[t].at = "set" /\ send[t].id = NvmeId
                   \/ NvmeId \in eip
                   \/ isr = "topei" /\ scan.ret = NvmeId
           New == cqMem[head].phase = phase /\ ~masked /\ isr # "poll"
<1>1. /\ scan \in [at : {"idle", "clear", "scan", "claim", "signal", "return"},
                   claim : BOOLEAN, reg : 0..LastReg, ret : Ids \cup {0},
                   more : BOOLEAN]
      /\ send \in [Senders -> {NotSending} \cup
                    [at : {"set", "signal"}, id : Ids, enabled : BOOLEAN]]
      /\ run \in [Runners -> [at : {"idle", "run", "write", "raise", "pend", "finish"},
                              slot : Slots, entry : Entries]]
      /\ Runners \subseteq Senders /\ Workers \subseteq Runners /\ Driver \in Runners
      /\ Handler \in Senders /\ NvmeId \in Ids /\ NvmeId # 0
  BY StorageAssumption, ImsicAssumption DEF IInv, TypeOK, ImsicTypeOK, NvmeTypeOK,
     Runners
<1>2. ASSUME New' => New, Told => Told' PROVE HeadNoticed'
  BY <1>2 DEF HeadNoticed
<1>3. ASSUME Told' \/ ~New' PROVE HeadNoticed'
  BY <1>3 DEF HeadNoticed
<1> HIDE DEF Told, New
<1>4. ASSUME UNCHANGED <<cqMem, head, phase, masked, isr>> PROVE New' => New
  BY <1>4 DEF New
<1>5. ASSUME UNCHANGED <<run, irqVars, isr>> PROVE Told => Told'
  BY <1>5 DEF Told, irqVars
(* Threads that complete a command.                                        *)
<1>6. ASSUME NEW t \in Runners, Enqueue(t) \/ SetPending(t) \/ CommandEnd(t),
             UNCHANGED <<irqVars, guestVars>>
      PROVE  HeadNoticed'
  <2>1. UNCHANGED <<cqMem, masked, head, phase, isr>>
    BY <1>6 DEF Enqueue, SetPending, CommandEnd, Finish, queueVars, msixVars, guestVars
  <2>2. run[t].at \in {"run", "pend", "finish"}
    BY <1>6 DEF Enqueue, SetPending, Goto, CommandEnd, Finish
  <2>3. \A u \in Runners \ {t} : run'[u] = run[u]
    BY <1>1, <1>6 DEF Enqueue, SetPending, Goto, CommandEnd, Finish
  <2>4. Told => Told'
    BY <1>6, <2>1, <2>2, <2>3 DEF Told, irqVars
  <2>5. QED
    BY <1>2, <1>4, <2>1, <2>4
<1>7. ASSUME NEW t \in Runners, WriteEntry(t) PROVE HeadNoticed'
  <2>1. run'[t].at = "raise"
    BY <1>1, <1>7 DEF WriteEntry, Resting
  <2>2. QED
    BY <1>3, <2>1 DEF Told
<1>8. ASSUME NEW t \in Runners, RaiseMasked(t) PROVE HeadNoticed'
  BY <1>3, <1>8 DEF RaiseMasked, New, msixVars
<1>9. ASSUME NEW t \in Runners, SendMsi(t) PROVE HeadNoticed'
  <2>1. send'[t].at = "set" /\ send'[t].id = NvmeId
    BY <1>1, <1>9 DEF SendMsi, SendBegin
  <2>2. QED
    BY <1>1, <1>3, <2>1 DEF Told
<1>10. ASSUME NEW w \in Workers, TakeTask(w), UNCHANGED <<irqVars, guestVars>>
       PROVE  HeadNoticed'
  <2>1. UNCHANGED <<cqMem, masked, head, phase, isr>>
    BY <1>10 DEF TakeTask, queueVars, msixVars, guestVars
  <2>2. run[w].at = "idle" /\ \A u \in Runners \ {w} : run'[u] = run[u]
    BY <1>1, <1>10 DEF TakeTask, Resting
  <2>3. Told => Told'
    BY <1>10, <2>1, <2>2 DEF Told, irqVars
  <2>4. QED
    BY <1>2, <1>4, <2>1, <2>3
(* Messages.                                                               *)
<1>11. ASSUME NEW t \in Senders, SendStep(t) PROVE HeadNoticed'
  <2>1. UNCHANGED <<cqMem, masked, head, phase, isr, run, scan>>
    BY <1>11 DEF SendStep, Sending, SendSet, SendSignal, nvmeVars, queueVars, msixVars,
       guestVars
  <2>2. CASE SendSet(t)
    <3>1. eip' = eip \cup {send[t].id} /\ \A u \in Senders \ {t} : send'[u] = send[u]
      BY <1>1, <2>2 DEF SendSet
    <3>2. Told => Told'
      BY <2>1, <3>1 DEF Told
    <3>3. QED
      BY <1>2, <1>4, <2>1, <3>2
  <2>3. CASE SendSignal(t)
    <3>1. /\ send[t].at = "signal" /\ eip' = eip
          /\ \A u \in Senders \ {t} : send'[u] = send[u]
      BY <1>1, <2>3 DEF SendSignal
    <3>2. Told => Told'
      BY <2>1, <3>1 DEF Told
    <3>3. QED
      BY <1>2, <1>4, <2>1, <3>2
  <2>4. QED
    BY <1>11, <2>2, <2>3 DEF SendStep, Sending
<1>12. ASSUME OtherSends PROVE HeadNoticed'
  <2>1. UNCHANGED <<cqMem, masked, head, phase, isr, run, scan, eip>>
    BY <1>12 DEF OtherSends, SendBegin, nvmeVars, queueVars, msixVars, guestVars
  <2>2. send[Other] = NotSending /\ \A u \in Senders \ {Other} : send'[u] = send[u]
    BY <1>1, <1>12 DEF OtherSends, SendBegin
  <2>3. Told => Told'
    BY <2>1, <2>2 DEF Told, NotSending
  <2>4. QED
    BY <1>2, <1>4, <2>1, <2>3
(* The hart's scan: what it clears in eip it returns.                      *)
<1>13. ASSUME Scanning, UNCHANGED <<nvmeVars, guestVars>> PROVE HeadNoticed'
  <2>1. UNCHANGED <<cqMem, masked, head, phase, isr, run, send>>
    BY <1>13 DEF Scanning, ScanClear, ScanRegister, ScanClaim, ScanSignal, nvmeVars,
       queueVars, msixVars, guestVars
  <2>2. CASE ScanClear
    <3>1. eip' = eip /\ scan'.ret = scan.ret
      BY <1>1, <2>2 DEF ScanClear
    <3>2. QED
      BY <1>2, <1>4, <2>1, <3>1 DEF Told
  <2>3. CASE ScanRegister
    <3>1. eip' = eip
      BY <2>3 DEF ScanRegister
    <3>2. isr = "topei" /\ scan.ret = NvmeId => scan'.ret = NvmeId
      BY <1>1, <2>3 DEF ScanRegister, Advance, Returning, NotScanning, ScanOwned
    <3>3. QED
      BY <1>2, <1>4, <2>1, <3>1, <3>2 DEF Told
  <2>4. CASE ScanClaim
    <3>1. eip' = eip \ {scan.ret} /\ isr = "topei"
      BY <2>4 DEF ScanClaim, ScanOwned
    <3>2. scan'.ret = scan.ret
      BY <1>1, <2>4 DEF ScanClaim, Advance, Returning, NotScanning, ScanOwned
    <3>3. QED
      BY <1>2, <1>4, <2>1, <3>1, <3>2 DEF Told
  <2>5. CASE ScanSignal
    <3>1. eip' = eip
      BY <2>5 DEF ScanSignal
    <3>2. isr = "topei" /\ scan.ret = NvmeId => scan'.ret = NvmeId
      BY <1>1, <2>5 DEF ScanSignal, Returning, NotScanning, ScanOwned
    <3>3. QED
      BY <1>2, <1>4, <2>1, <3>1, <3>2 DEF Told
  <2>6. QED
    BY <1>13, <2>2, <2>3, <2>4, <2>5 DEF Scanning
(* The driver.                                                             *)
<1>14. ASSUME \/ (Dequeue \/ ResetQueues \/ CqLower) /\ UNCHANGED <<irqVars, guestVars>>
              \/ UnmaskEnd \/ Place \/ RingSq \/ ResetCtrl
       PROVE  HeadNoticed'
  <2>1. UNCHANGED <<cqMem, masked, head, phase, isr, run, irqVars>>
    BY <1>14 DEF Dequeue, ResetQueues, CqLower, UnmaskEnd, ResendEnd, Place, RingSq,
       SqDoorbell, ResetCtrl, ResetBegin, queueVars, msixVars, guestVars
  <2>2. QED
    BY <1>2, <1>4, <1>5, <2>1
<1>15. ASSUME CreateTask, UNCHANGED <<irqVars, guestVars>> PROVE HeadNoticed'
  <2>1. UNCHANGED <<cqMem, masked, head, phase, isr>>
    BY <1>15 DEF CreateTask, queueVars, msixVars, guestVars
  <2>2. run[Driver].at = "idle"
    BY <1>1, <1>15 DEF CreateTask, IInv, ThreadsExact, Busy
  <2>3. \A u \in Runners \ {Driver} : run'[u] = run[u]
    BY <1>1, <1>15 DEF CreateTask, Queue, Inline
  <2>4. Told => Told'
    BY <1>15, <2>1, <2>2, <2>3 DEF Told, irqVars
  <2>5. QED
    BY <1>2, <1>4, <2>1, <2>4
<1>16. ASSUME RecreateQueues PROVE HeadNoticed'
  <2>1. cqMem'[head'].phase = 0 /\ phase' = 1
    BY <1>16, Sizes DEF RecreateQueues, Recreate
  <2>2. QED
    BY <1>3, <2>1 DEF New
(* The handler.                                                            *)
<1>17. ASSUME Claimed PROVE HeadNoticed'
  <2>1. UNCHANGED <<cqMem, masked, head, phase, run, send, eip>>
    BY <1>17 DEF Claimed, ScanReturn, nvmeVars, queueVars, msixVars
  <2>2. CASE isr = "topei" /\ scan.ret = NvmeId
    BY <1>3, <1>17, <2>2 DEF Claimed, New
  <2>3. CASE ~(isr = "topei" /\ scan.ret = NvmeId)
    <3>1. isr # "poll"
      BY <1>17 DEF Claimed, ScanReturn, ScanOwned
    <3>2. New' => New
      BY <2>1, <3>1 DEF New
    <3>3. Told => Told'
      BY <2>1, <2>3 DEF Told
    <3>4. QED
      BY <1>2, <3>2, <3>3
  <2>4. QED
    BY <2>2, <2>3
<1>18. ASSUME Consume \/ UnmaskVector PROVE HeadNoticed'
  BY <1>3, <1>18 DEF Consume, UnmaskVector, New
<1>19. ASSUME PollEnd PROVE HeadNoticed'
  <2>1. cqMem[head].phase # phase /\ UNCHANGED <<cqMem, head, phase>>
    BY <1>19 DEF PollEnd, CqDoorbell, nvmeVars, queueVars
  <2>2. QED
    BY <1>3, <2>1 DEF New
<1>20. ASSUME TakeIrq \/ SwitchOther PROVE HeadNoticed'
  <2>1. /\ isr = "idle" /\ UNCHANGED <<cqMem, masked, head, phase, run, send, eip>>
    BY <1>20 DEF TakeIrq, SwitchOther, Rested, TopeiAccess, EieWrite, nvmeVars,
       queueVars, msixVars
  <2>2. QED
    BY <1>2, <2>1 DEF New, Told
<1>21. ASSUME MaskVector PROVE HeadNoticed'
  BY <1>3, <1>21 DEF MaskVector, Mask, New
<1>22. ASSUME UNCHANGED vars PROVE HeadNoticed'
  BY <1>2, <1>4, <1>5, <1>22 DEF vars, nvmeVars, queueVars, msixVars, guestVars
<1>23. ASSUME NEW t \in Runners, CommandEnd(t) PROVE HeadNoticed'
  BY <1>6, <1>23 DEF CommandEnd
<1>24. QED
  BY <1>6, <1>7, <1>8, <1>9, <1>10, <1>11, <1>12, <1>13, <1>14, <1>15, <1>16, <1>17,
     <1>18, <1>19, <1>20, <1>21, <1>22, <1>23, NextActions, Zenon

(* No completion goes unnoticed, for any number of pool threads, senders   *)
(* and identities and any queue sizes: while the guest has an entry to     *)
(* consume, its interrupt is pending and the hart will come to it, or a    *)
(* thread has still to send it, unless the vector is masked or the guest   *)
(* is looking already (nvme_complete_cmd_cs, pci_func_send_msix_irq,       *)
(* riscv_send_aia_irq, riscv_update_aia_internal).                         *)
THEOREM CompletionsNoticed == Spec => []CompletionNoticed
<1>1. Init => ScanOwned /\ HeadNoticed
  <2> SUFFICES ASSUME Init PROVE ScanOwned /\ HeadNoticed
    OBVIOUS
  <2>1. ScanOwned
    BY DEF Init, ImsicInit, NotScanning, ScanOwned
  <2>2. cqMem[head].phase = 0 /\ phase = 1
    BY Sizes DEF Init, NvmeInit
  <2>3. QED
    BY <2>1, <2>2 DEF HeadNoticed
<1>2. IInv /\ ScanOwned /\ HeadNoticed /\ [Next]_vars => (ScanOwned /\ HeadNoticed)'
  BY ScanOwnedStep, HeadNoticedStep
<1>3. IInv /\ HeadNoticed => CompletionNoticed
  <2> SUFFICES ASSUME IInv, HeadNoticed, head \in Visible, ~masked, isr # "poll"
               PROVE  \/ Telling
                      \/ NvmeId \in eip /\ Covered(NvmeId)
                      \/ isr = "topei" /\ scan.ret = NvmeId
    BY DEF CompletionNoticed
  <2>1. head \in Entries /\ CqSize \in Nat
    BY Sizes DEF IInv, TypeOK
  <2>2. cqMem[head].phase = phase
    BY <2>1 DEF Visible, Expected, Entries
  <2>3. NvmeId \in eip => Covered(NvmeId)
    BY StorageAssumption DEF IInv, PendingCovered
  <2>4. QED
    BY <2>2, <2>3 DEF HeadNoticed, Telling
<1>4. QED
  BY <1>1, <1>2, <1>3, InductiveInvariant, PTL DEF Spec

-----------------------------------------------------------------------------
(* Rings                                                                   *)

(* How far index i is from index `from`, in the direction of the ring.     *)
Off(from, i, size) == IF from <= i THEN i - from ELSE i + size + 1 - from

(* Between is made of the indices that are nearer than its end.            *)
LEMMA BetweenOff ==
  ASSUME NEW size \in Nat, NEW from \in 0..size, NEW to \in 0..size
  PROVE  Between(from, to, size) =
           {i \in 0..size : Off(from, i, size) < Off(from, to, size)}
  BY DEF Between, Off

(* The end of a ring that is not full moves on.                            *)
LEMMA BetweenGrows ==
  ASSUME NEW size \in Nat, NEW from \in 0..size, NEW to \in 0..size,
         Wrap(to, size) # from
  PROVE  /\ Between(from, Wrap(to, size), size) = Between(from, to, size) \cup {to}
         /\ to \notin Between(from, to, size)
         /\ Off(from, Wrap(to, size), size) = Off(from, to, size) + 1
<1>1. Wrap(to, size) \in 0..size
  BY DEF Wrap
<1>2. Off(from, Wrap(to, size), size) = Off(from, to, size) + 1
  BY DEF Wrap, Off
<1>3. /\ Between(from, to, size) =
           {i \in 0..size : Off(from, i, size) < Off(from, to, size)}
      /\ Between(from, Wrap(to, size), size) =
           {i \in 0..size : Off(from, i, size) < Off(from, Wrap(to, size), size)}
  BY <1>1, BetweenOff
<1>4. \A i \in 0..size : Off(from, i, size) \in Nat
  BY DEF Off
<1>5. \A i \in 0..size : Off(from, i, size) = Off(from, to, size) => i = to
  BY DEF Off
<1>6. QED
  BY <1>2, <1>3, <1>4, <1>5

(* The start of a ring that is not empty moves on.                         *)
LEMMA BetweenShrinks ==
  ASSUME NEW size \in Nat, NEW from \in 0..size, NEW to \in 0..size, from # to
  PROVE  /\ from \in Between(from, to, size)
         /\ Between(Wrap(from, size), to, size) = Between(from, to, size) \ {from}
         /\ \A i \in 0..size :
              i # from => Off(Wrap(from, size), i, size) = Off(from, i, size) - 1
<1>1. Wrap(from, size) \in 0..size
  BY DEF Wrap
<1>2. \A i \in 0..size :
        i # from => Off(Wrap(from, size), i, size) = Off(from, i, size) - 1
  BY DEF Wrap, Off
<1>3. Off(from, from, size) = 0 /\ Off(Wrap(from, size), from, size) = size
  BY DEF Wrap, Off
<1>4. /\ Between(from, to, size) =
           {i \in 0..size : Off(from, i, size) < Off(from, to, size)}
      /\ Between(Wrap(from, size), to, size) =
           {i \in 0..size : Off(Wrap(from, size), i, size) < Off(Wrap(from, size), to, size)}
  BY <1>1, BetweenOff
<1>5. \A i \in 0..size :
        Off(from, i, size) \in 0..size /\ (Off(from, i, size) = 0 => i = from)
  BY DEF Off
<1>6. QED
  BY <1>2, <1>3, <1>4, <1>5

(* Nothing is between an index and itself; with one step left, everything. *)
LEMMA BetweenEnds ==
  ASSUME NEW size \in Nat, NEW from \in 0..size, NEW to \in 0..size
  PROVE  /\ Between(from, from, size) = {}
         /\ Between(from, to, size) \subseteq 0..size
         /\ Wrap(to, size) = from => Between(from, to, size) \cup {to} = 0..size
<1>1. Between(from, from, size) = {} /\ Between(from, to, size) \subseteq 0..size
  BY DEF Between
<1>2. ASSUME Wrap(to, size) = from
      PROVE  Between(from, to, size) \cup {to} = 0..size
  BY <1>2 DEF Wrap, Between
<1>3. QED
  BY <1>1, <1>2

(* A ring with more entries than there are tags has two with the same tag. *)
LEMMA TooManyTags ==
  ASSUME NEW size \in Nat, Cardinality(Tags) <= size, NEW f \in [0..size -> Tags]
  PROVE  \E i, j \in 0..size : i # j /\ f[i] = f[j]
<1>1. IsFiniteSet(0..size) /\ Cardinality(0..size) = size + 1
  BY FS_Interval
<1>2. IsFiniteSet(Tags) /\ Cardinality(Tags) \in Nat
  BY NvmeAssumption, FS_CardinalityType
<1>3. Cardinality(Tags) < Cardinality(0..size)
  BY <1>1, <1>2
<1>4. QED
  BY <1>1, <1>2, <1>3, FS_PigeonHole

-----------------------------------------------------------------------------
(* Where a command is                                                      *)

(* x has command c: a slot that was placed and not dequeued, a task of the *)
(* pool, the doorbell between dequeue and task, a thread until it has      *)
(* written the completion, or an entry the guest has yet to consume.       *)
InSq(x, c)   == x \in Between(sq.head, next, SqSize) /\ sqMem[x] = c
InPool(x, c) == x \in 1..Len(tasks) /\ sqMem[tasks[x]] = c
AtDoor(x, c) == x = 0 /\ door.at = "task" /\ sqMem[door.slot] = c
InRun(x, c)  == x \in InHand /\ sqMem[run[x].slot] = c
InCq(x, c)   == x \in Visible /\ cqMem[x].cid = c
Holds(k, x, c) ==
  \/ k = "sq" /\ InSq(x, c)
  \/ k = "pool" /\ InPool(x, c)
  \/ k = "door" /\ AtDoor(x, c)
  \/ k = "run" /\ InRun(x, c)
  \/ k = "cq" /\ InCq(x, c)

(* The commands the guest waits for, and no others, are each in one place. *)
Located ==
  /\ \A c \in out : \E k, x : Holds(k, x, c)
  /\ \A k, x, c : Holds(k, x, c) => c \in out
  /\ \A k, x, l, y, c : Holds(k, x, c) /\ Holds(l, y, c) => k = l /\ x = y

(* Each of them has one slot, which keeps it until it is consumed.         *)
SlotsOK ==
  /\ \A i, j \in Slots : sqMem[i] = sqMem[j] /\ sqMem[i] # None => i = j
  /\ \A i \in Slots : sqMem[i] # None => sqMem[i] \in out

(* The doorbell's tail is not ahead of what was placed.                    *)
DoorbellOK == Off(sq.head, sq.tail, SqSize) <= Off(sq.head, next, SqSize)

(* Entries that no thread has reserved do not have the phase the guest     *)
(* expects; those reserved and not written have one thread that will.      *)
PhasesOK ==
  /\ \A i \in Entries \ Reserved : cqMem[i].phase # Expected(i)
  /\ \A t \in Runners : run[t].at = "write" => run[t].entry \in Reserved \ Visible
  /\ \A t, u \in Runners :
       run[t].at = "write" /\ run[u].at = "write" /\ run[t].entry = run[u].entry
         => t = u
  /\ \A i \in Reserved \ Visible :
       \E t \in Runners : run[t].at = "write" /\ run[t].entry = i

Conserving == Located /\ SlotsOK /\ DoorbellOK /\ PhasesOK

(* A controller that is disabled has its queues at their start.            *)
CommandsOK ==
  /\ door.at = "disabled" => sq.head = 0 /\ sq.tail = 0 /\ cq.tail = 0
  /\ door.at # "disabled" => Conserving

(* A step that moves nothing keeps commands where they are.                *)
LEMMA NoneMoves ==
  ASSUME Located, out' = out,
         \A k, x, c : Holds(k, x, c)' <=> Holds(k, x, c)
  PROVE  Located'
  BY DEF Located

(* A step that moves one command from one place to another that is free.   *)
LEMMA OneMoves ==
  ASSUME Located, out' = out, NEW k0, NEW x0, NEW k1, NEW x1,
         ~(k0 = k1 /\ x0 = x1), \A c : ~Holds(k1, x1, c),
         \A k, x, c : Holds(k, x, c)' <=>
           \/ k = k1 /\ x = x1 /\ Holds(k0, x0, c)
           \/ Holds(k, x, c) /\ ~(k = k0 /\ x = x0)
  PROVE  Located'
<1>1. \A c \in out' : \E k, x : Holds(k, x, c)'
  <2> SUFFICES ASSUME NEW c \in out PROVE \E k, x : Holds(k, x, c)'
    OBVIOUS
  <2>1. PICK k, x : Holds(k, x, c)
    BY DEF Located
  <2>2. CASE k = k0 /\ x = x0
    BY <2>1, <2>2
  <2>3. CASE ~(k = k0 /\ x = x0)
    BY <2>1, <2>3
  <2>4. QED
    BY <2>2, <2>3
<1>2. \A k, x, c : Holds(k, x, c)' => c \in out'
  BY DEF Located
<1>3. \A k, x, l, y, c : Holds(k, x, c)' /\ Holds(l, y, c)' => k = l /\ x = y
  BY DEF Located
<1>4. QED
  BY <1>1, <1>2, <1>3 DEF Located

(* What a place depends on.                                                *)
LEMMA PlacesKept ==
  /\ UNCHANGED <<sqMem, next>> /\ sq'.head = sq.head =>
       \A x, c : InSq(x, c)' <=> InSq(x, c)
  /\ UNCHANGED <<sqMem, tasks>> => \A x, c : InPool(x, c)' <=> InPool(x, c)
  /\ UNCHANGED <<sqMem, door>> => \A x, c : AtDoor(x, c)' <=> AtDoor(x, c)
  /\ door.at # "task" /\ door'.at # "task" =>
       \A x, c : AtDoor(x, c)' <=> AtDoor(x, c)
  /\ UNCHANGED <<sqMem, run>> => \A x, c : InRun(x, c)' <=> InRun(x, c)
  /\ UNCHANGED <<cqMem, head, phase>> /\ cq'.tail = cq.tail =>
       /\ Reserved' = Reserved /\ Visible' = Visible
       /\ \A i : Expected(i)' = Expected(i)
       /\ \A x, c : InCq(x, c)' <=> InCq(x, c)
<1>1. UNCHANGED <<sqMem, next>> /\ sq'.head = sq.head =>
        \A x, c : InSq(x, c)' <=> InSq(x, c)
  BY DEF InSq, Between
<1>2. UNCHANGED <<cqMem, head, phase>> /\ cq'.tail = cq.tail =>
        /\ Reserved' = Reserved /\ Visible' = Visible
        /\ \A i : Expected(i)' = Expected(i)
  BY DEF Reserved, Visible, Expected, Between
<1>3. QED
  BY <1>1, <1>2 DEF InPool, AtDoor, InRun, InHand, InCq

(* The five kinds of places together.                                      *)
LEMMA HoldsByKind ==
  /\ \A x, c : Holds("sq", x, c) <=> InSq(x, c)
  /\ \A x, c : Holds("pool", x, c) <=> InPool(x, c)
  /\ \A x, c : Holds("door", x, c) <=> AtDoor(x, c)
  /\ \A x, c : Holds("run", x, c) <=> InRun(x, c)
  /\ \A x, c : Holds("cq", x, c) <=> InCq(x, c)
  BY DEF Holds

(* A thread that is about to complete a command finds a free entry: the    *)
(* reserved ones and its own command are different commands, and there are *)
(* no more of them than entries.                                           *)
LEMMA RoomToComplete ==
  ASSUME IInv, Conserving, NEW t \in Runners, run[t].at = "run"
  PROVE  Wrap(cq.tail, CqSize) # head
<1> SUFFICES ASSUME Wrap(cq.tail, CqSize) = head PROVE FALSE
  OBVIOUS
<1>1. /\ head \in 0..CqSize /\ cq.tail \in 0..CqSize /\ CqSize \in Nat
      /\ Cardinality(Tags) <= CqSize /\ out \subseteq Tags
  BY NvmeAssumption DEF IInv, TypeOK, NvmeTypeOK, Entries
<1>2. Reserved \cup {cq.tail} = 0..CqSize
  <2>1. Between(head, cq.tail, CqSize) \cup {cq.tail} = 0..CqSize
    BY <1>1, BetweenEnds
  <2>2. QED
    BY <2>1 DEF Reserved
<1> DEFINE Of(i, c) ==
      \/ i = cq.tail /\ i \notin Reserved /\ c = sqMem[run[t].slot]
      \/ i \in Visible /\ c = cqMem[i].cid
      \/ \E u \in Runners : /\ run[u].at = "write" /\ run[u].entry = i
                            /\ c = sqMem[run[u].slot]
<1>3. ASSUME NEW i \in 0..CqSize, NEW c, Of(i, c)
      PROVE  \E k, x : /\ Holds(k, x, c)
                       /\ \/ k = "run" /\ x = t /\ i = cq.tail
                          \/ k = "cq" /\ x = i
                          \/ k = "run" /\ run[x].at = "write" /\ run[x].entry = i
  <2>1. CASE i = cq.tail /\ c = sqMem[run[t].slot]
    <3>1. Holds("run", t, c)
      BY <2>1, HoldsByKind DEF InRun, InHand
    <3>2. QED
      BY <2>1, <3>1
  <2>2. CASE i \in Visible /\ c = cqMem[i].cid
    <3>1. Holds("cq", i, c)
      BY <2>2, HoldsByKind DEF InCq
    <3>2. QED
      BY <3>1
  <2>3. ASSUME NEW u \in Runners, run[u].at = "write", run[u].entry = i,
               c = sqMem[run[u].slot]
        PROVE  \E k, x : /\ Holds(k, x, c)
                         /\ \/ k = "run" /\ x = t /\ i = cq.tail
                            \/ k = "cq" /\ x = i
                            \/ k = "run" /\ run[x].at = "write" /\ run[x].entry = i
    <3>1. Holds("run", u, c)
      BY <2>3, HoldsByKind DEF InRun, InHand
    <3>2. QED
      BY <2>3, <3>1
  <2>4. QED
    BY <1>3, <2>1, <2>2, <2>3
<1>a. ASSUME NEW i \in 0..CqSize PROVE \E c : Of(i, c)
  BY <1>2 DEF Conserving, PhasesOK
<1> HIDE DEF Of
<1>4. \A i \in 0..CqSize : \E c \in Tags : Of(i, c)
  <2>1. ASSUME NEW i \in 0..CqSize, NEW c, Of(i, c) PROVE c \in Tags
    BY <1>1, <1>3, <2>1 DEF Conserving, Located
  <2>2. QED
    BY <1>a, <2>1
<1> DEFINE f == [i \in 0..CqSize |-> CHOOSE c \in Tags : Of(i, c)]
<1>5. f \in [0..CqSize -> Tags] /\ \A i \in 0..CqSize : Of(i, f[i])
  BY <1>4
<1> HIDE DEF f
<1>6. PICK i, j \in 0..CqSize : i # j /\ f[i] = f[j]
  BY <1>1, <1>5, TooManyTags
<1>7. PICK k, x : /\ Holds(k, x, f[i])
                  /\ \/ k = "run" /\ x = t /\ i = cq.tail
                     \/ k = "cq" /\ x = i
                     \/ k = "run" /\ run[x].at = "write" /\ run[x].entry = i
  BY <1>3, <1>5
<1>8. PICK l, y : /\ Holds(l, y, f[i])
                  /\ \/ l = "run" /\ y = t /\ j = cq.tail
                     \/ l = "cq" /\ y = j
                     \/ l = "run" /\ run[y].at = "write" /\ run[y].entry = j
  BY <1>3, <1>5, <1>6
<1>9. k = l /\ x = y
  BY <1>7, <1>8 DEF Conserving, Located
<1>10. QED
  BY <1>6, <1>7, <1>8, <1>9

-----------------------------------------------------------------------------
(* The steps                                                               *)

(* What the steps rest on, in one place.                                   *)
LEMMA TypesOf ==
  ASSUME IInv
  PROVE  /\ SqSize \in Nat /\ CqSize \in Nat
         /\ sqMem \in [0..SqSize -> Tags \cup {None}]
         /\ cqMem \in [0..CqSize -> [cid : Tags \cup {None}, phase : {0, 1}]]
         /\ sq \in [head : 0..SqSize, tail : 0..SqSize]
         /\ cq \in [head : 0..CqSize, tail : 0..CqSize]
         /\ tasks \in Seq(0..SqSize)
         /\ door \in [at : {"idle", "drain", "task", "inline", "reset", "disabled"},
                      slot : 0..SqSize]
         /\ run \in [Runners -> [at : {"idle", "run", "write", "raise", "pend", "finish"},
                                 slot : 0..SqSize, entry : 0..CqSize]]
         /\ out \subseteq Tags /\ None \notin Tags /\ next \in 0..SqSize
         /\ head \in 0..CqSize /\ phase \in {0, 1}
  BY NvmeAssumption DEF IInv, TypeOK, NvmeTypeOK, Slots, Entries

(* Steps that move no command: the doorbells, the interrupt and the end of *)
(* a command that is complete.                                             *)
LEMMA QuietStep ==
  ASSUME Conserving,
         UNCHANGED <<sqMem, cqMem, tasks, out, next, head, phase>>,
         sq'.head = sq.head, sq'.tail \in {sq.tail, next}, cq'.tail = cq.tail,
         UNCHANGED door \/ (door.at # "task" /\ door'.at # "task"),
         \A t \in Runners :
           \/ run'[t] = run[t]
           \/ run[t].at \notin {"run", "write"} /\ run'[t].at \notin {"run", "write"},
         IInv
  PROVE  Conserving'
<1>1. /\ \A x, c : InSq(x, c)' <=> InSq(x, c)
      /\ \A x, c : InPool(x, c)' <=> InPool(x, c)
      /\ \A x, c : AtDoor(x, c)' <=> AtDoor(x, c)
      /\ \A x, c : InCq(x, c)' <=> InCq(x, c)
      /\ Reserved' = Reserved /\ Visible' = Visible
      /\ \A i : Expected(i)' = Expected(i)
  BY PlacesKept
<1>2. \A x, c : InRun(x, c)' <=> InRun(x, c)
  BY DEF InRun, InHand
<1>3. Located'
  <2>1. \A k, x, c : Holds(k, x, c)' <=> Holds(k, x, c)
    BY <1>1, <1>2 DEF Holds
  <2>2. QED
    BY <2>1, NoneMoves DEF Conserving
<1>4. SlotsOK'
  BY DEF Conserving, SlotsOK
<1>5. DoorbellOK'
  <2>1. Off(sq.head, next, SqSize) \in Int
    BY TypesOf DEF Off
  <2>2. CASE sq'.tail = sq.tail
    BY <2>2 DEF Conserving, DoorbellOK, Off
  <2>3. CASE sq'.tail = next
    BY <2>1, <2>3 DEF DoorbellOK, Off
  <2>4. QED
    BY <2>2, <2>3
<1>6. PhasesOK'
  BY <1>1 DEF Conserving, PhasesOK
<1>7. QED
  BY <1>3, <1>4, <1>5, <1>6 DEF Conserving

(* A thread reserves an entry for its completion: it keeps its command,    *)
(* and the new entry does not show the phase the guest expects.            *)
LEMMA EnqueueStep ==
  ASSUME IInv, Conserving, NEW t \in Runners, Enqueue(t), UNCHANGED guestVars
  PROVE  Conserving'
<1>1. /\ run[t].at = "run"
      /\ run'[t].at = "write" /\ run'[t].entry = cq.tail /\ run'[t].slot = run[t].slot
      /\ \A u \in Runners : u # t => run'[u] = run[u]
      /\ cq'.tail = Wrap(cq.tail, CqSize)
      /\ UNCHANGED <<sqMem, cqMem, sq, tasks, door, out, next, head, phase>>
  BY TypesOf DEF Enqueue, doorVars, guestVars, driverVars
<1>2. Reserved' = Reserved \cup {cq.tail} /\ cq.tail \notin Reserved
  <2>1. Wrap(cq.tail, CqSize) # head
    BY <1>1, RoomToComplete
  <2>2. /\ Between(head, Wrap(cq.tail, CqSize), CqSize) =
             Between(head, cq.tail, CqSize) \cup {cq.tail}
        /\ cq.tail \notin Between(head, cq.tail, CqSize)
    BY <2>1, BetweenGrows, TypesOf
  <2>3. QED
    BY <1>1, <2>2 DEF Reserved
<1>3. \A i : Expected(i)' = Expected(i)
  BY <1>1 DEF Expected
<1>4. Visible' = Visible
  <2>1. cqMem[cq.tail].phase # Expected(cq.tail)
    BY <1>2, TypesOf DEF Conserving, PhasesOK, Entries
  <2>2. QED
    BY <1>1, <1>2, <1>3, <2>1 DEF Visible
<1>5. Located'
  <2>1. \A x, c : InRun(x, c)' <=> InRun(x, c)
    BY <1>1 DEF InRun, InHand
  <2>2. \A x, c : InCq(x, c)' <=> InCq(x, c)
    BY <1>1, <1>4 DEF InCq
  <2>3. \A k, x, c : Holds(k, x, c)' <=> Holds(k, x, c)
    BY <1>1, <2>1, <2>2, PlacesKept DEF Holds
  <2>4. QED
    BY <1>1, <2>3, NoneMoves DEF Conserving
<1>6. SlotsOK' /\ DoorbellOK'
  BY <1>1 DEF Conserving, SlotsOK, DoorbellOK, Off
<1>7. PhasesOK'
  <2>1. \A i \in Entries \ Reserved' : cqMem'[i].phase # Expected(i)'
    BY <1>1, <1>2, <1>3 DEF Conserving, PhasesOK
  <2>2. \A u \in Runners : run'[u].at = "write" => run'[u].entry \in Reserved' \ Visible'
    BY <1>1, <1>2, <1>4 DEF Conserving, PhasesOK, Visible
  <2>3. \A u, v \in Runners :
          run'[u].at = "write" /\ run'[v].at = "write" /\ run'[u].entry = run'[v].entry
            => u = v
    <3>1. \A u \in Runners :
            run'[u].at = "write" => (run'[u].entry = cq.tail <=> u = t)
      BY <1>1, <1>2 DEF Conserving, PhasesOK
    <3>2. QED
      BY <1>1, <3>1 DEF Conserving, PhasesOK
  <2>4. \A i \in Reserved' \ Visible' :
          \E u \in Runners : run'[u].at = "write" /\ run'[u].entry = i
    <3>1. ASSUME NEW i \in Reserved \ Visible
          PROVE  \E u \in Runners : run'[u].at = "write" /\ run'[u].entry = i
      <4>1. PICK u \in Runners : run[u].at = "write" /\ run[u].entry = i
        BY DEF Conserving, PhasesOK
      <4>2. u # t /\ run'[u] = run[u]
        BY <1>1, <4>1
      <4>3. QED
        BY <4>1, <4>2
    <3>2. QED
      BY <1>1, <1>2, <1>4, <3>1
  <2>5. QED
    BY <2>1, <2>2, <2>3, <2>4 DEF PhasesOK
<1>8. QED
  BY <1>5, <1>6, <1>7 DEF Conserving

(* It writes the completion: the command is in the entry from then on.     *)
LEMMA WriteEntryStep ==
  ASSUME IInv, Conserving, NEW t \in Runners, WriteEntry(t), UNCHANGED guestVars
  PROVE  Conserving'
<1> DEFINE e == run[t].entry
<1>1. /\ run[t].at = "write" /\ run'[t].at = "raise"
      /\ \A u \in Runners : u # t => run'[u] = run[u]
      /\ UNCHANGED <<sqMem, sq, cq, tasks, door, out, next, head, phase>>
  BY TypesOf DEF WriteEntry, Resting, doorVars, guestVars, driverVars
<1>2. /\ e \in 0..CqSize /\ e \in Reserved \ Visible
      /\ cqMem'[e] = [cid |-> sqMem[run[t].slot], phase |-> 1 - cqMem[e].phase]
      /\ \A i \in 0..CqSize : i # e => cqMem'[i] = cqMem[i]
  BY <1>1, TypesOf DEF WriteEntry, Conserving, PhasesOK
<1> HIDE DEF e
<1>3. /\ Reserved' = Reserved /\ Reserved \subseteq 0..CqSize
      /\ \A i : Expected(i)' = Expected(i)
      /\ \A i : Expected(i) \in {0, 1}
  <2>1. Between(head, cq.tail, CqSize) \subseteq 0..CqSize
    BY BetweenEnds, TypesOf
  <2>2. QED
    BY <1>1, <2>1, TypesOf DEF Reserved, Expected
<1>4. Visible' = Visible \cup {e}
  <2>1. cqMem[e].phase # Expected(e) /\ cqMem[e].phase \in {0, 1}
    BY <1>2, TypesOf DEF Visible
  <2>2. cqMem'[e].phase = Expected(e)
    BY <1>2, <1>3, <2>1
  <2>3. QED
    BY <1>2, <1>3, <2>2 DEF Visible
<1>5. Located'
  <2>1. \A x, c : InRun(x, c)' <=> InRun(x, c) /\ x # t
    BY <1>1 DEF InRun, InHand
  <2>2. \A x, c : InCq(x, c)' <=> InCq(x, c) \/ (x = e /\ InRun(t, c))
    <3>1. \A c : InRun(t, c) <=> sqMem[run[t].slot] = c
      BY <1>1 DEF InRun, InHand
    <3>2. cqMem'[e].cid = sqMem[run[t].slot] /\ e \notin Visible
      BY <1>2
    <3>3. \A x \in Visible : x # e /\ cqMem'[x] = cqMem[x]
      BY <1>2, <1>3 DEF Visible
    <3>4. QED
      BY <1>4, <3>1, <3>2, <3>3 DEF InCq
  <2>3. \A c : ~Holds("cq", e, c)
    BY <1>2, HoldsByKind DEF InCq
  <2>4. /\ \A x, c : InSq(x, c)' <=> InSq(x, c)
        /\ \A x, c : InPool(x, c)' <=> InPool(x, c)
        /\ \A x, c : AtDoor(x, c)' <=> AtDoor(x, c)
    BY <1>1, PlacesKept
  <2>5. \A k, x, c : Holds(k, x, c)' <=>
          \/ k = "cq" /\ x = e /\ Holds("run", t, c)
          \/ Holds(k, x, c) /\ ~(k = "run" /\ x = t)
    BY <2>1, <2>2, <2>4 DEF Holds
  <2>6. Located /\ ~("run" = "cq" /\ t = e)
    BY DEF Conserving
  <2>7. QED
    BY <1>1, <2>3, <2>5, <2>6, OneMoves, Zenon
<1>6. SlotsOK' /\ DoorbellOK'
  BY <1>1 DEF Conserving, SlotsOK, DoorbellOK, Off
<1>7. PhasesOK'
  <2>1. \A i \in Entries \ Reserved' : cqMem'[i].phase # Expected(i)'
    BY <1>2, <1>3 DEF Conserving, PhasesOK, Entries
  <2>2. \A u \in Runners : run'[u].at = "write" => u # t /\ run'[u] = run[u] /\ run[u].entry # e
    BY <1>1 DEF Conserving, PhasesOK, e
  <2>3. \A u \in Runners : run'[u].at = "write" => run'[u].entry \in Reserved' \ Visible'
    BY <1>3, <1>4, <2>2 DEF Conserving, PhasesOK
  <2>4. \A i \in Reserved' \ Visible' :
          \E u \in Runners : run'[u].at = "write" /\ run'[u].entry = i
    <3>1. ASSUME NEW i \in Reserved \ Visible, i # e
          PROVE  \E u \in Runners : run'[u].at = "write" /\ run'[u].entry = i
      <4>1. PICK u \in Runners : run[u].at = "write" /\ run[u].entry = i
        BY DEF Conserving, PhasesOK
      <4>2. u # t /\ run'[u] = run[u]
        BY <1>1, <3>1, <4>1 DEF e
      <4>3. QED
        BY <4>1, <4>2
    <3>2. QED
      BY <1>3, <1>4, <3>1
  <2>5. QED
    BY <2>1, <2>2, <2>3, <2>4 DEF Conserving, PhasesOK
<1>8. QED
  BY <1>5, <1>6, <1>7 DEF Conserving

(* The entries do not change with steps that neither reserve nor write     *)
(* one.                                                                    *)
LEMMA PhasesKept ==
  ASSUME PhasesOK, UNCHANGED <<cqMem, head, phase>>, cq'.tail = cq.tail,
         \A t \in Runners :
           run'[t] = run[t] \/ (run[t].at # "write" /\ run'[t].at # "write")
  PROVE  PhasesOK'
<1>1. Reserved' = Reserved /\ Visible' = Visible /\ \A i : Expected(i)' = Expected(i)
  BY PlacesKept
<1>2. QED
  BY <1>1 DEF PhasesOK

(* A pool thread takes the first task, and with it the command; the tasks  *)
(* behind it move up.                                                      *)
LEMMA TakeTaskStep ==
  ASSUME IInv, Conserving, NEW w \in Runners, TakeTask(w), UNCHANGED guestVars
  PROVE  Conserving'
<1>1. /\ tasks # <<>> /\ tasks' = Tail(tasks)
      /\ run[w].at = "idle" /\ run'[w].at = "run" /\ run'[w].slot = Head(tasks)
      /\ \A u \in Runners : u # w => run'[u] = run[u]
      /\ UNCHANGED <<sqMem, cqMem, sq, cq, door, out, next, head, phase>>
  BY TypesOf DEF TakeTask, Resting, Running, queueVars, guestVars, driverVars
<1>2. /\ Len(tasks) \in Nat \ {0} /\ Len(tasks') = Len(tasks) - 1
      /\ Head(tasks) = tasks[1]
      /\ \A i \in 1..Len(tasks') : tasks'[i] = tasks[i + 1]
  BY <1>1, TypesOf
<1>3. /\ \A x, c : InSq(x, c)' <=> InSq(x, c)
      /\ \A x, c : AtDoor(x, c)' <=> AtDoor(x, c)
      /\ \A x, c : InCq(x, c)' <=> InCq(x, c)
  BY <1>1, PlacesKept
<1>4. \A x, c : InPool(x, c)' <=> x \in Nat /\ x # 0 /\ InPool(x + 1, c)
  BY <1>1, <1>2 DEF InPool
<1>5. \A x, c : InRun(x, c)' <=> InRun(x, c) \/ (x = w /\ InPool(1, c))
  BY <1>1, <1>2 DEF InRun, InHand, InPool
<1>6. /\ \A c : ~InRun(w, c)
      /\ \A x, c : InPool(x, c) => x \in Nat /\ (x = 1 \/ (x - 1 \in Nat /\ x - 1 # 0))
  BY <1>1, <1>2 DEF InRun, InHand, InPool
<1>7. Located'
  <2>1. Located
    BY DEF Conserving
  <2>2. ASSUME NEW c \in out
        PROVE  \E k, x : Holds(k, x, c)'
    <3>1. PICK k, x : Holds(k, x, c)
      BY <2>1 DEF Located
    <3>2. CASE InPool(x, c) /\ x = 1
      <4>1. Holds("run", w, c)'
        BY <1>5, <3>2 DEF Holds
      <4>2. QED
        BY <4>1
    <3>3. CASE InPool(x, c) /\ x # 1
      <4>1. x - 1 \in Nat /\ x - 1 # 0 /\ (x - 1) + 1 = x
        BY <1>6, <3>3
      <4>2. Holds("pool", x - 1, c)'
        BY <1>4, <3>3, <4>1 DEF Holds
      <4>3. QED
        BY <4>2
    <3>4. CASE ~InPool(x, c)
      <4>1. Holds(k, x, c)'
        BY <1>3, <1>5, <3>1, <3>4 DEF Holds
      <4>2. QED
        BY <4>1
    <3>5. QED
      BY <3>2, <3>3, <3>4
  <2>3. ASSUME NEW k, NEW x, NEW c, Holds(k, x, c)'
        PROVE  \/ Holds(k, x, c) /\ k # "pool"
               \/ k = "run" /\ x = w /\ Holds("pool", 1, c)
               \/ k = "pool" /\ x \in Nat /\ x # 0 /\ Holds("pool", x + 1, c)
    BY <1>3, <1>4, <1>5, <2>3 DEF Holds
  <2>4. \A k, x, c : Holds(k, x, c)' => c \in out
    BY <2>1, <2>3 DEF Located
  <2>5. ASSUME NEW k, NEW x, NEW l, NEW y, NEW c, Holds(k, x, c)', Holds(l, y, c)'
        PROVE  k = l /\ x = y
    <3>1. /\ \A m, z : Holds(m, z, c) /\ Holds("pool", 1, c) => m = "pool" /\ z = 1
          /\ \A m, n, z, v : Holds(m, z, c) /\ Holds(n, v, c) => m = n /\ z = v
      BY <2>1 DEF Located
    <3>2. \/ Holds(k, x, c) /\ k # "pool"
          \/ k = "run" /\ x = w /\ Holds("pool", 1, c)
          \/ k = "pool" /\ x \in Nat /\ x # 0 /\ Holds("pool", x + 1, c)
      BY <2>3, <2>5
    <3>3. \/ Holds(l, y, c) /\ l # "pool"
          \/ l = "run" /\ y = w /\ Holds("pool", 1, c)
          \/ l = "pool" /\ y \in Nat /\ y # 0 /\ Holds("pool", y + 1, c)
      BY <2>3, <2>5
    <3>4. QED
      BY <3>1, <3>2, <3>3
  <2>6. QED
    BY <1>1, <2>2, <2>4, <2>5 DEF Located
<1>8. SlotsOK' /\ DoorbellOK' /\ PhasesOK'
  BY <1>1, PhasesKept DEF Conserving, SlotsOK, DoorbellOK, Off
<1>9. QED
  BY <1>7, <1>8 DEF Conserving

(* The doorbell's hart dequeues the command at the head, or finds the      *)
(* queue empty.                                                            *)
LEMMA DequeueStep ==
  ASSUME IInv, Conserving, Dequeue, UNCHANGED guestVars
  PROVE  Conserving'
<1>1. /\ door.at = "drain"
      /\ UNCHANGED <<sqMem, cqMem, cq, tasks, run, out, next, head, phase>>
  BY DEF Dequeue, guestVars, driverVars
<1>2. CASE sq.head = sq.tail
  <2>1. sq' = sq /\ door'.at = "idle"
    BY <1>2 DEF Dequeue
  <2>2. QED
    BY <1>1, <2>1, QuietStep
<1>3. CASE sq.head # sq.tail
  <2>1. /\ door'.at = "task" /\ door'.slot = sq.head
        /\ sq'.head = Wrap(sq.head, SqSize) /\ sq'.tail = sq.tail
    BY <1>3, TypesOf DEF Dequeue
  <2>2. /\ sq.head \in 0..SqSize /\ sq.tail \in 0..SqSize /\ next \in 0..SqSize
        /\ SqSize \in Nat
    BY TypesOf
  <2>3. sq.head # next
    BY <1>3, <2>2 DEF Conserving, DoorbellOK, Off
  <2>4. /\ sq.head \in Between(sq.head, next, SqSize)
        /\ Between(Wrap(sq.head, SqSize), next, SqSize) = Between(sq.head, next, SqSize) \ {sq.head}
        /\ \A i \in 0..SqSize : i # sq.head =>
             Off(Wrap(sq.head, SqSize), i, SqSize) = Off(sq.head, i, SqSize) - 1
    BY <2>2, <2>3, BetweenShrinks
  <2>5. /\ \A x, c : InSq(x, c)' <=> InSq(x, c) /\ x # sq.head
        /\ \A x, c : AtDoor(x, c)' <=> x = 0 /\ InSq(sq.head, c)
        /\ \A x, c : ~AtDoor(x, c)
    BY <1>1, <2>1, <2>4 DEF InSq, AtDoor
  <2>6. /\ \A x, c : InPool(x, c)' <=> InPool(x, c)
        /\ \A x, c : InRun(x, c)' <=> InRun(x, c)
        /\ \A x, c : InCq(x, c)' <=> InCq(x, c)
    BY <1>1, PlacesKept
  <2>7. Located'
    <3>1. \A k, x, c : Holds(k, x, c)' <=>
            \/ k = "door" /\ x = 0 /\ Holds("sq", sq.head, c)
            \/ Holds(k, x, c) /\ ~(k = "sq" /\ x = sq.head)
      BY <2>5, <2>6 DEF Holds
    <3>2. \A c : ~Holds("door", 0, c)
      BY <2>5 DEF Holds
    <3>3. Located /\ out' = out /\ ~("sq" = "door" /\ sq.head = 0)
      BY <1>1 DEF Conserving
    <3>4. QED
      BY <3>1, <3>2, <3>3, OneMoves, Zenon
  <2>8. DoorbellOK'
    <3>1. /\ Off(sq'.head, sq.tail, SqSize) = Off(sq.head, sq.tail, SqSize) - 1
          /\ Off(sq'.head, next, SqSize) = Off(sq.head, next, SqSize) - 1
      BY <1>3, <2>1, <2>2, <2>3, <2>4
    <3>2. Off(sq.head, sq.tail, SqSize) \in Int /\ Off(sq.head, next, SqSize) \in Int
      BY <2>2 DEF Off
    <3>3. Off(sq.head, sq.tail, SqSize) - 1 <= Off(sq.head, next, SqSize) - 1
      BY <3>2 DEF Conserving, DoorbellOK
    <3>4. Off(sq'.head, sq'.tail, SqSize) <= Off(sq'.head, next', SqSize)
      BY <1>1, <2>1, <3>1, <3>3
    <3>5. QED
      BY <3>4 DEF DoorbellOK, Off
  <2>9. SlotsOK' /\ PhasesOK'
    BY <1>1, PhasesKept DEF Conserving, SlotsOK
  <2>10. QED
    BY <2>7, <2>8, <2>9 DEF Conserving
<1>4. QED
  BY <1>2, <1>3

(* It makes a task of the command, or runs it itself.                      *)
LEMMA CreateTaskStep ==
  ASSUME IInv, Conserving, CreateTask, UNCHANGED guestVars
  PROVE  Conserving'
<1>1. /\ door.at = "task" /\ door'.at # "task"
      /\ UNCHANGED <<sqMem, cqMem, sq, cq, out, next, head, phase>>
  BY DEF CreateTask, Queue, Inline, queueVars, guestVars, driverVars
<1>2. /\ \A x, c : InSq(x, c)' <=> InSq(x, c)
      /\ \A x, c : InCq(x, c)' <=> InCq(x, c)
      /\ \A x, c : ~AtDoor(x, c)'
      /\ \A x, c : AtDoor(x, c) <=> x = 0 /\ sqMem[door.slot] = c
  BY <1>1, PlacesKept DEF AtDoor
<1>3. SlotsOK' /\ DoorbellOK' /\ Located /\ PhasesOK
  BY <1>1 DEF Conserving, SlotsOK, DoorbellOK, Off
<1>4. CASE Queue(door.slot)
  <2>1. tasks' = Append(tasks, door.slot) /\ run' = run
    BY <1>4 DEF Queue
  <2> DEFINE n == Len(tasks) + 1
  <2>2. /\ n \in Nat /\ Len(tasks') = n /\ tasks'[n] = door.slot
        /\ \A i \in 1..Len(tasks) : i # n /\ tasks'[i] = tasks[i]
        /\ 1..n = (1..Len(tasks)) \cup {n} /\ n \notin 1..Len(tasks)
    BY <2>1, TypesOf
  <2> HIDE DEF n
  <2>3. /\ \A x, c : InPool(x, c)' <=> InPool(x, c) \/ (x = n /\ AtDoor(0, c))
        /\ \A c : ~InPool(n, c)
    BY <1>1, <1>2, <2>2 DEF InPool
  <2>4. \A x, c : InRun(x, c)' <=> InRun(x, c)
    BY <1>1, <2>1, PlacesKept
  <2>5. Located'
    <3>1. \A k, x, c : Holds(k, x, c)' <=>
            \/ k = "pool" /\ x = n /\ Holds("door", 0, c)
            \/ Holds(k, x, c) /\ ~(k = "door" /\ x = 0)
      BY <1>2, <2>3, <2>4 DEF Holds
    <3>2. \A c : ~Holds("pool", n, c)
      BY <2>3 DEF Holds
    <3>3. Located /\ out' = out /\ ~("door" = "pool" /\ 0 = n)
      BY <1>1, <1>3
    <3>4. QED
      BY <3>1, <3>2, <3>3, OneMoves, Zenon
  <2>6. PhasesOK'
    BY <1>1, <1>3, <2>1, PhasesKept
  <2>7. QED
    BY <1>3, <2>5, <2>6 DEF Conserving
<1>5. CASE Inline(door.slot)
  <2>1. run[Driver].at = "idle"
    BY <1>1, Sizes DEF IInv, ThreadsExact, Busy
  <2>2. /\ tasks' = tasks /\ Driver \in Runners
        /\ run'[Driver].at = "run" /\ run'[Driver].slot = door.slot
        /\ \A u \in Runners : u # Driver => run'[u] = run[u]
    BY <1>5, TypesOf, Sizes DEF Inline, Running
  <2>3. /\ \A x, c : InRun(x, c)' <=> InRun(x, c) \/ (x = Driver /\ AtDoor(0, c))
        /\ \A c : ~InRun(Driver, c)
    BY <1>1, <1>2, <2>1, <2>2 DEF InRun, InHand
  <2>4. \A x, c : InPool(x, c)' <=> InPool(x, c)
    BY <1>1, <2>2, PlacesKept
  <2>5. Located'
    <3>1. \A k, x, c : Holds(k, x, c)' <=>
            \/ k = "run" /\ x = Driver /\ Holds("door", 0, c)
            \/ Holds(k, x, c) /\ ~(k = "door" /\ x = 0)
      BY <1>2, <2>3, <2>4 DEF Holds
    <3>2. \A c : ~Holds("run", Driver, c)
      BY <2>3 DEF Holds
    <3>3. Located /\ out' = out /\ ~("door" = "run" /\ 0 = Driver)
      BY <1>1, <1>3
    <3>4. QED
      BY <3>1, <3>2, <3>3, OneMoves, Zenon
  <2>6. PhasesOK'
    BY <1>1, <1>3, <2>1, <2>2, PhasesKept
  <2>7. QED
    BY <1>3, <2>5, <2>6 DEF Conserving
<1>6. QED
  BY <1>4, <1>5 DEF CreateTask

(* The guest places a command: a tag it does not wait for, in a slot that  *)
(* no command uses.  The ring never looks empty for being full, because it *)
(* has more slots than there are tags.                                     *)
LEMMA PlaceStep ==
  ASSUME IInv, Conserving, Place
  PROVE  Conserving'
<1>1. PICK c \in Tags \ out : sqMem' = [sqMem EXCEPT ![next] = c] /\ out' = out \cup {c}
  BY DEF Place
<1>2. /\ door.at = "idle" /\ sqMem[next] = None /\ next' = Wrap(next, SqSize)
      /\ UNCHANGED <<cqMem, sq, cq, tasks, door, run, head, phase>>
  BY DEF Place, doorVars
<1>3. /\ sqMem'[next] = c /\ c \notin out /\ c # None
      /\ \A i \in 0..SqSize : i # next => sqMem'[i] = sqMem[i]
      /\ next \in 0..SqSize /\ sq.head \in 0..SqSize /\ SqSize \in Nat
  BY <1>1, TypesOf
<1>4. SlotsOK'
  <2>1. /\ \A i, j \in 0..SqSize : sqMem[i] = sqMem[j] /\ sqMem[i] # None => i = j
        /\ \A i \in 0..SqSize : sqMem[i] # None => sqMem[i] \in out
    BY DEF Conserving, SlotsOK, Slots
  <2>2. /\ \A i, j \in 0..SqSize : sqMem'[i] = sqMem'[j] /\ sqMem'[i] # None => i = j
        /\ \A i \in 0..SqSize : sqMem'[i] # None => sqMem'[i] \in out'
    BY <1>1, <1>3, <2>1
  <2>3. QED
    BY <2>2 DEF SlotsOK, Slots
<1>5. \A x \in Between(sq.head, next, SqSize) : sqMem[x] \in out
  BY DEF Conserving, Located, Holds, InSq
<1>6. Wrap(next, SqSize) # sq.head
  <2> SUFFICES ASSUME Wrap(next, SqSize) = sq.head PROVE FALSE
    OBVIOUS
  <2>1. Between(sq.head, next, SqSize) \cup {next} = 0..SqSize
    BY <1>3, BetweenEnds
  <2>2. \A i \in 0..SqSize : sqMem'[i] \in Tags
    BY <1>1, <1>3, <1>5, <2>1, TypesOf
  <2>3. sqMem' \in [0..SqSize -> Tags]
    BY <1>1, <2>2, TypesOf
  <2>4. PICK i, j \in 0..SqSize : i # j /\ sqMem'[i] = sqMem'[j]
    BY <1>3, <2>3, TooManyTags, NvmeAssumption
  <2>5. sqMem'[i] # None
    BY <2>2, NvmeAssumption
  <2>6. QED
    BY <1>4, <2>4, <2>5 DEF SlotsOK, Slots
<1>7. /\ Between(sq.head, next', SqSize) = Between(sq.head, next, SqSize) \cup {next}
      /\ next \notin Between(sq.head, next, SqSize)
      /\ Off(sq.head, next', SqSize) = Off(sq.head, next, SqSize) + 1
  BY <1>2, <1>3, <1>6, BetweenGrows
<1>8. Between(sq.head, next, SqSize) \subseteq 0..SqSize
  BY <1>3, BetweenEnds
<1>9. \A x, d : InSq(x, d)' <=> InSq(x, d) \/ (x = next /\ d = c)
  <2>1. Between(sq.head, next, SqSize)' = Between(sq.head, next, SqSize) \cup {next}
    BY <1>2, <1>7 DEF Between
  <2>2. QED
    BY <1>3, <1>7, <1>8, <2>1 DEF InSq
<1>10. \A s \in 0..SqSize : sqMem[s] \in out => sqMem'[s] = sqMem[s]
  BY <1>2, <1>3, TypesOf
<1>11. \A x, d : InPool(x, d)' <=> InPool(x, d)
  <2>1. \A x \in 1..Len(tasks) : sqMem[tasks[x]] \in out
    BY DEF Conserving, Located, Holds, InPool
  <2>2. \A x \in 1..Len(tasks) : tasks[x] \in 0..SqSize
    BY TypesOf
  <2>3. QED
    BY <1>2, <1>10, <2>1, <2>2 DEF InPool
<1>12. \A x, d : InRun(x, d)' <=> InRun(x, d)
  <2>1. \A x \in InHand : sqMem[run[x].slot] \in out
    BY DEF Conserving, Located, Holds, InRun
  <2>2. \A x \in InHand : run[x].slot \in 0..SqSize
    BY TypesOf DEF InHand
  <2>3. InHand' = InHand
    BY <1>2 DEF InHand
  <2>4. QED
    BY <1>2, <1>10, <2>1, <2>2, <2>3 DEF InRun
<1>13. /\ \A x, d : AtDoor(x, d)' <=> AtDoor(x, d)
       /\ \A x, d : InCq(x, d)' <=> InCq(x, d)
  BY <1>2, PlacesKept
<1>14. Located'
  <2>1. \A k, x, d : Holds(k, x, d)' <=>
          Holds(k, x, d) \/ (k = "sq" /\ x = next /\ d = c)
    BY <1>9, <1>11, <1>12, <1>13 DEF Holds
  <2>2. Located /\ \A k, x : ~Holds(k, x, c)
    BY <1>3 DEF Conserving, Located
  <2>3. \A d \in out' : \E k, x : Holds(k, x, d)'
    BY <1>1, <2>1, <2>2 DEF Located
  <2>4. \A k, x, d : Holds(k, x, d)' => d \in out'
    BY <1>1, <2>1, <2>2 DEF Located
  <2>5. \A k, x, l, y, d : Holds(k, x, d)' /\ Holds(l, y, d)' => k = l /\ x = y
    BY <2>1, <2>2 DEF Located
  <2>6. QED
    BY <2>3, <2>4, <2>5 DEF Located
<1>15. DoorbellOK'
  <2>1. sq.tail \in 0..SqSize
    BY TypesOf
  <2>2. Off(sq.head, sq.tail, SqSize) \in Int /\ Off(sq.head, next, SqSize) \in Int
    BY <1>3, <2>1 DEF Off
  <2>3. Off(sq.head, sq.tail, SqSize) <= Off(sq.head, next', SqSize)
    BY <1>7, <2>2 DEF Conserving, DoorbellOK
  <2>4. QED
    BY <1>2, <2>3 DEF DoorbellOK, Off
<1>16. PhasesOK'
  BY <1>2, PhasesKept DEF Conserving
<1>17. QED
  BY <1>4, <1>14, <1>15, <1>16 DEF Conserving

(* The guest consumes the entry at the head of the completion queue: that  *)
(* was its command's one place.                                            *)
LEMMA ConsumeStep ==
  ASSUME IInv, Conserving, Consume
  PROVE  Conserving'
<1> DEFINE c == cqMem[head].cid
<1>1. /\ cqMem[head].phase = phase /\ out' = out \ {c}
      /\ head' = Wrap(head, CqSize)
      /\ phase' = IF head < CqSize THEN phase ELSE 1 - phase
      /\ UNCHANGED <<sq, cq, tasks, door, run, next>>
  BY DEF Consume, doorVars
<1>2. /\ head \in 0..CqSize /\ phase \in {0, 1} /\ cq.tail \in 0..CqSize /\ CqSize \in Nat
      /\ None \notin Tags /\ out \subseteq Tags
  BY TypesOf
<1>3. \A i \in 0..SqSize : sqMem'[i] = IF sqMem[i] = c THEN None ELSE sqMem[i]
  BY DEF Consume, Slots
<1>4. /\ \A i \in 0..CqSize : cqMem'[i].phase = cqMem[i].phase
      /\ \A i \in 0..CqSize : i # head => cqMem'[i] = cqMem[i]
  BY TypesOf DEF Consume
<1> HIDE DEF c
<1>5. head \in Visible
  <2>1. Expected(head) = phase
    BY <1>2 DEF Expected
  <2>2. head \in Reserved
    BY <1>1, <1>2, <2>1 DEF Conserving, PhasesOK, Entries
  <2>3. QED
    BY <1>1, <2>1, <2>2 DEF Visible
<1>6. Reserved' = Reserved \ {head} /\ Reserved \subseteq 0..CqSize
  <2>1. Between(head, head, CqSize) = {} /\ Between(head, cq.tail, CqSize) \subseteq 0..CqSize
    BY <1>2, BetweenEnds
  <2>2. head # cq.tail
    BY <1>5, <2>1 DEF Visible, Reserved
  <2>3. Between(Wrap(head, CqSize), cq.tail, CqSize) = Between(head, cq.tail, CqSize) \ {head}
    BY <1>2, <2>2, BetweenShrinks
  <2>4. QED
    BY <1>1, <2>1, <2>3 DEF Reserved
<1>7. /\ \A i \in 0..CqSize : i # head => Expected(i)' = Expected(i)
      /\ \A i \in 0..CqSize : i = head => Expected(i)' # phase
  <2>1. /\ \A i \in 0..CqSize : i # head =>
             (IF i >= head' THEN phase' ELSE 1 - phase') = (IF i >= head THEN phase ELSE 1 - phase)
        /\ (IF head >= head' THEN phase' ELSE 1 - phase') # phase
    BY <1>1, <1>2 DEF Wrap
  <2>2. \A i \in 0..CqSize : Expected(i)' = IF i >= head' THEN phase' ELSE 1 - phase'
    BY DEF Expected
  <2>3. QED
    BY <1>2, <2>1, <2>2 DEF Expected
<1>8. Visible' = Visible \ {head}
  BY <1>4, <1>6, <1>7 DEF Visible
<1>9. Holds("cq", head, c) /\ c \in out /\ c # None
  <2>1. Holds("cq", head, c)
    BY <1>5 DEF Holds, InCq, c
  <2>2. QED
    BY <1>2, <2>1 DEF Conserving, Located
<1>10. \A k, x : Holds(k, x, c) => k = "cq" /\ x = head
  BY <1>9 DEF Conserving, Located
<1>11. \A x, d : InSq(x, d)' <=> InSq(x, d)
  <2>1. Between(sq.head, next, SqSize) \subseteq 0..SqSize
    BY TypesOf, BetweenEnds
  <2>2. \A x \in Between(sq.head, next, SqSize) : sqMem[x] # c
    BY <1>10 DEF Holds, InSq
  <2>3. Between(sq.head, next, SqSize)' = Between(sq.head, next, SqSize)
    BY <1>1 DEF Between
  <2>4. QED
    BY <1>3, <2>1, <2>2, <2>3 DEF InSq
<1>12. \A x, d : InPool(x, d)' <=> InPool(x, d)
  <2>1. \A x \in 1..Len(tasks) : sqMem[tasks[x]] # c
    <3>1. \A x : InPool(x, c) => Holds("pool", x, c)
      BY DEF Holds
    <3>2. QED
      BY <1>10, <3>1 DEF InPool
  <2>2. \A x \in 1..Len(tasks) : tasks[x] \in 0..SqSize
    BY TypesOf
  <2>3. QED
    BY <1>1, <1>3, <2>1, <2>2 DEF InPool
<1>13. \A x, d : AtDoor(x, d)' <=> AtDoor(x, d)
  <2>1. door.at = "task" => sqMem[door.slot] # c
    BY <1>10 DEF Holds, AtDoor
  <2>2. door.slot \in 0..SqSize
    BY TypesOf
  <2>3. QED
    BY <1>1, <1>3, <2>1, <2>2 DEF AtDoor
<1>14. \A x, d : InRun(x, d)' <=> InRun(x, d)
  <2>1. \A x \in InHand : sqMem[run[x].slot] # c
    BY <1>10 DEF Holds, InRun
  <2>2. \A x \in InHand : run[x].slot \in 0..SqSize
    BY TypesOf DEF InHand
  <2>3. InHand' = InHand
    BY <1>1 DEF InHand
  <2>4. QED
    BY <1>1, <1>3, <2>1, <2>2, <2>3 DEF InRun
<1>15. \A x, d : InCq(x, d)' <=> InCq(x, d) /\ x # head
  <2>1. \A x \in Visible : x \in 0..CqSize
    BY <1>6 DEF Visible
  <2>2. QED
    BY <1>4, <1>8, <2>1 DEF InCq
<1>16. Located'
  <2>1. \A k, x, d : Holds(k, x, d)' <=> Holds(k, x, d) /\ ~(k = "cq" /\ x = head)
    BY <1>11, <1>12, <1>13, <1>14, <1>15 DEF Holds
  <2>2. \A d : Holds("cq", head, d) => d = c
    BY DEF Holds, InCq, c
  <2>3. \A d \in out' : \E k, x : Holds(k, x, d)'
    BY <1>1, <2>1, <2>2 DEF Conserving, Located
  <2>4. \A k, x, d : Holds(k, x, d)' => d \in out'
    BY <1>1, <1>10, <2>1 DEF Conserving, Located
  <2>5. \A k, x, l, y, d : Holds(k, x, d)' /\ Holds(l, y, d)' => k = l /\ x = y
    BY <2>1 DEF Conserving, Located
  <2>6. QED
    BY <2>3, <2>4, <2>5 DEF Located
<1>17. SlotsOK'
  BY <1>1, <1>3 DEF Conserving, SlotsOK, Slots
<1>18. DoorbellOK'
  BY <1>1 DEF Conserving, DoorbellOK, Off
<1>19. PhasesOK'
  <2>1. \A i \in Entries \ Reserved' : cqMem'[i].phase # Expected(i)'
    <3>1. ASSUME NEW i \in 0..CqSize, i \notin Reserved, i # head
          PROVE  cqMem'[i].phase # Expected(i)'
      BY <1>4, <1>7, <3>1 DEF Conserving, PhasesOK, Entries
    <3>2. ASSUME NEW i \in 0..CqSize, i = head
          PROVE  cqMem'[i].phase # Expected(i)'
      BY <1>1, <1>4, <1>7, <3>2
    <3>3. QED
      BY <1>6, <3>1, <3>2 DEF Entries
  <2>2. Reserved' \ Visible' = Reserved \ Visible
    BY <1>5, <1>6, <1>8
  <2>3. QED
    BY <1>1, <2>1, <2>2 DEF Conserving, PhasesOK
<1>20. QED
  BY <1>16, <1>17, <1>18, <1>19 DEF Conserving

(* Queues that were just created have no command.                          *)
Fresh ==
  /\ CqSize \in Nat
  /\ sqMem = [i \in Slots |-> None]
  /\ cqMem = [i \in Entries |-> [cid |-> None, phase |-> 0]]
  /\ sq.head = 0 /\ sq.tail = 0 /\ cq.tail = 0
  /\ tasks = <<>> /\ door.at = "idle" /\ \A t \in Runners : run[t] = Resting
  /\ out = {} /\ next = 0 /\ head = 0 /\ phase = 1

(* They satisfy the invariant, at first ...                                *)
LEMMA FreshConserves == Fresh => Conserving
<1> SUFFICES ASSUME Fresh PROVE Conserving
  OBVIOUS
<1>1. Between(0, 0, SqSize) = {} /\ Between(0, 0, CqSize) = {}
  BY DEF Between
<1>2. Reserved = {} /\ Visible = {}
  BY <1>1 DEF Fresh, Reserved, Visible
<1>3. \A k, x, c : ~Holds(k, x, c)
  <2>1. InHand = {}
    BY DEF Fresh, InHand, Resting
  <2>2. 1..Len(tasks) = {}
    BY DEF Fresh
  <2>3. QED
    BY <1>1, <1>2, <2>1, <2>2 DEF Fresh, Holds, InSq, InPool, AtDoor, InRun, InCq
<1>4. Located
  BY <1>3 DEF Fresh, Located
<1>5. SlotsOK /\ DoorbellOK
  BY DEF Fresh, SlotsOK, DoorbellOK, Off
<1>6. PhasesOK
  <2>1. \A i \in Entries : cqMem[i].phase = 0 /\ Expected(i) = 1
    BY DEF Fresh, Expected, Entries
  <2>2. \A t \in Runners : run[t].at # "write"
    BY DEF Fresh, Resting
  <2>3. QED
    BY <1>2, <2>1, <2>2 DEF PhasesOK
<1>7. QED
  BY <1>4, <1>5, <1>6 DEF Conserving

(* ... and after the step that creates them again.                         *)
LEMMA FreshConservesNext == Fresh' => Conserving'
  BY FreshConserves, PTL

(* Every step keeps the commands of the guest in their places.             *)
LEMMA CommandsStep ==
  ASSUME IInv, CommandsOK, [Next]_vars
  PROVE  CommandsOK'
<1>1. ASSUME door.at = "disabled"
      PROVE  tasks = <<>> /\ \A t \in Runners : run[t] = Resting /\ run[t].at = "idle"
  BY <1>1, DisabledIsQuiet DEF ResetQuiet, Resting
<1>2. ASSUME RecreateQueues PROVE CommandsOK'
  <2>1. door.at = "disabled" /\ door'.at = "idle"
    BY <1>2, TypesOf DEF RecreateQueues, Recreate
  <2>2. Fresh'
    BY <1>1, <1>2, <2>1, TypesOf DEF RecreateQueues, Recreate, CommandsOK, Fresh
  <2>3. QED
    BY <2>1, <2>2, FreshConservesNext DEF CommandsOK
<1>3. ASSUME ResetQueues PROVE CommandsOK'
  BY <1>3, TypesOf DEF ResetQueues, CommandsOK
<1>4. ASSUME NEW t \in Runners, UNCHANGED guestVars,
             Enqueue(t) \/ WriteEntry(t)
      PROVE  CommandsOK'
  <2>1. door.at # "disabled" /\ door' = door
    BY <1>1, <1>4 DEF Enqueue, WriteEntry, doorVars
  <2>2. QED
    BY <1>4, <2>1, EnqueueStep, WriteEntryStep DEF CommandsOK
<1>5. ASSUME NEW w \in Workers, TakeTask(w), UNCHANGED guestVars PROVE CommandsOK'
  <2>1. door.at # "disabled" /\ door' = door
    BY <1>1, <1>5 DEF TakeTask
  <2>2. QED
    BY <1>5, <2>1, TakeTaskStep, Sizes DEF CommandsOK
<1>6. ASSUME Dequeue \/ CreateTask, UNCHANGED guestVars PROVE CommandsOK'
  <2>1. door.at # "disabled" /\ door'.at # "disabled"
    BY <1>6 DEF Dequeue, CreateTask, Queue, Inline
  <2>2. QED
    BY <1>6, <2>1, DequeueStep, CreateTaskStep DEF CommandsOK
<1>7. ASSUME Place PROVE CommandsOK'
  <2>1. door.at = "idle" /\ door' = door
    BY <1>7 DEF Place, doorVars
  <2>2. QED
    BY <1>7, <2>1, PlaceStep DEF CommandsOK
<1>8. ASSUME Consume PROVE CommandsOK'
  <2>1. UNCHANGED <<door, sq, cq>>
    BY <1>8 DEF Consume, doorVars
  <2>2. QED
    BY <1>8, <2>1, ConsumeStep DEF CommandsOK
<1>9. ASSUME UNCHANGED <<sqMem, cqMem, tasks, out, next, head, phase>>,
             sq'.head = sq.head, sq'.tail = sq.tail \/ (door.at = "idle" /\ sq'.tail = next),
             cq'.tail = cq.tail,
             UNCHANGED door
               \/ (door.at \in {"idle", "inline"} /\ door'.at \in {"drain", "reset"}),
             \A t \in Runners :
               \/ run'[t] = run[t]
               \/ run[t].at \notin {"run", "write"} /\ run'[t].at \notin {"run", "write"}
      PROVE  CommandsOK'
  <2>1. CASE door.at = "disabled"
    BY <1>9, <2>1 DEF CommandsOK
  <2>2. CASE door.at # "disabled"
    <3>1. Conserving /\ sq'.tail \in {sq.tail, next} /\ door'.at # "disabled"
      BY <1>9, <2>2 DEF CommandsOK
    <3>2. UNCHANGED door \/ (door.at # "task" /\ door'.at # "task")
      BY <1>9
    <3>3. Conserving'
      BY <1>9, <3>1, <3>2, QuietStep
    <3>4. QED
      BY <3>1, <3>3 DEF CommandsOK
  <2>3. QED
    BY <2>1, <2>2
<1>10. ASSUME NEW t \in Runners, UNCHANGED guestVars,
              RaiseMasked(t) \/ SetPending(t) \/ RaiseMsi(t) \/ Finish(t)
       PROVE  CommandsOK'
  <2>1. /\ UNCHANGED <<sqMem, cqMem, sq, cq, tasks, out, next, head, phase>>
        /\ run[t].at \notin {"run", "write"} /\ run'[t].at \notin {"run", "write"}
        /\ \A u \in Runners : u # t => run'[u] = run[u]
    BY <1>10, TypesOf DEF RaiseMasked, SetPending, RaiseMsi, Finish, Goto, Resting,
       queueVars, doorVars, guestVars, driverVars
  <2>2. UNCHANGED door \/ (door.at = "inline" /\ door'.at = "drain")
    <3>1. CASE Finish(t) /\ t = Driver
      BY <3>1, TypesOf DEF Finish, IInv, ThreadsExact, Busy
    <3>2. CASE ~(Finish(t) /\ t = Driver)
      BY <1>10, <3>2 DEF RaiseMasked, SetPending, RaiseMsi, Finish, doorVars
    <3>3. QED
      BY <3>1, <3>2
  <2>3. QED
    BY <1>9, <2>1, <2>2
<1>11. ASSUME RingSq \/ ResetCtrl PROVE CommandsOK'
  <2>1. /\ UNCHANGED <<sqMem, cqMem, cq, tasks, run, out, next, head, phase>>
        /\ sq'.head = sq.head /\ sq'.tail \in {sq.tail, next}
        /\ door.at = "idle" /\ door'.at \in {"drain", "reset"}
    BY <1>11, TypesOf DEF RingSq, SqDoorbell, ResetCtrl, ResetBegin, queueVars, guestVars,
       driverVars
  <2>2. QED
    BY <1>9, <2>1
<1>12. ASSUME CqLower \/ Mask \/ Unmask \/ ResendEnd \/ UNCHANGED nvmeVars,
              UNCHANGED <<out, next, head, phase>>
       PROVE  CommandsOK'
  <2>1. UNCHANGED <<sqMem, cqMem, sq, cq, tasks, run, door>>
    BY <1>12 DEF CqLower, Mask, Unmask, ResendEnd, nvmeVars, queueVars, doorVars
  <2>2. QED
    BY <1>9, <1>12, <2>1
<1>13. ASSUME PollEnd PROVE CommandsOK'
  <2>1. /\ UNCHANGED <<sqMem, cqMem, sq, tasks, run, door, out, next, head, phase>>
        /\ cq'.tail = cq.tail
    BY <1>13, TypesOf DEF PollEnd, CqDoorbell, nvmeVars, queueVars, doorVars, driverVars
  <2>2. QED
    BY <1>9, <2>1
<1>14. ASSUME UNCHANGED nvmeVars, UNCHANGED guestVars PROVE CommandsOK'
  BY <1>12, <1>14 DEF guestVars, driverVars
<1>15. ASSUME NEW t \in Runners, SendMsi(t) \/ CommandEnd(t) PROVE CommandsOK'
  BY <1>10, <1>15 DEF SendMsi, CommandEnd
<1>16. ASSUME NEW t \in Senders, SendStep(t) PROVE CommandsOK'
  BY <1>14, <1>16 DEF SendStep
<1>17. ASSUME CqLower, UNCHANGED guestVars PROVE CommandsOK'
  BY <1>12, <1>17 DEF guestVars, driverVars
<1>18. ASSUME OtherSends \/ UnmaskEnd PROVE CommandsOK'
  BY <1>12, <1>14, <1>18 DEF OtherSends, UnmaskEnd, guestVars, driverVars
<1>19. ASSUME Claimed \/ TakeIrq \/ MaskVector \/ UnmaskVector \/ SwitchOther
       PROVE  CommandsOK'
  BY <1>12, <1>19 DEF Claimed, TakeIrq, MaskVector, UnmaskVector, SwitchOther, driverVars
<1>20. ASSUME NEW t \in Runners,
              Enqueue(t) \/ WriteEntry(t) \/ RaiseMasked(t) \/ SetPending(t),
              UNCHANGED guestVars
       PROVE  CommandsOK'
  BY <1>4, <1>10, <1>20
<1>21. ASSUME Dequeue \/ CreateTask \/ ResetQueues \/ CqLower, UNCHANGED guestVars
       PROVE  CommandsOK'
  BY <1>3, <1>6, <1>17, <1>21
<1>22. ASSUME UNCHANGED vars PROVE CommandsOK'
  BY <1>14, <1>22 DEF vars
<1>23. ASSUME Next PROVE CommandsOK'
  BY <1>2, <1>5, <1>7, <1>8, <1>11, <1>13, <1>14, <1>15, <1>16, <1>18, <1>19, <1>20,
     <1>21, <1>23, NextActions, Zenon
<1>24. QED
  BY <1>22, <1>23

(* A set with at most one member, counted.                                 *)
LEMMA AtMostOne ==
  ASSUME NEW S, \A x, y \in S : x = y
  PROVE  Cardinality(S) = IF S = {} THEN 0 ELSE 1
<1>1. CASE S = {}
  BY <1>1, FS_EmptySet
<1>2. CASE S # {}
  <2>1. PICK x : S = {x}
    BY <1>2
  <2>2. QED
    BY <1>2, <2>1, FS_Singleton
<1>3. QED
  BY <1>1, <1>2

(* No command is lost and none completed twice, for any number of pool     *)
(* threads, any queue and pool sizes and any set of tags that fits in the  *)
(* queues: a command the guest waits for is in one place, however many     *)
(* threads complete at once and in whatever order they fill the entries    *)
(* they reserved (nvme_queue_dequeue, nvme_drain_sq, nvme_queue_enqueue,   *)
(* nvme_complete_cmd_cs).                                                  *)
THEOREM CommandsNotLost == Spec => []CommandsConserved
<1>1. Init => CommandsOK
  <2> SUFFICES ASSUME Init PROVE CommandsOK
    OBVIOUS
  <2>1. Fresh /\ door.at = "idle"
    BY Sizes DEF Init, NvmeInit, Fresh
  <2>2. QED
    BY <2>1, FreshConserves DEF CommandsOK
<1>2. IInv /\ CommandsOK /\ [Next]_vars => CommandsOK'
  BY CommandsStep
<1>3. CommandsOK => CommandsConserved
  <2> SUFFICES ASSUME CommandsOK, door.at # "disabled"
               PROVE  /\ \A c \in Tags : Places(c) = IF c \in out THEN 1 ELSE 0
                      /\ \A i \in Reserved \ Visible :
                           \E t \in Runners : run[t].at = "write" /\ run[t].entry = i
    BY DEF CommandsConserved
  <2>1. Located /\ PhasesOK
    BY DEF CommandsOK, Conserving
  <2>2. ASSUME NEW c \in Tags
        PROVE  Places(c) = IF c \in out THEN 1 ELSE 0
    <3> DEFINE S == {i \in Between(sq.head, next, SqSize) : sqMem[i] = c}
               P == {i \in 1..Len(tasks) : sqMem[tasks[i]] = c}
               D == IF door.at = "task" /\ sqMem[door.slot] = c THEN 1 ELSE 0
               R == {t \in InHand : sqMem[run[t].slot] = c}
               C == {i \in Visible : cqMem[i].cid = c}
    <3>1. Places(c) = Cardinality(S) + Cardinality(P) + D + Cardinality(R) + Cardinality(C)
      BY DEF Places
    <3>2. /\ \A x : x \in S <=> Holds("sq", x, c)
          /\ \A x : x \in P <=> Holds("pool", x, c)
          /\ D = IF Holds("door", 0, c) THEN 1 ELSE 0
          /\ \A x : x \in R <=> Holds("run", x, c)
          /\ \A x : x \in C <=> Holds("cq", x, c)
      BY DEF Holds, InSq, InPool, AtDoor, InRun, InCq
    <3> HIDE DEF S, P, D, R, C
    <3>3. \A k, x, l, y : Holds(k, x, c) /\ Holds(l, y, c) => k = l /\ x = y
      BY <2>1 DEF Located
    <3>4. /\ Cardinality(S) = IF S = {} THEN 0 ELSE 1
          /\ Cardinality(P) = IF P = {} THEN 0 ELSE 1
          /\ Cardinality(R) = IF R = {} THEN 0 ELSE 1
          /\ Cardinality(C) = IF C = {} THEN 0 ELSE 1
      <4>1. /\ \A x, y \in S : x = y
            /\ \A x, y \in P : x = y
            /\ \A x, y \in R : x = y
            /\ \A x, y \in C : x = y
        BY <3>2, <3>3
      <4>2. QED
        BY <4>1, AtMostOne
    <3>5. CASE c \in out
      <4>1. PICK k, x : Holds(k, x, c)
        BY <2>1, <3>5 DEF Located
      <4>2. \/ k = "sq" /\ x \in S
            \/ k = "pool" /\ x \in P
            \/ k = "door" /\ x = 0 /\ D = 1
            \/ k = "run" /\ x \in R
            \/ k = "cq" /\ x \in C
        BY <3>2, <4>1 DEF Holds, AtDoor
      <4>3. /\ k # "sq" => S = {}
            /\ k # "pool" => P = {}
            /\ k # "door" => D = 0
            /\ k # "run" => R = {}
            /\ k # "cq" => C = {}
        BY <3>2, <3>3, <4>1
      <4>4. QED
        BY <3>1, <3>4, <3>5, <4>2, <4>3
    <3>6. CASE c \notin out
      <4>1. \A k, x : ~Holds(k, x, c)
        BY <2>1, <3>6 DEF Located
      <4>2. S = {} /\ P = {} /\ D = 0 /\ R = {} /\ C = {}
        BY <3>2, <4>1
      <4>3. QED
        BY <3>1, <3>4, <3>6, <4>2
    <3>7. QED
      BY <3>5, <3>6
  <2>3. QED
    BY <2>1, <2>2 DEF PhasesOK
<1>4. QED
  BY <1>1, <1>2, <1>3, InductiveInvariant, PTL DEF Spec
==============================================================================
