----------------------------- MODULE MachineProofs -----------------------------
(***************************************************************************)
(* The life of machines, for any number of callers, machines and           *)
(* eventloops: a machine's flag, the eventloop's list and its hart agree,  *)
(* and what is freed is not used, as long as each machine is driven by one *)
(* thread and nothing is hot-plugged.                                      *)
(*                                                                         *)
(* One lemma per action; most leave the five views of a machine alone      *)
(* (SameView), and the rest say how they change them.  Then the types and  *)
(* the locks, and, for one caller, the eventloop's condition variable.     *)
(***************************************************************************)
EXTENDS Machine, FiniteSetTheorems, SequenceTheorems, TLAPS

(* What the agreement says of a machine besides its flag and its hart.     *)
SameView ==
  \A m \in Machines :
    /\ Listed(m)'   <=> Listed(m)
    /\ Starting(m)' <=> Starting(m)
    /\ Pausing(m)'  <=> Pausing(m)
    /\ Ticked(m)'   <=> Ticked(m)
    /\ Erasing(m)'  <=> Erasing(m)

(* A step that changes neither what is listed nor who is in a transition,  *)
(* nor flags and harts, keeps the agreement.                               *)
LEMMA SameViewAgrees ==
  ASSUME Agreement, SameView, UNCHANGED <<running, hart>>
  PROVE  Agreement'
BY DEF Agreement, SameView

(* global_lock excludes: whoever else is at a point it protects is t.      *)
LEMMA HolderAlone ==
  ASSUME LockHeld, NEW t \in Threads, pc[t] \in LockedPoints
  PROVE  \A u \in Threads : pc[u] \in LockedPoints => u = t
BY DEF LockHeld

(* Append adds at the end.                                                 *)
LEMMA AppendListed ==
  ASSUME NEW s \in Seq(Machines), NEW e \in Machines
  PROVE  /\ Append(s, e) \in Seq(Machines)
         /\ Len(Append(s, e)) = Len(s) + 1
         /\ \A j \in 1..Len(s) : Append(s, e)[j] = s[j]
         /\ Append(s, e)[Len(s) + 1] = e
OBVIOUS

(* RemoveAt shifts what follows down by one.                               *)
LEMMA RemoveAtShifts ==
  ASSUME NEW s \in Seq(Machines), NEW i \in 1..Len(s)
  PROVE  /\ RemoveAt(s, i) \in Seq(Machines)
         /\ Len(RemoveAt(s, i)) = Len(s) - 1
         /\ \A j \in 1..(i - 1) : RemoveAt(s, i)[j] = s[j]
         /\ \A j \in i..(Len(s) - 1) : RemoveAt(s, i)[j] = s[j + 1]
<1> DEFINE a == SubSeq(s, 1, i - 1)
           b == SubSeq(s, i + 1, Len(s))
<1>1. a \in Seq(Machines) /\ Len(a) = i - 1 /\ \A j \in 1..(i - 1) : a[j] = s[j]
  OBVIOUS
<1>2. /\ b \in Seq(Machines) /\ Len(b) = Len(s) - i
      /\ \A j \in 1..(Len(s) - i) : b[j] = s[i + j]
  OBVIOUS
<1> HIDE DEF a, b
<1>3. RemoveAt(s, i) = a \o b
  BY DEF RemoveAt, a, b
<1>4. a \o b \in Seq(Machines) /\ Len(a \o b) = Len(s) - 1
  <2>1. a \o b \in Seq(Machines)
    BY <1>1, <1>2
  <2>2. Len(a \o b) = Len(a) + Len(b)
    BY <1>1, <1>2, ConcatProperties
  <2> QED BY <1>1, <1>2, <2>1, <2>2
<1>5. \A j \in 1..(i - 1) : (a \o b)[j] = s[j]
  BY <1>1, <1>2
<1>6. ASSUME NEW j \in i..(Len(s) - 1)
      PROVE  (a \o b)[j] = s[j + 1]
  <2>1. (a \o b)[j] = b[j - (i - 1)]
    BY <1>1, <1>2
  <2>2. j - (i - 1) \in 1..(Len(s) - i) /\ i + (j - (i - 1)) = j + 1
    OBVIOUS
  <2> QED BY <1>2, <2>1, <2>2
<1> QED BY <1>3, <1>4, <1>5, <1>6

(* On a list without duplicates RemoveAt takes off exactly one machine.    *)
LEMMA RemoveAtUnlists ==
  ASSUME Ranges, ListedOnce, NEW i \in 1..Len(machines),
         machines' = RemoveAt(machines, i)
  PROVE  /\ ListedOnce'
         /\ \A x \in Machines : Listed(x)' <=> Listed(x) /\ x # machines[i]
<1> DEFINE s == machines'
<1>1. /\ s \in Seq(Machines) /\ machines \in Seq(Machines)
      /\ Len(s) = Len(machines) - 1 /\ Len(machines) \in Nat
      /\ \A j \in 1..(i - 1) : s[j] = machines[j]
      /\ \A j \in i..(Len(machines) - 1) : s[j] = machines[j + 1]
  BY RemoveAtShifts DEF Ranges
<1> HIDE DEF s
<1>2. \A j \in 1..Len(s) : \E k \in 1..Len(machines) :
        /\ k = IF j < i THEN j ELSE j + 1
        /\ s[j] = machines[k] /\ k # i
  BY <1>1
<1>3. \A k \in 1..Len(machines) : k # i =>
        \E j \in 1..Len(s) : s[j] = machines[k]
  <2> SUFFICES ASSUME NEW k \in 1..Len(machines), k # i
               PROVE  \E j \in 1..Len(s) : s[j] = machines[k]
    OBVIOUS
  <2>1. CASE k < i
    BY <1>1, <2>1
  <2>2. CASE k > i
    <3>1. k - 1 \in i..(Len(machines) - 1) /\ (k - 1) + 1 = k /\ k - 1 \in 1..Len(s)
      BY <1>1, <2>2
    <3> QED BY <1>1, <3>1
  <2> QED BY <2>1, <2>2
<1>4. ASSUME NEW j \in 1..Len(s), NEW k \in 1..Len(s), s[j] = s[k]
      PROVE  j = k
  BY <1>1, <1>2, <1>4 DEF ListedOnce
<1>5. ListedOnce'
  BY <1>4 DEF ListedOnce, s
<1>6. \A x \in Machines :
        (\E j \in 1..Len(s) : s[j] = x) <=> Listed(x) /\ x # machines[i]
  <2> SUFFICES ASSUME NEW x \in Machines
               PROVE  (\E j \in 1..Len(s) : s[j] = x) <=> Listed(x) /\ x # machines[i]
    OBVIOUS
  <2>1. ASSUME NEW j \in 1..Len(s), s[j] = x
        PROVE  Listed(x) /\ x # machines[i]
    <3>1. PICK k \in 1..Len(machines) : s[j] = machines[k] /\ k # i
      BY <1>2
    <3> QED BY <2>1, <3>1 DEF Listed, ListedOnce
  <2>2. ASSUME Listed(x), x # machines[i]
        PROVE  \E j \in 1..Len(s) : s[j] = x
    <3>1. PICK k \in 1..Len(machines) : machines[k] = x
      BY <2>2 DEF Listed
    <3>2. k # i
      BY <2>2, <3>1
    <3> QED BY <1>3, <3>1, <3>2
  <2> QED BY <2>1, <2>2
<1> QED BY <1>5, <1>6 DEF Listed, s

(* Without duplicates, counting listings is asking whether there is one.   *)
LEMMA ListingsCount ==
  ASSUME Ranges, ListedOnce, NEW m \in Machines
  PROVE  Listings(m) = IF Listed(m) THEN 1 ELSE 0
<1> DEFINE L == {i \in 1..Len(machines) : machines[i] = m}
<1>1. CASE Listed(m)
  <2>1. PICK i \in 1..Len(machines) : machines[i] = m
    BY <1>1 DEF Listed
  <2>2. L = {i}
    BY <2>1 DEF ListedOnce
  <2> QED BY <1>1, <2>2, FS_Singleton DEF Listings
<1>2. CASE ~Listed(m)
  <2>1. L = {}
    BY <1>2 DEF Listed
  <2> QED BY <1>2, <2>1, FS_EmptySet DEF Listings
<1> QED BY <1>1, <1>2

-----------------------------------------------------------------------------
(* Starting begins: no other thread works on m, because each machine has   *)
(* one driver.                                                             *)
LEMMA StartSwapStep ==
  ASSUME IInv, Disciplined, NEW t \in Api, NEW m \in Machines, StartSwap(t, m)
  PROVE  IInv'
<1> USE MachineAssumption DEF StartSwap, Goto, Threads, LoopPoints,
     CallPoints, LockedPoints, ticks, calls, locks, loops, mvars, Call
<1>0. \A u \in Threads :
        /\ job[u] = m
        /\ \/ pc[u] \in {"start_lock", "start_reset", "start_spawn", "pause_lock",
                         "pause_join", "plug"}
           \/ Freeing(u)
        => FALSE
  BY DEF IInv, Ranges, JobDriven, Disciplined, Freeing
<1>1. Ranges' /\ LoopExists' /\ RetKept'
  BY DEF IInv, Ranges, LoopExists, RetKept
<1>2. LockHeld' /\ IndexInList' /\ ListedOnce'
  BY DEF IInv, Ranges, LockHeld, IndexInList, ListedOnce
<1>3. JobDriven'
  BY DEF IInv, Ranges, RetKept, JobDriven, Freeing
<1>4. \A x \in Machines :
        /\ Listed(x)' <=> Listed(x)
        /\ Starting(x)' <=> Starting(x) \/ x = m
        /\ Pausing(x)' <=> Pausing(x)
        /\ Ticked(x)' <=> Ticked(x)
        /\ Erasing(x)' <=> Erasing(x)
  BY DEF IInv, Ranges, Starting, Pausing, Ticked, Erasing, Listed
<1>5. Agreement'
  BY <1>0, <1>4 DEF IInv, Ranges, Agreement, Pausing, Starting
<1>6. GoneQuietly'
  BY <1>0, <1>4 DEF IInv, Ranges, RetKept, GoneQuietly, Freeing, Releasing
<1> QED BY <1>1, <1>2, <1>3, <1>5, <1>6 DEF IInv

(* From here to the end of the start no tick has the machine in hand.      *)
LEMMA StartLockStep ==
  ASSUME IInv, Disciplined, NEW t \in Threads, StartLock(t)
  PROVE  IInv'
<1> USE MachineAssumption DEF StartLock, Goto, Threads, LoopPoints,
     CallPoints, LockedPoints, ticks, calls, locks, loops, mvars, Lock
<1>1. Ranges' /\ LoopExists' /\ RetKept'
  BY DEF IInv, Ranges, LoopExists, RetKept
<1>2. LockHeld' /\ IndexInList' /\ ListedOnce'
  BY DEF IInv, Ranges, LockHeld, IndexInList, ListedOnce
<1>3. JobDriven'
  BY DEF IInv, Ranges, RetKept, JobDriven, Freeing
<1>4. SameView
  BY DEF IInv, Ranges, LoopExists, SameView, Starting, Pausing, Ticked,
       Erasing, Listed
<1>5. Agreement'
  BY <1>4, SameViewAgrees DEF IInv
<1>6. GoneQuietly'
  BY <1>4 DEF IInv, Ranges, RetKept, GoneQuietly, Freeing, Releasing, SameView
<1> QED BY <1>1, <1>2, <1>3, <1>5, <1>6 DEF IInv

(* The invariant is kept by StartReset.                                    *)
LEMMA StartResetStep ==
  ASSUME IInv, Disciplined, NEW t \in Threads, StartReset(t)
  PROVE  IInv'
<1> USE MachineAssumption DEF StartReset, Goto, Threads, LoopPoints,
     CallPoints, LockedPoints, ticks, calls, locks, loops, mvars
<1>1. Ranges' /\ LoopExists' /\ RetKept'
  BY DEF IInv, Ranges, LoopExists, RetKept
<1>2. LockHeld' /\ IndexInList' /\ ListedOnce'
  BY DEF IInv, Ranges, LockHeld, IndexInList, ListedOnce
<1>3. JobDriven'
  BY DEF IInv, Ranges, RetKept, JobDriven, Freeing
<1>4. SameView
  BY DEF IInv, Ranges, LoopExists, SameView, Starting, Pausing, Ticked,
       Erasing, Listed
<1>5. Agreement'
  BY <1>4, SameViewAgrees DEF IInv
<1>6. GoneQuietly'
  BY <1>4 DEF IInv, Ranges, RetKept, GoneQuietly, Freeing, Releasing, SameView
<1> QED BY <1>1, <1>2, <1>3, <1>5, <1>6 DEF IInv

(* The machine is appended to a list that has it not.                      *)
LEMMA StartSpawnStep ==
  ASSUME IInv, Disciplined, NEW t \in Threads, StartSpawn(t)
  PROVE  IInv'
<1> USE MachineAssumption DEF StartSpawn, Goto, Threads, LoopPoints,
     CallPoints, LockedPoints, ticks, calls, locks, loops, mvars, Spawned,
     Unlock
<1>a. t \in Api /\ job[t] \in Machines /\ Starting(job[t])
  BY DEF IInv, Ranges, Starting
<1>b. \A x \in Machines : ~Ticked(x) /\ ~Erasing(x)
  BY HolderAlone DEF IInv, Ticked, Erasing
<1>c. ~Listed(job[t]) /\ hart[job[t]] = "off" /\ running[job[t]]
  BY <1>a, <1>b DEF IInv, Agreement
<1>d. /\ machines \in Seq(Machines) /\ Len(machines) \in Nat
      /\ machines' = Append(machines, job[t])
  BY DEF IInv, Ranges
<1>e. /\ machines' \in Seq(Machines) /\ Len(machines') = Len(machines) + 1
      /\ \A j \in 1..Len(machines) : machines'[j] = machines[j]
      /\ machines'[Len(machines) + 1] = job[t]
  BY <1>a, <1>d, AppendListed
<1>1. Ranges' /\ LoopExists' /\ RetKept'
  BY <1>e DEF IInv, Ranges, LoopExists, RetKept
<1>2. LockHeld' /\ IndexInList' /\ ListedOnce'
  <2>1. LockHeld' /\ IndexInList'
    BY HolderAlone DEF IInv, Ranges, LockHeld, IndexInList
  <2>2. ListedOnce'
    BY <1>c, <1>d, <1>e DEF IInv, ListedOnce, Listed
  <2> QED BY <2>1, <2>2
<1>3. JobDriven'
  BY DEF IInv, Ranges, RetKept, JobDriven, Freeing
<1>4. \A x \in Machines :
        /\ Listed(x)' <=> Listed(x) \/ x = job[t]
        /\ Starting(x)' <=> Starting(x) /\ x # job[t]
        /\ Pausing(x)' <=> Pausing(x)
        /\ Ticked(x)' <=> Ticked(x)
        /\ Erasing(x)' <=> Erasing(x)
  <2>1. \A x \in Machines : Listed(x)' <=> Listed(x) \/ x = job[t]
    BY <1>d, <1>e DEF Listed
  <2>2. \A x \in Machines : Starting(x)' <=> Starting(x) /\ x # job[t]
    BY DEF IInv, Ranges, Starting, JobDriven, Disciplined
  <2>3. \A x \in Machines : Pausing(x)' <=> Pausing(x)
    BY DEF IInv, Ranges, Pausing
  <2>4. \A x \in Machines : ~Ticked(x)' /\ ~Erasing(x)'
    BY HolderAlone, ZenonT(30) DEF IInv, Ranges, Ticked, Erasing
  <2> QED BY <1>b, <2>1, <2>2, <2>3, <2>4
<1>5. Agreement'
  BY <1>a, <1>b, <1>c, <1>4 DEF IInv, Ranges, Agreement
<1>6. GoneQuietly'
  <2>1. job[t] \notin freed /\ \A u \in Threads : Freeing(u) => job[u] # job[t]
    BY DEF IInv, Ranges, JobDriven, Disciplined, Freeing
  <2> QED BY <1>b, <1>4, <2>1 DEF IInv, Ranges, RetKept, GoneQuietly, Freeing,
       Releasing
<1> QED BY <1>1, <1>2, <1>3, <1>5, <1>6 DEF IInv

-----------------------------------------------------------------------------
(* The invariant is kept by PauseSwap.                                     *)
LEMMA PauseSwapStep ==
  ASSUME IInv, Disciplined, NEW t \in Api, NEW m \in Machines, PauseSwap(t, m)
  PROVE  IInv'
<1> USE MachineAssumption DEF PauseSwap, Goto, Threads, LoopPoints,
     CallPoints, LockedPoints, ticks, calls, locks, loops, mvars, Call
<1>0. \A u \in Threads :
        /\ job[u] = m
        /\ \/ pc[u] \in {"start_lock", "start_reset", "start_spawn", "pause_lock",
                         "pause_join", "plug"}
           \/ Freeing(u)
        => FALSE
  BY DEF IInv, Ranges, JobDriven, Disciplined, Freeing
<1>1. Ranges' /\ LoopExists' /\ RetKept'
  BY DEF IInv, Ranges, LoopExists, RetKept
<1>2. LockHeld' /\ IndexInList' /\ ListedOnce'
  BY DEF IInv, Ranges, LockHeld, IndexInList, ListedOnce
<1>3. JobDriven'
  BY DEF IInv, Ranges, RetKept, JobDriven, Freeing
<1>4. \A x \in Machines :
        /\ Listed(x)' <=> Listed(x)
        /\ Starting(x)' <=> Starting(x)
        /\ Pausing(x)' <=> Pausing(x) \/ x = m
        /\ Ticked(x)' <=> Ticked(x)
        /\ Erasing(x)' <=> Erasing(x)
  BY DEF IInv, Ranges, Starting, Pausing, Ticked, Erasing, Listed
<1>5. Agreement'
  BY <1>0, <1>4 DEF IInv, Ranges, Agreement, Pausing, Starting
<1>6. GoneQuietly'
  BY <1>0, <1>4 DEF IInv, Ranges, RetKept, GoneQuietly, Freeing, Releasing
<1> QED BY <1>1, <1>2, <1>3, <1>5, <1>6 DEF IInv

(* The invariant is kept by PauseLock.                                     *)
LEMMA PauseLockStep ==
  ASSUME IInv, Disciplined, NEW t \in Threads, PauseLock(t)
  PROVE  IInv'
<1> USE MachineAssumption DEF PauseLock, Goto, Threads, LoopPoints,
     CallPoints, LockedPoints, ticks, calls, locks, loops, mvars, Lock
<1>1. Ranges' /\ LoopExists' /\ RetKept'
  BY DEF IInv, Ranges, LoopExists, RetKept
<1>2. LockHeld' /\ IndexInList' /\ ListedOnce'
  BY DEF IInv, Ranges, LockHeld, IndexInList, ListedOnce
<1>3. JobDriven'
  BY DEF IInv, Ranges, RetKept, JobDriven, Freeing
<1>4. SameView
  BY DEF IInv, Ranges, LoopExists, SameView, Starting, Pausing, Ticked,
       Erasing, Listed
<1>5. Agreement'
  BY <1>4, SameViewAgrees DEF IInv
<1>6. GoneQuietly'
  BY <1>4 DEF IInv, Ranges, RetKept, GoneQuietly, Freeing, Releasing, SameView
<1> QED BY <1>1, <1>2, <1>3, <1>5, <1>6 DEF IInv

(* The machine goes off the list, its hart with it.                        *)
LEMMA PauseJoinStep ==
  ASSUME IInv, Disciplined, NEW t \in Threads, PauseJoin(t)
  PROVE  IInv'
<1> USE MachineAssumption DEF Goto, Threads, LoopPoints, CallPoints,
     LockedPoints, ticks, calls, locks, loops, mvars, Unlock, Stop
<1>a. /\ t \in Api /\ job[t] \in Machines /\ Pausing(job[t]) /\ ~running[job[t]]
      /\ hart' = [hart EXCEPT ![job[t]] = "off"]
      /\ pc[t] = "pause_join" /\ pc' = [pc EXCEPT ![t] = "need"]
      /\ globalLock' = globalLock \ {t}
      /\ UNCHANGED <<job, ret, idx, thread, running, freed>>
  BY DEF IInv, Ranges, Agreement, Pausing, PauseJoin
<1>b. \A x \in Machines : ~Ticked(x) /\ ~Erasing(x)
  BY <1>a, HolderAlone DEF IInv, Ticked, Erasing
<1>c. /\ machines' \in Seq(Machines) /\ ListedOnce'
      /\ \A x \in Machines : Listed(x)' <=> Listed(x) /\ x # job[t]
  <2>1. CASE \E i \in 1..Len(machines) :
               machines[i] = job[t] /\ machines' = RemoveAt(machines, i)
    BY <2>1, RemoveAtUnlists, RemoveAtShifts DEF IInv, Ranges
  <2>2. CASE ~Listed(job[t]) /\ UNCHANGED machines
    BY <2>2 DEF IInv, Ranges, ListedOnce, Listed
  <2> QED BY <2>1, <2>2 DEF PauseJoin
<1>1. Ranges' /\ LoopExists' /\ RetKept'
  BY <1>a, <1>c DEF IInv, Ranges, LoopExists, RetKept
<1>2. LockHeld' /\ IndexInList'
  BY <1>a, HolderAlone DEF IInv, Ranges, LockHeld, IndexInList
<1>3. JobDriven'
  BY <1>a DEF IInv, Ranges, RetKept, JobDriven, Freeing
<1>4. \A x \in Machines :
        /\ Starting(x)' <=> Starting(x)
        /\ Pausing(x)' <=> Pausing(x) /\ x # job[t]
        /\ ~Ticked(x)' /\ ~Erasing(x)'
  <2>1. \A x \in Machines : Starting(x)' <=> Starting(x)
    BY <1>a DEF IInv, Ranges, Starting
  <2>2. \A x \in Machines : Pausing(x)' <=> Pausing(x) /\ x # job[t]
    BY <1>a DEF IInv, Ranges, Pausing, JobDriven, Disciplined
  <2>3. \A x \in Machines : ~Ticked(x)' /\ ~Erasing(x)'
    BY <1>a, HolderAlone, ZenonT(30) DEF IInv, Ranges, Ticked, Erasing
  <2> QED BY <2>1, <2>2, <2>3
<1>5. Agreement'
  BY <1>a, <1>b, <1>c, <1>4 DEF IInv, Ranges, Agreement
<1>6. GoneQuietly'
  BY <1>a, <1>b, <1>c DEF IInv, Ranges, RetKept, GoneQuietly, Freeing,
       Releasing
<1> QED BY <1>c, <1>1, <1>2, <1>3, <1>5, <1>6 DEF IInv

-----------------------------------------------------------------------------
(* global_lock was free: no tick is about to unlist the machine any more,  *)
(* and a free that got here may go on.                                     *)
LEMMA ReconfigureNeedStep ==
  ASSUME IInv, Disciplined, NEW t \in Threads, ReconfigureNeed(t)
  PROVE  IInv'
<1> USE MachineAssumption DEF ReconfigureNeed, Goto, Threads, LoopPoints,
     CallPoints, LockedPoints, ticks, calls, locks, loops, mvars, Free
<1>1. Ranges' /\ LoopExists' /\ RetKept'
  BY DEF IInv, Ranges, LoopExists, RetKept
<1>2. LockHeld' /\ IndexInList' /\ ListedOnce'
  BY DEF IInv, Ranges, LockHeld, IndexInList, ListedOnce
<1>3. JobDriven'
  BY DEF IInv, Ranges, RetKept, JobDriven, Freeing
<1>4. SameView
  BY DEF IInv, Ranges, LoopExists, SameView, Starting, Pausing, Ticked,
       Erasing, Listed
<1>5. Agreement'
  BY <1>4, SameViewAgrees DEF IInv
<1>6. GoneQuietly'
  <2>1. \A m \in Machines : ~Erasing(m)
    BY DEF IInv, LockHeld, Erasing
  <2> QED BY <1>4, <2>1 DEF IInv, Ranges, RetKept, GoneQuietly, Freeing,
       Releasing, SameView
<1> QED BY <1>1, <1>2, <1>3, <1>5, <1>6 DEF IInv

(* The invariant is kept by ReconfigureLock.                               *)
LEMMA ReconfigureLockStep ==
  ASSUME IInv, Disciplined, NEW t \in Threads, ReconfigureLock(t)
  PROVE  IInv'
<1> USE MachineAssumption DEF ReconfigureLock, Goto, Threads, LoopPoints,
     CallPoints, LockedPoints, ticks, calls, locks, loops, mvars, Lock
<1>1. Ranges' /\ LoopExists' /\ RetKept'
  BY DEF IInv, Ranges, LoopExists, RetKept
<1>2. LockHeld' /\ IndexInList' /\ ListedOnce'
  BY DEF IInv, Ranges, LockHeld, IndexInList, ListedOnce
<1>3. JobDriven'
  BY DEF IInv, Ranges, RetKept, JobDriven, Freeing
<1>4. SameView
  BY DEF IInv, Ranges, LoopExists, SameView, Starting, Pausing, Ticked,
       Erasing, Listed
<1>5. Agreement'
  BY <1>4, SameViewAgrees DEF IInv
<1>6. GoneQuietly'
  BY <1>4 DEF IInv, Ranges, RetKept, GoneQuietly, Freeing, Releasing, SameView
<1> QED BY <1>1, <1>2, <1>3, <1>5, <1>6 DEF IInv

(* The invariant is kept by ReconfigureJoin.                               *)
LEMMA ReconfigureJoinStep ==
  ASSUME IInv, Disciplined, NEW t \in Threads, ReconfigureJoin(t)
  PROVE  IInv'
<1> USE MachineAssumption DEF ReconfigureJoin, Goto, Threads, LoopPoints,
     CallPoints, LockedPoints, ticks, calls, locks, loops, mvars
<1>1. Ranges' /\ LoopExists' /\ RetKept'
  BY DEF IInv, Ranges, LoopExists, RetKept
<1>2. LockHeld' /\ IndexInList' /\ ListedOnce'
  BY DEF IInv, Ranges, LockHeld, IndexInList, ListedOnce
<1>3. JobDriven'
  BY DEF IInv, Ranges, RetKept, JobDriven, Freeing
<1>4. SameView
  BY DEF IInv, Ranges, LoopExists, SameView, Starting, Pausing, Ticked,
       Erasing, Listed
<1>5. Agreement'
  BY <1>4, SameViewAgrees DEF IInv
<1>6. GoneQuietly'
  BY <1>4 DEF IInv, Ranges, RetKept, GoneQuietly, Freeing, Releasing, SameView
<1> QED BY <1>1, <1>2, <1>3, <1>5, <1>6 DEF IInv

(* If the thread is created, there was none.                               *)
LEMMA ReconfigureCreateStep ==
  ASSUME IInv, Disciplined, NEW t \in Threads, ReconfigureCreate(t)
  PROVE  IInv'
<1> USE MachineAssumption DEF ReconfigureCreate, Goto, Threads, LoopPoints,
     CallPoints, LockedPoints, ticks, calls, locks, loops, mvars, Unlock
<1>1. Ranges' /\ LoopExists' /\ RetKept'
  <2>1. t # Loop /\ ret[t] # "off"
    BY DEF IInv, Ranges
  <2>2. Ranges'
    BY <2>1 DEF IInv, Ranges
  <2>3. LoopExists' /\ RetKept'
    BY <2>1 DEF IInv, Ranges, LoopExists, RetKept
  <2> QED BY <2>2, <2>3
<1>2. LockHeld' /\ IndexInList' /\ ListedOnce'
  <2>1. \A u \in Threads : pc'[u] \in LockedPoints <=> pc[u] \in LockedPoints
    BY DEF IInv, Ranges, LoopExists
  <2>2. LockHeld'
    BY <2>1 DEF IInv, LockHeld
  <2>3. IndexInList' /\ ListedOnce'
    BY ZenonT(30) DEF IInv, Ranges, LoopExists, IndexInList, ListedOnce
  <2> QED BY <2>2, <2>3
<1>3. JobDriven'
  BY DEF IInv, Ranges, RetKept, JobDriven, Freeing
<1>4. SameView
  BY ZenonT(30) DEF IInv, Ranges, LoopExists, SameView, Starting, Pausing, Ticked,
       Erasing, Listed
<1>5. Agreement'
  BY <1>4, SameViewAgrees DEF IInv
<1>6. GoneQuietly'
  BY <1>4 DEF IInv, Ranges, RetKept, GoneQuietly, Freeing, Releasing, SameView
<1> QED BY <1>1, <1>2, <1>3, <1>5, <1>6 DEF IInv

-----------------------------------------------------------------------------
(* A machine that is not running may still be in the hands of a tick that  *)
(* is about to unlist it.                                                  *)
LEMMA FreePauseStep ==
  ASSUME IInv, Disciplined, NEW t \in Api, NEW m \in Machines, FreePause(t, m)
  PROVE  IInv'
<1> USE MachineAssumption DEF FreePause, Goto, Threads, LoopPoints,
     CallPoints, LockedPoints, ticks, calls, locks, loops, mvars, Call
<1>0. \A u \in Threads :
        /\ job[u] = m
        /\ \/ pc[u] \in {"start_lock", "start_reset", "start_spawn", "pause_lock",
                         "pause_join", "plug"}
           \/ Freeing(u)
        => FALSE
  BY DEF IInv, Ranges, JobDriven, Disciplined, Freeing
<1>1. Ranges' /\ LoopExists' /\ RetKept'
  BY DEF IInv, Ranges, LoopExists, RetKept
<1>2. LockHeld' /\ IndexInList' /\ ListedOnce'
  BY DEF IInv, Ranges, LockHeld, IndexInList, ListedOnce
<1>3. JobDriven'
  BY DEF IInv, Ranges, RetKept, JobDriven, Freeing
<1>4. \A x \in Machines :
        /\ Listed(x)' <=> Listed(x)
        /\ Starting(x)' <=> Starting(x)
        /\ Pausing(x)' <=> Pausing(x) \/ (x = m /\ running[m])
        /\ Ticked(x)' <=> Ticked(x)
        /\ Erasing(x)' <=> Erasing(x)
  BY DEF IInv, Ranges, Starting, Pausing, Ticked, Erasing, Listed
<1>5. Agreement'
  BY <1>0, <1>4, SMTT(30) DEF IInv, Ranges, Agreement, Pausing, Starting
<1>6. GoneQuietly'
  <2>1. ~running[m] /\ Listed(m) => Erasing(m)
    BY <1>0 DEF IInv, Ranges, Agreement, Pausing
  <2> QED BY <1>0, <1>4, <2>1 DEF IInv, Ranges, RetKept, GoneQuietly, Freeing,
       Releasing
<1> QED BY <1>1, <1>2, <1>3, <1>5, <1>6 DEF IInv

(* The invariant is kept by FreeReconfigure.                               *)
LEMMA FreeReconfigureStep ==
  ASSUME IInv, Disciplined, NEW t \in Threads, FreeReconfigure(t)
  PROVE  IInv'
<1> USE MachineAssumption DEF FreeReconfigure, Goto, Threads, LoopPoints,
     CallPoints, LockedPoints, ticks, calls, locks, loops, mvars
<1>1. Ranges' /\ LoopExists' /\ RetKept'
  BY DEF IInv, Ranges, LoopExists, RetKept
<1>2. LockHeld' /\ IndexInList' /\ ListedOnce'
  BY DEF IInv, Ranges, LockHeld, IndexInList, ListedOnce
<1>3. JobDriven'
  BY DEF IInv, Ranges, RetKept, JobDriven, Freeing
<1>4. SameView
  BY DEF IInv, Ranges, LoopExists, SameView, Starting, Pausing, Ticked,
       Erasing, Listed
<1>5. Agreement'
  BY <1>4, SameViewAgrees DEF IInv
<1>6. GoneQuietly'
  BY <1>4 DEF IInv, Ranges, RetKept, GoneQuietly, Freeing, Releasing, SameView
<1> QED BY <1>1, <1>2, <1>3, <1>5, <1>6 DEF IInv

(* The machine is gone for good; only its driver could have used it.       *)
LEMMA FreeDoneStep ==
  ASSUME IInv, Disciplined, NEW t \in Threads, FreeDone(t)
  PROVE  IInv'
<1> USE MachineAssumption DEF FreeDone, Goto, Threads, LoopPoints, CallPoints,
     LockedPoints, ticks, calls, locks, loops, mvars
<1>1. Ranges' /\ LoopExists' /\ RetKept'
  BY DEF IInv, Ranges, LoopExists, RetKept
<1>2. LockHeld' /\ IndexInList' /\ ListedOnce'
  BY DEF IInv, Ranges, LockHeld, IndexInList, ListedOnce
<1>3. JobDriven'
  BY DEF IInv, Ranges, RetKept, JobDriven, Freeing, Disciplined
<1>4. \A x \in Machines :
        /\ Listed(x)' <=> Listed(x)
        /\ Starting(x)' <=> Starting(x)
        /\ Pausing(x)' <=> Pausing(x)
        /\ Ticked(x)' <=> Ticked(x)
        /\ Erasing(x)' <=> Erasing(x)
  BY DEF IInv, Ranges, Starting, Pausing, Ticked, Erasing, Listed
<1>5. Agreement'
  BY <1>4 DEF IInv, Ranges, Agreement
<1>6. GoneQuietly'
  BY <1>4 DEF IInv, Ranges, RetKept, GoneQuietly, Freeing, Releasing
<1> QED BY <1>1, <1>2, <1>3, <1>5, <1>6 DEF IInv

-----------------------------------------------------------------------------
(* Operations that touch neither flags, harts nor the list.                *)
LEMMA ResetStoreStep ==
  ASSUME IInv, Disciplined, NEW t \in Api, NEW m \in Machines,
         NEW p \in {"off", "reset"}, ResetStore(t, m, p)
  PROVE  IInv'
<1> USE MachineAssumption DEF ResetStore, Goto, Threads, LoopPoints,
     CallPoints, LockedPoints, ticks, calls, locks, loops, mvars, Call
<1>1. Ranges' /\ LoopExists' /\ RetKept'
  BY DEF IInv, Ranges, LoopExists, RetKept
<1>2. LockHeld' /\ IndexInList' /\ ListedOnce'
  BY DEF IInv, Ranges, LockHeld, IndexInList, ListedOnce
<1>3. JobDriven'
  BY DEF IInv, Ranges, RetKept, JobDriven, Freeing
<1>4. SameView
  BY DEF IInv, Ranges, LoopExists, SameView, Starting, Pausing, Ticked,
       Erasing, Listed
<1>5. Agreement'
  BY <1>4, SameViewAgrees DEF IInv
<1>6. GoneQuietly'
  BY <1>4 DEF IInv, Ranges, RetKept, GoneQuietly, Freeing, Releasing, SameView
<1> QED BY <1>1, <1>2, <1>3, <1>5, <1>6 DEF IInv

(* The invariant is kept by ResetWake.                                     *)
LEMMA ResetWakeStep ==
  ASSUME IInv, Disciplined, NEW t \in Threads, ResetWake(t)
  PROVE  IInv'
<1> USE MachineAssumption DEF ResetWake, Goto, Threads, LoopPoints,
     CallPoints, LockedPoints, ticks, calls, locks, loops, mvars, Free
<1>1. Ranges' /\ LoopExists' /\ RetKept'
  BY DEF IInv, Ranges, LoopExists, RetKept
<1>2. LockHeld' /\ IndexInList' /\ ListedOnce'
  BY DEF IInv, Ranges, LockHeld, IndexInList, ListedOnce
<1>3. JobDriven'
  BY DEF IInv, Ranges, RetKept, JobDriven, Freeing
<1>4. SameView
  BY DEF IInv, Ranges, LoopExists, SameView, Starting, Pausing, Ticked,
       Erasing, Listed
<1>5. Agreement'
  BY <1>4, SameViewAgrees DEF IInv
<1>6. GoneQuietly'
  BY <1>4 DEF IInv, Ranges, RetKept, GoneQuietly, Freeing, Releasing, SameView
<1> QED BY <1>1, <1>2, <1>3, <1>5, <1>6 DEF IInv

(* The guest's own reset keeps its hart.                                   *)
LEMMA GuestStoreStep ==
  ASSUME IInv, Disciplined, NEW m \in Machines,
         NEW p \in {"off", "reset"}, GuestStore(m, p)
  PROVE  IInv'
<1> USE MachineAssumption DEF GuestStore, Goto, Threads, LoopPoints,
     CallPoints, LockedPoints, ticks, calls, locks, loops, mvars
<1>1. Ranges' /\ LoopExists' /\ RetKept'
  BY DEF IInv, Ranges, LoopExists, RetKept
<1>2. LockHeld' /\ IndexInList' /\ ListedOnce'
  BY DEF IInv, Ranges, LockHeld, IndexInList, ListedOnce
<1>3. JobDriven'
  BY DEF IInv, Ranges, RetKept, JobDriven, Freeing
<1>4. SameView
  BY DEF IInv, Ranges, LoopExists, SameView, Starting, Pausing, Ticked,
       Erasing, Listed
<1>5. Agreement'
  BY <1>4 DEF IInv, Ranges, Agreement, SameView
<1>6. GoneQuietly'
  BY <1>4 DEF IInv, Ranges, RetKept, GoneQuietly, Freeing, Releasing, SameView
<1> QED BY <1>1, <1>2, <1>3, <1>5, <1>6 DEF IInv

(* The invariant is kept by GuestWake.                                     *)
LEMMA GuestWakeStep ==
  ASSUME IInv, Disciplined, NEW m \in Machines, GuestWake(m)
  PROVE  IInv'
<1> USE MachineAssumption DEF GuestWake, Goto, Threads, LoopPoints,
     CallPoints, LockedPoints, ticks, calls, locks, loops, mvars, Free
<1>1. Ranges' /\ LoopExists' /\ RetKept'
  BY DEF IInv, Ranges, LoopExists, RetKept
<1>2. LockHeld' /\ IndexInList' /\ ListedOnce'
  BY DEF IInv, Ranges, LockHeld, IndexInList, ListedOnce
<1>3. JobDriven'
  BY DEF IInv, Ranges, RetKept, JobDriven, Freeing
<1>4. SameView
  BY DEF IInv, Ranges, LoopExists, SameView, Starting, Pausing, Ticked,
       Erasing, Listed
<1>5. Agreement'
  BY <1>4 DEF IInv, Ranges, Agreement, SameView
<1>6. GoneQuietly'
  BY <1>4 DEF IInv, Ranges, RetKept, GoneQuietly, Freeing, Releasing, SameView
<1> QED BY <1>1, <1>2, <1>3, <1>5, <1>6 DEF IInv

(* The invariant is kept by PlugLock.                                      *)
LEMMA PlugLockStep ==
  ASSUME IInv, Disciplined, NEW t \in Api, NEW m \in Machines, PlugLock(t, m)
  PROVE  IInv'
<1> USE MachineAssumption DEF PlugLock, Goto, Threads, LoopPoints, CallPoints,
     LockedPoints, ticks, calls, locks, loops, mvars, Call, Lock, Disciplined
<1>1. Ranges' /\ LoopExists' /\ RetKept'
  BY DEF IInv, Ranges, LoopExists, RetKept
<1>2. LockHeld' /\ IndexInList' /\ ListedOnce'
  BY DEF IInv, Ranges, LockHeld, IndexInList, ListedOnce
<1>3. JobDriven'
  BY DEF IInv, Ranges, RetKept, JobDriven, Freeing
<1>4. SameView
  BY DEF IInv, Ranges, LoopExists, SameView, Starting, Pausing, Ticked,
       Erasing, Listed
<1>5. Agreement'
  BY <1>4, SameViewAgrees DEF IInv
<1>6. GoneQuietly'
  BY <1>4 DEF IInv, Ranges, RetKept, GoneQuietly, Freeing, Releasing, SameView
<1> QED BY <1>1, <1>2, <1>3, <1>5, <1>6 DEF IInv

(* Without hot-plugging the machine is not running and nothing is paused.  *)
LEMMA PlugPauseStep ==
  ASSUME IInv, Disciplined, NEW t \in Threads, PlugPause(t)
  PROVE  IInv'
<1> USE MachineAssumption DEF PlugPause, Goto, Threads, LoopPoints,
     CallPoints, LockedPoints, ticks, calls, locks, loops, mvars
<1>0. pc' = [pc EXCEPT ![t] = "idle"] /\ globalLock' = {} /\ UNCHANGED running
  <2>1. job[t] \in Machines /\ running[job[t]] = FALSE
    BY DEF IInv, Ranges, GoneQuietly
  <2>2. pc' = [pc EXCEPT ![t] = "idle"] /\ globalLock' = {}
    BY <2>1
  <2>3. running' = running
    BY <2>1 DEF IInv, Ranges
  <2> QED BY <2>2, <2>3
<1>1. Ranges' /\ LoopExists' /\ RetKept'
  BY <1>0 DEF IInv, Ranges, LoopExists, RetKept
<1>2. LockHeld' /\ IndexInList' /\ ListedOnce'
  BY <1>0 DEF IInv, Ranges, LockHeld, IndexInList, ListedOnce
<1>3. JobDriven'
  BY DEF IInv, Ranges, RetKept, JobDriven, Freeing
<1>4. SameView
  BY <1>0 DEF IInv, Ranges, SameView, Starting, Pausing, Ticked, Erasing,
       Listed
<1>5. Agreement'
  BY <1>0, <1>4, SameViewAgrees DEF IInv
<1>6. GoneQuietly'
  BY <1>0, <1>4 DEF IInv, Ranges, RetKept, GoneQuietly, Freeing, Releasing,
       SameView
<1> QED BY <1>1, <1>2, <1>3, <1>5, <1>6 DEF IInv

(* The invariant is kept by ManualOn.                                      *)
LEMMA ManualOnStep ==
  ASSUME IInv, Disciplined, NEW t \in Api, ManualOn(t)
  PROVE  IInv'
<1> USE MachineAssumption DEF ManualOn, Goto, Threads, LoopPoints, CallPoints,
     LockedPoints, ticks, calls, locks, loops, mvars, Free
<1>1. Ranges' /\ LoopExists' /\ RetKept'
  BY DEF IInv, Ranges, LoopExists, RetKept
<1>2. LockHeld' /\ IndexInList' /\ ListedOnce'
  BY DEF IInv, Ranges, LockHeld, IndexInList, ListedOnce
<1>3. JobDriven'
  BY DEF IInv, Ranges, RetKept, JobDriven, Freeing
<1>4. SameView
  BY DEF IInv, Ranges, LoopExists, SameView, Starting, Pausing, Ticked,
       Erasing, Listed
<1>5. Agreement'
  BY <1>4, SameViewAgrees DEF IInv
<1>6. GoneQuietly'
  BY <1>4 DEF IInv, Ranges, RetKept, GoneQuietly, Freeing, Releasing, SameView
<1> QED BY <1>1, <1>2, <1>3, <1>5, <1>6 DEF IInv

(* The invariant is kept by ManualOff.                                     *)
LEMMA ManualOffStep ==
  ASSUME IInv, Disciplined, NEW t \in Threads, ManualOff(t)
  PROVE  IInv'
<1> USE MachineAssumption DEF ManualOff, Goto, Threads, LoopPoints,
     CallPoints, LockedPoints, ticks, calls, locks, loops, mvars, Free
<1>1. Ranges' /\ LoopExists' /\ RetKept'
  BY DEF IInv, Ranges, LoopExists, RetKept
<1>2. LockHeld' /\ IndexInList' /\ ListedOnce'
  BY DEF IInv, Ranges, LockHeld, IndexInList, ListedOnce
<1>3. JobDriven'
  BY DEF IInv, Ranges, RetKept, JobDriven, Freeing
<1>4. SameView
  BY DEF IInv, Ranges, LoopExists, SameView, Starting, Pausing, Ticked,
       Erasing, Listed
<1>5. Agreement'
  BY <1>4, SameViewAgrees DEF IInv
<1>6. GoneQuietly'
  BY <1>4 DEF IInv, Ranges, RetKept, GoneQuietly, Freeing, Releasing, SameView
<1> QED BY <1>1, <1>2, <1>3, <1>5, <1>6 DEF IInv

-----------------------------------------------------------------------------
(* The invariant is kept by LoopWait.                                      *)
LEMMA LoopWaitStep ==
  ASSUME IInv, Disciplined, NEW t \in Threads, LoopWait(t)
  PROVE  IInv'
<1> USE MachineAssumption DEF LoopWait, Goto, Threads, LoopPoints, CallPoints,
     LockedPoints, ticks, calls, locks, loops, mvars
<1>1. Ranges' /\ LoopExists' /\ RetKept'
  BY DEF IInv, Ranges, LoopExists, RetKept
<1>2. LockHeld' /\ IndexInList' /\ ListedOnce'
  BY DEF IInv, Ranges, LockHeld, IndexInList, ListedOnce
<1>3. JobDriven'
  BY DEF IInv, Ranges, RetKept, JobDriven, Freeing
<1>4. SameView
  BY DEF IInv, Ranges, LoopExists, SameView, Starting, Pausing, Ticked,
       Erasing, Listed
<1>5. Agreement'
  BY <1>4, SameViewAgrees DEF IInv
<1>6. GoneQuietly'
  BY <1>4 DEF IInv, Ranges, RetKept, GoneQuietly, Freeing, Releasing, SameView
<1> QED BY <1>1, <1>2, <1>3, <1>5, <1>6 DEF IInv

(* The invariant is kept by TickLock.                                      *)
LEMMA TickLockStep ==
  ASSUME IInv, Disciplined, NEW t \in Threads, TickLock(t)
  PROVE  IInv'
<1> USE MachineAssumption DEF TickLock, Goto, Threads, LoopPoints, CallPoints,
     LockedPoints, ticks, calls, locks, loops, mvars, Free, LoopEnd
<1>1. Ranges' /\ LoopExists' /\ RetKept'
  BY DEF IInv, Ranges, LoopExists, RetKept
<1>2. LockHeld' /\ IndexInList' /\ ListedOnce'
  BY DEF IInv, Ranges, LockHeld, IndexInList, ListedOnce
<1>3. JobDriven'
  BY DEF IInv, Ranges, RetKept, JobDriven, Freeing
<1>4. SameView
  BY DEF IInv, Ranges, LoopExists, SameView, Starting, Pausing, Ticked,
       Erasing, Listed
<1>5. Agreement'
  BY <1>4, SameViewAgrees DEF IInv
<1>6. GoneQuietly'
  BY <1>4 DEF IInv, Ranges, RetKept, GoneQuietly, Freeing, Releasing, SameView
<1> QED BY <1>1, <1>2, <1>3, <1>5, <1>6 DEF IInv

(* The invariant is kept by TickMachine.                                   *)
LEMMA TickMachineStep ==
  ASSUME IInv, Disciplined, NEW t \in Threads, TickMachine(t)
  PROVE  IInv'
<1> USE MachineAssumption DEF TickMachine, Goto, Threads, LoopPoints,
     CallPoints, LockedPoints, ticks, calls, locks, loops, mvars
<1>0. /\ pc[t] = "tick" /\ idx[t] > 0
      /\ \/ idx' = [idx EXCEPT ![t] = @ - 1] /\ UNCHANGED pc
         \/ pc' = [pc EXCEPT ![t] = "tick_join"] /\ UNCHANGED idx
      /\ UNCHANGED <<job, ret, machines, running, hart, freed, thread, globalLock>>
  OBVIOUS
<1> HIDE DEF TickMachine
<1>1. Ranges' /\ LoopExists' /\ RetKept'
  <2>1. /\ idx' \in [Threads -> Nat]
        /\ UNCHANGED <<job, ret, machines, running, hart, freed>>
    BY <1>0 DEF IInv, Ranges
  <2>2. pc' \in [Threads -> {"idle", "off"} \cup LoopPoints \cup CallPoints]
    BY <1>0 DEF IInv, Ranges
  <2>3. pc[Loop]' \in {"off"} \cup LoopPoints
    BY <1>0 DEF IInv, Ranges
  <2>4. Ranges'
    BY <2>1, <2>2, <2>3 DEF IInv, Ranges
  <2>5. LoopExists' /\ RetKept'
    BY <1>0 DEF IInv, Ranges, LoopExists, RetKept
  <2> QED BY <2>4, <2>5
<1>2. LockHeld' /\ IndexInList' /\ ListedOnce'
  BY <1>0 DEF IInv, Ranges, LockHeld, IndexInList, ListedOnce
<1>3. JobDriven'
  BY <1>0 DEF IInv, Ranges, RetKept, JobDriven, Freeing
<1>4. SameView
  BY <1>0, ZenonT(30) DEF IInv, Ranges, SameView, Starting, Pausing, Ticked, Erasing,
       Listed
<1>5. Agreement'
  BY <1>0, <1>4, SameViewAgrees DEF IInv
<1>6. GoneQuietly'
  BY <1>0, <1>4 DEF IInv, Ranges, RetKept, GoneQuietly, Freeing, Releasing,
       SameView
<1> QED BY <1>1, <1>2, <1>3, <1>5, <1>6 DEF IInv

(* The machine at hand has its hart stopped.                               *)
LEMMA TickJoinStep ==
  ASSUME IInv, Disciplined, NEW t \in Threads, TickJoin(t)
  PROVE  IInv'
<1> USE MachineAssumption DEF TickJoin, Goto, Threads, LoopPoints, CallPoints,
     LockedPoints, ticks, calls, locks, loops, mvars, Stop
<1>1. Ranges' /\ LoopExists' /\ RetKept'
  BY DEF IInv, Ranges, LoopExists, RetKept
<1>2. LockHeld' /\ IndexInList' /\ ListedOnce'
  BY DEF IInv, Ranges, LockHeld, IndexInList, ListedOnce
<1>3. JobDriven'
  BY DEF IInv, Ranges, RetKept, JobDriven, Freeing
<1>4. \A x \in Machines :
        /\ Listed(x)' <=> Listed(x)
        /\ Starting(x)' <=> Starting(x)
        /\ Pausing(x)' <=> Pausing(x)
        /\ Ticked(x)' <=> Ticked(x) \/ x = machines[idx[t]]
        /\ Erasing(x)' <=> Erasing(x)
  BY DEF IInv, Ranges, Starting, Pausing, Ticked, Erasing, Listed
<1>5. Agreement'
  BY <1>4 DEF IInv, Ranges, Agreement
<1>6. GoneQuietly'
  BY <1>4 DEF IInv, Ranges, RetKept, GoneQuietly, Freeing, Releasing
<1> QED BY <1>1, <1>2, <1>3, <1>5, <1>6 DEF IInv

(* The invariant is kept by TickReset.                                     *)
LEMMA TickResetStep ==
  ASSUME IInv, Disciplined, NEW t \in Threads, TickReset(t)
  PROVE  IInv'
<1> USE MachineAssumption DEF TickReset, Goto, Threads, LoopPoints,
     CallPoints, LockedPoints, ticks, calls, locks, loops, mvars
<1>1. Ranges' /\ LoopExists' /\ RetKept'
  BY DEF IInv, Ranges, LoopExists, RetKept
<1>2. LockHeld' /\ IndexInList' /\ ListedOnce'
  BY DEF IInv, Ranges, LockHeld, IndexInList, ListedOnce
<1>3. JobDriven'
  BY DEF IInv, Ranges, RetKept, JobDriven, Freeing
<1>4. SameView
  BY DEF IInv, Ranges, LoopExists, SameView, Starting, Pausing, Ticked,
       Erasing, Listed
<1>5. Agreement'
  BY <1>4, SameViewAgrees DEF IInv
<1>6. GoneQuietly'
  BY <1>4 DEF IInv, Ranges, RetKept, GoneQuietly, Freeing, Releasing, SameView
<1> QED BY <1>1, <1>2, <1>3, <1>5, <1>6 DEF IInv

(* ... and started again.                                                  *)
LEMMA TickSpawnStep ==
  ASSUME IInv, Disciplined, NEW t \in Threads, TickSpawn(t)
  PROVE  IInv'
<1> USE MachineAssumption DEF TickSpawn, Goto, Threads, LoopPoints,
     CallPoints, LockedPoints, ticks, calls, locks, loops, mvars, Spawned
<1>0. \A u \in Threads : pc[u] \in LockedPoints => u = t
  BY HolderAlone DEF IInv
<1>1. Ranges' /\ LoopExists' /\ RetKept'
  BY DEF IInv, Ranges, LoopExists, RetKept, IndexInList
<1>2. LockHeld' /\ IndexInList' /\ ListedOnce'
  BY DEF IInv, Ranges, LockHeld, IndexInList, ListedOnce
<1>3. JobDriven'
  BY DEF IInv, Ranges, RetKept, JobDriven, Freeing
<1>4. \A x \in Machines :
        /\ Listed(x)' <=> Listed(x)
        /\ Starting(x)' <=> Starting(x)
        /\ Pausing(x)' <=> Pausing(x)
        /\ Ticked(x)' <=> FALSE
        /\ Erasing(x)' <=> Erasing(x)
  BY <1>0 DEF IInv, Ranges, Starting, Pausing, Ticked, Erasing, Listed
<1>5. Agreement'
  <2>1. machines[idx[t]] \in Machines /\ Listed(machines[idx[t]])
    BY SMTT(30) DEF IInv, Ranges, IndexInList, Listed
  <2>2. \A x \in Machines : Ticked(x) => x = machines[idx[t]]
    BY <1>0 DEF Ticked
  <2> QED BY <1>4, <2>1, <2>2 DEF IInv, Ranges, Agreement
<1>6. GoneQuietly'
  BY <1>4 DEF IInv, Ranges, RetKept, GoneQuietly, Freeing, Releasing
<1> QED BY <1>1, <1>2, <1>3, <1>5, <1>6 DEF IInv

(* ... or is declared not running, still listed: it is being erased.       *)
LEMMA TickOffStep ==
  ASSUME IInv, Disciplined, NEW t \in Threads, TickOff(t)
  PROVE  IInv'
<1> USE MachineAssumption DEF TickOff, Goto, Threads, LoopPoints, CallPoints,
     LockedPoints, ticks, calls, locks, loops, mvars
<1>0. \A u \in Threads : pc[u] \in LockedPoints => u = t
  BY HolderAlone DEF IInv
<1>1. Ranges' /\ LoopExists' /\ RetKept'
  BY DEF IInv, Ranges, LoopExists, RetKept
<1>2. LockHeld' /\ IndexInList' /\ ListedOnce'
  BY DEF IInv, Ranges, LockHeld, IndexInList, ListedOnce
<1>3. JobDriven'
  BY DEF IInv, Ranges, RetKept, JobDriven, Freeing
<1>4. \A x \in Machines :
        /\ Listed(x)' <=> Listed(x)
        /\ Starting(x)' <=> Starting(x)
        /\ Pausing(x)' <=> Pausing(x)
        /\ Ticked(x)' <=> Ticked(x)
        /\ Erasing(x)' <=> x = machines[idx[t]]
  BY <1>0 DEF IInv, Ranges, Starting, Pausing, Ticked, Erasing, Listed
<1>5. Agreement'
  <2>1. \A x \in Machines : ~Erasing(x)
    BY <1>0 DEF Erasing
  <2>2. machines[idx[t]] \in Machines /\ Listed(machines[idx[t]])
    BY DEF IInv, Ranges, IndexInList, Listed
  <2> QED BY <1>4, <2>1, <2>2 DEF IInv, Ranges, Agreement
<1>6. GoneQuietly'
  <2>1. \A x \in Machines : ~Erasing(x)
    BY <1>0 DEF Erasing
  <2> QED BY <1>4, <2>1 DEF IInv, Ranges, RetKept, GoneQuietly, Freeing,
       Releasing
<1> QED BY <1>1, <1>2, <1>3, <1>5, <1>6 DEF IInv

(* ... and taken off the list; if its driver has begun to start it again,  *)
(* the start will append it.                                               *)
LEMMA TickEraseStep ==
  ASSUME IInv, Disciplined, NEW t \in Threads, TickErase(t)
  PROVE  IInv'
<1> USE MachineAssumption DEF Goto, Threads, LoopPoints, CallPoints,
     LockedPoints, calls, locks, loops, mvars
<1> DEFINE e == machines[idx[t]]
<1>a. /\ idx[t] \in 1..Len(machines) /\ Len(machines) \in Nat /\ e \in Machines
      /\ pc[t] = "tick_erase" /\ pc' = [pc EXCEPT ![t] = "tick"]
      /\ idx' = [idx EXCEPT ![t] = @ - 1]
      /\ machines' = RemoveAt(machines, idx[t])
      /\ UNCHANGED <<job, ret, thread, running, hart, freed, globalLock>>
  BY DEF IInv, Ranges, IndexInList, TickErase
<1>b. \A x \in Machines : (Ticked(x) <=> x = e) /\ (Erasing(x) <=> x = e)
  BY <1>a, HolderAlone DEF IInv, Ticked, Erasing
<1> HIDE DEF e
<1>c. /\ machines' \in Seq(Machines) /\ Len(machines') = Len(machines) - 1
      /\ ListedOnce'
      /\ \A x \in Machines : Listed(x)' <=> Listed(x) /\ x # e
  BY <1>a, RemoveAtUnlists, RemoveAtShifts DEF IInv, Ranges, e
<1>1. Ranges' /\ LoopExists' /\ RetKept'
  BY <1>a, <1>c DEF IInv, Ranges, LoopExists, RetKept
<1>2. LockHeld' /\ IndexInList'
  BY <1>a, <1>c, HolderAlone DEF IInv, Ranges, LockHeld, IndexInList
<1>3. JobDriven'
  BY <1>a DEF IInv, Ranges, RetKept, JobDriven, Freeing
<1>4. \A x \in Machines :
        /\ Starting(x)' <=> Starting(x)
        /\ Pausing(x)' <=> Pausing(x)
        /\ ~Ticked(x)' /\ ~Erasing(x)'
  <2>1. \A x \in Machines :
          (Starting(x)' <=> Starting(x)) /\ (Pausing(x)' <=> Pausing(x))
    BY <1>a DEF IInv, Ranges, Starting, Pausing
  <2>2. \A x \in Machines : ~Ticked(x)' /\ ~Erasing(x)'
    BY <1>a, HolderAlone DEF IInv, Ranges, Ticked, Erasing
  <2> QED BY <2>1, <2>2
<1>5. Agreement'
  BY <1>a, <1>b, <1>c, <1>4 DEF IInv, Ranges, Agreement
<1>6. GoneQuietly'
  BY <1>a, <1>b, <1>c DEF IInv, Ranges, RetKept, GoneQuietly, Freeing,
       Releasing
<1> QED BY <1>c, <1>1, <1>2, <1>3, <1>5, <1>6 DEF IInv

(* The invariant is kept by TickEnd.                                       *)
LEMMA TickEndStep ==
  ASSUME IInv, Disciplined, NEW t \in Threads, TickEnd(t)
  PROVE  IInv'
<1> USE MachineAssumption DEF TickEnd, Goto, Threads, LoopPoints, CallPoints,
     LockedPoints, ticks, calls, locks, loops, mvars, Unlock, LoopEnd
<1>1. Ranges' /\ LoopExists' /\ RetKept'
  BY DEF IInv, Ranges, LoopExists, RetKept
<1>2. LockHeld' /\ IndexInList' /\ ListedOnce'
  BY DEF IInv, Ranges, LockHeld, IndexInList, ListedOnce
<1>3. JobDriven'
  BY DEF IInv, Ranges, RetKept, JobDriven, Freeing
<1>4. SameView
  BY DEF IInv, Ranges, LoopExists, SameView, Starting, Pausing, Ticked,
       Erasing, Listed
<1>5. Agreement'
  BY <1>4, SameViewAgrees DEF IInv
<1>6. GoneQuietly'
  BY <1>4 DEF IInv, Ranges, RetKept, GoneQuietly, Freeing, Releasing, SameView
<1> QED BY <1>1, <1>2, <1>3, <1>5, <1>6 DEF IInv

-----------------------------------------------------------------------------
(* Initially nothing runs.                                                 *)
LEMMA InitOk == Init => IInv
<1> SUFFICES ASSUME Init PROVE IInv
  OBVIOUS
<1> USE MachineAssumption DEF Init, Threads, LoopPoints, CallPoints,
     LockedPoints
<1>1. Ranges
  BY DEF Ranges
<1>2. LockHeld /\ IndexInList /\ ListedOnce /\ LoopExists /\ RetKept
  BY DEF LockHeld, IndexInList, ListedOnce, LoopExists, RetKept
<1>3. \A m \in Machines :
        /\ ~Listed(m)
        /\ ~Starting(m) /\ ~Pausing(m) /\ ~Ticked(m) /\ ~Erasing(m)
  <2>1. \A m \in Machines : ~Listed(m)
    BY DEF Listed
  <2>2. \A m \in Machines : ~Starting(m) /\ ~Pausing(m)
    BY DEF Starting, Pausing
  <2>3. \A m \in Machines : ~Ticked(m) /\ ~Erasing(m)
    BY DEF Ticked, Erasing
  <2> QED BY <2>1, <2>2, <2>3
<1>4. JobDriven /\ Agreement /\ GoneQuietly
  BY <1>3 DEF JobDriven, Agreement, GoneQuietly, Freeing, Releasing
<1> QED BY <1>1, <1>2, <1>4 DEF IInv

(* What the invariant says of a machine nobody is working on.              *)
LEMMA IInvImplies == IInv => RunningServed /\ FreedNotUsed
<1> SUFFICES ASSUME IInv PROVE RunningServed /\ FreedNotUsed
  OBVIOUS
<1>1. \A m \in Machines : Listings(m) = IF Listed(m) THEN 1 ELSE 0
  BY ListingsCount DEF IInv
<1>2. \A m \in Machines :
        ~InTransition(m) =>
          ~Ticked(m) /\ ~Erasing(m) /\ ~Starting(m) /\ ~Pausing(m)
  BY DEF InTransition, Ticked, Erasing, Starting, Pausing
<1>3. RunningServed
  BY <1>1, <1>2 DEF IInv, Ranges, Agreement, RunningServed
<1>4. FreedNotUsed
  BY <1>1 DEF IInv, Ranges, Agreement, GoneQuietly, FreedNotUsed
<1> QED BY <1>3, <1>4

-----------------------------------------------------------------------------
(* Every step keeps the invariant.                                         *)
LEMMA NextOk ==
  ASSUME IInv, Disciplined, [Next]_vars
  PROVE  IInv'
<1>1. ASSUME NEW t \in Threads, Step(t) PROVE IInv'
  BY <1>1, StartLockStep, StartResetStep, StartSpawnStep, PauseLockStep,
     PauseJoinStep, ReconfigureNeedStep, ReconfigureLockStep,
     ReconfigureJoinStep, ReconfigureCreateStep, FreeReconfigureStep,
     FreeDoneStep, ResetWakeStep, PlugPauseStep, ManualOffStep, LoopWaitStep,
     TickLockStep, TickMachineStep, TickJoinStep, TickResetStep, TickSpawnStep,
     TickOffStep, TickEraseStep, TickEndStep DEF Step
<1>2. ASSUME NEW t \in Api, Begin(t) PROVE IInv'
  BY <1>2, StartSwapStep, PauseSwapStep, FreePauseStep, PlugLockStep,
     ResetStoreStep, ManualOnStep DEF Begin
<1>3. ASSUME NEW m \in Machines, Guest(m) \/ GuestWake(m) PROVE IInv'
  BY <1>3, GuestStoreStep, GuestWakeStep DEF Guest
<1>4. ASSUME UNCHANGED vars PROVE IInv'
  BY <1>4 DEF vars, ticks, calls, locks, loops, mvars, IInv, Ranges, LockHeld,
     IndexInList, ListedOnce, LoopExists, RetKept, JobDriven, Agreement,
     GoneQuietly, Listed, Starting, Pausing, Ticked, Erasing, Freeing, Releasing
<1> QED BY <1>1, <1>2, <1>3, <1>4 DEF Next

(* The invariant holds in every behaviour of disciplined callers.          *)
THEOREM InductiveInvariant ==
  ASSUME Disciplined
  PROVE  Spec => []IInv
<1>1. Init => IInv
  BY InitOk
<1>2. IInv /\ [Next]_vars => IInv'
  BY NextOk
<1> QED BY <1>1, <1>2, PTL DEF Spec

(* Whatever the order of starts, pauses, resets, power-offs and ticks of   *)
(* any number of callers, a machine nobody works on says that it runs      *)
(* exactly if the eventloop serves it, once, and its hart exists.          *)
THEOREM MachinesServed ==
  ASSUME Disciplined
  PROVE  Spec => []RunningServed
<1>1. IInv => RunningServed
  BY IInvImplies
<1> QED BY <1>1, InductiveInvariant, PTL

(* rvvm_free_machine destroys a machine only when no list and no hart      *)
(* thread has it any more, even if it lost the race with a power-off.      *)
THEOREM FreedMachinesUnused ==
  ASSUME Disciplined
  PROVE  Spec => []FreedNotUsed
<1>1. IInv => FreedNotUsed
  BY IInvImplies
<1> QED BY <1>1, InductiveInvariant, PTL

-----------------------------------------------------------------------------
(* Types and locks                                                         *)

(* What the types add to the invariant: eventloop_lock is held exactly     *)
(* between ReconfigureLock and ReconfigureCreate, and a tick that is over  *)
(* leaves no index behind.                                                 *)
FieldsOK ==
  /\ need \in [Threads -> [cond : BOOLEAN, thread : BOOLEAN]]
  /\ state \in [Threads -> {"on", "off", "reset"}]
  /\ quit \in [Threads -> BOOLEAN]
  /\ power \in [Machines -> {"on", "off", "reset"}]
  /\ manual \in BOOLEAN /\ cond \in BOOLEAN /\ thread \in BOOLEAN
  /\ eventloopLock = {t \in Threads : pc[t] \in {"join", "create"}}
  /\ \A t, u \in eventloopLock : t = u
  /\ \A t \in Threads : pc[t] \notin LockedPoints \cap LoopPoints => idx[t] = 0

(* Each action keeps them.                                                 *)
LEMMA FieldsStep ==
  ASSUME Ranges, LoopExists, IndexInList, FieldsOK, [Next]_vars
  PROVE  FieldsOK'
<1> DEFINE Goal == FieldsOK'
<1> DEFINE TickPoints == LockedPoints \cap LoopPoints
<1> DEFINE Reconf == {"join", "create"}
<1>1. /\ Loop \in Threads /\ Api \subseteq Threads
      /\ pc \in [Threads -> {"idle", "off"} \cup LoopPoints \cup CallPoints]
      /\ pc[Loop] \in {"off"} \cup LoopPoints /\ idx \in [Threads -> Nat]
      /\ job \in [Threads -> Machines] /\ machines \in Seq(Machines)
      /\ ret \in [Threads -> {"idle", "wait", "free", "freed"}]
  BY DEF Threads, Ranges
<1>2. /\ TickPoints = {"tick", "tick_join", "tick_reset", "tick_spawn", "tick_off",
                       "tick_erase"}
      /\ "idle" \notin TickPoints /\ "off" \notin TickPoints
      /\ {"wait", "tick_lock"} \cap TickPoints = {}
      /\ CallPoints \cap TickPoints = {} /\ Reconf \cap TickPoints = {}
  BY DEF LockedPoints, LoopPoints, CallPoints
<1> HIDE DEF TickPoints
(* A step outside eventloop_lock that leaves the tick's locals alone.      *)
<1>3. ASSUME NEW t \in Threads, NEW to, pc' = [pc EXCEPT ![t] = to],
             pc[t] \notin Reconf, to \notin Reconf,
             pc[t] \in TickPoints => to \in TickPoints,
             UNCHANGED <<idx, eventloopLock>>
      PROVE  /\ eventloopLock' = {u \in Threads : pc'[u] \in Reconf}
             /\ \A u, v \in eventloopLock' : u = v
             /\ \A u \in Threads : pc'[u] \notin TickPoints => idx'[u] = 0
  <2>1. eventloopLock' = {u \in Threads : pc'[u] \in Reconf}
    BY <1>1, <1>3 DEF FieldsOK
  <2>2. \A u \in Threads : pc'[u] \notin TickPoints => idx'[u] = 0
    BY <1>1, <1>3 DEF FieldsOK, TickPoints
  <2>3. QED
    BY <1>3, <2>1, <2>2 DEF FieldsOK
<1>4. ASSUME NEW t \in Threads, NEW from, NEW to, Goto(t, from, to),
             {from, to} \cap (Reconf \cup TickPoints) = {},
             UNCHANGED <<ticks, eventloopLock, cond, thread>>,
             manual' \in BOOLEAN,
             need' \in [Threads -> [cond : BOOLEAN, thread : BOOLEAN]],
             power' \in [Machines -> {"on", "off", "reset"}]
      PROVE  Goal
  <2>1. /\ eventloopLock' = {u \in Threads : pc'[u] \in Reconf}
        /\ \A u, v \in eventloopLock' : u = v
        /\ \A u \in Threads : pc'[u] \notin TickPoints => idx'[u] = 0
    BY <1>3, <1>4 DEF Goto, ticks
  <2>2. QED
    BY <1>4, <2>1 DEF FieldsOK, ticks, TickPoints
<1>5. /\ \A t \in Threads : job[t] \in Machines
      /\ \A t : LoopEnd(t) \notin Reconf \cup TickPoints
  BY <1>1, <1>2 DEF LoopEnd
<1> HIDE DEF Goal
<1>6. ASSUME UNCHANGED vars PROVE Goal
  BY <1>6 DEF vars, ticks, calls, locks, loops, mvars, FieldsOK, Goal
<1>7. ASSUME NEW t \in Threads,
             \/ StartLock(t) \/ StartSpawn(t) \/ PauseLock(t) \/ PauseJoin(t)
             \/ FreeReconfigure(t) \/ FreeDone(t) \/ ResetWake(t) \/ PlugPause(t)
             \/ LoopWait(t)
      PROVE  Goal
  BY <1>2, <1>4, <1>7 DEF StartLock, StartSpawn, PauseLock, PauseJoin,
     FreeReconfigure, FreeDone, ResetWake, PlugPause, LoopWait, FieldsOK, calls,
     locks, loops, mvars, CallPoints
<1>8. ASSUME NEW t \in Threads, StartReset(t) PROVE Goal
  <2>1. power' \in [Machines -> {"on", "off", "reset"}]
    BY <1>5, <1>8 DEF StartReset, FieldsOK
  <2>2. QED
    BY <1>2, <1>4, <1>8, <2>1 DEF StartReset, FieldsOK, calls, locks, loops,
       CallPoints
<1>9. ASSUME NEW t \in Threads, ReconfigureNeed(t) PROVE Goal
  <2>1. need' \in [Threads -> [cond : BOOLEAN, thread : BOOLEAN]]
    <3> DEFINE n == [cond   |-> manual \/ machines # <<>>,
                     thread |-> ~manual /\ machines # <<>>]
    <3>1. n \in [cond : BOOLEAN, thread : BOOLEAN]
      OBVIOUS
    <3>2. need' = [need EXCEPT ![t] = n]
      BY <1>9 DEF ReconfigureNeed
    <3> HIDE DEF n
    <3>3. QED
      BY <3>1, <3>2 DEF FieldsOK
  <2>2. QED
    BY <1>2, <1>4, <1>9, <2>1 DEF ReconfigureNeed, FieldsOK, locks, loops, mvars,
       CallPoints
<1>10. ASSUME NEW t \in Threads, ManualOff(t) PROVE Goal
  BY <1>2, <1>4, <1>10 DEF ManualOff, FieldsOK, calls, locks, mvars, CallPoints
<1>11. ASSUME NEW t \in Api, Begin(t) PROVE Goal
  <2>1. t \in Threads
    BY <1>1
  <2>2. ASSUME NEW m \in Machines,
               StartSwap(t, m) \/ PauseSwap(t, m) \/ FreePause(t, m) \/ PlugLock(t, m)
        PROVE  Goal
    BY <1>2, <1>4, <2>1, <2>2 DEF StartSwap, PauseSwap, FreePause, PlugLock, Call,
       FieldsOK, locks, loops, mvars, CallPoints
  <2>3. ASSUME NEW m \in Machines, NEW p \in {"off", "reset"}, ResetStore(t, m, p)
        PROVE  Goal
    <3>1. power' \in [Machines -> {"on", "off", "reset"}]
      BY <2>3 DEF ResetStore, FieldsOK
    <3>2. QED
      BY <1>2, <1>4, <2>1, <2>3, <3>1 DEF ResetStore, Call, FieldsOK, locks,
         loops, CallPoints
  <2>4. ASSUME ManualOn(t) PROVE Goal
    BY <1>2, <1>4, <2>1, <2>4 DEF ManualOn, FieldsOK, locks, mvars, CallPoints
  <2>5. QED
    BY <1>11, <2>2, <2>3, <2>4 DEF Begin
<1>12. ASSUME NEW m \in Machines, Guest(m) \/ GuestWake(m) PROVE Goal
  <2>1. power' \in [Machines -> {"on", "off", "reset"}]
    BY <1>12 DEF Guest, GuestStore, GuestWake, FieldsOK
  <2>2. UNCHANGED <<pc, ticks, calls, locks, loops>>
    BY <1>12 DEF Guest, GuestStore, GuestWake
  <2>3. QED
    BY <2>1, <2>2 DEF FieldsOK, ticks, calls, locks, loops, Goal
(* eventloop_lock is taken, kept, and released.                            *)
<1>13. ASSUME NEW t \in Threads, ReconfigureLock(t) PROVE Goal
  <2>1. /\ \E to \in Reconf : pc' = [pc EXCEPT ![t] = to]
        /\ pc[t] = "reconf" /\ eventloopLock = {} /\ eventloopLock' = {t}
        /\ UNCHANGED <<ticks, need, loops, power>>
    BY <1>13 DEF ReconfigureLock, Goto, Lock, calls, mvars
  <2>2. eventloopLock' = {u \in Threads : pc'[u] \in Reconf}
    BY <1>1, <2>1 DEF FieldsOK
  <2>3. \A u \in Threads : pc'[u] \notin TickPoints => idx'[u] = 0
    BY <1>1, <1>2, <2>1 DEF FieldsOK, ticks, TickPoints, CallPoints
  <2>4. QED
    BY <2>1, <2>2, <2>3 DEF FieldsOK, ticks, loops, TickPoints, Goal
<1>14. ASSUME NEW t \in Threads, ReconfigureJoin(t) PROVE Goal
  <2>1. /\ pc' = [pc EXCEPT ![t] = "create"] /\ pc[t] = "join" /\ thread' = FALSE
        /\ UNCHANGED <<ticks, need, eventloopLock, manual, cond, power>>
    BY <1>14 DEF ReconfigureJoin, Goto, calls, locks, mvars
  <2>2. eventloopLock' = {u \in Threads : pc'[u] \in Reconf}
    BY <1>1, <2>1 DEF FieldsOK
  <2>3. \A u \in Threads : pc'[u] \notin TickPoints => idx'[u] = 0
    BY <1>1, <1>2, <2>1 DEF FieldsOK, ticks, TickPoints, CallPoints
  <2>4. QED
    BY <2>1, <2>2, <2>3 DEF FieldsOK, ticks, TickPoints, Goal
<1>15. ASSUME NEW t \in Threads, ReconfigureCreate(t) PROVE Goal
  <2>1. /\ pc[t] = "create" /\ eventloopLock' = eventloopLock \ {t}
        /\ thread' \in BOOLEAN /\ cond' = need[t].cond
        /\ need' = [need EXCEPT ![t] = [cond |-> FALSE, thread |-> FALSE]]
        /\ UNCHANGED <<ticks, manual, power>>
    BY <1>15 DEF ReconfigureCreate, Unlock, FieldsOK, mvars
  <2>2. t # Loop
    BY <1>1, <2>1 DEF LoopPoints
  <2>3. /\ pc' \in [Threads -> {"idle", "off"} \cup LoopPoints \cup CallPoints]
        /\ pc'[t] = ret[t] /\ pc'[Loop] \in {pc[Loop], "wait"}
        /\ \A u \in Threads \ {t, Loop} : pc'[u] = pc[u]
    <3>1. ret[t] \in {"idle", "off"} \cup LoopPoints \cup CallPoints
      BY <1>1 DEF LoopPoints, CallPoints
    <3>2. QED
      BY <1>1, <1>15, <2>2, <3>1 DEF ReconfigureCreate, LoopPoints
  <2>4. ret[t] \notin Reconf
    BY <1>1
  <2>5. pc[Loop] \notin Reconf
    BY <1>1 DEF LoopPoints
  <2>6. eventloopLock' = {u \in Threads : pc'[u] \in Reconf}
    BY <1>1, <2>1, <2>2, <2>3, <2>4, <2>5 DEF FieldsOK
  <2>7. \A u, v \in eventloopLock' : u = v
    BY <2>1 DEF FieldsOK
  <2>8. \A u \in Threads : pc'[u] \notin TickPoints => idx'[u] = 0
    <3>1. pc[t] \notin TickPoints
      BY <1>2, <2>1
    <3>2. pc[Loop] \in TickPoints => pc'[Loop] = pc[Loop]
      <4>1. need[t].thread /\ ~thread => pc[Loop] \notin TickPoints
        BY <1>2 DEF LoopExists
      <4>2. QED
        BY <1>1, <1>15, <2>2, <4>1 DEF ReconfigureCreate
    <3>3. QED
      BY <2>1, <2>2, <2>3, <3>1, <3>2 DEF FieldsOK, ticks, TickPoints
  <2>9. need' \in [Threads -> [cond : BOOLEAN, thread : BOOLEAN]] /\ cond' \in BOOLEAN
    BY <2>1 DEF FieldsOK
  <2>10. QED
    BY <2>1, <2>6, <2>7, <2>8, <2>9 DEF FieldsOK, ticks, TickPoints, Goal
(* The tick: its index is back at 0 when it leaves global_lock.            *)
<1>16. ASSUME NEW t \in Threads, NEW to, NEW n, pc' = [pc EXCEPT ![t] = to],
              pc[t] \notin Reconf, to \notin Reconf, idx' = [idx EXCEPT ![t] = n],
              to \in TickPoints \/ n = 0,
              UNCHANGED <<eventloopLock, need, loops>>,
              state' \in [Threads -> {"on", "off", "reset"}],
              quit' \in [Threads -> BOOLEAN],
              power' \in [Machines -> {"on", "off", "reset"}]
       PROVE  Goal
  <2>1. eventloopLock' = {u \in Threads : pc'[u] \in Reconf}
    BY <1>1, <1>16 DEF FieldsOK
  <2>2. \A u \in Threads : pc'[u] \notin TickPoints => idx'[u] = 0
    BY <1>1, <1>16 DEF FieldsOK, TickPoints
  <2>3. QED
    BY <1>16, <2>1, <2>2 DEF FieldsOK, loops, TickPoints, Goal
<1>17. \A t \in Threads : idx' = idx => idx' = [idx EXCEPT ![t] = idx[t]]
  BY <1>1
<1>18. ASSUME NEW t \in Threads, TickLock(t) PROVE Goal
  <2> DEFINE over == machines = <<>> \/ manual = (t = Loop)
  <2>1. /\ pc' = [pc EXCEPT ![t] = IF over THEN LoopEnd(t) ELSE "tick"]
        /\ pc[t] = "tick_lock"
        /\ idx' = [idx EXCEPT ![t] = IF over THEN 0 ELSE Len(machines)]
        /\ UNCHANGED <<state, quit, need, eventloopLock, loops, power>>
    BY <1>18 DEF TickLock, Goto, calls, mvars
  <2> HIDE DEF over
  <2>2. CASE over
    BY <1>5, <1>16, <2>1, <2>2 DEF FieldsOK
  <2>3. CASE ~over
    BY <1>2, <1>16, <2>1, <2>3 DEF FieldsOK
  <2>4. QED
    BY <2>2, <2>3
<1>19. ASSUME NEW t \in Threads, TickMachine(t) PROVE Goal
  <2>1. /\ pc[t] = "tick" /\ UNCHANGED <<quit, need, eventloopLock, loops, power>>
    BY <1>19 DEF TickMachine, calls, locks, mvars
  <2>2. machines[idx[t]] \in Machines
    <3>1. idx[t] \in 1..Len(machines)
      BY <1>1, <1>19 DEF TickMachine, IndexInList
    <3>2. QED
      BY <1>1, <3>1
  <2>3. CASE idx' = [idx EXCEPT ![t] = @ - 1] /\ UNCHANGED <<pc, state>>
    <3>1. pc' = [pc EXCEPT ![t] = "tick"]
      BY <1>1, <2>1, <2>3
    <3>2. QED
      BY <1>2, <1>16, <2>1, <2>3, <3>1 DEF FieldsOK
  <2>4. CASE /\ pc' = [pc EXCEPT ![t] = "tick_join"] /\ UNCHANGED idx
             /\ state' = [state EXCEPT ![t] = power[machines[idx[t]]]]
    <3>1. state' \in [Threads -> {"on", "off", "reset"}]
      BY <2>2, <2>4 DEF FieldsOK
    <3>2. QED
      BY <1>2, <1>16, <1>17, <2>1, <2>4, <3>1 DEF FieldsOK
  <2>5. QED
    BY <1>19, <2>3, <2>4 DEF TickMachine
<1>20. ASSUME NEW t \in Threads, TickJoin(t) \/ TickReset(t) \/ TickOff(t) PROVE Goal
  <2>1. /\ \E to \in TickPoints : pc' = [pc EXCEPT ![t] = to]
        /\ pc[t] \in TickPoints /\ UNCHANGED <<ticks, need, eventloopLock, loops>>
    BY <1>2, <1>20 DEF TickJoin, TickReset, TickOff, Goto, calls, locks
  <2>2. power' \in [Machines -> {"on", "off", "reset"}]
    BY <1>20 DEF TickJoin, TickReset, TickOff, FieldsOK
  <2>3. idx' = [idx EXCEPT ![t] = idx[t]]
    BY <1>17, <2>1 DEF ticks
  <2>4. QED
    BY <1>2, <1>16, <2>1, <2>2, <2>3 DEF FieldsOK, ticks
<1>21. ASSUME NEW t \in Threads, TickSpawn(t) \/ TickErase(t) PROVE Goal
  <2>1. /\ pc' = [pc EXCEPT ![t] = "tick"] /\ pc[t] \in TickPoints
        /\ idx' = [idx EXCEPT ![t] = idx[t] - 1]
        /\ UNCHANGED <<need, eventloopLock, loops, power>>
    BY <1>2, <1>21 DEF TickSpawn, TickErase, Goto, calls, locks, mvars
  <2>2. /\ state' \in [Threads -> {"on", "off", "reset"}]
        /\ quit' \in [Threads -> BOOLEAN]
    BY <1>21 DEF TickSpawn, TickErase, FieldsOK
  <2>3. QED
    BY <1>2, <1>16, <2>1, <2>2 DEF FieldsOK
<1>22. ASSUME NEW t \in Threads, TickEnd(t) PROVE Goal
  <2>1. /\ pc' = [pc EXCEPT ![t] = IF quit[t] THEN LoopEnd(t) ELSE "wait"]
        /\ pc[t] = "tick" /\ idx[t] = 0 /\ UNCHANGED idx
        /\ UNCHANGED <<state, need, eventloopLock, loops, power>>
        /\ quit' \in [Threads -> BOOLEAN]
    BY <1>22 DEF TickEnd, Goto, calls, mvars, FieldsOK
  <2>2. (IF quit[t] THEN LoopEnd(t) ELSE "wait") \notin Reconf
    BY <1>5
  <2>3. idx' = [idx EXCEPT ![t] = 0]
    BY <1>17, <2>1
  <2>4. QED
    BY <1>16, <2>1, <2>2, <2>3 DEF FieldsOK
<1>23. Goal
  BY <1>6, <1>7, <1>8, <1>9, <1>10, <1>11, <1>12, <1>13, <1>14, <1>15, <1>18, <1>19,
     <1>20, <1>21, <1>22, Zenon DEF Next, Step
<1>24. QED
  BY <1>23 DEF Goal

(* The fields, the list and the locks of a process keep their types: only  *)
(* the holder of global_lock or eventloop_lock is inside the code that the *)
(* lock protects, and each has at most one holder, for any number of       *)
(* callers and machines.                                                   *)
THEOREM TypeCorrect ==
  ASSUME Disciplined
  PROVE  Spec => []TypeOK
<1>1. Init => FieldsOK
  <2> SUFFICES ASSUME Init PROVE FieldsOK
    OBVIOUS
  <2>1. eventloopLock = {t \in Threads : pc[t] \in {"join", "create"}}
    BY DEF Init
  <2>2. QED
    BY <2>1 DEF Init, FieldsOK
<1>2. IInv /\ FieldsOK /\ [Next]_vars => FieldsOK'
  BY FieldsStep DEF IInv
<1>3. IInv /\ FieldsOK => TypeOK
  <2> SUFFICES ASSUME IInv, FieldsOK PROVE TypeOK
    OBVIOUS
  <2>1. ASSUME NEW S, \A t, u \in S : t = u PROVE Cardinality(S) <= 1
    <3>1. CASE S = {}
      BY <3>1, FS_EmptySet
    <3>2. ASSUME NEW t \in S PROVE Cardinality(S) <= 1
      <4>1. S = {t}
        BY <2>1
      <4>2. QED
        BY <4>1, FS_Singleton
    <3>3. QED
      BY <3>1, <3>2
  <2>2. Cardinality(globalLock) <= 1 /\ Cardinality(eventloopLock) <= 1
    BY <2>1 DEF IInv, LockHeld, FieldsOK
  <2>3. idx \in [Threads -> 0..Len(machines)]
    <3>1. Len(machines) \in Nat /\ idx \in [Threads -> Nat]
      BY DEF IInv, Ranges
    <3>2. \A t \in Threads : idx[t] \in 0..Len(machines)
      BY <3>1 DEF IInv, IndexInList, FieldsOK
    <3>3. QED
      BY <3>1, <3>2
  <2>4. QED
    BY <2>2, <2>3 DEF IInv, Ranges, LockHeld, FieldsOK, TypeOK
<1>4. QED
  BY <1>1, <1>2, <1>3, InductiveInvariant, PTL DEF Spec

-----------------------------------------------------------------------------
(* The eventloop and its condition variable, with one caller               *)

OneCaller == \A t, u \in Api : t = u

(* The background thread has a condition variable, and its thread exists.  *)
(* A caller on its way to rvvm_eventloop has set the manual mode, so the   *)
(* needs it computes are a condition variable and no thread; once it is    *)
(* past the join there is no thread that it does not need, and it keeps    *)
(* this until it reconfigures again.                                       *)
Reconfiguring == {"need", "reconf", "join", "create"}
LoopsOK ==
  /\ LoopExists
  /\ thread => cond
  /\ \A t \in Api :
       /\ ret[t] = "wait" => pc[t] \in Reconfiguring /\ manual
       /\ pc[t] \in {"reconf", "join", "create"} =>
            /\ need[t].thread => need[t].cond
            /\ ret[t] = "wait" => need[t].cond /\ ~need[t].thread
       /\ pc[t] = "create" /\ thread => need[t].thread
       /\ pc[t] \in LoopPoints \cup {"manual_off"} => cond /\ ~thread

(* Types that do not need disciplined callers.                             *)
LoopTypes ==
  /\ pc \in [Threads -> {"idle", "off"} \cup LoopPoints \cup CallPoints]
  /\ pc[Loop] \in {"off"} \cup LoopPoints
  /\ ret \in [Threads -> {"idle", "wait", "free", "freed"}]
  /\ need \in [Threads -> [cond : BOOLEAN, thread : BOOLEAN]]
  /\ manual \in BOOLEAN /\ cond \in BOOLEAN /\ thread \in BOOLEAN

(* Every action keeps the two.                                             *)
LEMMA LoopsStep ==
  ASSUME OneCaller, LoopTypes, LoopsOK, [Next]_vars
  PROVE  LoopTypes' /\ LoopsOK'
<1> DEFINE Goal == LoopTypes' /\ LoopsOK'
<1>1. Loop \in Threads /\ Api \subseteq Threads /\ Loop \notin Api
      /\ \A t \in Threads : t \in Api \/ t = Loop
  BY MachineAssumption DEF Threads
<1>2. ASSUME UNCHANGED <<pc, ret, need, loops>> PROVE Goal
  BY <1>2 DEF LoopTypes, LoopsOK, LoopExists, loops
(* A step of a call or of a loop that does not reconfigure.                *)
<1>3. ASSUME NEW t \in Threads, NEW from, NEW to, Goto(t, from, to),
             from \notin {"off"} \cup Reconfiguring,
             to \in {"idle", "off"} \cup LoopPoints \cup CallPoints,
             to \notin {"reconf", "join", "create"},
             t = Loop => to \in {"off"} \cup LoopPoints,
             to \in LoopPoints \cup {"manual_off"} => from \in LoopPoints,
             UNCHANGED <<need, loops>>,
             \/ ret' = ret
             \/ \E r \in {"idle", "free", "freed"} :
                  t # Loop /\ ret' = [ret EXCEPT ![t] = r]
      PROVE  Goal
  <2>1. LoopTypes'
    BY <1>1, <1>3 DEF LoopTypes, Goto, loops
  <2>2. LoopExists' /\ (thread' => cond')
    BY <1>1, <1>3 DEF LoopTypes, LoopsOK, LoopExists, Goto, loops
  <2>3. ASSUME NEW u \in Api
        PROVE  /\ ret'[u] = "wait" => pc'[u] \in Reconfiguring /\ manual'
               /\ pc'[u] \in {"reconf", "join", "create"} =>
                    /\ need'[u].thread => need'[u].cond
                    /\ ret'[u] = "wait" => need'[u].cond /\ ~need'[u].thread
               /\ pc'[u] = "create" /\ thread' => need'[u].thread
               /\ pc'[u] \in LoopPoints \cup {"manual_off"} => cond' /\ ~thread'
    <3>1. CASE u = t
      <4>1. pc'[u] = to /\ pc[u] = from
        BY <1>1, <1>3, <3>1 DEF Goto, LoopTypes
      <4>2. ret[u] # "wait" /\ ret'[u] # "wait"
        BY <1>1, <1>3, <3>1, <4>1 DEF LoopsOK, LoopTypes
      <4>3. QED
        BY <1>3, <4>1, <4>2 DEF LoopsOK, loops
    <3>2. CASE u # t
      <4>1. pc'[u] = pc[u] /\ ret'[u] = ret[u]
        BY <1>1, <1>3, <3>2 DEF Goto, LoopTypes
      <4>2. QED
        BY <1>3, <4>1 DEF LoopsOK, loops
    <3>3. QED
      BY <3>1, <3>2
  <2>4. QED
    BY <2>1, <2>2, <2>3 DEF LoopsOK
<1> HIDE DEF Goal
<1>4. ASSUME UNCHANGED vars PROVE Goal
  BY <1>2, <1>4 DEF vars, calls
<1>5. ASSUME NEW t \in Threads, pc[t] \notin {"off"} \cup LoopPoints PROVE t # Loop
  BY <1>5 DEF LoopTypes
<1>6. ASSUME NEW t \in Threads,
             \/ StartLock(t) \/ StartReset(t) \/ StartSpawn(t) \/ PauseLock(t)
             \/ PauseJoin(t) \/ FreeReconfigure(t) \/ FreeDone(t) \/ ResetWake(t)
             \/ PlugPause(t)
      PROVE  Goal
  <2>1. PICK from \in {"start_lock", "start_reset", "start_spawn", "pause_lock",
                       "pause_join", "free", "freed", "reset", "plug"},
             to \in {"start_reset", "start_spawn", "need", "pause_lock",
                     "pause_join", "idle"} : Goto(t, from, to)
    BY <1>6 DEF StartLock, StartReset, StartSpawn, PauseLock, PauseJoin,
       FreeReconfigure, FreeDone, ResetWake, PlugPause
  <2>2. /\ UNCHANGED <<need, loops>>
        /\ ret' = ret \/ ret' = [ret EXCEPT ![t] = "freed"]
    BY <1>6 DEF StartLock, StartReset, StartSpawn, PauseLock, PauseJoin,
       FreeReconfigure, FreeDone, ResetWake, PlugPause, calls
  <2>3. t # Loop
    BY <1>5, <2>1 DEF Goto, LoopPoints
  <2>4. QED
    BY <1>3, <2>1, <2>2, <2>3 DEF LoopPoints, CallPoints, Reconfiguring
<1>7. ASSUME NEW t \in Threads,
             \/ LoopWait(t) \/ TickLock(t) \/ TickJoin(t) \/ TickReset(t)
             \/ TickSpawn(t) \/ TickOff(t) \/ TickErase(t) \/ TickEnd(t)
      PROVE  Goal
  <2>1. PICK from \in LoopPoints, to \in LoopPoints \cup {LoopEnd(t)} :
               Goto(t, from, to)
    BY <1>7 DEF LoopWait, TickLock, TickJoin, TickReset, TickSpawn, TickOff,
       TickErase, TickEnd, LoopPoints
  <2>2. UNCHANGED <<need, loops, ret>>
    BY <1>7 DEF LoopWait, TickLock, TickJoin, TickReset, TickSpawn, TickOff,
       TickErase, TickEnd, calls
  <2>3. LoopEnd(t) = IF t = Loop THEN "off" ELSE "manual_off"
    BY DEF LoopEnd
  <2>4. QED
    BY <1>3, <2>1, <2>2, <2>3 DEF LoopPoints, CallPoints, Reconfiguring
<1>8. ASSUME NEW t \in Threads, TickMachine(t) PROVE Goal
  <2>1. UNCHANGED <<need, loops, ret>>
    BY <1>8 DEF TickMachine, calls
  <2>2. CASE UNCHANGED pc
    BY <1>2, <2>1, <2>2
  <2>3. CASE Goto(t, "tick", "tick_join")
    BY <1>3, <2>1, <2>3 DEF LoopPoints, CallPoints, Reconfiguring
  <2>4. QED
    BY <1>8, <2>2, <2>3 DEF TickMachine, Goto
<1>9. ASSUME NEW m \in Machines, Guest(m) \/ GuestWake(m) PROVE Goal
  BY <1>2, <1>9 DEF Guest, GuestStore, GuestWake, calls
<1>10. ASSUME NEW t \in Api, NEW m \in Machines,
              \/ StartSwap(t, m) \/ PauseSwap(t, m) \/ FreePause(t, m)
              \/ PlugLock(t, m) \/ \E p : ResetStore(t, m, p)
       PROVE  Goal
  <2>1. PICK to \in {"start_lock", "pause_lock", "free", "plug", "reset"},
             r \in {"idle", "free"} : Call(t, m, to, r)
    BY <1>10 DEF StartSwap, PauseSwap, FreePause, PlugLock, ResetStore
  <2>2. UNCHANGED loops
    BY <1>10 DEF StartSwap, PauseSwap, FreePause, PlugLock, ResetStore
  <2>3. t \in Threads /\ t # Loop
    BY <1>1
  <2>4. QED
    BY <1>3, <2>1, <2>2, <2>3 DEF Call, LoopPoints, CallPoints, Reconfiguring
(* The manual mode.                                                        *)
<1>11. ASSUME NEW t \in Api, ManualOn(t) \/ ManualOff(t) PROVE Goal
  <2>1. t \in Threads /\ t # Loop /\ \A u \in Api : u = t
    BY <1>1 DEF OneCaller
  <2>2. /\ pc' = [pc EXCEPT ![t] = "need"] /\ pc[t] \in {"idle", "manual_off"}
        /\ UNCHANGED <<need, cond, thread>> /\ manual' \in BOOLEAN
        /\ \/ manual' /\ ret' = [ret EXCEPT ![t] = "wait"]
           \/ ret' = ret /\ pc[t] = "manual_off"
    BY <1>11 DEF ManualOn, ManualOff, Goto, calls
  <2>3. ret[t] # "wait"
    BY <2>2 DEF LoopsOK, Reconfiguring
  <2>4. LoopTypes'
    BY <2>1, <2>2 DEF LoopTypes, LoopPoints, CallPoints
  <2>5. pc'[t] = "need" /\ pc'[Loop] = pc[Loop]
    BY <1>1, <2>1, <2>2 DEF LoopTypes
  <2>6. ret'[t] = "wait" => manual'
    BY <2>1, <2>2, <2>3 DEF LoopTypes
  <2>7. QED
    BY <2>1, <2>2, <2>4, <2>5, <2>6
       DEF LoopsOK, LoopExists, LoopPoints, Reconfiguring, Goal
(* The reconfiguration.                                                    *)
<1>12. ASSUME NEW t \in Threads, ReconfigureNeed(t) PROVE Goal
  <2> DEFINE n == [cond   |-> manual \/ machines # <<>>,
                   thread |-> ~manual /\ machines # <<>>]
  <2>1. /\ pc' = [pc EXCEPT ![t] = "reconf"] /\ pc[t] = "need"
        /\ need' = [need EXCEPT ![t] = n] /\ UNCHANGED <<ret, loops>>
    BY <1>12 DEF ReconfigureNeed, Goto
  <2>2. t # Loop /\ t \in Api /\ \A u \in Api : u = t
    BY <1>1, <1>5, <2>1 DEF LoopPoints, OneCaller
  <2>3. /\ n \in [cond : BOOLEAN, thread : BOOLEAN] /\ (n.thread => n.cond)
        /\ manual => n.cond /\ ~n.thread
    OBVIOUS
  <2> HIDE DEF n
  <2>4. LoopTypes'
    BY <2>1, <2>2, <2>3 DEF LoopTypes, LoopPoints, CallPoints, loops
  <2>5. pc'[t] = "reconf" /\ pc'[Loop] = pc[Loop] /\ need'[t] = n
    BY <1>1, <2>1, <2>2 DEF LoopTypes
  <2>6. QED
    BY <2>1, <2>2, <2>3, <2>4, <2>5
       DEF LoopsOK, LoopExists, LoopPoints, Reconfiguring, loops, Goal
<1>13. ASSUME NEW t \in Threads, ReconfigureLock(t) PROVE Goal
  <2>1. /\ pc' = [pc EXCEPT ![t] = IF ~need[t].thread /\ thread THEN "join"
                                                                ELSE "create"]
        /\ pc[t] = "reconf" /\ UNCHANGED <<need, ret, loops>>
    BY <1>13 DEF ReconfigureLock, Goto, calls
  <2>2. t # Loop /\ t \in Api /\ \A u \in Api : u = t
    BY <1>1, <1>5, <2>1 DEF LoopPoints, OneCaller
  <2>3. LoopTypes'
    BY <2>1, <2>2 DEF LoopTypes, LoopPoints, CallPoints, loops
  <2>4. /\ pc'[t] \in {"join", "create"} /\ pc'[Loop] = pc[Loop]
        /\ pc'[t] = "create" => need[t].thread \/ ~thread
    BY <1>1, <2>1, <2>2 DEF LoopTypes
  <2>5. QED
    BY <2>1, <2>2, <2>3, <2>4
       DEF LoopsOK, LoopExists, LoopPoints, Reconfiguring, loops, Goal
<1>14. ASSUME NEW t \in Threads, ReconfigureJoin(t) PROVE Goal
  <2>1. /\ pc' = [pc EXCEPT ![t] = "create"] /\ pc[t] = "join" /\ pc[Loop] = "off"
        /\ thread' = FALSE /\ UNCHANGED <<need, ret, manual, cond>>
    BY <1>14 DEF ReconfigureJoin, Goto, calls
  <2>2. t # Loop /\ t \in Api /\ \A u \in Api : u = t
    BY <1>1, <1>5, <2>1 DEF LoopPoints, OneCaller
  <2>3. pc'[t] = "create" /\ pc'[Loop] = "off"
    BY <1>1, <2>1, <2>2 DEF LoopTypes
  <2>4. LoopTypes'
    <3>1. pc' \in [Threads -> {"idle", "off"} \cup LoopPoints \cup CallPoints]
      BY <2>1 DEF LoopTypes, CallPoints
    <3>2. QED
      BY <2>1, <2>3, <3>1 DEF LoopTypes
  <2>5. QED
    BY <2>1, <2>2, <2>3, <2>4
       DEF LoopsOK, LoopExists, LoopPoints, Reconfiguring, Goal
<1>15. ASSUME NEW t \in Threads, ReconfigureCreate(t) PROVE Goal
  <2> DEFINE start == need[t].thread /\ ~thread
  <2>1. /\ pc[t] = "create"
        /\ pc' = [pc EXCEPT ![t] = ret[t], ![Loop] = IF start THEN "wait" ELSE @]
        /\ thread' = (thread \/ start) /\ cond' = need[t].cond
        /\ need' = [need EXCEPT ![t] = [cond |-> FALSE, thread |-> FALSE]]
        /\ ret' = [ret EXCEPT ![t] = "idle"] /\ UNCHANGED manual
    BY <1>15 DEF ReconfigureCreate
  <2>2. t # Loop /\ t \in Api /\ \A u \in Api : u = t
    BY <1>1, <1>5, <2>1 DEF LoopPoints, OneCaller
  <2>3. need[t].cond \in BOOLEAN /\ need[t].thread \in BOOLEAN /\ thread \in BOOLEAN
    BY DEF LoopTypes
  <2>4. /\ pc'[t] = ret[t] /\ pc'[Loop] = IF start THEN "wait" ELSE pc[Loop]
        /\ ret'[t] = "idle"
    BY <1>1, <2>1, <2>2 DEF LoopTypes
  <2>5. LoopTypes'
    <3>1. ret[t] \in {"idle", "off"} \cup LoopPoints \cup CallPoints
      BY DEF LoopTypes, LoopPoints, CallPoints
    <3>2. pc' \in [Threads -> {"idle", "off"} \cup LoopPoints \cup CallPoints]
      BY <1>1, <2>1, <2>2, <3>1 DEF LoopTypes, LoopPoints
    <3>3. QED
      BY <1>1, <2>1, <2>3, <2>4, <3>2 DEF LoopTypes, LoopPoints
  <2>6. thread' => need[t].thread /\ cond'
    BY <2>1, <2>2, <2>3 DEF LoopsOK
  <2>7. LoopExists'
    BY <2>1, <2>3, <2>4 DEF LoopsOK, LoopExists
  <2>8. ret[t] = "wait" => cond' /\ ~thread'
    BY <2>1, <2>2, <2>6 DEF LoopsOK
  <2>9. ret[t] \in {"idle", "wait", "free", "freed"}
    BY DEF LoopTypes
  <2>10. QED
    BY <2>2, <2>4, <2>5, <2>6, <2>7, <2>8, <2>9 DEF LoopsOK, LoopPoints, Goal
<1>16. ASSUME NEW t \in Threads, ManualOff(t) PROVE Goal
  <2>1. t \in Api
    BY <1>1, <1>5, <1>16 DEF ManualOff, Goto, LoopPoints
  <2>2. QED
    BY <1>11, <1>16, <2>1
<1>17. Goal
  BY <1>4, <1>6, <1>7, <1>8, <1>9, <1>10, <1>11, <1>12, <1>13, <1>14, <1>15, <1>16,
     Zenon DEF Next, Step, Begin
<1>18. QED
  BY <1>17 DEF Goal

(* The invariant holds in every behaviour of one caller.                   *)
LEMMA LoopsInvariant ==
  ASSUME OneCaller
  PROVE  Spec => [](LoopTypes /\ LoopsOK)
<1>1. Init => LoopTypes /\ LoopsOK
  <2> SUFFICES ASSUME Init PROVE LoopTypes /\ LoopsOK
    OBVIOUS
  <2>1. Loop \in Threads /\ Api \subseteq Threads /\ Loop \notin Api
    BY MachineAssumption DEF Threads
  <2>2. LoopTypes
    BY <2>1 DEF Init, LoopTypes
  <2>3. LoopsOK
    BY <2>1 DEF Init, LoopsOK, LoopExists, LoopPoints
  <2>4. QED
    BY <2>2, <2>3
<1>2. (LoopTypes /\ LoopsOK) /\ [Next]_vars => (LoopTypes /\ LoopsOK)'
  BY LoopsStep
<1>3. QED
  BY <1>1, <1>2, PTL DEF Spec

(* rvvm_reconfigure_eventloop never frees eventloop_cond under an          *)
(* eventloop that waits on it, the background thread's or the caller's     *)
(* own, as long as one thread calls the API; what that thread does, in     *)
(* which order, and what guests do meanwhile does not matter.              *)
THEOREM CondOutlives ==
  ASSUME OneCaller
  PROVE  Spec => []CondOutlivesLoop
<1>1. LoopTypes /\ LoopsOK => CondOutlivesLoop
  <2> SUFFICES ASSUME LoopTypes, LoopsOK, NEW t \in Threads, pc[t] = "wait"
               PROVE  cond
    BY DEF CondOutlivesLoop
  <2>1. CASE t \in Api
    BY <2>1 DEF LoopsOK, LoopPoints
  <2>2. CASE t = Loop
    BY <2>2 DEF LoopTypes, LoopsOK, LoopExists
  <2>3. QED
    BY <2>1, <2>2 DEF Threads
<1>2. QED
  BY <1>1, LoopsInvariant, PTL

(* rvvm_run_eventloop and the background thread do not serve the machines  *)
(* side by side: the one has joined the other before it begins.            *)
THEOREM LoopsExclude ==
  ASSUME OneCaller
  PROVE  Spec => []LoopsExclusive
<1>1. LoopTypes /\ LoopsOK => LoopsExclusive
  BY DEF LoopsOK, LoopExists, LoopsExclusive
<1>2. QED
  BY <1>1, LoopsInvariant, PTL
================================================================================
