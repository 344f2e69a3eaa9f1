---------------------------- MODULE SpinlockProofs ----------------------------
(***************************************************************************)
(* Proofs about Spinlock for every finite set of threads: its inductive    *)
(* invariant, that nobody sleeps forgotten, and that it implements the     *)
(* reader/writer lock of RWLock.                                           *)
(***************************************************************************)
EXTENDS Spinlock, FiniteSetTheorems, TLAPS

(* The readers are finitely many, so their number is a natural; it is zero *)
(* only if there are none.                                                 *)
LEMMA ReadersFinite ==
  /\ IsFiniteSet(Readers) /\ Cardinality(Readers) \in Nat
  /\ Cardinality(Readers) = 0 <=> Readers = {}
<1>1. IsFiniteSet(Readers)
  BY ThreadsAssumption, FS_Subset DEF Readers, Held
<1>2. QED
  BY <1>1, FS_CardinalityType, FS_EmptySet

(* A thread leaves the readers: one less of them.                          *)
LEMMA ReadersRemove ==
  ASSUME NEW t \in Readers
  PROVE  /\ Cardinality(Readers) - 1 \in Nat
         /\ Cardinality(Readers \ {t}) = Cardinality(Readers) - 1
<1>1. Cardinality(Readers \ {t}) = Cardinality(Readers) - 1
  BY ReadersFinite, FS_RemoveElement
<1>2. Cardinality(Readers) # 0
  BY ReadersFinite
<1>3. QED
  BY <1>1, <1>2, ReadersFinite

(* The part of the invariant that is about who holds the lock.             *)
Holders == TypeOK /\ FlagExact /\ Exclusive

(* A step that moves a thread neither into nor out of the lock, and leaves *)
(* the holders' part of the word alone.                                    *)
LEMMA QuietStep ==
  ASSUME Holders, TypeOK', Held' = Held, \A t \in Held : mode'[t] = mode[t],
         flag'.writer = flag.writer, flag'.readers = flag.readers,
         \A t \in Threads : pc'[t] # "fatal"
  PROVE  Holders'
<1>1. Writers' = Writers /\ Readers' = Readers
  BY DEF Writers, Readers
<1>2. FlagExact'
  BY <1>1 DEF Holders, FlagExact
<1>3. Exclusive'
  BY <1>1 DEF Holders, Exclusive
<1>4. QED
  BY <1>2, <1>3 DEF Holders

(* An attempt to claim the lock, at any of the three places that do.       *)
LEMMA ClaimStep ==
  ASSUME Holders, NEW t \in Threads, NEW m \in {"write", "read"},
         NEW w \in BOOLEAN, NEW from \in {"idle", "user_claim", "claim"},
         NEW to \in {"user", "kernel"},
         TryClaim(t, m, from, w, to),
         mode' = [mode EXCEPT ![t] = m], UNCHANGED <<kind, seen>>
  PROVE  Holders'
<1> USE DEF Holders, TypeOK, Points, LoopPoints, WakePoints, Word
<1>1. CASE Available(flag, m)
  <2>1. /\ pc' = [pc EXCEPT ![t] = "held"] /\ pc[t] = from
        /\ flag' = Claimed(m, w)
    BY <1>1 DEF TryClaim, Goto
  <2>2. ~flag.writer /\ flag.readers \in Nat
    BY <1>1 DEF Available, Quiescent
  <2>3. TypeOK'
    BY <2>1, <2>2 DEF Claimed
  <2>4. Writers = {} /\ t \notin Held
    BY <2>1, <2>2 DEF FlagExact, Held
  <2>5. Held' = Held \cup {t}
    BY <2>1 DEF Held
  <2>6. CASE m = "write"
    <3>1. Readers = {}
      BY <1>1, <2>6, ReadersFinite DEF FlagExact, Available, Quiescent
    <3>2. Held = {}
      BY <2>4, <3>1 DEF Held, Writers, Readers
    <3>3. Writers' = {t} /\ Readers' = {}
      BY <2>1, <2>5, <2>6, <3>2 DEF Writers, Readers
    <3>4. flag.readers = 0
      BY <1>1, <2>6 DEF Available, Quiescent
    <3>5. flag'.writer /\ flag'.readers = 0
      BY <2>1, <2>6, <3>4 DEF Claimed
    <3>6. FlagExact'
      BY <2>1, <3>3, <3>5, FS_EmptySet DEF FlagExact
    <3>7. Exclusive'
      BY <2>5, <3>2, <3>3 DEF Exclusive
    <3>8. QED
      BY <2>3, <3>6, <3>7
  <2>7. CASE m = "read"
    <3>1. Writers' = {} /\ Readers' = Readers \cup {t} /\ t \notin Readers
      BY <2>1, <2>4, <2>5, <2>7 DEF Writers, Readers
    <3>2. Cardinality(Readers') = Cardinality(Readers) + 1
      BY <3>1, ReadersFinite, FS_AddElement
    <3>3. ~flag'.writer /\ flag'.readers = flag.readers + 1
      BY <2>1, <2>7 DEF Claimed
    <3>4. FlagExact'
      BY <2>1, <3>1, <3>2, <3>3 DEF FlagExact
    <3>5. Exclusive'
      BY <3>1 DEF Exclusive
    <3>6. QED
      BY <2>3, <3>4, <3>5
  <2>8. QED
    BY <2>6, <2>7
<1>2. CASE ~Available(flag, m)
  <2>1. pc' = [pc EXCEPT ![t] = to] /\ flag' = flag /\ pc[t] = from
    BY <1>2 DEF TryClaim, Goto
  <2>2. TypeOK'
    BY <2>1
  <2>3. Held' = Held /\ \A s \in Held : mode'[s] = mode[s]
    BY <2>1 DEF Held
  <2>4. \A s \in Threads : pc'[s] # "fatal"
    BY <2>1 DEF FlagExact
  <2>5. QED
    BY <2>1, <2>2, <2>3, <2>4, QuietStep
<1>3. QED
  BY <1>1, <1>2

(* The holders' part of the invariant is preserved by every step.          *)
LEMMA HoldersStep == Holders /\ Remembered /\ [Next]_vars => Holders'
<1> SUFFICES ASSUME Holders, Remembered, [Next]_vars PROVE Holders'
  OBVIOUS
<1> USE DEF Points, LoopPoints, WakePoints
<1>1. CASE UNCHANGED vars
  BY <1>1 DEF vars, Holders, TypeOK, FlagExact, Exclusive, Writers, Readers, Held
<1>2. ASSUME NEW t \in Threads, NEW m \in {"write", "read"}, Lock(t, m)
      PROVE  Holders'
  BY <1>2, ClaimStep DEF Lock
<1>3. ASSUME NEW t \in Threads, UserClaim(t) \/ KernelClaim(t)
      PROVE  Holders'
  <2>1. mode[t] \in {"write", "read"} /\ mode' = [mode EXCEPT ![t] = mode[t]]
    BY <1>3 DEF UserClaim, KernelClaim, Holders, TypeOK
  <2>2. QED
    BY <1>3, <2>1, ClaimStep DEF UserClaim, KernelClaim
<1>4. ASSUME NEW t \in Threads,
             LockSpurious(t) \/ UserSpin(t) \/ KernelLoad(t) \/ FutexWait(t)
               \/ FutexTimeout(t)
      PROVE  Holders'
  <2>1. TypeOK' /\ flag' = flag
    <3>1. Quiescent \in Word
      BY DEF Quiescent, Word
    <3>2. CASE LockSpurious(t) \/ UserSpin(t) \/ FutexTimeout(t)
      BY <3>2 DEF LockSpurious, UserSpin, FutexTimeout, Goto, Holders, TypeOK
    <3>3. CASE KernelLoad(t)
      BY <3>3 DEF KernelLoad, Goto, Holders, TypeOK
    <3>4. CASE FutexWait(t)
      BY <3>1, <3>4 DEF FutexWait, Goto, Holders, TypeOK
    <3>5. QED
      BY <1>4, <3>2, <3>3, <3>4
  <2>2. Held' = Held /\ \A s \in Held : mode'[s] = mode[s]
    BY <1>4 DEF LockSpurious, UserSpin, KernelLoad, FutexWait, FutexTimeout, Goto,
                Holders, TypeOK, Held
  <2>3. \A s \in Threads : pc'[s] # "fatal"
    BY <1>4 DEF LockSpurious, UserSpin, KernelLoad, FutexWait, FutexTimeout, Goto,
                Holders, TypeOK, FlagExact
  <2>4. QED
    BY <2>1, <2>2, <2>3, QuietStep
<1>5. ASSUME NEW t \in Threads, Mark(t) \/ ReadWakeClear(t)
      PROVE  Holders'
  <2>1. TypeOK' /\ flag'.writer = flag.writer /\ flag'.readers = flag.readers
    <3>1. Quiescent \in Word
      BY DEF Quiescent, Word
    <3>2. ASSUME NEW f \in Word, NEW b \in BOOLEAN
          PROVE  /\ [f EXCEPT !.waiters = b] \in Word
                 /\ [f EXCEPT !.waiters = b].writer = f.writer
                 /\ [f EXCEPT !.waiters = b].readers = f.readers
      BY DEF Word
    <3>3. flag \in Word /\ seen \in [Threads -> Word]
      BY DEF Holders, TypeOK
    <3>4. CASE ReadWakeClear(t)
      BY <3>2, <3>3, <3>4 DEF ReadWakeClear, Goto, Holders, TypeOK
    <3>5. CASE Mark(t) /\ flag = seen[t]
      <4>1. /\ flag' = [flag EXCEPT !.waiters = TRUE]
            /\ seen' = [seen EXCEPT ![t] = [seen[t] EXCEPT !.waiters = TRUE]]
            /\ pc' = [pc EXCEPT ![t] = "futex"] /\ UNCHANGED <<kind, mode>>
        BY <3>5 DEF Mark, Goto
      <4>2. flag' \in Word /\ [seen[t] EXCEPT !.waiters = TRUE] \in Word
        BY <3>2, <3>3, <4>1
      <4>3. QED
        BY <3>2, <3>3, <4>1, <4>2 DEF Holders, TypeOK
    <3>6. CASE Mark(t) /\ flag # seen[t]
      BY <3>1, <3>6 DEF Mark, Goto, Holders, TypeOK
    <3>7. QED
      BY <1>5, <3>4, <3>5, <3>6
  <2>2. Held' = Held /\ mode' = mode
    BY <1>5 DEF Mark, ReadWakeClear, Goto, Holders, TypeOK, Held
  <2>3. \A s \in Threads : pc'[s] # "fatal"
    BY <1>5 DEF Mark, ReadWakeClear, Goto, Holders, TypeOK, FlagExact
  <2>4. QED
    BY <2>1, <2>2, <2>3, QuietStep
<1>6. ASSUME NEW t \in Threads, FutexWake(t)
      PROVE  Holders'
  <2>1. TypeOK' /\ flag' = flag /\ mode' = mode
    BY <1>6 DEF FutexWake, Asleep, Holders, TypeOK
  <2>2. Held' = Held
    BY <1>6 DEF FutexWake, Asleep, Holders, TypeOK, Held
  <2>3. \A s \in Threads : pc'[s] # "fatal"
    BY <1>6 DEF FutexWake, Asleep, Holders, TypeOK, FlagExact
  <2>4. QED
    BY <2>1, <2>2, <2>3, QuietStep
<1>7. ASSUME NEW t \in Threads, UnlockWrite(t) \/ UnlockBusyLoop(t)
      PROVE  Holders'
  <2>1. t \in Writers
    BY <1>7 DEF UnlockWrite, UnlockBusyLoop, Release, Goto, Writers, Held
  <2>2. Held = {t} /\ Readers = {}
    BY <2>1 DEF Holders, Exclusive, Writers, Readers, Held
  <2>3. flag.writer /\ flag.readers = 0
    BY <2>1, <2>2, ReadersFinite DEF Holders, FlagExact
  <2>4. /\ flag' = Quiescent
        /\ \E to \in {"wake", "idle"} : pc' = [pc EXCEPT ![t] = to]
        /\ mode' = [mode EXCEPT ![t] = "write"] /\ UNCHANGED <<kind, seen>>
    BY <1>7, <2>3 DEF UnlockWrite, UnlockBusyLoop, Release, Goto
  <2>5. Held' = {}
    BY <2>2, <2>4 DEF Held, Holders, TypeOK
  <2>6. Writers' = {} /\ Readers' = {}
    BY <2>5 DEF Writers, Readers
  <2>7. TypeOK'
    BY <2>4 DEF Holders, TypeOK, Word, Quiescent
  <2>8. FlagExact'
    BY <2>4, <2>6, FS_EmptySet DEF FlagExact, Quiescent, Holders, TypeOK
  <2>9. QED
    BY <2>6, <2>7, <2>8 DEF Holders, Exclusive
<1>8. ASSUME NEW t \in Threads, UnlockRead(t)
      PROVE  Holders'
  <2>1. t \in Readers
    BY <1>8 DEF UnlockRead, Release, Goto, Readers, Held
  <2>2. Writers = {}
    BY <2>1 DEF Holders, Exclusive, Writers, Readers, Held
  <2>3. ~flag.writer /\ flag.readers # 0 /\ flag.readers - 1 \in Nat
    BY <2>1, <2>2, ReadersFinite, ReadersRemove DEF Holders, FlagExact
  <2>4. /\ flag' = [flag EXCEPT !.readers = @ - 1]
        /\ \E to \in {"clear", "idle"} : pc' = [pc EXCEPT ![t] = to]
        /\ mode' = [mode EXCEPT ![t] = "write"] /\ UNCHANGED <<kind, seen>>
    BY <1>8, <2>3 DEF UnlockRead, Release, Goto
  <2>5. Held' = Held \ {t}
    BY <2>4 DEF Held, Holders, TypeOK
  <2>6. Writers' = {} /\ Readers' = Readers \ {t}
    BY <2>2, <2>4, <2>5 DEF Writers, Readers, Held, Holders, TypeOK
  <2>7. TypeOK'
    BY <2>3, <2>4 DEF Holders, TypeOK, Word
  <2>8. ~flag'.writer /\ flag'.readers = flag.readers - 1
    BY <2>3, <2>4 DEF Holders, TypeOK, Word
  <2>9. \A s \in Threads : pc'[s] # "fatal"
    BY <2>4 DEF Holders, TypeOK, FlagExact
  <2>10. FlagExact'
    BY <2>1, <2>6, <2>8, <2>9, ReadersRemove DEF FlagExact, Holders
  <2>11. QED
    BY <2>6, <2>7, <2>10 DEF Holders, Exclusive
<1>9. QED
  BY <1>1, <1>2, <1>3, <1>4, <1>5, <1>6, <1>7, <1>8 DEF Next, Begin, Continue

-----------------------------------------------------------------------------
(* A lock that looks available is one without waiters.                     *)
LEMMA AvailableUnmarked ==
  ASSUME NEW m \in {"write", "read"}, Available(flag, m)
  PROVE  ~flag.waiters
BY DEF Available, Quiescent

(* A lock that looks unavailable, and that nobody waits for, is held.      *)
LEMMA UnavailableHeld ==
  ASSUME Holders, NEW m \in {"write", "read"},
         ~Available(flag, m), ~flag.waiters
  PROVE  Held # {}
<1>1. CASE flag.writer
  BY <1>1 DEF Holders, FlagExact, Writers
<1>2. CASE ~flag.writer
  <2>1. m = "write" /\ flag # Quiescent
    BY <1>2 DEF Available
  <2>2. flag.readers # 0
    BY <1>2, <2>1 DEF Holders, TypeOK, Word, Quiescent
  <2>3. Readers # {}
    BY <2>2, ReadersFinite DEF Holders, FlagExact
  <2>4. QED
    BY <2>3 DEF Readers
<1>3. QED
  BY <1>1, <1>2

(* The part of the invariant that is about who waits.                      *)
Waiters == BusyNeverSleeps /\ Remembered /\ FreeUnmarked /\ SleepersCovered

(* An attempt to claim the lock keeps it.  From the wait loop the lock is  *)
(* claimed with the waiters bit: this is what covers the sleepers.         *)
LEMMA ClaimWaiters ==
  ASSUME Holders, Waiters, NEW t \in Threads, NEW m \in {"write", "read"},
         NEW w \in BOOLEAN, NEW from \in {"idle", "user_claim", "claim"},
         NEW to \in {"user", "kernel"},
         from = "claim" => w /\ to = "kernel",
         TryClaim(t, m, from, w, to),
         mode' = [mode EXCEPT ![t] = m], UNCHANGED <<kind, seen>>
  PROVE  Waiters'
<1> USE DEF Holders, TypeOK, Points, LoopPoints, WakePoints
<1>1. /\ pc[t] = from
      /\ pc' = [pc EXCEPT ![t] = IF Available(flag, m) THEN "held" ELSE to]
      /\ flag' = IF Available(flag, m) THEN Claimed(m, w) ELSE flag
  BY DEF TryClaim, Goto
<1>2. Asleep' = Asleep
  BY <1>1 DEF Asleep
<1>3. BusyNeverSleeps'
  BY <1>1 DEF Waiters, BusyNeverSleeps
<1>4. Remembered'
  BY <1>1 DEF Waiters, Remembered, Available
<1>5. FreeUnmarked'
  <2>1. CASE Available(flag, m)
    BY <1>1, <2>1 DEF FreeUnmarked, Held
  <2>2. CASE ~Available(flag, m)
    BY <1>1, <2>2 DEF Waiters, FreeUnmarked, Held
  <2>3. QED
    BY <2>1, <2>2
<1>6. SleepersCovered'
  <2>1. CASE from = "claim" /\ Available(flag, m)
    BY <1>1, <2>1 DEF SleepersCovered, Claimed
  <2>2. CASE from = "claim" /\ ~Available(flag, m)
    BY <1>1, <2>2 DEF SleepersCovered
  <2>3. CASE from # "claim"
    <3>1. \A s \in Threads : pc[s] \in LoopPoints \cup WakePoints => pc'[s] = pc[s]
      BY <1>1, <2>3
    <3>2. CASE Available(flag, m)
      BY <1>2, <3>1, <3>2, AvailableUnmarked DEF Waiters, SleepersCovered
    <3>3. CASE ~Available(flag, m)
      BY <1>1, <1>2, <3>1, <3>3 DEF Waiters, SleepersCovered
    <3>4. QED
      BY <3>2, <3>3
  <2>4. QED
    BY <2>1, <2>2, <2>3
<1>7. QED
  BY <1>3, <1>4, <1>5, <1>6 DEF Waiters

(* The waiters' part of the invariant is preserved by every step.          *)
LEMMA WaitersStep == Holders /\ Waiters /\ [Next]_vars => Waiters'
<1> SUFFICES ASSUME Holders, Waiters, [Next]_vars PROVE Waiters'
  OBVIOUS
<1> USE DEF Points, LoopPoints, WakePoints
<1>1. CASE UNCHANGED vars
  BY <1>1 DEF vars, Waiters, BusyNeverSleeps, Remembered, FreeUnmarked,
              SleepersCovered, Held, Asleep, Available
<1>2. ASSUME NEW t \in Threads, NEW m \in {"write", "read"}, Lock(t, m)
      PROVE  Waiters'
  BY <1>2, ClaimWaiters DEF Lock
<1>3. ASSUME NEW t \in Threads, UserClaim(t) \/ KernelClaim(t)
      PROVE  Waiters'
  <2>1. mode[t] \in {"write", "read"} /\ mode' = [mode EXCEPT ![t] = mode[t]]
    BY <1>3 DEF UserClaim, KernelClaim, Holders, TypeOK
  <2>2. CASE UserClaim(t)
    BY <2>1, <2>2, ClaimWaiters DEF UserClaim
  <2>3. CASE KernelClaim(t)
    BY <2>1, <2>3, ClaimWaiters DEF KernelClaim
  <2>4. QED
    BY <1>3, <2>2, <2>3
<1>4. ASSUME NEW t \in Threads, LockSpurious(t) \/ UserSpin(t) \/ FutexTimeout(t)
      PROVE  Waiters'
  <2> USE <1>4 DEF LockSpurious, UserSpin, FutexTimeout, Goto, Holders, TypeOK
  <2>1. BusyNeverSleeps' /\ FreeUnmarked'
    BY DEF Waiters, BusyNeverSleeps, FreeUnmarked, Held
  <2>2. Remembered'
    BY DEF Waiters, Remembered, Available
  <2>3. SleepersCovered'
    BY DEF Waiters, SleepersCovered, Asleep
  <2>4. QED
    BY <2>1, <2>2, <2>3 DEF Waiters
<1>5. ASSUME NEW t \in Threads, KernelLoad(t)
      PROVE  Waiters'
  <2> USE <1>5 DEF KernelLoad, Goto, Holders, TypeOK
  <2>1. BusyNeverSleeps' /\ FreeUnmarked'
    BY DEF Waiters, BusyNeverSleeps, FreeUnmarked, Held
  <2>2. Remembered'
    BY DEF Waiters, Remembered, Available
  <2>3. SleepersCovered'
    BY DEF Waiters, SleepersCovered, Asleep
  <2>4. QED
    BY <2>1, <2>2, <2>3 DEF Waiters
<1>6. ASSUME NEW t \in Threads, Mark(t), flag = seen[t]
      PROVE  Waiters'
  <2>1. /\ flag' = [flag EXCEPT !.waiters = TRUE]
        /\ seen' = [seen EXCEPT ![t] = [seen[t] EXCEPT !.waiters = TRUE]]
        /\ pc' = [pc EXCEPT ![t] = "futex"] /\ pc[t] = "mark"
        /\ UNCHANGED <<kind, mode>>
    BY <1>6 DEF Mark, Goto
  <2>2. Held # {} /\ Held' = Held
    <3>1. ~Available(flag, mode[t]) /\ ~flag.waiters /\ mode[t] \in {"write", "read"}
      BY <1>6, <2>1 DEF Waiters, Remembered, Holders, TypeOK
    <3>2. QED
      BY <2>1, <3>1, UnavailableHeld DEF Held, Holders, TypeOK
  <2>3. BusyNeverSleeps'
    BY <2>1 DEF Waiters, BusyNeverSleeps, Holders, TypeOK
  <2>4. FreeUnmarked'
    BY <2>2 DEF FreeUnmarked
  <2>5. Remembered'
    BY <2>1 DEF Waiters, Remembered, Available, Holders, TypeOK, Word
  <2>6. SleepersCovered'
    BY <2>1 DEF SleepersCovered, Holders, TypeOK
  <2>7. QED
    BY <2>3, <2>4, <2>5, <2>6 DEF Waiters
<1>7. ASSUME NEW t \in Threads, Mark(t), flag # seen[t]
      PROVE  Waiters'
  <2>1. /\ pc' = [pc EXCEPT ![t] = "kernel"] /\ pc[t] = "mark"
        /\ seen' = [seen EXCEPT ![t] = Quiescent]
        /\ UNCHANGED <<flag, kind, mode>>
    BY <1>7 DEF Mark, Goto
  <2>2. BusyNeverSleeps' /\ FreeUnmarked'
    BY <2>1 DEF Waiters, BusyNeverSleeps, FreeUnmarked, Held, Holders, TypeOK
  <2>3. Remembered'
    BY <2>1 DEF Waiters, Remembered, Available, Holders, TypeOK
  <2>4. SleepersCovered'
    BY <2>1 DEF SleepersCovered, Holders, TypeOK
  <2>5. QED
    BY <2>2, <2>3, <2>4 DEF Waiters
<1>8. ASSUME NEW t \in Threads, FutexWait(t)
      PROVE  Waiters'
  <2>1. seen[t].waiters /\ kind # "busy" /\ pc[t] = "futex"
    BY <1>8 DEF FutexWait, Goto, Waiters, Remembered, BusyNeverSleeps
  <2>2. BusyNeverSleeps' /\ FreeUnmarked'
    BY <1>8, <2>1 DEF FutexWait, Goto, Waiters, BusyNeverSleeps, FreeUnmarked, Held,
                      Holders, TypeOK
  <2>3. Remembered'
    BY <1>8 DEF FutexWait, Goto, Waiters, Remembered, Available, Holders, TypeOK
  <2>4. SleepersCovered'
    BY <1>8, <2>1 DEF FutexWait, Goto, SleepersCovered, Holders, TypeOK
  <2>5. QED
    BY <2>2, <2>3, <2>4 DEF Waiters
<1>9. ASSUME NEW t \in Threads, UnlockWrite(t) \/ UnlockBusyLoop(t)
      PROVE  Waiters'
  <2>1. t \in Writers
    BY <1>9 DEF UnlockWrite, UnlockBusyLoop, Release, Goto, Writers, Held
  <2>2. Held = {t} /\ Readers = {}
    BY <2>1 DEF Holders, Exclusive, Writers, Readers, Held
  <2>3. flag.writer /\ flag.readers = 0
    BY <2>1, <2>2, ReadersFinite DEF Holders, FlagExact
  <2>4. PICK to \in {"wake", "idle"} :
          /\ pc' = [pc EXCEPT ![t] = to] /\ pc[t] = "held"
          /\ kind = "sleep" /\ flag.waiters => to = "wake"
          /\ flag' = Quiescent
          /\ mode' = [mode EXCEPT ![t] = "write"] /\ UNCHANGED <<kind, seen>>
    BY <1>9, <2>3 DEF UnlockWrite, UnlockBusyLoop, Release, Goto
  <2>5. BusyNeverSleeps' /\ FreeUnmarked'
    BY <2>4 DEF Waiters, BusyNeverSleeps, FreeUnmarked, Quiescent, Holders, TypeOK
  <2>6. Remembered'
    BY <2>4 DEF Waiters, Remembered, Available, Holders, TypeOK
  <2>7. SleepersCovered'
    <3>1. CASE kind = "busy"
      BY <2>4, <3>1 DEF Waiters, BusyNeverSleeps, SleepersCovered, Asleep, Holders,
                        TypeOK
    <3>2. CASE kind = "sleep" /\ flag.waiters
      BY <2>4, <3>2 DEF SleepersCovered, Holders, TypeOK
    <3>3. CASE kind = "sleep" /\ ~flag.waiters
      BY <2>4, <3>3 DEF Waiters, SleepersCovered, Asleep, Holders, TypeOK
    <3>4. QED
      BY <3>1, <3>2, <3>3 DEF Holders, TypeOK
  <2>8. QED
    BY <2>5, <2>6, <2>7 DEF Waiters
<1>10. ASSUME NEW t \in Threads, UnlockRead(t)
       PROVE  Waiters'
  <2>1. t \in Readers
    BY <1>10 DEF UnlockRead, Release, Goto, Readers, Held
  <2>2. Writers = {}
    BY <2>1 DEF Holders, Exclusive, Writers, Readers, Held
  <2>3. ~flag.writer /\ flag.readers # 0
    BY <2>1, <2>2, ReadersFinite DEF Holders, FlagExact
  <2>4. PICK to \in {"clear", "idle"} :
          /\ pc' = [pc EXCEPT ![t] = to] /\ pc[t] = "held"
          /\ flag.waiters <=> to = "clear"
          /\ flag'.waiters = flag.waiters
          /\ mode' = [mode EXCEPT ![t] = "write"] /\ UNCHANGED <<kind, seen>>
    BY <1>10, <2>3 DEF UnlockRead, Release, Goto, Holders, TypeOK, Word
  <2>5. BusyNeverSleeps' /\ FreeUnmarked'
    BY <2>4 DEF Waiters, BusyNeverSleeps, FreeUnmarked, Holders, TypeOK
  <2>6. Remembered'
    BY <2>4 DEF Waiters, Remembered, Available, Holders, TypeOK
  <2>7. SleepersCovered'
    BY <2>4 DEF Waiters, SleepersCovered, Asleep, Holders, TypeOK
  <2>8. QED
    BY <2>5, <2>6, <2>7 DEF Waiters
<1>11. ASSUME NEW t \in Threads, ReadWakeClear(t)
       PROVE  Waiters'
  <2>1. /\ pc' = [pc EXCEPT ![t] = "wake"] /\ pc[t] = "clear"
        /\ ~flag'.waiters /\ UNCHANGED <<kind, mode, seen>>
    BY <1>11 DEF ReadWakeClear, Goto, Holders, TypeOK, Word
  <2>2. BusyNeverSleeps' /\ FreeUnmarked'
    BY <2>1 DEF Waiters, BusyNeverSleeps, FreeUnmarked, Holders, TypeOK
  <2>3. Remembered'
    BY <2>1 DEF Waiters, Remembered, Available, Holders, TypeOK
  <2>4. SleepersCovered'
    BY <2>1 DEF SleepersCovered, Holders, TypeOK
  <2>5. QED
    BY <2>2, <2>3, <2>4 DEF Waiters
<1>12. ASSUME NEW t \in Threads, FutexWake(t)
       PROVE  Waiters'
  <2>1. CASE Asleep = {}
    <3>1. pc[t] = "wake" /\ pc' = [pc EXCEPT ![t] = "idle"]
          /\ UNCHANGED <<kind, flag, mode, seen>>
      BY <1>12, <2>1 DEF FutexWake
    <3>2. BusyNeverSleeps' /\ FreeUnmarked'
      BY <3>1 DEF Waiters, BusyNeverSleeps, FreeUnmarked, Held, Holders, TypeOK
    <3>3. Remembered'
      BY <3>1 DEF Waiters, Remembered, Available, Holders, TypeOK
    <3>4. SleepersCovered'
      BY <2>1, <3>1 DEF SleepersCovered, Asleep, Holders, TypeOK
    <3>5. QED
      BY <3>2, <3>3, <3>4 DEF Waiters
  <2>2. CASE Asleep # {}
    <3>1. PICK s \in Asleep :
            /\ pc[t] = "wake" /\ pc' = [pc EXCEPT ![t] = "idle", ![s] = "kernel"]
            /\ UNCHANGED <<kind, flag, mode, seen>>
      BY <1>12, <2>2 DEF FutexWake
    <3>2. BusyNeverSleeps' /\ FreeUnmarked'
      BY <3>1 DEF Waiters, BusyNeverSleeps, FreeUnmarked, Held, Asleep, Holders, TypeOK
    <3>3. Remembered'
      BY <3>1 DEF Waiters, Remembered, Available, Asleep, Holders, TypeOK
    <3>4. SleepersCovered'
      BY <3>1 DEF SleepersCovered, Asleep, Holders, TypeOK
    <3>5. QED
      BY <3>2, <3>3, <3>4 DEF Waiters
  <2>3. QED
    BY <2>1, <2>2
<1>13. QED
  BY <1>1, <1>2, <1>3, <1>4, <1>5, <1>6, <1>7, <1>8, <1>9, <1>10, <1>11, <1>12
     DEF Next, Begin, Continue

-----------------------------------------------------------------------------
(* IInv is an invariant of every lock, whatever the number of threads.     *)
THEOREM InductiveInvariant == Spec => []IInv
<1>1. Init => IInv
  <2> SUFFICES ASSUME Init PROVE IInv
    OBVIOUS
  <2>1. Held = {} /\ Writers = {} /\ Readers = {} /\ Asleep = {}
    BY DEF Init, Held, Writers, Readers, Asleep
  <2>2. TypeOK
    BY DEF Init, TypeOK, Points, LoopPoints, WakePoints, Word, Quiescent
  <2>3. FlagExact
    BY <2>1, FS_EmptySet DEF Init, FlagExact, Quiescent
  <2>4. Exclusive /\ FreeUnmarked /\ SleepersCovered
    BY <2>1 DEF Init, Exclusive, FreeUnmarked, SleepersCovered, Quiescent
  <2>5. BusyNeverSleeps /\ Remembered
    BY DEF Init, BusyNeverSleeps, Remembered
  <2>6. QED
    BY <2>2, <2>3, <2>4, <2>5 DEF IInv
<1>2. IInv /\ [Next]_vars => IInv'
  BY HoldersStep, WaitersStep DEF IInv, Holders, Waiters
<1>3. QED
  BY <1>1, <1>2, PTL DEF Spec

(* Every variable stays in its range.                                      *)
THEOREM TypeCorrect == Spec => []TypeOK
<1>1. IInv => TypeOK
  BY DEF IInv
<1>2. QED
  BY <1>1, InductiveInvariant, PTL

(* The word says exactly who holds the lock.                               *)
THEOREM WordExact == Spec => []FlagExact
<1>1. IInv => FlagExact
  BY DEF IInv
<1>2. QED
  BY <1>1, InductiveInvariant, PTL

(* Nobody sleeps forgotten.                                                *)
THEOREM NobodyForgotten == Spec => []NoLostWakeup
<1>1. IInv => NoLostWakeup
  BY DEF IInv, NoLostWakeup, FreeUnmarked, SleepersCovered, WakePoints
<1>2. QED
  BY <1>1, InductiveInvariant, PTL

-----------------------------------------------------------------------------
(* An attempt to claim the lock acquires it or changes no holder.          *)
LEMMA ClaimRefines ==
  ASSUME Holders, NEW t \in Threads, NEW m \in {"write", "read"},
         NEW w \in BOOLEAN, NEW from \in {"idle", "user_claim", "claim"},
         NEW to \in {"user", "kernel"},
         TryClaim(t, m, from, w, to), mode' = [mode EXCEPT ![t] = m]
  PROVE  [Abstract!Next]_(Abstract!vars)
<1> USE DEF Holders, TypeOK
<1>1. CASE Available(flag, m)
  <2>1. pc' = [pc EXCEPT ![t] = "held"] /\ pc[t] = from
    BY <1>1 DEF TryClaim, Goto
  <2>2. Writers = {} /\ t \notin Held /\ t \notin Readers
    BY <1>1, <2>1 DEF FlagExact, Available, Quiescent, Held, Readers
  <2>3. CASE m = "write"
    <3>1. Readers = {}
      BY <1>1, <2>3, ReadersFinite DEF FlagExact, Available, Quiescent
    <3>2. Held = {}
      BY <2>2, <3>1 DEF Held, Writers, Readers
    <3>3. Writers' = {t} /\ Readers' = {}
      BY <2>1, <2>3, <3>2 DEF Held, Writers, Readers
    <3>4. Abstract!AcquireWrite(t)
      BY <2>2, <3>1, <3>3 DEF Abstract!AcquireWrite
    <3>5. QED
      BY <3>4 DEF Abstract!Next
  <2>4. CASE m = "read"
    <3>1. Writers' = {} /\ Readers' = Readers \cup {t}
      BY <2>1, <2>2, <2>4 DEF Held, Writers, Readers
    <3>2. Abstract!AcquireRead(t)
      BY <2>2, <3>1 DEF Abstract!AcquireRead
    <3>3. QED
      BY <3>2 DEF Abstract!Next
  <2>5. QED
    BY <2>3, <2>4
<1>2. CASE ~Available(flag, m)
  <2>1. pc' = [pc EXCEPT ![t] = to] /\ pc[t] = from
    BY <1>2 DEF TryClaim, Goto
  <2>2. Writers' = Writers /\ Readers' = Readers
    BY <2>1 DEF Writers, Readers, Held
  <2>3. QED
    BY <2>2 DEF Abstract!vars
<1>3. QED
  BY <1>1, <1>2

(* Every step of the spinlock acquires or releases the abstract lock, or   *)
(* leaves its holders as they are.                                         *)
LEMMA RefineStep == Holders /\ [Next]_vars => [Abstract!Next]_(Abstract!vars)
<1> SUFFICES ASSUME Holders, [Next]_vars PROVE [Abstract!Next]_(Abstract!vars)
  OBVIOUS
<1> USE DEF Holders, TypeOK
<1>1. CASE UNCHANGED vars
  BY <1>1 DEF vars, Abstract!vars, Writers, Readers, Held
<1>2. ASSUME NEW t \in Threads, NEW m \in {"write", "read"}, Lock(t, m)
      PROVE  [Abstract!Next]_(Abstract!vars)
  BY <1>2, ClaimRefines DEF Lock
<1>3. ASSUME NEW t \in Threads, UserClaim(t) \/ KernelClaim(t)
      PROVE  [Abstract!Next]_(Abstract!vars)
  <2>1. mode[t] \in {"write", "read"} /\ mode' = [mode EXCEPT ![t] = mode[t]]
    BY <1>3 DEF UserClaim, KernelClaim
  <2>2. QED
    BY <1>3, <2>1, ClaimRefines DEF UserClaim, KernelClaim
<1>4. ASSUME NEW t \in Threads,
             LockSpurious(t) \/ UserSpin(t) \/ KernelLoad(t) \/ FutexWait(t)
               \/ FutexTimeout(t) \/ Mark(t) \/ ReadWakeClear(t)
      PROVE  [Abstract!Next]_(Abstract!vars)
  <2>1. Held' = Held /\ \A s \in Held : mode'[s] = mode[s]
    BY <1>4 DEF LockSpurious, UserSpin, KernelLoad, FutexWait, FutexTimeout, Mark,
                ReadWakeClear, Goto, Held
  <2>2. Writers' = Writers /\ Readers' = Readers
    BY <2>1 DEF Writers, Readers
  <2>3. QED
    BY <2>2 DEF Abstract!vars
<1>5. ASSUME NEW t \in Threads, FutexWake(t)
      PROVE  [Abstract!Next]_(Abstract!vars)
  <2>1. Writers' = Writers /\ Readers' = Readers
    BY <1>5 DEF FutexWake, Asleep, Writers, Readers, Held
  <2>2. QED
    BY <2>1 DEF Abstract!vars
<1>6. ASSUME NEW t \in Threads, UnlockWrite(t) \/ UnlockBusyLoop(t) \/ UnlockRead(t)
      PROVE  [Abstract!Next]_(Abstract!vars)
  <2>1. PICK to \in {"fatal", "wake", "clear", "idle"} :
          /\ pc[t] = "held" /\ pc' = [pc EXCEPT ![t] = to]
          /\ mode' = [mode EXCEPT ![t] = "write"]
    BY <1>6 DEF UnlockWrite, UnlockBusyLoop, UnlockRead, Release, Goto
  <2>2. t \in Writers \cup Readers
    BY <2>1 DEF Writers, Readers, Held
  <2>3. Writers' = Writers \ {t} /\ Readers' = Readers \ {t}
    BY <2>1 DEF Writers, Readers, Held
  <2>4. Abstract!Release(t)
    BY <2>2, <2>3 DEF Abstract!Release
  <2>5. QED
    BY <2>4 DEF Abstract!Next
<1>7. QED
  BY <1>1, <1>2, <1>3, <1>4, <1>5, <1>6 DEF Next, Begin, Continue

(* The spinlock implements the reader/writer lock.                         *)
THEOREM Refinement == Spec => ImplementsRWLock
<1>1. Init => Abstract!Init
  BY DEF Init, Abstract!Init, Writers, Readers, Held
<1>2. IInv /\ [Next]_vars => [Abstract!Next]_(Abstract!vars)
  BY RefineStep DEF IInv, Holders
<1>3. QED
  BY <1>1, <1>2, InductiveInvariant, PTL DEF Spec, ImplementsRWLock, Abstract!Spec

===============================================================================
