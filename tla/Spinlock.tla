------------------------------- MODULE Spinlock -------------------------------
(***************************************************************************)
(* spinlock_t: the reader/writer lock of the whole emulator, spinning at   *)
(* first and sleeping on a futex when contended                            *)
(* (src/rvvm/src/spinlock.h, src/rvvm/src/spinlock.c).                     *)
(*                                                                         *)
(* The lock is one word: a writer bit, a reader count and a bit that says  *)
(* that somebody waits.  One action is one atomic access to it or one      *)
(* futex call.  A compare-and-swap loop that tries again with the value it *)
(* just saw is one step, the one in which it succeeds or gives up.         *)
(* Spinning that sees an unavailable lock changes nothing and is left to   *)
(* stuttering.  What is logged when a wait exceeds 10 s is left out; that  *)
(* the futex call then returns is not.                                     *)
(***************************************************************************)
EXTENDS Integers, FiniteSets

CONSTANT Threads

ASSUME ThreadsAssumption == IsFiniteSet(Threads)

VARIABLES
  kind,              \* "sleep", or "busy": taken with spin_lock_busy_loop
  flag,              \* spinlock_t.flag
  pc,                \* where each thread is in the lock's code
  mode,              \* "write" or "read": what it locks for
  seen               \* its local flag in spin_lock_wait_internal

vars == <<kind, flag, pc, mode, seen>>

Word == [writer : BOOLEAN, readers : Nat, waiters : BOOLEAN]

(* SPINLOCK_QUIESCENT                                                      *)
Quiescent == [writer |-> FALSE, readers |-> 0, waiters |-> FALSE]

Held == {t \in Threads : pc[t] = "held"}
Writers == {t \in Held : mode[t] = "write"}
Readers == {t \in Held : mode[t] = "read"}
Asleep  == {t \in Threads : pc[t] = "asleep"}

(* Points of the kernel-wait loop, the futex call itself excluded ...      *)
LoopPoints == {"kernel", "claim", "mark", "futex"}
(* ... and of an unlock that found waiters.                                *)
WakePoints == {"clear", "wake"}
Waiting == {t \in Threads : pc[t] \in {"user", "user_claim", "asleep"} \cup LoopPoints}

Init ==
  /\ kind \in {"sleep", "busy"}
  /\ flag = Quiescent
  /\ pc = [t \in Threads |-> "idle"]
  /\ mode = [t \in Threads |-> "write"]
  /\ seen = [t \in Threads |-> Quiescent]

Goto(t, from, to) ==
  /\ pc[t] = from
  /\ pc' = [pc EXCEPT ![t] = to]

-----------------------------------------------------------------------------
(* Slip: readers look for a writer only among the waiters.                 *)
Available_WriterIgnored(f, m) ==
  IF m = "write" THEN f = Quiescent ELSE ~f.waiters

(* spin_lock_possibly_available: a writer wants a lock nobody holds or     *)
(* waits for, a reader one without a writer and without waiters.           *)
Available(f, m) ==
  IF m = "write" THEN f = Quiescent ELSE ~f.writer /\ ~f.waiters

(* spin_try_claim_lock of an available lock.                               *)
Claimed(m, waiters) ==
  [writer  |-> m = "write",
   readers |-> IF m = "read" THEN flag.readers + 1 ELSE flag.readers,
   waiters |-> waiters]

(* Slip: a claim that succeeds always leaves the waiters to others.        *)
TryClaim_Unmarked(t, m, from, waiters, otherwise) ==
  /\ Goto(t, from, IF Available(flag, m) THEN "held" ELSE otherwise)
  /\ flag' = IF Available(flag, m) THEN Claimed(m, FALSE) ELSE flag

(* The lock is claimed, or somebody else was faster.                       *)
TryClaim(t, m, from, waiters, otherwise) ==
  /\ Goto(t, from, IF Available(flag, m) THEN "held" ELSE otherwise)
  /\ flag' = IF Available(flag, m) THEN Claimed(m, waiters) ELSE flag

(* The fast path of spin_lock and spin_read_lock, and spin_try_lock and    *)
(* spin_try_read_lock when they succeed (when they fail nothing changes).  *)
(* A busy-loop lock has writers only.                                      *)
Lock(t, m) ==
  /\ m = "write" \/ kind = "sleep"
  /\ TryClaim(t, m, "idle", FALSE, "user")
  /\ mode' = [mode EXCEPT ![t] = m]
  /\ UNCHANGED <<kind, seen>>

(* spin_lock uses a weak compare-and-swap: it may fail on a free lock.     *)
LockSpurious(t) ==
  /\ Goto(t, "idle", "user")
  /\ mode' = [mode EXCEPT ![t] = "write"]
  /\ UNCHANGED <<kind, flag, seen>>

-----------------------------------------------------------------------------
(* spin_lock_wait_internal                                                 *)

(* spin_lock_try_wait_user: the lock looks available, or the 40 retries    *)
(* are over.                                                               *)
UserSpin(t) ==
  /\ Goto(t, "user", IF Available(flag, mode[t]) THEN "user_claim" ELSE "kernel")
  /\ UNCHANGED <<kind, flag, mode, seen>>

(* Its only attempt; the waiters bit is not set.                           *)
UserClaim(t) ==
  /\ TryClaim(t, mode[t], "user_claim", FALSE, "kernel")
  /\ UNCHANGED <<kind, mode, seen>>

(* The load at the top of the loop.  A busy loop that sees an unavailable  *)
(* lock yields and loads again.                                            *)
KernelLoad(t) ==
  \/ /\ Available(flag, mode[t])
     /\ Goto(t, "kernel", "claim")
     /\ UNCHANGED <<kind, flag, mode, seen>>
  \/ /\ ~Available(flag, mode[t])
     /\ kind = "sleep"
     /\ Goto(t, "kernel", IF flag.waiters THEN "futex" ELSE "mark")
     /\ seen' = [seen EXCEPT ![t] = flag]
     /\ UNCHANGED <<kind, flag, mode>>

(* The claim of a thread that may have slept: it cannot know whether       *)
(* others still do, and marks the lock for wake-up.                        *)
KernelClaim(t) ==
  /\ TryClaim(t, mode[t], "claim", TRUE, "kernel")
  /\ UNCHANGED <<kind, mode, seen>>

(* Indicate that somebody waits, if the word is still the one loaded.      *)
Mark(t) ==
  /\ IF flag = seen[t]
       THEN /\ Goto(t, "mark", "futex")
            /\ flag' = [flag EXCEPT !.waiters = TRUE]
            /\ seen' = [seen EXCEPT ![t].waiters = TRUE]
       ELSE /\ Goto(t, "mark", "kernel")
            /\ seen' = [seen EXCEPT ![t] = Quiescent]
            /\ UNCHANGED flag
  /\ UNCHANGED <<kind, mode>>

(* Entry of thread_futex_wait(&flag, flag): compare and enqueue.           *)
FutexWait(t) ==
  /\ Goto(t, "futex", IF flag = seen[t] THEN "asleep" ELSE "kernel")
  /\ seen' = [seen EXCEPT ![t] = Quiescent]
  /\ UNCHANGED <<kind, flag, mode>>

(* SPINLOCK_DEADLOCK_NS have passed, or a host signal ended the call.      *)
FutexTimeout(t) ==
  /\ Goto(t, "asleep", "kernel")
  /\ UNCHANGED <<kind, flag, mode, seen>>

-----------------------------------------------------------------------------
(* spin_unlock and spin_read_unlock                                        *)

Release(t, to) ==
  /\ Goto(t, "held", to)
  /\ mode' = [mode EXCEPT ![t] = "write"]
  /\ UNCHANGED <<kind, seen>>

(* Swap the word with zero; spin_lock_wake if it held more than the        *)
(* writer.  "fatal" is rvvm_fatal: a lock that no writer held.             *)
UnlockWrite(t) ==
  /\ mode[t] = "write"
  /\ Release(t, IF flag.readers > 0 \/ ~flag.writer THEN "fatal"
                ELSE IF flag.waiters THEN "wake" ELSE "idle")
  /\ flag' = Quiescent

(* spin_unlock_busy_loop                                                   *)
UnlockBusyLoop(t) ==
  /\ mode[t] = "write" /\ kind = "busy"
  /\ Release(t, "idle")
  /\ flag' = Quiescent

(* Slip: the word is compared unsigned, so one with waiters is a large one.*)
UnlockRead_Unsigned(t) ==
  /\ mode[t] = "read"
  /\ Release(t, IF flag.readers = 0 /\ ~flag.waiters THEN "fatal" ELSE "idle")
  /\ flag' = [flag EXCEPT !.readers = @ - 1]

(* Slip: two readers go by one of them.                                    *)
UnlockRead_Twice(t) ==
  /\ mode[t] = "read"
  /\ Release(t, IF flag.waiters THEN "clear" ELSE "idle")
  /\ flag' = [flag EXCEPT !.readers = IF @ > 1 THEN @ - 2 ELSE 0]

(* Subtract a reader; spin_read_lock_wake if there are waiters.            *)
UnlockRead(t) ==
  /\ mode[t] = "read"
  /\ Release(t, IF flag.waiters \/ flag.readers = 0
                  THEN IF flag.writer \/ flag.readers = 0 THEN "fatal" ELSE "clear"
                  ELSE "idle")
  /\ flag' = [flag EXCEPT !.readers = @ - 1]

(* atomic_and: the bit goes, whoever set it, before anybody is woken.      *)
ReadWakeClear(t) ==
  /\ Goto(t, "clear", "wake")
  /\ flag' = [flag EXCEPT !.waiters = FALSE]
  /\ UNCHANGED <<kind, mode, seen>>

(* thread_futex_wake(&flag, 1): any one sleeper, if there is one.          *)
FutexWake(t) ==
  /\ pc[t] = "wake"
  /\ \/ \E s \in Asleep : pc' = [pc EXCEPT ![t] = "idle", ![s] = "kernel"]
     \/ Asleep = {} /\ pc' = [pc EXCEPT ![t] = "idle"]
  /\ UNCHANGED <<kind, flag, mode, seen>>

-----------------------------------------------------------------------------
(* Whoever is inside the lock's code, or holds the lock, goes on.          *)
Continue(t) ==
  \/ UserSpin(t)
  \/ UserClaim(t)
  \/ KernelLoad(t)
  \/ KernelClaim(t)
  \/ Mark(t)
  \/ FutexWait(t)
  \/ UnlockWrite(t)
  \/ UnlockBusyLoop(t)
  \/ UnlockRead(t)
  \/ ReadWakeClear(t)
  \/ FutexWake(t)

Begin(t) == LockSpurious(t) \/ \E m \in {"write", "read"} : Lock(t, m)

Next == \E t \in Threads : Begin(t) \/ Continue(t) \/ FutexTimeout(t)

Spec == Init /\ [][Next]_vars

(* Critical sections end and threads are scheduled.  Nobody is obliged to  *)
(* lock, and no help comes from the futex's deadline.                      *)
FairSpec == Spec /\ \A t \in Threads : WF_vars(Continue(t))

-----------------------------------------------------------------------------
Points == {"idle", "user", "user_claim", "asleep", "held", "fatal"}
            \cup LoopPoints \cup WakePoints

(* Every variable stays in its range; the reader count is never negative.  *)
TypeOK ==
  /\ kind \in {"sleep", "busy"}
  /\ flag \in Word
  /\ pc \in [Threads -> Points]
  /\ mode \in [Threads -> {"write", "read"}]
  /\ seen \in [Threads -> Word]

(* The word says exactly who holds the lock, although any thread may set   *)
(* or clear the waiters bit of somebody else's lock; so an unlock never    *)
(* takes the lock for one that was not held and aborts the process.        *)
FlagExact ==
  /\ flag.writer <=> Writers # {}
  /\ flag.readers = Cardinality(Readers)
  /\ \A t \in Threads : pc[t] # "fatal"

(* Nobody sleeps forgotten: beside a sleeper there is a holder of a lock   *)
(* marked for wake-up, or an unlock that has still to wake somebody, or a  *)
(* thread of the wait loop, which will mark the lock again or claim it     *)
(* marked.                                                                 *)
NoLostWakeup ==
  Asleep # {} =>
    \/ flag.waiters /\ Held # {}
    \/ \E t \in Threads : pc[t] \in LoopPoints \cup WakePoints

(* The inductive invariant: besides the above, holders exclude each other, *)
(* a busy-loop lock has no sleepers, what a thread remembers of the word   *)
(* fits the step it is about to take, and the waiters bit of a free lock   *)
(* is about to be cleared by the reader that left it.                      *)
Exclusive ==
  \A s \in Writers, t \in Held : s = t
BusyNeverSleeps ==
  kind = "busy" => \A t \in Threads : pc[t] \notin {"mark", "futex", "asleep"}
Remembered ==
  \A t \in Threads :
    /\ pc[t] = "mark"  => ~Available(seen[t], mode[t]) /\ ~seen[t].waiters
    /\ pc[t] = "futex" => seen[t].waiters
FreeUnmarked ==
  (flag.waiters /\ Held = {}) => \E t \in Threads : pc[t] = "clear"
SleepersCovered ==
  Asleep # {} =>
    flag.waiters \/ \E t \in Threads : pc[t] \in LoopPoints \cup WakePoints
IInv ==
  /\ TypeOK /\ FlagExact /\ Exclusive /\ BusyNeverSleeps
  /\ Remembered /\ FreeUnmarked /\ SleepersCovered

(* The lock is a reader/writer lock: the holders are its writers and       *)
(* readers, and everything else in this module is invisible to them.       *)
Abstract == INSTANCE RWLock WITH writers <- Writers, readers <- Readers
ImplementsRWLock == Abstract!Spec

(* The lock is never left free for good while somebody waits for it.       *)
LockProgress == []<>(Held # {} \/ Waiting = {})

===============================================================================
