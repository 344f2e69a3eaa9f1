-------------------------- MODULE WorkqueueProofs --------------------------
(***************************************************************************)
(* Proofs about the bounded queue of module Workqueue, for any number of   *)
(* producers and workers, any queue of two slots or more, and counters     *)
(* that start and wrap around anywhere.                                    *)
(***************************************************************************)
EXTENDS Workqueue, FiniteSetTheorems, TLAPS

-----------------------------------------------------------------------------
(* Arithmetic of the counters                                              *)

(* Division with remainder.                                                *)
LEMMA DivMod ==
  ASSUME NEW n \in Int, NEW d \in Nat \ {0}
  PROVE  n = d * (n \div d) + (n % d) /\ n % d \in 0..d-1 /\ n \div d \in Int
OBVIOUS

(* A product is no smaller than its positive factor.                       *)
LEMMA MulGrows ==
  ASSUME NEW m \in Int, m >= 1, NEW d \in Nat \ {0}
  PROVE  d * m >= d
OBVIOUS

(* Quotient and remainder are unique.                                      *)
LEMMA ModUnique ==
  ASSUME NEW d \in Nat \ {0}, NEW q \in Int, NEW p \in Int,
         NEW r \in 0..d-1, NEW s \in 0..d-1, d * q + r = d * p + s
  PROVE  r = s /\ q = p
<1>1. CASE q > p
  <2>1. d * (q - p) >= d
    BY <1>1, MulGrows
  <2>2. d * (q - p) = d * q - d * p
    OBVIOUS
  <2>3. QED
    BY <2>1, <2>2
<1>2. CASE q < p
  <2>1. d * (p - q) >= d
    BY <1>2, MulGrows
  <2>2. d * (p - q) = d * p - d * q
    OBVIOUS
  <2>3. QED
    BY <2>1, <2>2
<1>3. QED
  BY <1>1, <1>2

(* A remainder found by its quotient.                                      *)
LEMMA ModIs ==
  ASSUME NEW n \in Int, NEW d \in Nat \ {0}, NEW q \in Int,
         NEW r \in 0..d-1, n = d * q + r
  PROVE  n % d = r
BY DivMod, ModUnique

(* A remainder may be taken before an addition too.                        *)
LEMMA ModMod ==
  ASSUME NEW n \in Int, NEW k \in Int, NEW d \in Nat \ {0}
  PROVE  ((n % d) + k) % d = (n + k) % d
<1>1. n = d * (n \div d) + (n % d) /\ n % d \in 0..d-1 /\ n \div d \in Int
  BY DivMod
<1> DEFINE a == (n % d) + k
<1>2. a \in Int
  BY <1>1
<1>3. a = d * (a \div d) + (a % d) /\ a % d \in 0..d-1 /\ a \div d \in Int
  BY DivMod, <1>2
<1> DEFINE q == n \div d
           p == a \div d
           r == a % d
           b == n % d
<1>4. n = d * q + b /\ a = b + k /\ a = d * p + r
  BY <1>1, <1>3
<1>5. q \in Int /\ p \in Int /\ r \in 0..d-1 /\ b \in 0..d-1
  BY <1>1, <1>3
<1>6. r = (n + k) % d
  <2> HIDE DEF a, q, p, r, b
  <2>1. d * (p + q) = d * p + d * q /\ d * p \in Int /\ d * q \in Int
    BY <1>5
  <2>2. n + k = d * (p + q) + r
    BY <1>2, <1>4, <1>5, <2>1
  <2> DEFINE c == p + q
             m == n + k
  <2>3. c \in Int /\ m \in Int /\ m = d * c + r
    BY <1>5, <2>2
  <2> HIDE DEF c, m
  <2>4. m % d = r
    BY <1>5, <2>3, ModIs
  <2>5. QED
    BY <2>4 DEF m
<1>7. QED
  BY <1>6

(* A multiple of d may be added or left out of a remainder by d.           *)
LEMMA ModMultiple ==
  ASSUME NEW n \in Int, NEW e \in Int, NEW d \in Nat \ {0}
  PROVE  (n + d * e) % d = n % d
<1> DEFINE q == n \div d
           r == n % d
<1>1. n = d * q + r /\ r \in 0..d-1 /\ q \in Int
  BY DivMod
<1> HIDE DEF q, r
<1> DEFINE m == n + d * e
           p == q + e
<1>2. m \in Int /\ p \in Int
  BY <1>1
<1>3. d * (q + e) = d * q + d * e /\ d * q \in Int /\ d * e \in Int
  BY <1>1
<1>4. m = d * p + r
  BY <1>1, <1>3
<1> HIDE DEF m, p
<1>5. m % d = r
  BY <1>1, <1>2, <1>4, ModIs
<1>6. QED
  BY <1>5 DEF m, r

-----------------------------------------------------------------------------
(* Words                                                                   *)

(* How many tasks a counter is ahead of the first: unlike the counter, it  *)
(* does not wrap around.                                                   *)
Off(x) == (x - Start) % Wrap

(* The half of the range that Diff reaches on either side.                 *)
Half == Wrap \div 2

(* What the assumption says of the constants.                              *)
LEMMA Constants ==
  /\ Size \in Nat \ {0} /\ Size >= 2 /\ Wrap \in Nat \ {0}
  /\ MaxTasks \in Nat /\ Start \in Words
  /\ Half \in Nat /\ Half + Half <= Wrap /\ MaxTasks + Size < Half
<1>1. Size \in Nat \ {0} /\ Size >= 2 /\ Wrap \in Nat
  BY WorkqueueAssumption
<1>2. MaxTasks \in Nat /\ Start \in 0..Wrap - 1
  BY WorkqueueAssumption DEF Words
<1>3. Wrap # 0
  BY <1>1, <1>2
<1>4. Wrap = 2 * Half + (Wrap % 2) /\ Wrap % 2 \in 0..1 /\ Half \in Int
  BY <1>1, DivMod DEF Half
<1>5. MaxTasks + Size < Half
  BY WorkqueueAssumption DEF Half
<1>6. QED
  BY <1>1, <1>2, <1>3, <1>4, <1>5 DEF Words

(* The range of the counters is a multiple of the queue's size.            *)
LEMMA WrapMultiple == \E e \in Int : Wrap = Size * e
<1> DEFINE d == 2 * Size
           e == Wrap \div d
<1>1. d \in Nat \ {0} /\ Wrap \in Int /\ Size \in Int
  BY Constants
<1>2. Wrap = d * e + (Wrap % d) /\ e \in Int
  BY <1>1, DivMod
<1>3. Wrap % d = 0
  BY WorkqueueAssumption
<1> HIDE DEF e
<1>4. d * e = Size * (2 * e)
  BY <1>1, <1>2
<1>5. Wrap = Size * (2 * e) /\ 2 * e \in Int
  BY <1>1, <1>2, <1>3, <1>4
<1>6. QED
  BY <1>5

(* An offset determines its word.                                          *)
LEMMA OffWord ==
  ASSUME NEW x \in Words
  PROVE  Off(x) \in Nat /\ Off(x) < Wrap /\ x = (Off(x) + Start) % Wrap
<1>1. x \in Int /\ x \in 0..Wrap-1 /\ Start \in Int /\ x - Start \in Int
  BY Constants DEF Words
<1>2. Off(x) \in 0..Wrap-1
  BY <1>1, Constants, DivMod DEF Off
<1>3. ((x - Start) + Start) % Wrap = (((x - Start) % Wrap) + Start) % Wrap
  BY <1>1, Constants, ModMod
<1>4. (x - Start) + Start = x
  BY <1>1
<1>5. x % Wrap = x
  BY <1>1, Constants
<1>6. QED
  BY <1>1, <1>2, <1>3, <1>4, <1>5, Constants DEF Off

LEMMA OffInjective ==
  \A x, y \in Words : Off(x) = Off(y) => x = y
BY OffWord

(* Adding moves an offset on, also where the word wraps around.            *)
LEMMA OffAdd ==
  ASSUME NEW x \in Words, NEW k \in Nat
  PROVE  /\ Add(x, k) \in Words
         /\ Off(x) + k < Wrap => Off(Add(x, k)) = Off(x) + k
<1>1. x \in Int /\ x + k \in Int /\ Start \in Int /\ x - Start \in Int
      /\ 0 - Start \in Int
  BY Constants DEF Words
<1>2. Add(x, k) \in 0..Wrap-1
  BY <1>1, Constants, DivMod DEF Add
<1>3. Off(Add(x, k)) = ((x - Start) + k) % Wrap
  <2>1. (((x + k) % Wrap) + (0 - Start)) % Wrap = ((x + k) + (0 - Start)) % Wrap
    BY <1>1, Constants, ModMod
  <2>2. (x + k) + (0 - Start) = (x - Start) + k
    BY <1>1
  <2>3. ((x + k) % Wrap) + (0 - Start) = ((x + k) % Wrap) - Start
    BY <1>1, <1>2 DEF Add
  <2>4. QED
    BY <2>1, <2>2, <2>3 DEF Off, Add
<1>4. ((x - Start) + k) % Wrap = (Off(x) + k) % Wrap
  <2> DEFINE n == x - Start
  <2>1. n \in Int /\ k \in Int
    BY <1>1
  <2> HIDE DEF n
  <2>2. ((n % Wrap) + k) % Wrap = (n + k) % Wrap
    BY <2>1, Constants, ModMod
  <2>3. QED
    BY <2>2 DEF n, Off
<1>5. ASSUME Off(x) + k < Wrap
      PROVE  (Off(x) + k) % Wrap = Off(x) + k
  <2>1. Off(x) + k \in 0..Wrap-1
    BY <1>5, OffWord, Constants
  <2>2. QED
    BY <2>1, Constants
<1>6. QED
  BY <1>2, <1>3, <1>4, <1>5 DEF Words

(* Within half the range the signed difference of two words is that of     *)
(* their offsets.                                                          *)
LEMMA DiffOff ==
  ASSUME NEW x \in Words, NEW y \in Words,
         Off(x) <= MaxTasks + Size, Off(y) <= MaxTasks + Size
  PROVE  Diff(x, y) = Off(x) - Off(y)
<1> DEFINE a == (x - Start) \div Wrap
           b == (y - Start) \div Wrap
<1>1. x - Start \in Int /\ y - Start \in Int /\ x \in Int /\ y \in Int
      /\ Start \in Int
  BY Constants DEF Words
<1>2. x - Start = Wrap * a + Off(x) /\ a \in Int
  BY <1>1, Constants, DivMod DEF Off
<1>3. y - Start = Wrap * b + Off(y) /\ b \in Int
  BY <1>1, Constants, DivMod DEF Off
<1> HIDE DEF a, b
<1> DEFINE r == Off(x) - Off(y) + Half
           n == x - y + Half
           c == a - b
<1>4. r \in 0..Wrap-1 /\ n \in Int /\ c \in Int
  BY <1>1, <1>2, <1>3, OffWord, Constants
<1>5. Wrap * (a - b) = Wrap * a - Wrap * b /\ Wrap * a \in Int /\ Wrap * b \in Int
  BY <1>2, <1>3, Constants
<1>6. n = Wrap * c + r
  <2> DEFINE f == Wrap * a
             g == Wrap * b
  <2>1. f \in Int /\ g \in Int /\ Wrap * c = f - g
    BY <1>5
  <2>2. x - Start = f + Off(x) /\ y - Start = g + Off(y)
    BY <1>2, <1>3
  <2> HIDE DEF c, f, g
  <2>3. Off(x) \in Int /\ Off(y) \in Int /\ Half \in Int
    BY OffWord, Constants
  <2>4. n = (f - g) + r
    BY <1>1, <2>1, <2>2, <2>3
  <2>5. QED
    BY <2>1, <2>4
<1> HIDE DEF c, r, n
<1>7. n % Wrap = r
  BY <1>4, <1>6, Constants, ModIs
<1>8. QED
  BY <1>7, OffWord, Constants DEF n, r, Diff, Half

(* A slot does not depend on where the sum wraps around.                   *)
LEMMA SlotOfSum ==
  ASSUME NEW x \in Words, NEW k \in Nat
  PROVE  Slot(Add(x, k)) = (x + k) % Size
<1>1. x \in Int
  BY Constants DEF Words
<1>2. QED
  <2> DEFINE n == x + k
  <2>1. n \in Int
    BY <1>1
  <2> DEFINE q == n \div Wrap
             r == n % Wrap
  <2> HIDE DEF n
  <2>2. n = Wrap * q + r /\ q \in Int /\ r \in Int
    BY <2>1, Constants, DivMod
  <2>3. PICK e \in Int : Wrap = Size * e
    BY WrapMultiple
  <2> HIDE DEF q, r
  <2>4. Wrap * q = Size * (e * q) /\ e * q \in Int
    BY <2>2, <2>3, Constants
  <2> DEFINE m == e * q
  <2>5. n = r + Size * m /\ m \in Int
    BY <2>2, <2>4, Constants
  <2> HIDE DEF m
  <2>6. (r + Size * m) % Size = r % Size
    BY <2>2, <2>5, Constants, ModMultiple
  <2>7. QED
    BY <2>5, <2>6 DEF n, r, Slot, Add

(* Where a counter's slot is, next, and one round on.                      *)
LEMMA SlotAdd ==
  ASSUME NEW x \in Words
  PROVE  /\ Slot(x) \in Slots
         /\ Slot(Add(x, 1)) # Slot(x)
         /\ Slot(Add(x, Size)) = Slot(x)
<1>1. x \in Int
  BY Constants DEF Words
<1>2. Slot(x) \in Slots
  BY <1>1, Constants, DivMod DEF Slot, Slots
<1>3. ASSUME NEW k \in Nat PROVE Slot(Add(x, k)) = (x + k) % Size
  BY SlotOfSum
<1>4. Slot(Add(x, Size)) = Slot(x)
  <2>1. Slot(Add(x, Size)) = (x + Size) % Size
    BY <1>3, Constants
  <2>2. (x + Size * 1) % Size = x % Size
    <3> DEFINE e == 1
    <3>1. e \in Int
      OBVIOUS
    <3> HIDE DEF e
    <3>2. (x + Size * e) % Size = x % Size
      BY <1>1, <3>1, Constants, ModMultiple
    <3>3. QED
      BY <3>2 DEF e
  <2>3. Size * 1 = Size
    BY Constants
  <2>4. QED
    BY <2>1, <2>2, <2>3 DEF Slot
<1>5. (x + 1) % Size # x % Size
  <2> DEFINE q == x \div Size
             r == x % Size
  <2>1. x = Size * q + r /\ q \in Int /\ r \in 0..Size-1
    BY <1>1, Constants, DivMod
  <2> HIDE DEF q, r
  <2> DEFINE n == x + 1
  <2>2. n \in Int
    BY <1>1
  <2>3. CASE r + 1 < Size
    <3>1. n = Size * q + (r + 1) /\ r + 1 \in 0..Size-1
      BY <2>1, <2>3, Constants
    <3> HIDE DEF n
    <3>2. n % Size = r + 1
      BY <2>1, <2>2, <3>1, Constants, ModIs
    <3>3. QED
      BY <2>1, <3>2 DEF n, r
  <2>4. CASE r + 1 = Size
    <3> DEFINE p == q + 1
    <3>1. Size * (q + 1) = Size * q + Size /\ p \in Int
      BY <2>1, Constants
    <3>2. n = Size * p + 0 /\ 0 \in 0..Size-1
      BY <2>1, <2>4, <3>1, Constants
    <3> HIDE DEF n, p
    <3>3. n % Size = 0
      BY <2>2, <3>1, <3>2, Constants, ModIs
    <3>4. QED
      BY <2>1, <2>4, <3>3, Constants DEF n, r
  <2>5. QED
    BY <2>1, <2>3, <2>4, Constants
<1>6. Slot(Add(x, 1)) # Slot(x)
  BY <1>3, <1>5 DEF Slot
<1>7. QED
  BY <1>2, <1>4, <1>6

(* What the steps below use of the lemmas above.                           *)
LEMMA WordFacts ==
  /\ \A x \in Words :
       /\ Off(x) \in Nat /\ Slot(x) \in Slots
       /\ Add(x, 1) \in Words /\ Add(x, Size) \in Words
       /\ Slot(Add(x, 1)) # Slot(x) /\ Slot(Add(x, Size)) = Slot(x)
       /\ Off(x) <= MaxTasks =>
            Off(Add(x, 1)) = Off(x) + 1 /\ Off(Add(x, Size)) = Off(x) + Size
  /\ \A x, y \in Words : Off(x) = Off(y) => x = y
<1>1. ASSUME NEW x \in Words
      PROVE  /\ Off(x) \in Nat /\ Slot(x) \in Slots
             /\ Add(x, 1) \in Words /\ Add(x, Size) \in Words
             /\ Slot(Add(x, 1)) # Slot(x) /\ Slot(Add(x, Size)) = Slot(x)
  BY OffWord, OffAdd, SlotAdd, Constants
<1>2. ASSUME NEW x \in Words, Off(x) <= MaxTasks
      PROVE  Off(Add(x, 1)) = Off(x) + 1 /\ Off(Add(x, Size)) = Off(x) + Size
  <2>1. Off(x) \in Nat /\ Off(x) + 1 < Wrap /\ Off(x) + Size < Wrap
    BY <1>2, OffWord, Constants
  <2>2. QED
    BY <2>1, OffAdd, Constants
<1>3. QED
  BY <1>1, <1>2, OffInjective

-----------------------------------------------------------------------------
(* The inductive invariant of the ring                                     *)

ProducerPoints ==
  {"idle", "slot", "reload", "cas", "fill", "publish", "wake", "inline"}
WorkerPoints ==
  {"run", "load", "slot", "cas", "take", "release", "perform", "wait", "shut",
   "exit"}

(* A producer or a worker that has claimed a slot and not handed it on.    *)
Filling(t)  == pc[t] \in {"fill", "publish"}
Emptying(t) == pc[t] \in {"take", "release"}

(* No more turns are claimed than tasks were created for; the ones that    *)
(* are still being submitted have claimed none.                            *)
Submitting  == {p \in Producers : pc[p] \in {"slot", "reload", "cas", "inline"}}
HeadBounded == Off(head) + Cardinality(Submitting) <= created

(* pool_shut counts the workers that left.                                 *)
Gone        == {w \in Workers : pc[w] = "exit"}
ShutCounted == shut = Cardinality(Gone)

(* A slot is at most one round ahead of head, and one that is filled was   *)
(* claimed; a turn that tail has passed does not come back.                *)
TurnsOK ==
  /\ Off(tail) <= Off(head)
  /\ \A s \in Slots : /\ Off(seq[s]) < Off(head) + Size
                      /\ Slot(seq[s]) # s => Off(seq[s]) <= Off(head)
  /\ \A n \in Words : Off(n) < Off(tail) => Off(n) < Off(seq[Slot(n)])

(* What the head a producer has loaded says of the slot: it may be stale,  *)
(* but if it is not, the slot is as it was seen; once claimed, the slot    *)
(* stays in the producer's turn.                                           *)
ProducerOK(p) ==
  /\ pc[p] \in ProducerPoints
  /\ pc[p] \in {"slot", "cas"} => Off(local[p]) <= Off(head)
  /\ (pc[p] = "cas" /\ local[p] = head) => seq[Slot(head)] = head
  /\ Filling(p) => Off(local[p]) < Off(head) /\ seq[Slot(local[p])] = local[p]

(* The same of a worker and tail.                                          *)
WorkerOK(w) ==
  /\ pc[w] \in WorkerPoints
  /\ pc[w] \in {"slot", "cas"} => Off(local[w]) <= Off(tail)
  /\ (pc[w] = "cas" /\ local[w] = tail) => seq[Slot(tail)] = Add(tail, 1)
  /\ Emptying(w) =>
       Off(local[w]) < Off(tail) /\ seq[Slot(local[w])] = Add(local[w], 1)

(* No two threads have claimed the same turn.                              *)
ClaimsDistinct ==
  /\ \A p, q \in Producers :
       (Filling(p) /\ Filling(q) /\ local[p] = local[q]) => p = q
  /\ \A v, w \in Workers :
       (Emptying(v) /\ Emptying(w) /\ local[v] = local[w]) => v = w

RingOK ==
  /\ TurnsOK
  /\ \A p \in Producers : ProducerOK(p)
  /\ \A w \in Workers : WorkerOK(w)
  /\ ClaimsDistinct

RingInv == TypeOK /\ HeadBounded /\ ShutCounted /\ RingOK

(* TypeOK without shut, whose bound is a matter of counting.               *)
FieldsOK ==
  /\ head \in Words /\ tail \in Words
  /\ seq \in [Slots -> Words]
  /\ task \in [Slots -> Tasks \cup {NoTask}]
  /\ pc \in [Threads -> {"idle", "slot", "reload", "cas", "fill", "publish",
                         "wake", "inline", "run", "load", "take", "release",
                         "perform", "wait", "shut", "exit"}]
  /\ local \in [Threads -> Words]
  /\ mine \in [Threads -> Tasks \cup {NoTask}]
  /\ created \in 0..MaxTasks
  /\ performed \in [Tasks -> Nat]
  /\ signaled \in BOOLEAN /\ run \in BOOLEAN

(* One step of a thread keeps the fields in their ranges.                  *)
LEMMA FieldsStep ==
  FieldsOK /\ [Next]_vars => FieldsOK'
<1> SUFFICES ASSUME FieldsOK, [Next]_vars PROVE FieldsOK'
  OBVIOUS
<1> USE DEF FieldsOK, Goto, queue, pool, tally, Threads
<1>1. /\ \A x \in Words : /\ Add(x, 1) \in Words /\ Add(x, Size) \in Words
                          /\ Slot(x) \in Slots
      /\ 0 \in Words /\ MaxTasks \in Nat
  BY WordFacts, Constants DEF Words
<1>2. CASE UNCHANGED vars
  BY <1>2 DEF vars
<1>3. ASSUME NEW p \in Producers, SubmitBegin(p)
      PROVE  FieldsOK'
  <2>1. created + 1 \in 0..MaxTasks /\ created + 1 \in Tasks
    BY <1>1, <1>3 DEF SubmitBegin, Tasks
  <2>2. QED
    BY <1>1, <1>3, <2>1 DEF SubmitBegin
<1>4. ASSUME NEW p \in Producers,
             SubmitSlot(p) \/ SubmitReload(p) \/ SubmitCas(p) \/ SubmitCasFails(p)
      PROVE  FieldsOK'
  BY <1>1, <1>4 DEF SubmitSlot, SubmitReload, SubmitCas, SubmitCasFails
<1>5. ASSUME NEW p \in Producers, SubmitFill(p) \/ SubmitPublish(p) \/ SubmitWake(p)
      PROVE  FieldsOK'
  <2>1. CASE SubmitFill(p)
    BY <1>1, <2>1 DEF SubmitFill
  <2>2. CASE SubmitPublish(p)
    BY <1>1, <2>2 DEF SubmitPublish
  <2>3. CASE SubmitWake(p)
    BY <2>3 DEF SubmitWake
  <2>4. QED
    BY <1>5, <2>1, <2>2, <2>3
<1>6. ASSUME NEW t \in Threads, Perform(t)
      PROVE  /\ performed' \in [Tasks -> Nat]
             /\ mine' \in [Threads -> Tasks \cup {NoTask}]
  <2>1. mine' \in [Threads -> Tasks \cup {NoTask}]
    BY <1>6 DEF Perform
  <2>2. performed' = [k \in Tasks |-> IF k = mine[t] THEN performed[k] + 1
                                     ELSE performed[k]]
    BY <1>6, Zenon DEF Perform
  <2>3. QED
    BY <2>1, <2>2
<1>7. ASSUME NEW p \in Producers, SubmitInline(p)
      PROVE  FieldsOK'
  BY <1>1, <1>6, <1>7 DEF SubmitInline
<1>8. ASSUME NEW w \in Workers,
             WorkerRun(w) \/ WorkerLoad(w) \/ WorkerSlot(w) \/ WorkerCas(w)
             \/ WorkerCasFails(w)
      PROVE  FieldsOK'
  BY <1>1, <1>8 DEF WorkerRun, WorkerLoad, WorkerSlot, WorkerCas, WorkerCasFails
<1>9. ASSUME NEW w \in Workers, WorkerTake(w) \/ WorkerRelease(w)
      PROVE  FieldsOK'
  BY <1>1, <1>9 DEF WorkerTake, WorkerRelease
<1>10. ASSUME NEW w \in Workers, WorkerPerform(w)
       PROVE  FieldsOK'
  BY <1>6, <1>10 DEF WorkerPerform
<1>11. ASSUME NEW w \in Workers, WorkerWait(w) \/ WorkerShut(w) \/ WorkerWaitEnds(w)
       PROVE  FieldsOK'
  BY <1>11 DEF WorkerWait, WorkerShut, WorkerWaitEnds
<1>12. CASE Terminate \/ TerminateWake
  BY <1>12 DEF Terminate, TerminateWake
<1>13. QED
  BY <1>2, <1>3, <1>4, <1>5, <1>7, <1>8, <1>9, <1>10, <1>11, <1>12
     DEF Next, Submit, Work

-----------------------------------------------------------------------------
(* Counting                                                                *)

(* Sets of threads are finite.                                             *)
LEMMA Finite ==
  \A S : (S \subseteq Producers \/ S \subseteq Workers)
           => IsFiniteSet(S) /\ Cardinality(S) \in Nat
<1>1. IsFiniteSet(Producers) /\ IsFiniteSet(Workers)
  BY WorkqueueAssumption, FS_Subset DEF Threads
<1>2. QED
  BY <1>1, FS_Subset, FS_CardinalityType

(* head has not passed more tasks than there are.                          *)
LEMMA HeadLimit ==
  FieldsOK /\ HeadBounded => Off(head) \in Nat /\ Off(head) <= MaxTasks
<1> SUFFICES ASSUME FieldsOK, HeadBounded
             PROVE  Off(head) \in Nat /\ Off(head) <= MaxTasks
  OBVIOUS
<1>1. Cardinality(Submitting) \in Nat
  BY Finite DEF Submitting
<1>2. QED
  BY <1>1, WordFacts, Constants DEF FieldsOK, HeadBounded

(* A producer claims a turn only for a task it came with.                  *)
LEMMA BoundStep ==
  FieldsOK /\ HeadBounded /\ [Next]_vars => HeadBounded'
<1> SUFFICES ASSUME FieldsOK, HeadBounded, [Next]_vars PROVE HeadBounded'
  OBVIOUS
<1> USE DEF FieldsOK, Goto, queue, pool, tally, Threads
<1>0. Cardinality(Submitting) \in Nat /\ IsFiniteSet(Submitting)
      /\ Off(head) \in Nat /\ Off(head) <= MaxTasks
      /\ Producers \cap Workers = {}
  BY Finite, HeadLimit, WorkqueueAssumption DEF Submitting
<1>1. CASE UNCHANGED <<head, created>> /\ Submitting' = Submitting
  BY <1>1 DEF HeadBounded, Off
<1>2. ASSUME NEW p \in Producers, SubmitBegin(p)
      PROVE  HeadBounded'
  <2>1. p \notin Submitting /\ Submitting' = Submitting \cup {p}
    BY <1>2 DEF SubmitBegin, Submitting
  <2>2. Cardinality(Submitting') = Cardinality(Submitting) + 1
    BY <2>1, <1>0, FS_AddElement
  <2>3. created' = created + 1 /\ head' = head
    BY <1>2 DEF SubmitBegin
  <2>4. QED
    BY <1>0, <2>2, <2>3 DEF HeadBounded, Off
<1>3. ASSUME NEW p \in Producers, SubmitCas(p) \/ SubmitInline(p)
      PROVE  HeadBounded'
  <2>1. p \in Submitting /\ Submitting' = Submitting \ {p}
    BY <1>3 DEF SubmitCas, SubmitInline, Submitting
  <2>2. Cardinality(Submitting') = Cardinality(Submitting) - 1
    BY <2>1, <1>0, FS_RemoveElement
  <2>3. created' = created /\ (head' = head \/ head' = Add(head, 1))
    BY <1>3 DEF SubmitCas, SubmitInline
  <2>4. Off(head') <= Off(head) + 1 /\ Off(head') \in Nat
    <3>1. head \in Words /\ Add(head, 1) \in Words
          /\ Off(Add(head, 1)) = Off(head) + 1
      BY <1>0, WordFacts
    <3>2. QED
      BY <1>0, <2>3, <3>1
  <2>5. Off(head)' = Off(head')
    BY DEF Off
  <2>6. QED
    BY <1>0, <2>2, <2>3, <2>4, <2>5 DEF HeadBounded
<1>4. ASSUME NEW p \in Producers,
             SubmitSlot(p) \/ SubmitReload(p) \/ SubmitCasFails(p)
             \/ SubmitFill(p) \/ SubmitPublish(p) \/ SubmitWake(p)
      PROVE  HeadBounded'
  <2>1. UNCHANGED <<head, created>>
    BY <1>4 DEF SubmitSlot, SubmitReload, SubmitCasFails, SubmitFill,
                SubmitPublish, SubmitWake
  <2>2. Submitting' = Submitting
    BY <1>4 DEF SubmitSlot, SubmitReload, SubmitCasFails, SubmitFill,
                SubmitPublish, SubmitWake, Submitting
  <2>3. QED
    BY <1>1, <2>1, <2>2
<1>5. ASSUME NEW w \in Workers, Work(w) \/ WorkerWaitEnds(w)
      PROVE  HeadBounded'
  <2>1. UNCHANGED <<head, created>>
    BY <1>5 DEF Work, WorkerRun, WorkerLoad, WorkerSlot, WorkerCas,
                WorkerCasFails, WorkerTake, WorkerRelease, WorkerPerform,
                WorkerWait, WorkerShut, WorkerWaitEnds
  <2>2. \A p \in Producers : pc'[p] = pc[p]
    BY <1>0, <1>5 DEF Work, WorkerRun, WorkerLoad, WorkerSlot, WorkerCas,
                WorkerCasFails, WorkerTake, WorkerRelease, WorkerPerform,
                WorkerWait, WorkerShut, WorkerWaitEnds
  <2>3. Submitting' = Submitting
    BY <2>2 DEF Submitting
  <2>4. QED
    BY <1>1, <2>1, <2>3
<1>6. CASE Terminate \/ TerminateWake \/ UNCHANGED vars
  BY <1>1, <1>6 DEF Terminate, TerminateWake, vars, Submitting
<1>7. QED
  BY <1>2, <1>3, <1>4, <1>5, <1>6 DEF Next, Submit

(* Each worker that leaves is counted once.                                *)
LEMMA ShutStep ==
  FieldsOK /\ ShutCounted /\ [Next]_vars
    => ShutCounted' /\ shut' \in 0..Cardinality(Workers)
<1> SUFFICES ASSUME FieldsOK, ShutCounted, [Next]_vars
             PROVE  ShutCounted' /\ shut' \in 0..Cardinality(Workers)
  OBVIOUS
<1> USE DEF FieldsOK, Goto, queue, pool, tally, Threads
<1>0. IsFiniteSet(Gone) /\ Producers \cap Workers = {}
      /\ Cardinality(Gone) \in Nat
  BY Finite, WorkqueueAssumption DEF Gone
<1>1. SUFFICES ShutCounted'
  <2>1. IsFiniteSet(Workers) /\ Gone' \subseteq Workers
    BY Finite DEF Gone
  <2>2. Cardinality(Gone') <= Cardinality(Workers) /\ Cardinality(Gone') \in Nat
        /\ Cardinality(Workers) \in Nat
    BY <2>1, FS_Subset, FS_CardinalityType
  <2>3. QED
    BY <2>2, <1>1 DEF ShutCounted
<1>2. CASE shut' = shut /\ Gone' = Gone
  BY <1>2 DEF ShutCounted
<1>3. ASSUME NEW w \in Workers, WorkerShut(w)
      PROVE  ShutCounted'
  <2>1. w \notin Gone /\ Gone' = Gone \cup {w} /\ shut' = shut + 1
    BY <1>3 DEF WorkerShut, Gone
  <2>2. Cardinality(Gone') = Cardinality(Gone) + 1
    BY <2>1, <1>0, FS_AddElement
  <2>3. QED
    BY <2>1, <2>2 DEF ShutCounted
<1>4. ASSUME NEW w \in Workers,
             WorkerRun(w) \/ WorkerLoad(w) \/ WorkerSlot(w) \/ WorkerCas(w)
             \/ WorkerCasFails(w) \/ WorkerTake(w) \/ WorkerRelease(w)
             \/ WorkerPerform(w) \/ WorkerWait(w) \/ WorkerWaitEnds(w)
      PROVE  ShutCounted'
  <2>1. shut' = shut
    BY <1>4 DEF WorkerRun, WorkerLoad, WorkerSlot, WorkerCas, WorkerCasFails,
                WorkerTake, WorkerRelease, WorkerPerform, WorkerWait,
                WorkerWaitEnds
  <2>2. \E to \in {"load", "shut", "slot", "cas", "wait", "take", "release",
                   "perform", "run"} :
          pc[w] # "exit" /\ pc' = [pc EXCEPT ![w] = to]
    BY <1>4 DEF WorkerRun, WorkerLoad, WorkerSlot, WorkerCas, WorkerCasFails,
                WorkerTake, WorkerRelease, WorkerPerform, WorkerWait,
                WorkerWaitEnds
  <2>3. Gone' = Gone
    BY <2>2 DEF Gone
  <2>4. QED
    BY <1>2, <2>1, <2>3
<1>5. ASSUME NEW p \in Producers, SubmitBegin(p) \/ Submit(p)
      PROVE  ShutCounted'
  <2>1. shut' = shut
    BY <1>5 DEF SubmitBegin, Submit, SubmitSlot, SubmitReload, SubmitCas,
                SubmitCasFails, SubmitFill, SubmitPublish, SubmitWake,
                SubmitInline
  <2>2. \A w \in Workers : pc'[w] = pc[w]
    BY <1>0, <1>5 DEF SubmitBegin, Submit, SubmitSlot, SubmitReload, SubmitCas,
                SubmitCasFails, SubmitFill, SubmitPublish, SubmitWake,
                SubmitInline
  <2>3. Gone' = Gone
    BY <2>2 DEF Gone
  <2>4. QED
    BY <1>2, <2>1, <2>3
<1>6. CASE Terminate \/ TerminateWake \/ UNCHANGED vars
  BY <1>2, <1>6 DEF Terminate, TerminateWake, vars, Gone
<1>7. QED
  BY <1>3, <1>4, <1>5, <1>6 DEF Next, Work

-----------------------------------------------------------------------------
(* The ring                                                                *)

(* The facts about words that a step needs of all of them.                 *)
LEMMA WordTypes ==
  /\ \A x \in Words : Off(x) \in Nat /\ Slot(x) \in Slots
  /\ \A x, y \in Words : Off(x) = Off(y) => x = y
BY WordFacts

(* A producer that claims a turn is the only one that has, and the slot    *)
(* is still free.                                                          *)
LEMMA SubmitCasRing ==
  ASSUME FieldsOK, HeadBounded, RingOK, NEW p \in Producers, SubmitCas(p)
  PROVE  RingOK'
<1> USE DEF FieldsOK, Goto, queue, pool, tally, Threads
<1>0. Producers \cap Workers = {} /\ Off(head) \in Nat /\ Off(head) <= MaxTasks
  BY HeadLimit, WorkqueueAssumption
<1>1. /\ head' = Add(head, 1) /\ head' \in Words /\ Off(head') = Off(head) + 1
      /\ UNCHANGED <<tail, seq, local>>
      /\ local[p] = head /\ seq[Slot(head)] = head
      /\ pc[p] = "cas" /\ pc' = [pc EXCEPT ![p] = "fill"]
  BY <1>0, WordFacts DEF SubmitCas, RingOK, ProducerOK
<1>2. TurnsOK'
  BY <1>0, <1>1, WordTypes, Constants DEF RingOK, TurnsOK
<1>3. ASSUME NEW q \in Producers PROVE ProducerOK(q)'
  BY <1>0, <1>1, WordTypes DEF RingOK, ProducerOK, Filling, ProducerPoints
<1>4. ASSUME NEW w \in Workers PROVE WorkerOK(w)'
  BY <1>0, <1>1 DEF RingOK, WorkerOK, Emptying, WorkerPoints
<1>5. ClaimsDistinct'
  BY <1>0, <1>1, WordTypes DEF RingOK, ClaimsDistinct, ProducerOK, Filling, Emptying
<1>6. QED
  BY <1>2, <1>3, <1>4, <1>5 DEF RingOK

(* A slot is handed to the workers; nobody else claims its turn.           *)
LEMMA SubmitPublishRing ==
  ASSUME FieldsOK, HeadBounded, RingOK, NEW p \in Producers, SubmitPublish(p)
  PROVE  RingOK'
<1> USE DEF FieldsOK, Goto, queue, pool, tally, Threads
<1> DEFINE n == local[p]
<1>0. Producers \cap Workers = {} /\ Off(head) \in Nat /\ Off(head) <= MaxTasks
  BY HeadLimit, WorkqueueAssumption
<1>1. /\ n \in Words /\ seq[Slot(n)] = n /\ Off(n) < Off(head)
      /\ pc[p] = "publish" /\ pc' = [pc EXCEPT ![p] = "wake"]
      /\ seq' = [seq EXCEPT ![Slot(n)] = Add(n, 1)]
      /\ local' = [local EXCEPT ![p] = 0]
      /\ UNCHANGED <<head, tail>>
  BY DEF SubmitPublish, RingOK, ProducerOK, Filling
<1> HIDE DEF n
<1>2. /\ Off(Add(n, 1)) = Off(n) + 1 /\ Off(n) \in Nat /\ Add(n, 1) \in Words
      /\ Slot(n) \in Slots /\ Slot(Add(n, 1)) # Slot(n)
  <2>1. Off(n) \in Nat /\ Off(n) <= MaxTasks
    BY <1>0, <1>1, WordTypes, Constants
  <2>2. QED
    BY <1>1, <2>1, WordFacts
<1>3. TurnsOK'
  BY <1>0, <1>1, <1>2, WordTypes, Constants DEF RingOK, TurnsOK
<1>4. ASSUME NEW q \in Producers PROVE ProducerOK(q)'
  <2>1. CASE q = p
    BY <1>0, <1>1, <2>1 DEF ProducerOK, Filling, ProducerPoints
  <2>2. CASE q # p
    <3>1. pc'[q] = pc[q] /\ local'[q] = local[q]
      BY <1>1, <2>2
    <3>2. ProducerOK(q)
      BY DEF RingOK
    <3>3. Filling(q) => Slot(local[q]) # Slot(n)
      BY <1>1, <2>2, <3>2 DEF RingOK, ClaimsDistinct, ProducerOK, Filling, n
    <3>4. (pc[q] = "cas" /\ local[q] = head) => Slot(head) # Slot(n)
      BY <1>0, <1>1, <1>2, <3>2 DEF ProducerOK
    <3>5. QED
      BY <1>1, <1>2, <3>1, <3>2, <3>3, <3>4, WordTypes
         DEF ProducerOK, Filling, ProducerPoints
  <2>3. QED
    BY <2>1, <2>2
<1>5. ASSUME NEW w \in Workers PROVE WorkerOK(w)'
  <2>1. pc'[w] = pc[w] /\ local'[w] = local[w] /\ WorkerOK(w) /\ local[w] \in Words
    BY <1>0, <1>1 DEF RingOK
  <2>2. Slot(Add(local[w], 1)) # Slot(local[w]) /\ Slot(Add(tail, 1)) # Slot(tail)
    BY <2>1, WordFacts
  <2>3. Emptying(w) => Slot(local[w]) # Slot(n)
    BY <1>1, <2>1, <2>2 DEF WorkerOK
  <2>4. (pc[w] = "cas" /\ local[w] = tail) => Slot(tail) # Slot(n)
    BY <1>1, <2>1, <2>2 DEF WorkerOK
  <2>5. QED
    BY <1>1, <1>2, <2>1, <2>3, <2>4, WordTypes DEF WorkerOK, Emptying, WorkerPoints
<1>6. ClaimsDistinct'
  BY <1>0, <1>1 DEF RingOK, ClaimsDistinct, Filling, Emptying
<1>7. QED
  BY <1>3, <1>4, <1>5, <1>6 DEF RingOK

(* A worker that claims a turn is the only one that has, and the slot is   *)
(* filled: tail does not overtake head.                                    *)
LEMMA WorkerCasRing ==
  ASSUME FieldsOK, HeadBounded, RingOK, NEW w \in Workers, WorkerCas(w)
  PROVE  RingOK'
<1> USE DEF FieldsOK, Goto, queue, pool, tally, Threads
<1>0. Producers \cap Workers = {} /\ Off(head) \in Nat /\ Off(head) <= MaxTasks
  BY HeadLimit, WorkqueueAssumption
<1>1. /\ tail' = Add(tail, 1) /\ UNCHANGED <<head, seq, local>>
      /\ local[w] = tail /\ seq[Slot(tail)] = Add(tail, 1)
      /\ pc[w] = "cas" /\ pc' = [pc EXCEPT ![w] = "take"]
  BY DEF WorkerCas, RingOK, WorkerOK
<1>2. /\ tail' \in Words /\ Off(tail) \in Nat /\ Off(tail) <= MaxTasks
      /\ Off(tail') = Off(tail) + 1 /\ Slot(tail) \in Slots
      /\ Slot(Add(tail, 1)) # Slot(tail)
  <2>1. Off(tail) \in Nat /\ Off(tail) <= MaxTasks
    BY <1>0, WordTypes, Constants DEF RingOK, TurnsOK
  <2>2. QED
    BY <1>1, <2>1, WordFacts
<1>3. Off(tail') <= Off(head)
  BY <1>0, <1>1, <1>2 DEF RingOK, TurnsOK
<1>4. \A n \in Words : Off(n) < Off(tail') => Off(n) < Off(seq[Slot(n)])
  <2> SUFFICES ASSUME NEW n \in Words, Off(n) < Off(tail')
               PROVE  Off(n) < Off(seq[Slot(n)])
    OBVIOUS
  <2>1. CASE Off(n) = Off(tail)
    BY <1>1, <1>2, <2>1, WordTypes
  <2>2. CASE Off(n) < Off(tail)
    BY <2>2 DEF RingOK, TurnsOK
  <2>3. QED
    BY <1>2, <2>1, <2>2, WordTypes
<1>5. TurnsOK'
  BY <1>1, <1>3, <1>4 DEF RingOK, TurnsOK
<1>6. ASSUME NEW p \in Producers PROVE ProducerOK(p)'
  BY <1>0, <1>1 DEF RingOK, ProducerOK, Filling, ProducerPoints
<1>7. ASSUME NEW v \in Workers PROVE WorkerOK(v)'
  BY <1>0, <1>1, <1>2, WordTypes DEF RingOK, WorkerOK, Emptying, WorkerPoints
<1>8. ClaimsDistinct'
  BY <1>0, <1>1, <1>2, WordTypes
     DEF RingOK, ClaimsDistinct, WorkerOK, Filling, Emptying
<1>9. QED
  BY <1>5, <1>6, <1>7, <1>8 DEF RingOK

(* A slot is handed back for its turn in the next round.                   *)
LEMMA WorkerReleaseRing ==
  ASSUME FieldsOK, HeadBounded, RingOK, NEW w \in Workers, WorkerRelease(w)
  PROVE  RingOK'
<1> USE DEF FieldsOK, Goto, queue, pool, tally, Threads
<1> DEFINE n == local[w]
<1>0. Producers \cap Workers = {} /\ Off(head) \in Nat /\ Off(head) <= MaxTasks
  BY HeadLimit, WorkqueueAssumption
<1>1. /\ n \in Words /\ seq[Slot(n)] = Add(n, 1) /\ Off(n) < Off(tail)
      /\ pc[w] = "release" /\ pc' = [pc EXCEPT ![w] = "perform"]
      /\ seq' = [seq EXCEPT ![Slot(n)] = Add(n, Size)]
      /\ local' = [local EXCEPT ![w] = 0]
      /\ UNCHANGED <<head, tail>>
  BY DEF WorkerRelease, RingOK, WorkerOK, Emptying
<1> HIDE DEF n
<1>2. Off(n) \in Nat /\ Off(tail) \in Nat /\ Off(tail) <= Off(head)
  BY <1>1, WordTypes DEF RingOK, TurnsOK
<1>3. /\ Off(Add(n, 1)) = Off(n) + 1 /\ Off(Add(n, Size)) = Off(n) + Size
      /\ Add(n, Size) \in Words /\ Add(n, 1) \in Words
      /\ Slot(n) \in Slots /\ Slot(Add(n, 1)) # Slot(n)
      /\ Slot(Add(n, Size)) = Slot(n)
  <2>1. Off(n) <= MaxTasks
    BY <1>0, <1>1, <1>2, Constants
  <2>2. QED
    BY <1>1, <2>1, WordFacts
<1>4. TurnsOK'
  BY <1>0, <1>1, <1>2, <1>3, WordTypes, Constants DEF RingOK, TurnsOK
<1>5. ASSUME NEW p \in Producers PROVE ProducerOK(p)'
  <2>1. pc'[p] = pc[p] /\ local'[p] = local[p] /\ ProducerOK(p) /\ local[p] \in Words
    BY <1>0, <1>1 DEF RingOK
  <2>2. Filling(p) => Slot(local[p]) # Slot(n)
    BY <1>1, <1>3, <2>1 DEF ProducerOK
  <2>3. (pc[p] = "cas" /\ local[p] = head) => Slot(head) # Slot(n)
    BY <1>1, <1>3, <2>1 DEF ProducerOK
  <2>4. QED
    BY <1>1, <1>3, <2>1, <2>2, <2>3, WordTypes DEF ProducerOK, Filling, ProducerPoints
<1>6. ASSUME NEW v \in Workers PROVE WorkerOK(v)'
  <2>1. CASE v = w
    BY <1>0, <1>1, <2>1 DEF WorkerOK, Emptying, WorkerPoints
  <2>2. CASE v # w
    <3>1. pc'[v] = pc[v] /\ local'[v] = local[v] /\ local[v] \in Words
      BY <1>1, <2>2
    <3>2. WorkerOK(v)
      BY DEF RingOK
    <3>3. Emptying(v) => Slot(local[v]) # Slot(n)
      <4> SUFFICES ASSUME Emptying(v), Slot(local[v]) = Slot(n) PROVE FALSE
        OBVIOUS
      <4>1. Add(local[v], 1) = Add(n, 1) /\ Off(local[v]) < Off(tail)
        BY <1>1, <3>2 DEF WorkerOK
      <4>2. Off(local[v]) <= MaxTasks /\ Off(local[v]) \in Nat
        BY <1>0, <1>2, <3>1, <4>1, WordTypes, Constants
      <4>3. Off(Add(local[v], 1)) = Off(local[v]) + 1
        BY <3>1, <4>2, WordFacts
      <4>4. local[v] = n
        <5>1. Off(local[v]) = Off(n)
          BY <1>2, <1>3, <4>1, <4>2, <4>3
        <5>2. QED
          BY <1>1, <3>1, <5>1, WordTypes
      <4>5. QED
        BY <1>1, <2>2, <4>4 DEF RingOK, ClaimsDistinct, Emptying, n
    <3>4. (pc[v] = "cas" /\ local[v] = tail) => Slot(tail) # Slot(n)
      <4> SUFFICES ASSUME pc[v] = "cas", local[v] = tail, Slot(tail) = Slot(n)
                   PROVE  FALSE
        OBVIOUS
      <4>1. Add(tail, 1) = Add(n, 1)
        BY <1>1, <3>2 DEF WorkerOK
      <4>2. Off(Add(tail, 1)) = Off(tail) + 1
        BY <1>0, <1>2, WordFacts, Constants
      <4>3. QED
        BY <1>1, <1>2, <1>3, <4>1, <4>2
    <3>5. QED
      BY <1>1, <1>3, <3>1, <3>2, <3>3, <3>4, WordTypes
         DEF WorkerOK, Emptying, WorkerPoints
  <2>3. QED
    BY <2>1, <2>2
<1>7. ClaimsDistinct'
  BY <1>0, <1>1 DEF RingOK, ClaimsDistinct, Filling, Emptying
<1>8. QED
  BY <1>4, <1>5, <1>6, <1>7 DEF RingOK

(* Steps that leave the counters and the turns alone.                      *)
LEMMA QuietRing ==
  ASSUME FieldsOK, RingOK, UNCHANGED <<head, tail, seq>>,
         \A p \in Producers : ProducerOK(p)',
         \A w \in Workers : WorkerOK(w)',
         \A p \in Producers :
           Filling(p)' => Filling(p) /\ local'[p] = local[p],
         \A w \in Workers :
           Emptying(w)' => Emptying(w) /\ local'[w] = local[w]
  PROVE  RingOK'
<1>1. TurnsOK'
  BY DEF RingOK, TurnsOK
<1>2. ClaimsDistinct'
  BY DEF RingOK, ClaimsDistinct
<1>3. QED
  BY <1>1, <1>2 DEF RingOK

(* A slot that is seen in a producer's turn is in it.                      *)
LEMMA SubmitSlotSees ==
  ASSUME FieldsOK, HeadBounded, RingOK, NEW p \in Producers, pc[p] = "slot",
         Diff(seq[Slot(local[p])], local[p]) = 0
  PROVE  seq[Slot(local[p])] = local[p]
<1> DEFINE x == seq[Slot(local[p])]
           y == local[p]
<1>0. Off(head) \in Nat /\ Off(head) <= MaxTasks
  BY HeadLimit
<1>1. y \in Words /\ Slot(y) \in Slots /\ x \in Words /\ Off(y) <= Off(head)
  BY WordTypes DEF FieldsOK, RingOK, ProducerOK, Threads
<1>2. Off(x) < Off(head) + Size
  BY <1>1 DEF RingOK, TurnsOK
<1>3. Diff(x, y) = 0
  OBVIOUS
<1> HIDE DEF x, y
<1>4. Off(x) \in Nat /\ Off(y) \in Nat
  BY <1>1, WordTypes
<1>5. Off(x) <= MaxTasks + Size /\ Off(y) <= MaxTasks + Size
  BY <1>0, <1>1, <1>2, <1>4, Constants
<1>6. Off(x) = Off(y)
  BY <1>1, <1>3, <1>4, <1>5, DiffOff
<1>7. x = y
  BY <1>1, <1>6, WordTypes
<1>8. QED
  BY <1>7 DEF x, y

(* What a worker learns from a slot: it is filled for its turn, or tail    *)
(* has not passed it and it is not.                                        *)
LEMMA WorkerSlotSees ==
  ASSUME FieldsOK, HeadBounded, RingOK, NEW w \in Workers, pc[w] = "slot"
  PROVE  LET diff == Diff(seq[Slot(local[w])], Add(local[w], 1))
         IN  /\ diff = 0 => seq[Slot(local[w])] = Add(local[w], 1)
             /\ diff < 0 => local[w] = tail /\ seq[Slot(tail)] # Add(tail, 1)
<1> DEFINE n == local[w]
           x == seq[Slot(n)]
           y == Add(n, 1)
<1>0. Off(head) \in Nat /\ Off(head) <= MaxTasks /\ Off(tail) \in Nat
      /\ Off(tail) <= Off(head)
  BY HeadLimit, WordTypes DEF RingOK, TurnsOK, FieldsOK
<1>1. n \in Words /\ Slot(n) \in Slots /\ x \in Words /\ Off(n) <= Off(tail)
      /\ tail \in Words
  BY WordTypes DEF FieldsOK, RingOK, WorkerOK, Threads
<1>2. Off(x) < Off(head) + Size /\ (Off(n) < Off(tail) => Off(n) < Off(x))
  BY <1>1 DEF RingOK, TurnsOK
<1> HIDE DEF n
<1>3. Off(x) \in Nat /\ Off(n) \in Nat
  BY <1>1, WordTypes
<1>4. Off(n) <= MaxTasks
  BY <1>0, <1>1, <1>3, Constants
<1>5. y \in Words /\ Off(y) = Off(n) + 1
  BY <1>1, <1>4, WordFacts
<1> HIDE DEF x, y
<1>6. Off(x) <= MaxTasks + Size /\ Off(y) <= MaxTasks + Size
  BY <1>0, <1>2, <1>3, <1>4, <1>5, Constants
<1>7. Diff(x, y) = Off(x) - Off(y)
  BY <1>1, <1>5, <1>6, DiffOff
<1>8. Diff(x, y) = 0 => x = y
  <2> SUFFICES ASSUME Diff(x, y) = 0 PROVE x = y
    OBVIOUS
  <2>1. Off(x) = Off(y)
    BY <1>3, <1>5, <1>7
  <2>2. QED
    BY <1>1, <1>5, <2>1, WordTypes
<1>9. Diff(x, y) < 0 => n = tail /\ x # y
  <2> SUFFICES ASSUME Diff(x, y) < 0 PROVE n = tail /\ x # y
    OBVIOUS
  <2>1. Off(x) <= Off(n)
    BY <1>3, <1>5, <1>7
  <2>2. Off(n) = Off(tail)
    BY <1>0, <1>1, <1>2, <1>3, <2>1
  <2>3. n = tail
    BY <1>1, <2>2, WordTypes
  <2>4. QED
    BY <1>3, <1>5, <2>1, <2>3
<1>10. QED
  BY <1>8, <1>9 DEF n, x, y

(* The producers' steps that leave the turns alone.                        *)
LEMMA SubmitRing ==
  ASSUME FieldsOK, HeadBounded, RingOK, NEW p \in Producers,
         SubmitBegin(p) \/ SubmitSlot(p) \/ SubmitReload(p)
         \/ SubmitCasFails(p) \/ SubmitFill(p) \/ SubmitWake(p)
         \/ SubmitInline(p)
  PROVE  RingOK'
<1> USE DEF FieldsOK, Goto, queue, pool, tally, Threads
<1>0. Producers \cap Workers = {} /\ Off(head) \in Nat /\ ProducerOK(p)
  BY HeadLimit, WorkqueueAssumption DEF RingOK
<1>1. /\ UNCHANGED <<head, tail, seq>>
      /\ \A t \in Threads : t # p => pc'[t] = pc[t] /\ local'[t] = local[t]
  BY DEF SubmitBegin, SubmitSlot, SubmitReload, SubmitCasFails, SubmitFill,
         SubmitWake, SubmitInline
<1>2. ProducerOK(p)' /\ (Filling(p)' => Filling(p) /\ local'[p] = local[p])
  <2>1. CASE SubmitBegin(p) \/ SubmitReload(p)
    BY <1>0, <2>1 DEF SubmitBegin, SubmitReload, ProducerOK, Filling, ProducerPoints
  <2>2. CASE SubmitSlot(p)
    <3>1. /\ pc[p] = "slot" /\ local'[p] = local[p]
          /\ pc'[p] \in {"cas", "inline", "reload"}
      BY <2>2 DEF SubmitSlot
    <3>2. pc'[p] = "cas" => Diff(seq[Slot(local[p])], local[p]) = 0
      BY <2>2 DEF SubmitSlot
    <3>3. pc'[p] = "cas" => seq[Slot(local[p])] = local[p]
      BY <3>1, <3>2, SubmitSlotSees
    <3>4. QED
      BY <1>0, <1>1, <3>1, <3>3 DEF ProducerOK, Filling, ProducerPoints
  <2>3. CASE SubmitCasFails(p) \/ SubmitFill(p)
    BY <1>0, <2>3 DEF SubmitCasFails, SubmitFill, ProducerOK, Filling, ProducerPoints
  <2>4. CASE SubmitWake(p) \/ SubmitInline(p)
    BY <2>4 DEF SubmitWake, SubmitInline, ProducerOK, Filling, ProducerPoints
  <2>5. QED
    BY <2>1, <2>2, <2>3, <2>4
<1>3. ASSUME NEW q \in Producers
      PROVE  ProducerOK(q)' /\ (Filling(q)' => Filling(q) /\ local'[q] = local[q])
  BY <1>1, <1>2 DEF RingOK, ProducerOK, Filling
<1>4. ASSUME NEW w \in Workers
      PROVE  WorkerOK(w)' /\ (Emptying(w)' => Emptying(w) /\ local'[w] = local[w])
  BY <1>0, <1>1 DEF RingOK, WorkerOK, Emptying
<1>5. QED
  BY <1>1, <1>3, <1>4, QuietRing

(* The workers' steps that leave the turns alone.                          *)
LEMMA WorkRing ==
  ASSUME FieldsOK, HeadBounded, RingOK, NEW w \in Workers,
         WorkerRun(w) \/ WorkerLoad(w) \/ WorkerSlot(w) \/ WorkerCasFails(w)
         \/ WorkerTake(w) \/ WorkerPerform(w) \/ WorkerWait(w)
         \/ WorkerWaitEnds(w) \/ WorkerShut(w)
  PROVE  RingOK'
<1> USE DEF FieldsOK, Goto, queue, pool, tally, Threads
<1>0. Producers \cap Workers = {} /\ Off(tail) \in Nat /\ WorkerOK(w)
  BY WordTypes, WorkqueueAssumption DEF RingOK
<1>1. /\ UNCHANGED <<head, tail, seq>>
      /\ \A t \in Threads : t # w => pc'[t] = pc[t] /\ local'[t] = local[t]
  BY DEF WorkerRun, WorkerLoad, WorkerSlot, WorkerCasFails, WorkerTake,
         WorkerPerform, WorkerWait, WorkerWaitEnds, WorkerShut
<1>2. WorkerOK(w)' /\ (Emptying(w)' => Emptying(w) /\ local'[w] = local[w])
  <2>1. CASE WorkerLoad(w)
    BY <1>0, <2>1 DEF WorkerLoad, WorkerOK, Emptying, WorkerPoints
  <2>2. CASE WorkerSlot(w)
    <3>1. pc[w] = "slot" /\ pc'[w] \in {"cas", "wait", "load"}
      BY <2>2 DEF WorkerSlot
    <3>2. pc'[w] = "cas" => Diff(seq[Slot(local[w])], Add(local[w], 1)) = 0
                            /\ local'[w] = local[w]
      BY <2>2 DEF WorkerSlot
    <3>3. pc'[w] = "cas" => seq[Slot(local[w])] = Add(local[w], 1)
      BY <3>1, <3>2, WorkerSlotSees
    <3>4. QED
      BY <1>0, <1>1, <3>1, <3>2, <3>3 DEF WorkerOK, Emptying, WorkerPoints
  <2>3. CASE WorkerCasFails(w) \/ WorkerTake(w)
    BY <1>0, <2>3 DEF WorkerCasFails, WorkerTake, WorkerOK, Emptying, WorkerPoints
  <2>4. CASE WorkerRun(w) \/ WorkerPerform(w) \/ WorkerWait(w)
             \/ WorkerWaitEnds(w) \/ WorkerShut(w)
    BY <2>4 DEF WorkerRun, WorkerPerform, WorkerWait, WorkerWaitEnds, WorkerShut,
                WorkerOK, Emptying, WorkerPoints
  <2>5. QED
    BY <2>1, <2>2, <2>3, <2>4
<1>3. ASSUME NEW v \in Workers
      PROVE  WorkerOK(v)' /\ (Emptying(v)' => Emptying(v) /\ local'[v] = local[v])
  BY <1>1, <1>2 DEF RingOK, WorkerOK, Emptying
<1>4. ASSUME NEW p \in Producers
      PROVE  ProducerOK(p)' /\ (Filling(p)' => Filling(p) /\ local'[p] = local[p])
  BY <1>0, <1>1 DEF RingOK, ProducerOK, Filling
<1>5. QED
  BY <1>1, <1>3, <1>4, QuietRing

(* Every step keeps the ring.                                              *)
LEMMA RingStep ==
  FieldsOK /\ HeadBounded /\ RingOK /\ [Next]_vars => RingOK'
<1> SUFFICES ASSUME FieldsOK, HeadBounded, RingOK, [Next]_vars PROVE RingOK'
  OBVIOUS
<1>1. ASSUME NEW p \in Producers, SubmitBegin(p) \/ Submit(p)
      PROVE  RingOK'
  BY <1>1, SubmitRing, SubmitCasRing, SubmitPublishRing DEF Submit
<1>2. ASSUME NEW w \in Workers, Work(w) \/ WorkerWaitEnds(w)
      PROVE  RingOK'
  BY <1>2, WorkRing, WorkerCasRing, WorkerReleaseRing DEF Work
<1>3. CASE Terminate \/ TerminateWake \/ UNCHANGED vars
  BY <1>3 DEF Terminate, TerminateWake, vars, queue, RingOK, TurnsOK,
              ProducerOK, WorkerOK, ClaimsDistinct, Filling, Emptying
<1>4. QED
  BY <1>1, <1>2, <1>3 DEF Next

(* Two threads inside the same slot would have claimed the same turn.      *)
LEMMA OneInside ==
  ASSUME FieldsOK, HeadBounded, RingOK, Producers \cap Workers = {},
         NEW s \in Slots, NEW t \in Inside(s), NEW u \in Inside(s)
  PROVE  t = u
<1>0. Off(head) \in Nat /\ Off(head) <= MaxTasks /\ Off(tail) \in Nat
      /\ Off(tail) <= Off(head)
  BY HeadLimit, WordTypes DEF RingOK, TurnsOK, FieldsOK
<1>1. ASSUME NEW p \in Producers, p \in Inside(s)
      PROVE  Filling(p) /\ seq[s] = local[p] /\ local[p] \in Words /\ Slot(local[p]) = s
  BY <1>1 DEF Inside, RingOK, ProducerOK, ProducerPoints, Filling, FieldsOK, Threads
<1>2. ASSUME NEW w \in Workers, w \in Inside(s)
      PROVE  /\ Emptying(w) /\ seq[s] = Add(local[w], 1) /\ local[w] \in Words
             /\ Slot(local[w]) = s /\ Slot(Add(local[w], 1)) # s
             /\ Off(local[w]) \in Nat /\ Off(Add(local[w], 1)) = Off(local[w]) + 1
  <2>1. Emptying(w) /\ seq[s] = Add(local[w], 1) /\ local[w] \in Words
        /\ Slot(local[w]) = s /\ Off(local[w]) < Off(tail)
    BY <1>2 DEF Inside, RingOK, WorkerOK, WorkerPoints, Emptying, FieldsOK, Threads
  <2>2. Off(local[w]) \in Nat /\ Off(local[w]) <= MaxTasks
    BY <1>0, <2>1, WordTypes, Constants
  <2>3. QED
    BY <2>1, <2>2, WordFacts
<1>3. t \in Producers \cup Workers /\ u \in Producers \cup Workers
  BY DEF Inside, Threads
<1>4. CASE t \in Producers /\ u \in Producers
  BY <1>1, <1>4 DEF RingOK, ClaimsDistinct
<1>5. CASE t \in Workers /\ u \in Workers
  <2>1. local[t] = local[u]
    <3>1. Off(local[t]) = Off(local[u])
      BY <1>2, <1>5
    <3>2. QED
      BY <1>2, <1>5, <3>1, WordTypes
  <2>2. QED
    BY <1>2, <1>5, <2>1 DEF RingOK, ClaimsDistinct
<1>6. CASE t \in Producers /\ u \in Workers
  BY <1>1, <1>2, <1>6
<1>7. CASE t \in Workers /\ u \in Producers
  BY <1>1, <1>2, <1>7
<1>8. QED
  BY <1>3, <1>4, <1>5, <1>6, <1>7

(* At first every slot waits for the turn it has next ...                  *)
LEMMA SlotsStart ==
  ASSUME Init, NEW s \in Slots
  PROVE  seq[s] \in Words /\ Off(seq[s]) < Size /\ Slot(seq[s]) = s
<1>1. Start \in Words /\ 0 \in Words /\ Off(Start) = 0
  <2>1. Start \in Int /\ Start - Start = 0 /\ 0 % Wrap = 0
    BY Constants DEF Words
  <2>2. QED
    BY <2>1, Constants DEF Words, Off
<1>2. QED
  <2> DEFINE k == (s - Start) % Size
             d == s - Start
  <2>1. s \in Int /\ s \in 0..Size-1 /\ Start \in Int /\ d \in Int
    BY <1>1, Constants DEF Slots, Words
  <2>2. k \in 0..Size-1
    <3> HIDE DEF d
    <3>1. d % Size \in 0..Size-1
      BY <2>1, Constants, DivMod
    <3>2. QED
      BY <3>1 DEF d
  <2>3. seq[s] = Add(Start, k)
    BY DEF Init
  <2>4. k \in Nat /\ Off(Start) + k < Wrap
    BY <1>1, <2>2, Constants
  <2>5. seq[s] \in Words /\ Off(seq[s]) = k
    <3> HIDE DEF k
    <3>1. Add(Start, k) \in Words /\ Off(Add(Start, k)) = Off(Start) + k
      BY <1>1, <2>4, OffAdd
    <3>2. QED
      BY <1>1, <2>3, <2>4, <3>1
  <2>6. Slot(seq[s]) = (Start + k) % Size
    <3> HIDE DEF k
    <3>1. QED
      BY <1>1, <2>3, <2>4, SlotOfSum
  <2>7. (k + Start) % Size = (d + Start) % Size
    <3> HIDE DEF d
    <3>1. ((d % Size) + Start) % Size = (d + Start) % Size
      BY <2>1, Constants, ModMod
    <3>2. QED
      BY <3>1 DEF d
  <2>8. d + Start = s /\ s % Size = s /\ k + Start = Start + k
    <3>1. d + Start = s /\ s % Size = s
      BY <2>1, Constants
    <3> HIDE DEF k
    <3>2. QED
      BY <2>1, <2>4, <3>1
  <2>9. QED
    BY <2>2, <2>4, <2>5, <2>6, <2>7, <2>8, Constants

(* ... and the invariant of the ring holds.                                *)
LEMMA RingInit == Init => RingInv
<1> SUFFICES ASSUME Init PROVE RingInv
  OBVIOUS
<1>1. Start \in Words /\ 0 \in Words /\ Off(Start) = 0
  <2>1. Start \in Int /\ Start - Start = 0 /\ 0 % Wrap = 0
    BY Constants DEF Words
  <2>2. QED
    BY <2>1, Constants DEF Words, Off
<1>2. \A s \in Slots : seq[s] \in Words /\ Off(seq[s]) < Size /\ Slot(seq[s]) = s
  BY SlotsStart
<1>3. FieldsOK
  <2>1. seq \in [Slots -> Words]
    BY <1>2 DEF Init
  <2>2. created \in 0..MaxTasks
    BY Constants DEF Init
  <2>3. QED
    BY <1>1, <2>1, <2>2 DEF Init, FieldsOK
<1>4. Submitting = {} /\ Gone = {} /\ Producers \cap Workers = {}
  BY WorkqueueAssumption DEF Init, Submitting, Gone, Threads
<1>5. HeadBounded /\ ShutCounted
  BY <1>1, <1>4, FS_EmptySet DEF Init, HeadBounded, ShutCounted
<1>6. TurnsOK
  BY <1>1, <1>2, WordTypes, Constants DEF Init, TurnsOK
<1>7. RingOK
  BY <1>4, <1>6 DEF Init, RingOK, ProducerOK, WorkerOK, ProducerPoints,
        WorkerPoints, ClaimsDistinct, Filling, Emptying, Threads
<1>8. shut \in 0..Cardinality(Workers)
  BY Finite DEF Init
<1>9. QED
  BY <1>3, <1>5, <1>7, <1>8 DEF RingInv, TypeOK, FieldsOK

(* The ring's invariant holds in every reachable state.                    *)
LEMMA RingInvariant == Spec => []RingInv
<1>1. RingInv /\ [Next]_vars => RingInv'
  <2> SUFFICES ASSUME RingInv, [Next]_vars PROVE RingInv'
    OBVIOUS
  <2>1. FieldsOK /\ HeadBounded /\ ShutCounted /\ RingOK
    BY DEF RingInv, TypeOK, FieldsOK
  <2>2. FieldsOK' /\ HeadBounded' /\ RingOK'
    BY <2>1, FieldsStep, BoundStep, RingStep
  <2>3. ShutCounted' /\ shut' \in 0..Cardinality(Workers)
    BY <2>1, ShutStep
  <2>4. QED
    BY <2>2, <2>3 DEF RingInv, TypeOK, FieldsOK
<1>2. QED
  BY <1>1, RingInit, PTL DEF Spec

(* Every field of the queue and of the pool stays in its range, whatever   *)
(* the number of threads: counters are 32-bit words, and pool_shut does    *)
(* not pass the number of workers thread_workers_terminate waits for.      *)
THEOREM TypeCorrect == Spec => []TypeOK
<1>1. RingInv => TypeOK
  BY DEF RingInv
<1>2. QED
  BY <1>1, RingInvariant, PTL

(* workqueue_submit and workqueue_try_perform never touch the same slot's  *)
(* func and arg at once, for any queue size, also with stale counters and  *)
(* across the wrap-around of head, tail and seq.                           *)
THEOREM SlotsBelongToOne == Spec => []SlotsExclusive
<1>1. RingInv => SlotsExclusive
  <2> SUFFICES ASSUME RingInv, NEW s \in Slots
               PROVE  Cardinality(Inside(s)) <= 1
    BY DEF SlotsExclusive
  <2>0. FieldsOK /\ HeadBounded /\ RingOK /\ Producers \cap Workers = {}
    BY WorkqueueAssumption DEF RingInv, TypeOK, FieldsOK
  <2>1. ASSUME NEW t \in Inside(s), NEW u \in Inside(s)
        PROVE  t = u
    BY <2>0, <2>1, OneInside
  <2>2. Inside(s) = {} \/ \E t \in Inside(s) : Inside(s) = {t}
    BY <2>1
  <2>3. Cardinality({}) = 0 /\ \A t : Cardinality({t}) = 1
    BY FS_EmptySet, FS_Singleton
  <2>4. CASE Inside(s) = {}
    BY <2>3, <2>4
  <2>5. CASE \E t \in Inside(s) : Inside(s) = {t}
    <3>1. PICK t \in Inside(s) : Inside(s) = {t}
      BY <2>5
    <3>2. Cardinality(Inside(s)) = 1
      BY <2>3, <3>1
    <3>3. QED
      BY <3>2
  <2>6. QED
    BY <2>2, <2>4, <2>5
<1>2. QED
  BY <1>1, RingInvariant, PTL

-----------------------------------------------------------------------------
(* Sleeping workers                                                        *)

(* A worker goes to sleep only if it saw that the slot of the current tail *)
(* is not filled.                                                          *)
LEMMA NoticedStep ==
  RingInv /\ TaskNoticed /\ [Next]_vars => TaskNoticed'
<1> SUFFICES ASSUME RingInv, TaskNoticed, [Next]_vars PROVE TaskNoticed'
  OBVIOUS
<1>0. FieldsOK /\ HeadBounded /\ RingOK /\ Producers \cap Workers = {}
  BY WorkqueueAssumption DEF RingInv, TypeOK, FieldsOK
<1> USE DEF Goto, queue, pool, tally, Threads
<1>1. pc \in [Threads -> ProducerPoints \cup WorkerPoints]
  BY <1>0 DEF FieldsOK, ProducerPoints, WorkerPoints
<1>2. ASSUME NEW p \in Producers,
             SubmitBegin(p) \/ SubmitSlot(p) \/ SubmitReload(p) \/ SubmitCas(p)
             \/ SubmitCasFails(p) \/ SubmitFill(p) \/ SubmitInline(p)
      PROVE  TaskNoticed'
  <2>1. /\ UNCHANGED <<tail, seq, signaled>> /\ pc[p] # "wake"
        /\ \A t \in Threads : t # p => pc'[t] = pc[t]
    BY <1>1, <1>2 DEF SubmitBegin, SubmitSlot, SubmitReload, SubmitCas, SubmitCasFails,
                SubmitFill, SubmitInline
  <2>2. QED
    BY <1>0, <2>1 DEF TaskNoticed
<1>3. ASSUME NEW p \in Producers, SubmitPublish(p) \/ SubmitWake(p)
      PROVE  TaskNoticed'
  BY <1>1, <1>3 DEF SubmitPublish, SubmitWake, TaskNoticed
<1>4. ASSUME NEW w \in Workers, WorkerSlot(w)
      PROVE  TaskNoticed'
  <2>1. pc[w] = "slot" /\ UNCHANGED <<tail, seq>>
    BY <1>4 DEF WorkerSlot
  <2>2. pc'[w] = "wait" => Diff(seq[Slot(local[w])], Add(local[w], 1)) < 0
    BY <1>1, <1>4 DEF WorkerSlot
  <2>3. pc'[w] = "wait" => seq[Slot(tail)] # Add(tail, 1)
    BY <1>0, <2>1, <2>2, WorkerSlotSees
  <2>4. QED
    BY <2>1, <2>3 DEF TaskNoticed
<1>5. ASSUME NEW w \in Workers,
             WorkerRun(w) \/ WorkerLoad(w) \/ WorkerCas(w) \/ WorkerCasFails(w)
             \/ WorkerTake(w) \/ WorkerRelease(w) \/ WorkerPerform(w)
             \/ WorkerWait(w) \/ WorkerWaitEnds(w) \/ WorkerShut(w)
      PROVE  TaskNoticed'
  <2>1. pc'[w] # "wait"
    BY <1>1, <1>5 DEF WorkerRun, WorkerLoad, WorkerCas, WorkerCasFails, WorkerTake,
          WorkerRelease, WorkerPerform, WorkerWait, WorkerWaitEnds, WorkerShut
  <2>2. QED
    BY <2>1 DEF TaskNoticed
<1>6. CASE Terminate \/ TerminateWake \/ UNCHANGED vars
  BY <1>6 DEF Terminate, TerminateWake, vars, TaskNoticed
<1>7. QED
  BY <1>2, <1>3, <1>4, <1>5, <1>6 DEF Next, Submit, Work

(* The workers never all sleep beside a task that is ready without a       *)
(* signal left or on its way: the wake-up of condvar_wake after            *)
(* workqueue_submit cannot miss a worker about to wait.                    *)
THEOREM ReadyTasksNoticed == Spec => []TaskNoticed
<1>1. Init => TaskNoticed
  <2> SUFFICES ASSUME Init PROVE TaskNoticed
    OBVIOUS
  <2>1. RingInv
    BY RingInit
  <2>2. tail \in Words /\ Off(head) = Off(tail) /\ Off(tail) \in Nat
        /\ Slot(Add(tail, 1)) # Slot(tail) /\ Slot(tail) \in Slots
        /\ Off(Add(tail, 1)) = Off(tail) + 1
    <3>1. tail \in Words /\ head = tail
      BY <2>1 DEF Init, RingInv, TypeOK
    <3>2. FieldsOK /\ HeadBounded
      BY <2>1 DEF RingInv, TypeOK, FieldsOK
    <3>3. Off(tail) <= MaxTasks
      BY <3>1, <3>2, HeadLimit
    <3>4. QED
      BY <3>1, <3>3, WordFacts
  <2>3. seq[Slot(tail)] # Add(tail, 1)
    BY <2>1, <2>2 DEF RingInv, RingOK, TurnsOK
  <2>4. QED
    BY <2>3 DEF TaskNoticed
<1>2. QED
  BY <1>1, RingInvariant, NoticedStep, PTL DEF Spec

-----------------------------------------------------------------------------
(* Where a task is                                                         *)

(* A slot holds a task from the write of func and arg to the release.      *)
Filled(s) ==
  \/ Slot(seq[s]) # s
  \/ \E p \in Producers : pc[p] = "publish" /\ Slot(local[p]) = s

Submits(p)  == pc[p] \in {"slot", "reload", "cas", "fill", "inline"}
Performs(w) == pc[w] \in {"release", "perform"}

(* A thread holds a task exactly at those points, and another one than     *)
(* every other thread.                                                     *)
MineOK ==
  /\ \A p \in Producers : mine[p] # NoTask <=> Submits(p)
  /\ \A w \in Workers : mine[w] # NoTask <=> Performs(w)
  /\ \A t \in Threads : mine[t] <= created
  /\ \A t, u \in Threads : (mine[t] # NoTask /\ mine[t] = mine[u]) => t = u

(* The same of the slots.                                                  *)
SlotsOK ==
  /\ \A s \in Slots : task[s] # NoTask <=> Filled(s)
  /\ \A s \in Slots : task[s] <= created
  /\ \A r, s \in Slots : (task[r] # NoTask /\ task[r] = task[s]) => r = s

(* A task is with a thread and in a slot at once only while a worker that  *)
(* has copied it has not released the slot.                                *)
CopiesOK ==
  /\ \A w \in Workers : pc[w] = "release" => mine[w] = task[Slot(local[w])]
  /\ \A t \in Threads, s \in Slots :
       (mine[t] # NoTask /\ mine[t] = task[s]) =>
         t \in Workers /\ pc[t] = "release" /\ s = Slot(local[t])

(* A task was performed once and is nowhere, or it is somewhere.           *)
Held(k) == (\E t \in Threads : mine[t] = k) \/ (\E s \in Slots : task[s] = k)
DoneOK ==
  \A k \in Tasks :
    /\ performed[k] \in {0, 1}
    /\ k > created => performed[k] = 0
    /\ performed[k] = 1 => ~Held(k)
    /\ (k <= created /\ performed[k] = 0) => Held(k)

TasksOK == MineOK /\ SlotsOK /\ CopiesOK /\ DoneOK

(* Steps that leave the tasks where they are.                              *)
LEMMA QuietTasks ==
  ASSUME FieldsOK, TasksOK, UNCHANGED <<seq, task, mine, tally>>,
         \A p \in Producers : Submits(p)' <=> Submits(p),
         \A p \in Producers :
           /\ pc'[p] = "publish" <=> pc[p] = "publish"
           /\ pc[p] = "publish" => local'[p] = local[p],
         \A w \in Workers : Performs(w)' <=> Performs(w),
         \A w \in Workers :
           /\ pc'[w] = "release" <=> pc[w] = "release"
           /\ pc[w] = "release" => local'[w] = local[w]
  PROVE  TasksOK'
<1>1. MineOK'
  BY DEF TasksOK, MineOK, tally
<1>2. ASSUME NEW s \in Slots PROVE Filled(s)' <=> Filled(s)
  BY DEF Filled
<1>3. SlotsOK'
  BY <1>2 DEF TasksOK, SlotsOK, tally
<1>4. CopiesOK'
  BY DEF TasksOK, CopiesOK
<1>5. DoneOK'
  BY DEF TasksOK, DoneOK, Held, tally
<1>6. QED
  BY <1>1, <1>3, <1>4, <1>5 DEF TasksOK

(* A caller comes with a task nobody has.                                  *)
LEMMA SubmitBeginTasks ==
  ASSUME FieldsOK, RingOK, TasksOK, NEW p \in Producers, SubmitBegin(p)
  PROVE  TasksOK'
<1> USE DEF FieldsOK, Goto, queue, pool, tally, Threads
<1> DEFINE n == created + 1
<1>0. Producers \cap Workers = {} /\ MaxTasks \in Nat
  BY WorkqueueAssumption
<1>1. /\ pc[p] = "idle" /\ pc' = [pc EXCEPT ![p] = "slot"]
      /\ created' = n /\ n \in Tasks /\ n \in Nat /\ n > created /\ n # NoTask
      /\ created \in Nat
      /\ mine' = [mine EXCEPT ![p] = n]
      /\ local' = [local EXCEPT ![p] = head]
      /\ UNCHANGED <<seq, task, performed>>
  BY <1>0 DEF SubmitBegin, Tasks, NoTask
<1>2. /\ \A t \in Threads : mine[t] # n /\ mine[t] \in Nat
      /\ \A s \in Slots : task[s] # n /\ task[s] \in Nat
  BY <1>1, <1>0 DEF TasksOK, MineOK, SlotsOK, Tasks, NoTask
<1> HIDE DEF n
<1>3. MineOK'
  BY <1>0, <1>1, <1>2 DEF TasksOK, MineOK, Submits, Performs
<1>4. ASSUME NEW s \in Slots PROVE Filled(s)' <=> Filled(s)
  BY <1>1 DEF Filled
<1>5. SlotsOK'
  BY <1>1, <1>2, <1>4 DEF TasksOK, SlotsOK
<1>6. CopiesOK'
  BY <1>0, <1>1, <1>2 DEF TasksOK, CopiesOK
<1>7. ASSUME NEW k \in Tasks
      PROVE  /\ performed'[k] \in {0, 1}
             /\ k > created' => performed'[k] = 0
             /\ performed'[k] = 1 => ~Held(k)'
             /\ (k <= created' /\ performed'[k] = 0) => Held(k)'
  <2>1. CASE k = n
    BY <1>1, <1>2, <2>1 DEF TasksOK, DoneOK, Held
  <2>2. CASE k # n
    <3>1. Held(k)' <=> Held(k)
      <4>1. mine[p] = NoTask
        BY <1>1 DEF TasksOK, MineOK, Submits
      <4>2. k # NoTask
        BY DEF Tasks, NoTask
      <4>3. QED
        BY <1>1, <2>2, <4>1, <4>2 DEF Held
    <3>2. performed'[k] = performed[k] /\ k \in Nat
          /\ (k > created' => k > created) /\ (k <= created' => k <= created)
      BY <1>1, <2>2 DEF Tasks, n
    <3>3. QED
      BY <3>1, <3>2 DEF TasksOK, DoneOK
  <2>3. QED
    BY <2>1, <2>2
<1>8. QED
  BY <1>3, <1>5, <1>6, <1>7 DEF TasksOK, DoneOK

(* The task moves into the slot, which holds no other.                     *)
LEMMA SubmitFillTasks ==
  ASSUME FieldsOK, HeadBounded, RingOK, TasksOK, NEW p \in Producers, SubmitFill(p)
  PROVE  TasksOK'
<1> USE DEF FieldsOK, Goto, queue, pool, tally, Threads
<1> DEFINE s0 == Slot(local[p])
           k0 == mine[p]
<1>0. Producers \cap Workers = {}
  BY WorkqueueAssumption
<1>1. /\ pc[p] = "fill" /\ pc' = [pc EXCEPT ![p] = "publish"]
      /\ task' = [task EXCEPT ![s0] = k0]
      /\ mine' = [mine EXCEPT ![p] = NoTask]
      /\ UNCHANGED <<seq, local, performed, created>>
      /\ local[p] \in Words /\ s0 \in Slots /\ seq[s0] = local[p]
  BY WordTypes DEF SubmitFill, RingOK, ProducerOK, Filling
<1>2. Slot(local[p]) = s0
  OBVIOUS
<1>3. ~Filled(s0)
  <2>1. p \in Inside(s0)
    BY <1>1, <1>2 DEF Inside
  <2>2. ASSUME NEW q \in Producers, pc[q] = "publish", Slot(local[q]) = s0
        PROVE  FALSE
    <3>1. q \in Inside(s0)
      BY <2>2 DEF Inside
    <3>2. q = p
      BY <1>0, <1>1, <2>1, <3>1, OneInside
    <3>3. QED
      BY <1>1, <2>2, <3>2
  <2>3. QED
    BY <1>1, <1>2, <2>2 DEF Filled
<1>4. task[s0] = NoTask /\ k0 # NoTask /\ k0 <= created
  BY <1>1, <1>3 DEF TasksOK, SlotsOK, MineOK, Submits
<1>5. /\ \A t \in Threads : t # p => mine[t] # k0
      /\ \A s \in Slots : task[s] # k0
  BY <1>0, <1>1, <1>4 DEF TasksOK, MineOK, CopiesOK
<1> HIDE DEF s0, k0
<1>6. MineOK'
  <2>1. NoTask <= created
    BY DEF NoTask
  <2>2. QED
    BY <1>0, <1>1, <2>1 DEF TasksOK, MineOK, Submits, Performs
<1>7. ASSUME NEW s \in Slots PROVE Filled(s)' <=> Filled(s) \/ s = s0
  BY <1>1, <1>2 DEF Filled
<1>8. SlotsOK'
  BY <1>1, <1>4, <1>5, <1>7 DEF TasksOK, SlotsOK
<1>9. CopiesOK'
  <2>1. ASSUME NEW w \in Workers, pc'[w] = "release"
        PROVE  mine'[w] = task'[Slot(local'[w])]
    <3>1. w # p /\ pc[w] = "release" /\ mine[w] = task[Slot(local[w])]
      BY <1>0, <1>1, <2>1 DEF TasksOK, CopiesOK
    <3>2. mine[w] # NoTask /\ Slot(local[w]) \in Slots
      BY <3>1, WordTypes DEF TasksOK, MineOK, Performs
    <3>3. QED
      BY <1>1, <1>4, <3>1, <3>2
  <2>2. QED
    BY <1>0, <1>1, <1>5, <2>1 DEF TasksOK, CopiesOK
<1>10. ASSUME NEW k \in Tasks PROVE Held(k)' <=> Held(k)
  <2>1. k # NoTask
    BY DEF Tasks, NoTask
  <2>2. CASE k = k0
    BY <1>1, <1>2, <2>2 DEF Held, k0
  <2>3. CASE k # k0
    BY <1>1, <1>4, <2>1, <2>3 DEF Held, k0
  <2>4. QED
    BY <2>2, <2>3
<1>11. DoneOK'
  BY <1>1, <1>10 DEF TasksOK, DoneOK
<1>12. QED
  BY <1>6, <1>8, <1>9, <1>11 DEF TasksOK

(* The slot's turn now says what publish said: it is filled.               *)
LEMMA SubmitPublishTasks ==
  ASSUME FieldsOK, HeadBounded, RingOK, TasksOK, NEW p \in Producers,
         SubmitPublish(p)
  PROVE  TasksOK'
<1> USE DEF FieldsOK, Goto, queue, pool, tally, Threads
<1> DEFINE s0 == Slot(local[p])
<1>0. Producers \cap Workers = {}
  BY WorkqueueAssumption
<1>1. /\ pc[p] = "publish" /\ pc' = [pc EXCEPT ![p] = "wake"]
      /\ seq' = [seq EXCEPT ![s0] = Add(local[p], 1)]
      /\ local' = [local EXCEPT ![p] = 0]
      /\ UNCHANGED <<task, mine, performed, created>>
      /\ local[p] \in Words /\ s0 \in Slots
  BY WordTypes DEF SubmitPublish
<1>2. Slot(Add(local[p], 1)) # s0
  BY <1>1, WordFacts
<1>3. Slot(local[p]) = s0
  OBVIOUS
<1> HIDE DEF s0
<1>4. ASSUME NEW s \in Slots PROVE Filled(s)' <=> Filled(s)
  <2>1. CASE s = s0
    BY <1>1, <1>2, <1>3, <2>1 DEF Filled
  <2>2. CASE s # s0
    <3>1. seq'[s] = seq[s]
      BY <1>1, <2>2
    <3>2. \A q \in Producers :
            (pc'[q] = "publish" /\ Slot(local'[q]) = s) <=>
              (pc[q] = "publish" /\ Slot(local[q]) = s)
      BY <1>1, <1>3, <2>2
    <3>3. QED
      BY <3>1, <3>2 DEF Filled
  <2>3. QED
    BY <2>1, <2>2
<1>5. MineOK'
  BY <1>0, <1>1 DEF TasksOK, MineOK, Submits, Performs
<1>6. SlotsOK'
  BY <1>1, <1>4 DEF TasksOK, SlotsOK
<1>7. CopiesOK'
  BY <1>0, <1>1 DEF TasksOK, CopiesOK
<1>8. DoneOK'
  BY <1>1 DEF TasksOK, DoneOK, Held
<1>9. QED
  BY <1>5, <1>6, <1>7, <1>8 DEF TasksOK

(* A worker copies a task that no other thread has.                        *)
LEMMA WorkerTakeTasks ==
  ASSUME FieldsOK, HeadBounded, RingOK, TasksOK, NEW w \in Workers, WorkerTake(w)
  PROVE  TasksOK'
<1> USE DEF FieldsOK, Goto, queue, pool, tally, Threads
<1> DEFINE s0 == Slot(local[w])
           k0 == task[s0]
<1>0. Producers \cap Workers = {}
  BY WorkqueueAssumption
<1>1. /\ pc[w] = "take" /\ pc' = [pc EXCEPT ![w] = "release"]
      /\ mine' = [mine EXCEPT ![w] = k0]
      /\ UNCHANGED <<seq, local, task, performed, created>>
      /\ local[w] \in Words /\ s0 \in Slots /\ seq[s0] = Add(local[w], 1)
  BY WordTypes DEF WorkerTake, RingOK, WorkerOK, Emptying
<1>2. Slot(local[w]) = s0 /\ task[s0] = k0
  OBVIOUS
<1>3. Slot(seq[s0]) # s0
  BY <1>1, WordFacts
<1>4. k0 # NoTask /\ k0 <= created /\ mine[w] = NoTask
  BY <1>1, <1>3 DEF TasksOK, SlotsOK, MineOK, Filled, Performs
<1>5. \A t \in Threads : mine[t] # k0
  <2> SUFFICES ASSUME NEW t \in Threads, mine[t] = k0 PROVE FALSE
    OBVIOUS
  <2>1. t \in Workers /\ pc[t] = "release" /\ s0 = Slot(local[t])
    BY <1>1, <1>2, <1>4 DEF TasksOK, CopiesOK
  <2>2. t \in Inside(s0) /\ w \in Inside(s0)
    BY <1>1, <1>2, <2>1 DEF Inside
  <2>3. t = w
    BY <1>0, <1>1, <2>2, OneInside
  <2>4. QED
    BY <1>1, <2>1, <2>3
<1> HIDE DEF s0, k0
<1>6. MineOK'
  BY <1>0, <1>1, <1>4, <1>5 DEF TasksOK, MineOK, Submits, Performs
<1>7. ASSUME NEW s \in Slots PROVE Filled(s)' <=> Filled(s)
  BY <1>0, <1>1 DEF Filled
<1>8. SlotsOK'
  BY <1>1, <1>7 DEF TasksOK, SlotsOK
<1>9. CopiesOK'
  <2>1. ASSUME NEW v \in Workers, pc'[v] = "release"
        PROVE  mine'[v] = task'[Slot(local'[v])]
    BY <1>1, <1>2, <2>1 DEF TasksOK, CopiesOK
  <2>2. ASSUME NEW t \in Threads, NEW s \in Slots, mine'[t] # NoTask,
               mine'[t] = task'[s]
        PROVE  t \in Workers /\ pc'[t] = "release" /\ s = Slot(local'[t])
    <3>1. CASE t = w
      BY <1>1, <1>2, <1>4, <2>2, <3>1 DEF TasksOK, SlotsOK
    <3>2. CASE t # w
      BY <1>1, <2>2, <3>2 DEF TasksOK, CopiesOK
    <3>3. QED
      BY <3>1, <3>2
  <2>3. QED
    BY <2>1, <2>2 DEF CopiesOK
<1>10. ASSUME NEW k \in Tasks PROVE Held(k)' <=> Held(k)
  <2>1. k # NoTask
    BY DEF Tasks, NoTask
  <2>2. QED
    BY <1>1, <1>2, <1>4, <2>1 DEF Held
<1>11. DoneOK'
  BY <1>1, <1>10 DEF TasksOK, DoneOK
<1>12. QED
  BY <1>6, <1>8, <1>9, <1>11 DEF TasksOK

(* The slot is given up; its task stays with the worker.                   *)
LEMMA WorkerReleaseTasks ==
  ASSUME FieldsOK, HeadBounded, RingOK, TasksOK, NEW w \in Workers,
         WorkerRelease(w)
  PROVE  TasksOK'
<1> USE DEF FieldsOK, Goto, queue, pool, tally, Threads
<1> DEFINE s0 == Slot(local[w])
<1>0. Producers \cap Workers = {}
  BY WorkqueueAssumption
<1>1. /\ pc[w] = "release" /\ pc' = [pc EXCEPT ![w] = "perform"]
      /\ seq' = [seq EXCEPT ![s0] = Add(local[w], Size)]
      /\ task' = [task EXCEPT ![s0] = NoTask]
      /\ local' = [local EXCEPT ![w] = 0]
      /\ UNCHANGED <<mine, performed, created>>
      /\ local[w] \in Words /\ s0 \in Slots
  BY WordTypes DEF WorkerRelease
<1>2. Slot(local[w]) = s0
  OBVIOUS
<1>3. Slot(Add(local[w], Size)) = s0
  BY <1>1, WordFacts
<1>4. mine[w] = task[s0]
  BY <1>1 DEF TasksOK, CopiesOK
<1>5. \A t \in Threads : t \in Inside(s0) => t = w
  <2>1. w \in Inside(s0)
    BY <1>1, <1>2 DEF Inside
  <2>2. QED
    BY <1>0, <1>1, <2>1, OneInside
<1> HIDE DEF s0
<1>6. ASSUME NEW s \in Slots PROVE Filled(s)' <=> Filled(s) /\ s # s0
  <2>1. \A q \in Producers : pc'[q] = pc[q] /\ local'[q] = local[q]
    BY <1>0, <1>1
  <2>2. CASE s = s0
    <3>1. \A q \in Producers : ~(pc[q] = "publish" /\ Slot(local[q]) = s0)
      BY <1>0, <1>5 DEF Inside
    <3>2. QED
      BY <1>1, <1>3, <2>1, <2>2, <3>1 DEF Filled
  <2>3. CASE s # s0
    BY <1>1, <2>1, <2>3 DEF Filled
  <2>4. QED
    BY <2>2, <2>3
<1>7. MineOK'
  BY <1>0, <1>1 DEF TasksOK, MineOK, Submits, Performs
<1>8. SlotsOK'
  <2>1. NoTask <= created
    BY DEF NoTask
  <2>2. QED
    BY <1>1, <1>6, <2>1 DEF TasksOK, SlotsOK
<1>9. CopiesOK'
  <2>1. ASSUME NEW v \in Workers, pc'[v] = "release"
        PROVE  mine'[v] = task'[Slot(local'[v])]
    <3>1. v # w /\ pc[v] = "release" /\ local'[v] = local[v]
      BY <1>1, <2>1
    <3>2. Slot(local[v]) \in Slots /\ Slot(local[v]) # s0
      BY <1>5, <3>1, WordTypes DEF Inside
    <3>3. QED
      BY <1>1, <3>1, <3>2 DEF TasksOK, CopiesOK
  <2>2. ASSUME NEW t \in Threads, NEW s \in Slots, mine'[t] # NoTask,
               mine'[t] = task'[s]
        PROVE  t \in Workers /\ pc'[t] = "release" /\ s = Slot(local'[t])
    <3>1. s # s0 /\ task'[s] = task[s]
      BY <1>1, <2>2
    <3>2. t \in Workers /\ pc[t] = "release" /\ s = Slot(local[t])
      BY <1>1, <2>2, <3>1 DEF TasksOK, CopiesOK
    <3>3. QED
      BY <1>1, <1>2, <3>1, <3>2
  <2>3. QED
    BY <2>1, <2>2 DEF CopiesOK
<1>10. ASSUME NEW k \in Tasks PROVE Held(k)' <=> Held(k)
  <2>1. k # NoTask
    BY DEF Tasks, NoTask
  <2>2. QED
    BY <1>1, <1>4, <2>1 DEF Held
<1>11. DoneOK'
  BY <1>1, <1>10 DEF TasksOK, DoneOK
<1>12. QED
  BY <1>7, <1>8, <1>9, <1>11 DEF TasksOK

(* A task that is performed was not performed before, and is gone then.    *)
LEMMA PerformTasks ==
  ASSUME FieldsOK, HeadBounded, RingOK, TasksOK, NEW t0 \in Threads,
         (t0 \in Producers /\ SubmitInline(t0)) \/ (t0 \in Workers /\ WorkerPerform(t0))
  PROVE  TasksOK'
<1> USE DEF FieldsOK, Goto, queue, pool, tally, Threads
<1> DEFINE k0 == mine[t0]
<1>0. Producers \cap Workers = {}
  BY WorkqueueAssumption
<1>1. /\ performed' = [performed EXCEPT ![k0] = @ + 1]
      /\ mine' = [mine EXCEPT ![t0] = NoTask]
      /\ UNCHANGED <<seq, task, created>>
      /\ \A t \in Threads : t # t0 => pc'[t] = pc[t] /\ local'[t] = local[t]
      /\ t0 \in Producers => pc[t0] = "inline" /\ pc'[t0] = "idle"
      /\ t0 \in Workers => pc[t0] = "perform" /\ pc'[t0] = "load"
  BY <1>0 DEF SubmitInline, WorkerPerform, Perform
<1>2. k0 # NoTask /\ k0 \in Tasks /\ k0 <= created
  BY <1>0, <1>1 DEF TasksOK, MineOK, Submits, Performs
<1>3. /\ \A t \in Threads : t # t0 => mine[t] # k0
      /\ \A s \in Slots : task[s] # k0
  BY <1>0, <1>1, <1>2 DEF TasksOK, MineOK, CopiesOK
<1>4. performed[k0] = 0
  BY <1>2 DEF TasksOK, DoneOK, Held
<1> HIDE DEF k0
<1>5. MineOK'
  <2>1. NoTask <= created
    BY DEF NoTask
  <2>2. QED
    BY <1>0, <1>1, <2>1 DEF TasksOK, MineOK, Submits, Performs
<1>6. ASSUME NEW s \in Slots PROVE Filled(s)' <=> Filled(s)
  <2>1. \A p \in Producers :
          (pc'[p] = "publish" /\ Slot(local'[p]) = s) <=>
            (pc[p] = "publish" /\ Slot(local[p]) = s)
    BY <1>1
  <2>2. QED
    BY <1>1, <2>1 DEF Filled
<1>7. SlotsOK'
  BY <1>1, <1>6 DEF TasksOK, SlotsOK
<1>8. CopiesOK'
  BY <1>0, <1>1 DEF TasksOK, CopiesOK
<1>9. ASSUME NEW k \in Tasks
      PROVE  /\ performed'[k] \in {0, 1}
             /\ k > created' => performed'[k] = 0
             /\ performed'[k] = 1 => ~Held(k)'
             /\ (k <= created' /\ performed'[k] = 0) => Held(k)'
  <2>1. CASE k = k0
    <3>1. performed'[k] = 1 /\ ~(k > created)
      BY <1>1, <1>2, <1>4, <2>1 DEF Tasks
    <3>2. ~Held(k)'
      BY <1>1, <1>2, <1>3, <2>1 DEF Held
    <3>3. QED
      BY <1>1, <3>1, <3>2
  <2>2. CASE k # k0
    <3>1. k # NoTask
      BY DEF Tasks, NoTask
    <3>2. Held(k)' <=> Held(k)
      BY <1>1, <2>2, <3>1 DEF Held, k0
    <3>3. performed'[k] = performed[k]
      BY <1>1, <2>2
    <3>4. QED
      BY <1>1, <3>2, <3>3 DEF TasksOK, DoneOK
  <2>3. QED
    BY <2>1, <2>2
<1>10. QED
  BY <1>5, <1>7, <1>8, <1>9 DEF TasksOK, DoneOK

(* Every step keeps track of the tasks.                                    *)
LEMMA TasksStep ==
  FieldsOK /\ HeadBounded /\ RingOK /\ TasksOK /\ [Next]_vars => TasksOK'
<1> SUFFICES ASSUME FieldsOK, HeadBounded, RingOK, TasksOK, [Next]_vars
             PROVE  TasksOK'
  OBVIOUS
<1> USE DEF Goto, queue, pool, tally, Threads
<1>0. Producers \cap Workers = {}
      /\ pc \in [Threads -> ProducerPoints \cup WorkerPoints]
  BY WorkqueueAssumption DEF FieldsOK, ProducerPoints, WorkerPoints
<1>1. ASSUME NEW p \in Producers,
             SubmitSlot(p) \/ SubmitReload(p) \/ SubmitCas(p)
             \/ SubmitCasFails(p) \/ SubmitWake(p)
      PROVE  TasksOK'
  <2>1. /\ UNCHANGED <<seq, task, mine, tally>>
        /\ \A t \in Threads : t # p => pc'[t] = pc[t] /\ local'[t] = local[t]
    BY <1>1 DEF SubmitSlot, SubmitReload, SubmitCas, SubmitCasFails, SubmitWake,
                FieldsOK
  <2>2. (Submits(p)' <=> Submits(p)) /\ pc[p] # "publish" /\ pc'[p] # "publish"
    BY <1>0, <1>1 DEF SubmitSlot, SubmitReload, SubmitCas, SubmitCasFails,
                SubmitWake, Submits
  <2>3. \A q \in Producers : Submits(q)' <=> Submits(q)
    BY <2>1, <2>2 DEF Submits
  <2>4. \A w \in Workers : Performs(w)' <=> Performs(w)
    BY <1>0, <2>1 DEF Performs
  <2>5. QED
    BY <1>0, <2>1, <2>2, <2>3, <2>4, QuietTasks
<1>2. ASSUME NEW w \in Workers,
             WorkerRun(w) \/ WorkerLoad(w) \/ WorkerSlot(w) \/ WorkerCas(w)
             \/ WorkerCasFails(w) \/ WorkerWait(w) \/ WorkerWaitEnds(w)
             \/ WorkerShut(w)
      PROVE  TasksOK'
  <2>1. /\ UNCHANGED <<seq, task, mine, tally>>
        /\ \A t \in Threads : t # w => pc'[t] = pc[t] /\ local'[t] = local[t]
    BY <1>2 DEF WorkerRun, WorkerLoad, WorkerSlot, WorkerCas, WorkerCasFails,
                WorkerWait, WorkerWaitEnds, WorkerShut, FieldsOK
  <2>2. ~Performs(w) /\ ~Performs(w)'
    BY <1>0, <1>2 DEF WorkerRun, WorkerLoad, WorkerSlot, WorkerCas,
          WorkerCasFails, WorkerWait, WorkerWaitEnds, WorkerShut, Performs
  <2>3. \A v \in Workers : Performs(v)' <=> Performs(v)
    BY <2>1, <2>2 DEF Performs
  <2>4. \A p \in Producers : Submits(p)' <=> Submits(p)
    BY <1>0, <2>1 DEF Submits
  <2>5. pc[w] # "release" /\ pc'[w] # "release"
    BY <2>2 DEF Performs
  <2>6. QED
    BY <1>0, <2>1, <2>3, <2>4, <2>5, QuietTasks
<1>3. CASE Terminate \/ TerminateWake \/ UNCHANGED vars
  <2>1. UNCHANGED <<seq, task, mine, tally, pc, local>>
    BY <1>3 DEF Terminate, TerminateWake, vars
  <2>2. /\ \A p \in Producers : Submits(p)' <=> Submits(p)
        /\ \A w \in Workers : Performs(w)' <=> Performs(w)
    BY <2>1 DEF Submits, Performs
  <2>3. QED
    BY <2>1, <2>2, QuietTasks
<1>4. ASSUME NEW p \in Producers, SubmitBegin(p) \/ Submit(p)
      PROVE  TasksOK'
  BY <1>1, <1>4, SubmitBeginTasks, SubmitFillTasks, SubmitPublishTasks,
     PerformTasks DEF Submit
<1>5. ASSUME NEW w \in Workers, Work(w) \/ WorkerWaitEnds(w)
      PROVE  TasksOK'
  BY <1>2, <1>5, WorkerTakeTasks, WorkerReleaseTasks, PerformTasks DEF Work
<1>6. QED
  BY <1>3, <1>4, <1>5 DEF Next

(* Counting: a task that is somewhere is there once.                       *)
LEMMA TasksCounted == FieldsOK /\ TasksOK => TasksConserved
<1> SUFFICES ASSUME FieldsOK, TasksOK, NEW k \in 1..created
             PROVE  performed[k] + Cardinality({t \in Threads : mine[t] = k})
                      + Cardinality({s \in Slots : /\ task[s] = k
                                       /\ \A w \in Workers : mine[w] # k}) = 1
  BY DEF TasksConserved
<1> DEFINE T == {t \in Threads : mine[t] = k}
           S == {s \in Slots : task[s] = k /\ \A w \in Workers : mine[w] # k}
<1>1. k \in Tasks /\ k <= created /\ k # NoTask
  BY Constants DEF FieldsOK, Tasks, NoTask
<1>2. Cardinality({}) = 0 /\ \A x : Cardinality({x}) = 1
  BY FS_EmptySet, FS_Singleton
<1>3. CASE performed[k] = 1
  <2>1. T = {} /\ S = {}
    BY <1>1, <1>3 DEF TasksOK, DoneOK, Held
  <2>2. Cardinality(T) = 0 /\ Cardinality(S) = 0
    BY <1>2, <2>1
  <2>3. QED
    BY <1>3, <2>2
<1>4. CASE performed[k] = 0 /\ \E t \in Threads : mine[t] = k
  <2>1. PICK t \in Threads : mine[t] = k
    BY <1>4
  <2>2. T = {t} /\ S = {}
    BY <1>1, <2>1 DEF TasksOK, MineOK, CopiesOK
  <2>3. Cardinality(T) = 1 /\ Cardinality(S) = 0
    BY <1>2, <2>2
  <2>4. QED
    BY <1>4, <2>3
<1>5. CASE performed[k] = 0 /\ ~\E t \in Threads : mine[t] = k
  <2>1. PICK s \in Slots : task[s] = k
    BY <1>1, <1>5 DEF TasksOK, DoneOK, Held
  <2>2. T = {} /\ S = {s}
    BY <1>1, <1>5, <2>1 DEF TasksOK, SlotsOK, Threads
  <2>3. Cardinality(T) = 0 /\ Cardinality(S) = 1
    BY <1>2, <2>2
  <2>4. QED
    BY <1>5, <2>3
<1>6. QED
  BY <1>1, <1>3, <1>4, <1>5 DEF TasksOK, DoneOK

(* No task is lost, overwritten or performed twice, for any number of      *)
(* producers and workers and any queue size: neither when the queue is     *)
(* full and tasks are performed by their creators, nor when a slot is      *)
(* reused or the counters wrap around.                                     *)
THEOREM TasksNotLost == Spec => []TasksConserved
<1>1. Init => TasksOK
  <2> SUFFICES ASSUME Init PROVE TasksOK
    OBVIOUS
  <2>0. RingInv /\ Producers \cap Workers = {}
    BY RingInit, WorkqueueAssumption
  <2>1. \A s \in Slots : ~Filled(s)
    <3> SUFFICES ASSUME NEW s \in Slots PROVE ~Filled(s)
      OBVIOUS
    <3>1. Slot(seq[s]) = s
      BY SlotsStart
    <3>2. \A p \in Producers : pc[p] = "idle"
      BY <2>0 DEF Init, Threads
    <3>3. QED
      BY <3>1, <3>2 DEF Filled
  <2>2. MineOK
    BY <2>0 DEF Init, MineOK, Submits, Performs, NoTask, Threads
  <2>3. SlotsOK
    BY <2>1 DEF Init, SlotsOK, NoTask
  <2>4. CopiesOK
    BY <2>0 DEF Init, CopiesOK, Threads
  <2>5. DoneOK
    BY DEF Init, DoneOK, Held, Tasks, NoTask
  <2>6. QED
    BY <2>2, <2>3, <2>4, <2>5 DEF TasksOK
<1>2. RingInv => FieldsOK /\ HeadBounded /\ RingOK
  BY DEF RingInv, TypeOK, FieldsOK
<1>3. Spec => []TasksOK
  BY <1>1, <1>2, RingInvariant, TasksStep, PTL DEF Spec
<1>4. QED
  BY <1>2, <1>3, RingInvariant, TasksCounted, PTL
=============================================================================
