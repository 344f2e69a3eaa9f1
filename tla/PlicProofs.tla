------------------------------ MODULE PlicProofs ------------------------------
(***************************************************************************)
(* Proofs about module Plic, for every number of harts, devices and        *)
(* contexts, any interrupts of a register, and for every guest.            *)
(***************************************************************************)
EXTENDS Plic, WellFoundedInduction, TLAPS

(* Each thread has a state.                                                *)
AtOK == at = [t \in Threads |-> at[t]]

(* Points from which a thread goes on to mark its interrupt as pending.    *)
Pending == {"s_pending", "f_pending"}

(* A step that only moves a thread, and perhaps makes an interrupt         *)
(* pending.                                                                *)
Moves(t) ==
  /\ at[t].pc \notin Pending
  /\ \E s : Become(t, s)
  /\ raised' = raised
  /\ pending \subseteq pending'
  /\ service' = service

(* Most steps are of that kind.                                            *)
LEMMA StepCases ==
  ASSUME NEW t \in Threads, Step(t)
  PROVE  Moves(t) \/ ClaimPending(t) \/ CompletePending(t) \/ RaisePending(t)
<1> USE DEF Moves, Pending, track
<1>1. CASE NotifyEnabled(t)
  BY <1>1, Zenon DEF NotifyEnabled
<1>2. CASE NotifyPrio(t)
  BY <1>2, Zenon DEF NotifyPrio
<1>3. CASE NotifyThreshold(t)
  BY <1>3, Zenon DEF NotifyThreshold
<1>4. CASE NotifyLine(t)
  BY <1>4, Zenon DEF NotifyLine
<1>5. CASE UpdateIrq(t)
  BY <1>5, Zenon DEF UpdateIrq
<1>6. CASE UpdateThreshold(t)
  BY <1>6, Zenon DEF UpdateThreshold
<1>7. CASE UpdateClear(t)
  BY <1>7, Zenon DEF UpdateClear, Move
<1>8. CASE UpdatePending(t)
  BY <1>8, Zenon DEF UpdatePending
<1>9. CASE UpdateEnable(t)
  BY <1>9, Zenon DEF UpdateEnable
<1>10. CASE UpdatePrio(t)
  BY <1>10, Zenon DEF UpdatePrio
<1>11. CASE UpdateLine(t)
  BY <1>11, Zenon DEF UpdateLine
<1>12. CASE SetCeased(t)
  BY <1>12, Zenon DEF SetCeased
<1>13. CASE RegPending(t)
  BY <1>13, Zenon DEF RegPending
<1>14. CASE RegEnable(t)
  BY <1>14, Zenon DEF RegEnable
<1> QED
  BY <1>1, <1>2, <1>3, <1>4, <1>5, <1>6, <1>7, <1>8, <1>9, <1>10, <1>11,
     <1>12, <1>13, <1>14, Zenon DEF Step

(* So are most register accesses of a hart, as they begin.                 *)
LEMMA AccessCases ==
  ASSUME NEW h \in Threads, Access(h)
  PROVE  Moves(h) \/ \E c \in Ctxs, i \in Used : Complete(h, c, i)
<1> USE DEF Moves, Pending, track
<1>1. ASSUME NEW i \in Used, NEW p \in Prios, SetPrio(h, i, p) PROVE Moves(h)
  BY <1>1, Zenon DEF SetPrio
<1>2. ASSUME NEW c \in Ctxs, NEW p \in Prios, SetThreshold(h, c, p) PROVE Moves(h)
  BY <1>2, Zenon DEF SetThreshold
<1>3. ASSUME NEW c \in Ctxs, NEW i \in Used, Enable(h, c, i) PROVE Moves(h)
  BY <1>3, Zenon DEF Enable
<1>4. ASSUME NEW c \in Ctxs, NEW i \in Used, Disable(h, c, i) PROVE Moves(h)
  BY <1>4, Zenon DEF Disable
<1>5. ASSUME NEW c \in Ctxs, Claim(h, c) PROVE Moves(h)
  BY <1>5, Zenon DEF Claim
<1> QED
  BY <1>1, <1>2, <1>3, <1>4, <1>5, Zenon DEF Access

(* Whoever moves leaves the others alone.                                  *)
LEMMA BecomeOthers ==
  ASSUME AtOK, NEW t \in Threads, NEW s, Become(t, s)
  PROVE  /\ AtOK'
         /\ at'[t] = s
         /\ \A u \in Threads \ {t} : at'[u] = at[u]
BY Zenon DEF AtOK, Become

(* Such a step keeps every raised interrupt covered.                       *)
LEMMA MovesCover ==
  ASSUME AtOK, RaisedCovered, NEW t \in Threads, Moves(t)
  PROVE  AtOK' /\ RaisedCovered'
<1> PICK s : Become(t, s)
  BY Zenon DEF Moves
<1>1. AtOK' /\ \A u \in Threads \ {t} : at'[u] = at[u]
  BY BecomeOthers, Zenon
<1>2. RaisedCovered'
  BY <1>1, ZenonT(30) DEF RaisedCovered, Moves, Pending
<1> QED
  BY <1>1, <1>2

(* The invariant is inductive.                                             *)
LEMMA CoverStep ==
  ASSUME AtOK, RaisedCovered, Next
  PROVE  AtOK' /\ RaisedCovered'
<1> USE DEF track
<1>1. ASSUME NEW t \in Threads, ClaimPending(t) PROVE AtOK' /\ RaisedCovered'
  <2>1. at[t].pc = "c_pending" /\ raised' = raised
    BY <1>1, Zenon DEF ClaimPending
  <2>2. AtOK' /\ \A u \in Threads \ {t} : at'[u] = at[u]
    BY <1>1, BecomeOthers, Zenon DEF ClaimPending
  <2>3. pending' = pending \ {at[t].irq} /\ service \subseteq service'
    BY <1>1, Zenon DEF ClaimPending
  <2>4. at[t].irq \in pending => <<at[t].ctx, at[t].irq>> \in service'
    BY <1>1, Zenon DEF ClaimPending
  <2>5. <<at[t].ctx, at[t].irq>>[2] = at[t].irq
    OBVIOUS
  <2> SUFFICES ASSUME NEW i \in raised
               PROVE  \/ i \in pending'
                      \/ \E claim \in service' : claim[2] = i
                      \/ \E u \in Threads : at'[u].pc \in Pending /\ at'[u].irq = i
    BY <2>1, <2>2, Zenon DEF RaisedCovered, Pending
  <2>6. CASE i \in pending
    BY <2>3, <2>4, <2>5, <2>6, Zenon
  <2>7. CASE \E claim \in service : claim[2] = i
    BY <2>3, <2>7, Zenon
  <2>8. CASE \E u \in Threads : at[u].pc \in Pending /\ at[u].irq = i
    BY <2>1, <2>2, <2>8, Zenon DEF Pending
  <2> QED
    BY <2>6, <2>7, <2>8, Zenon DEF RaisedCovered, Pending
<1>2. ASSUME NEW t \in Threads, CompletePending(t) \/ RaisePending(t)
      PROVE  AtOK' /\ RaisedCovered'
  <2>1. pending' = pending \cup {at[t].irq} /\ raised' = raised /\ service' = service
    BY <1>2, Zenon DEF CompletePending, RaisePending, MarkPending, Pend
  <2>2. \E s : Become(t, s)
    BY <1>2, Zenon DEF CompletePending, RaisePending, MarkPending, Move
  <2>3. AtOK' /\ \A u \in Threads \ {t} : at'[u] = at[u]
    BY <2>2, BecomeOthers, Zenon
  <2> QED
    BY <2>1, <2>3, ZenonT(30) DEF RaisedCovered
<1>3. ASSUME NEW t \in Threads, NEW c \in Ctxs, NEW i \in Used, Complete(t, c, i)
      PROVE  AtOK' /\ RaisedCovered'
  <2>1. /\ at[t].pc = "idle" /\ raised' = raised /\ pending' = pending
        /\ service' = service \ {<<c, i>>}
    BY <1>3, Zenon DEF Complete
  <2>2. /\ AtOK'
        /\ \A u \in Threads \ {t} : at'[u] = at[u]
        /\ at'[t] = IF i \in raised THEN Doing("f_pending", "one", c, i) ELSE Idle
    BY <1>3, BecomeOthers, Zenon DEF Complete
  <2>3. i \in raised => at'[t].pc = "f_pending" /\ at'[t].irq = i
    BY <2>2 DEF Doing
  <2>4. ASSUME NEW claim \in service, claim[2] # i PROVE claim \in service'
    BY <2>1, <2>4
  <2> SUFFICES ASSUME NEW j \in raised
               PROVE  \/ j \in pending'
                      \/ \E claim \in service' : claim[2] = j
                      \/ \E u \in Threads : at'[u].pc \in Pending /\ at'[u].irq = j
    BY <2>1, <2>2, Zenon DEF RaisedCovered, Pending
  <2>5. CASE j = i
    BY <2>3, <2>5, Zenon DEF Pending
  <2>6. CASE j # i /\ \E claim \in service : claim[2] = j
    BY <2>4, <2>6, Zenon
  <2>7. CASE \E u \in Threads : at[u].pc \in Pending /\ at[u].irq = j
    BY <2>1, <2>2, <2>7, Zenon DEF Pending
  <2> QED
    BY <2>1, <2>5, <2>6, <2>7, Zenon DEF RaisedCovered, Pending
<1>4. ASSUME NEW t \in Threads, NEW i, RaiseIrq(t, i)
      PROVE  AtOK' /\ RaisedCovered'
  <2>1. /\ at[t].pc = "idle" /\ raised' = raised \cup {i}
        /\ pending' = pending /\ service' = service
    BY <1>4, Zenon DEF RaiseIrq
  <2>2. /\ AtOK'
        /\ \A u \in Threads \ {t} : at'[u] = at[u]
        /\ at'[t] = Doing("s_pending", "any", 0, i)
    BY <1>4, BecomeOthers, Zenon DEF RaiseIrq
  <2>3. at'[t].pc = "s_pending" /\ at'[t].irq = i
    BY <2>2 DEF Doing
  <2> SUFFICES ASSUME NEW j \in raised \cup {i}
               PROVE  \/ j \in pending
                      \/ \E claim \in service : claim[2] = j
                      \/ \E u \in Threads : at'[u].pc \in Pending /\ at'[u].irq = j
    BY <2>1, <2>2, Zenon DEF RaisedCovered, Pending
  <2>4. CASE j = i
    BY <2>3, <2>4, Zenon DEF Pending
  <2>5. CASE \E u \in Threads : at[u].pc \in Pending /\ at[u].irq = j
    BY <2>1, <2>2, <2>5, Zenon DEF Pending
  <2> QED
    BY <2>4, <2>5, Zenon DEF RaisedCovered, Pending
<1>5. ASSUME NEW t \in Threads, NEW i, LowerIrq(t, i)
      PROVE  AtOK' /\ RaisedCovered'
  BY <1>5, Zenon DEF LowerIrq, RaisedCovered, AtOK
<1>6. ASSUME Reset PROVE AtOK' /\ RaisedCovered'
  BY <1>6, Zenon DEF Reset, RaisedCovered, AtOK
<1>7. ASSUME NEW t \in Threads, NEW i, SendIrq(t, i) PROVE Moves(t)
  BY <1>7, Zenon DEF SendIrq, MarkPending, Pend, Moves, Pending
<1>8. ASSUME NEW t \in Threads, Step(t) PROVE AtOK' /\ RaisedCovered'
  BY <1>1, <1>2, <1>8, StepCases, MovesCover, Zenon
<1>9. ASSUME NEW h \in Threads, Access(h) PROVE AtOK' /\ RaisedCovered'
  BY <1>3, <1>9, AccessCases, MovesCover, Zenon
<1>10. Threads = Harts \cup Devices
  BY DEF Threads
<1> QED
  BY <1>4, <1>5, <1>6, <1>7, <1>8, <1>9, <1>10, MovesCover, Zenon DEF Next

(* RaisedKept, for every number of threads and whatever they do to the     *)
(* registers meanwhile: plic_raise_irq sets raised before pending, and     *)
(* plic_complete_irq looks at raised after the interrupt was claimed, so   *)
(* that a level-triggered interrupt never falls between them.              *)
THEOREM RaisedInterruptsKept == Spec => []RaisedKept
<1>1. Init => AtOK /\ RaisedCovered
  BY Zenon DEF Init, AtOK, RaisedCovered
<1>2. AtOK /\ RaisedCovered /\ [Next]_vars => (AtOK /\ RaisedCovered)'
  <2>1. ASSUME AtOK, RaisedCovered, UNCHANGED vars PROVE AtOK' /\ RaisedCovered'
    BY <2>1, Zenon DEF vars, track, AtOK, RaisedCovered
  <2> QED
    BY <2>1, CoverStep, Zenon
<1>3. RaisedCovered => RaisedKept
  BY Zenon DEF RaisedCovered, RaisedKept, Quiet
<1> QED
  BY <1>1, <1>2, <1>3, PTL DEF Spec
-----------------------------------------------------------------------------
(* Program points: on the way to a notification, to an update, and others  *)
(* at which the thread carries an interrupt in its local irq.              *)
Notifying == {"i_pending", "n_enable", "n_prio", "n_threshold", "n_line"}
Starting  == {"u_threshold", "u_clear", "u_pending", "u_enable"}
Updating  == Starting \cup {"u_prio", "u_line"}
Carrying  == Notifying \cup Pending \cup {"p_pending", "c_pending"}
Points    == Carrying \cup Updating \cup {"idle", "r_pending", "r_enable"}

(* What a thread's locals range over ...                                   *)
States ==
  [pc : Points, mode : {"none", "any", "one", "reg", "full", "ctx", "claim"},
   ctx : Ctxs, irq : Irqs \cup {0}, irqs : SUBSET Irqs,
   low : Nat, max : Nat, best : Irqs \cup {0}, count : Nat]

(* ... and how they depend on where it is.  The scan of plic_update_ctx    *)
(* begins with no interrupt found, looks at one that is there, and counts  *)
(* at least the interrupt that a claim is about to take, which is why      *)
(* subtracting that one does not underflow.                                *)
Consistent(s) ==
  /\ s \in States
  /\ s.pc \in Carrying => s.irq \in Irqs
  /\ s.mode = "claim" => s.pc \in Updating \cup {"c_pending"}
  /\ s.pc \in {"r_pending", "r_enable"} => s.mode = "reg"
  /\ s.pc \in Starting => s.max = 0
  /\ s.pc = "u_prio" => s.irqs # {}
  /\ (s.mode = "claim" /\ s.max > s.low) => s.count > 0

(* The least of some interrupts is one of them (the natural numbers are    *)
(* well-founded).                                                          *)
LEMMA MinimumIn ==
  ASSUME NEW S \in SUBSET Irqs, S # {}
  PROVE  Min(S) \in S
<1>1. S \subseteq Nat
  BY PlicAssumption
<1>2. PICK x \in S : \A y \in S : ~(<<y, x>> \in OpToRel(<, Nat))
  BY <1>1, NatLessThanWellFounded, WFMin, Zenon
<1>3. ASSUME NEW y \in S PROVE ~(y < x)
  BY <1>1, <1>2, Zenon DEF OpToRel
<1>4. \A y \in S : x <= y
  BY <1>1, <1>3
<1> QED
  BY <1>4 DEF Min

(* The states a thread begins an operation in.                             *)
LEMMA DoingConsistent ==
  ASSUME NEW pc \in Points, NEW mode \in {"none", "any", "one", "reg", "full", "ctx"},
         NEW c \in Ctxs, NEW i \in Irqs \cup {0},
         pc # "u_prio", pc \in Carrying => i \in Irqs,
         pc \in {"r_pending", "r_enable"} => mode = "reg"
  PROVE  Consistent(Doing(pc, mode, c, i))
BY DEF Consistent, States, Doing

(* So does a thread that is not inside the controller.                     *)
LEMMA IdleConsistent == Consistent(Idle)
<1>1. 0 \in Ctxs
  BY PlicAssumption DEF Ctxs
<1> QED
  BY <1>1, DoingConsistent DEF Idle, Points, Carrying, Notifying, Pending, Updating, Starting

(* Going on to the next interrupt of the register, or of the next context. *)
LEMMA NextIrqConsistent ==
  ASSUME NEW s \in States, s.mode = "reg"
  PROVE  Consistent(NextIrq(s))
<1>1. CASE s.irqs = {}
  BY <1>1, IdleConsistent DEF NextIrq
<1>2. CASE s.irqs # {}
  <2>1. Min(s.irqs) \in s.irqs /\ s.irqs \subseteq Irqs
    BY <1>2, MinimumIn DEF States
  <2>2. 0 \in Ctxs
    BY PlicAssumption DEF Ctxs
  <2> DEFINE r == [s EXCEPT !.pc = "i_pending", !.ctx = 0, !.max = 0,
                   !.irq = Min(s.irqs), !.irqs = @ \ {Min(s.irqs)}]
  <2>3. r \in States
    BY <2>1, <2>2 DEF States, Points, Carrying, Notifying
  <2>4. r.pc = "i_pending" /\ r.mode = "reg" /\ r.irq = Min(s.irqs) /\ r.max = 0
    BY DEF States
  <2>5. Consistent(r)
    <3> HIDE DEF r
    <3> QED
      BY <2>1, <2>3, <2>4 DEF Consistent, States, Starting
  <2> QED
    BY <1>2, <2>5 DEF NextIrq
<1> QED
  BY <1>1, <1>2

(* After a notification ...                                                *)
LEMMA NotifiedConsistent ==
  ASSUME NEW s \in States
  PROVE  Consistent(Notified(s))
BY NextIrqConsistent, IdleConsistent DEF Notified

(* ... and after one that this context refused.                            *)
LEMMA RefusedConsistent ==
  ASSUME NEW s, Consistent(s), s.pc \in Notifying
  PROVE  Consistent(Refused(s))
<1>1. CASE s.mode # "one" /\ s.ctx + 1 \in Ctxs
  <2> DEFINE r == [s EXCEPT !.pc = "n_enable", !.ctx = @ + 1, !.max = 0]
  <2>1. r \in States
    BY <1>1 DEF Consistent, States, Points, Carrying, Notifying
  <2>2. r.pc = "n_enable" /\ r.mode = s.mode /\ r.irq = s.irq /\ r.max = 0
    BY DEF Consistent, States
  <2>3. s.mode # "claim" /\ s.irq \in Irqs
    BY DEF Consistent, Carrying, Notifying, Updating, Starting
  <2>4. Consistent(r)
    <3> HIDE DEF r
    <3> QED
      BY <2>1, <2>2, <2>3 DEF Consistent, States, Starting
  <2> QED
    BY <1>1, <2>4 DEF Refused
<1>2. CASE ~(s.mode # "one" /\ s.ctx + 1 \in Ctxs)
  BY <1>2, NotifiedConsistent DEF Refused, Consistent
<1> QED
  BY <1>1, <1>2

(* What follows the update of a context.                                   *)
LEMMA UpdatedConsistent ==
  ASSUME NEW s \in States
  PROVE  Consistent(Updated(s))
<1>1. CASE s.mode = "claim" /\ s.best # 0
  <2>1. Updated(s) = Doing("c_pending", "claim", s.ctx, s.best)
    BY <1>1 DEF Updated
  <2> QED
    BY <1>1, <2>1
       DEF Consistent, States, Doing, Points, Carrying, Notifying, Pending, Updating, Starting
<1>2. CASE s.mode = "full" /\ s.ctx + 1 \in Ctxs
  <2>1. Updated(s) = Doing("u_threshold", "full", s.ctx + 1, 0)
    BY <1>2 DEF Updated, UpdateFrom
  <2> QED
    BY <1>2, <2>1, DoingConsistent
       DEF Points, Carrying, Notifying, Pending, Updating, Starting
<1>3. CASE ~(s.mode = "claim" /\ s.best # 0) /\ ~(s.mode = "full" /\ s.ctx + 1 \in Ctxs)
  BY <1>3, IdleConsistent DEF Updated
<1> QED
  BY <1>1, <1>2, <1>3

(* The end of the scan.                                                    *)
LEMMA ScannedConsistent ==
  ASSUME NEW s \in States
  PROVE  Consistent(Scanned(s))
<1>1. CASE Scanned(s) = Updated(s)
  BY <1>1, UpdatedConsistent
<1>2. CASE Scanned(s) = [Doing("u_line", s.mode, s.ctx, 0) EXCEPT !.best = s.best]
  BY <1>2
     DEF Consistent, States, Doing, Points, Carrying, Notifying, Pending, Updating, Starting
<1> QED
  BY <1>1, <1>2 DEF Scanned

(* The registers and what tracks them are in their range, and so are the   *)
(* locals of every thread.                                                 *)
RegsOK ==
  /\ prio \in [Irqs -> Prios] /\ threshold \in [Ctxs -> Prios]
  /\ enable \in [Ctxs -> SUBSET Irqs]
  /\ pending \subseteq Irqs /\ raised \subseteq Irqs /\ line \subseteq Ctxs
  /\ guest \in Guests /\ service \subseteq Ctxs \X Irqs
  /\ credit \in [Irqs -> Int]

ThreadsOK == AtOK /\ \A t \in Threads : Consistent(at[t])

(* A step that moves a thread to a consistent state and changes only the   *)
(* interrupt lines.                                                        *)
Looks(t) ==
  /\ \E s : Consistent(s) /\ Become(t, s)
  /\ UNCHANGED <<prio, threshold, enable, pending, raised, guest, service, credit>>
  /\ line' \subseteq Ctxs

(* Every step of plic_notify_irq, plic_update_ctx and their callers that   *)
(* does not change a pending bit is of that kind.                          *)
LEMMA StepLooks ==
  ASSUME RegsOK, ThreadsOK, NEW t \in Threads, Step(t)
  PROVE  Looks(t) \/ ClaimPending(t) \/ CompletePending(t) \/ RaisePending(t)
<1> DEFINE s == at[t]
<1>1. Consistent(s) /\ s \in States /\ s.ctx \in Ctxs /\ s.irqs \subseteq Irqs
  BY DEF ThreadsOK, Consistent, States
<1>2. ASSUME NEW r, Consistent(r), Become(t, r),
             UNCHANGED <<prio, threshold, enable, pending, raised, guest, service, credit>>,
             line' \in {line, line \cup {s.ctx}, line \ {s.ctx}}
      PROVE  Looks(t)
  BY <1>1, <1>2 DEF Looks, RegsOK
<1> USE DEF regs, track
<1>3. CASE NotifyEnabled(t)
  <2>1. s.pc = "n_enable"
    BY <1>3 DEF NotifyEnabled
  <2> DEFINE r == [s EXCEPT !.pc = "n_prio"]
  <2>2. r \in States /\ r.pc = "n_prio" /\ r.mode = s.mode /\ r.irq = s.irq
        /\ r.max = s.max /\ r.low = s.low /\ r.count = s.count
    BY <1>1 DEF States, Points, Carrying, Notifying
  <2>3. Consistent(r)
    <3> HIDE DEF r
    <3> QED
      BY <1>1, <2>1, <2>2 DEF Consistent, Carrying, Notifying, Updating, Starting
  <2>4. Consistent(Refused(s))
    BY <1>1, <2>1, RefusedConsistent DEF Notifying
  <2> QED
    BY <1>2, <1>3, <2>3, <2>4, Zenon DEF NotifyEnabled
<1>4. CASE NotifyPrio(t)
  <2>1. s.pc = "n_prio" /\ s.irq \in Irqs /\ s.mode # "claim"
    BY <1>1, <1>4 DEF NotifyPrio, Consistent, Carrying, Notifying, Updating, Starting
  <2>2. prio[s.irq] \in Nat
    BY <2>1, PlicAssumption DEF RegsOK
  <2> DEFINE r == [s EXCEPT !.pc = "n_threshold", !.max = prio[s.irq]]
  <2>3. r \in States /\ r.pc = "n_threshold" /\ r.mode = s.mode /\ r.irq = s.irq
    BY <1>1, <2>2 DEF States, Points, Carrying, Notifying
  <2>4. Consistent(r)
    <3> HIDE DEF r
    <3> QED
      BY <2>1, <2>3 DEF Consistent, Starting
  <2> QED
    BY <1>2, <1>4, <2>4, Zenon DEF NotifyPrio
<1>5. CASE NotifyThreshold(t)
  <2>1. s.pc = "n_threshold"
    BY <1>5 DEF NotifyThreshold
  <2> DEFINE r == [s EXCEPT !.pc = "n_line"]
  <2>2. r \in States /\ r.pc = "n_line" /\ r.mode = s.mode /\ r.irq = s.irq
        /\ r.max = s.max /\ r.low = s.low /\ r.count = s.count
    BY <1>1 DEF States, Points, Carrying, Notifying
  <2>3. Consistent(r)
    <3> HIDE DEF r
    <3> QED
      BY <1>1, <2>1, <2>2 DEF Consistent, Carrying, Notifying, Updating, Starting
  <2>4. Consistent(Refused(s))
    BY <1>1, <2>1, RefusedConsistent DEF Notifying
  <2> QED
    BY <1>2, <1>5, <2>3, <2>4, Zenon DEF NotifyThreshold
<1>6. CASE NotifyLine(t)
  BY <1>1, <1>2, <1>6, NotifiedConsistent, Zenon DEF NotifyLine
<1>7. CASE UpdateIrq(t)
  <2>1. s.pc = "i_pending"
    BY <1>7 DEF UpdateIrq
  <2> DEFINE r == [s EXCEPT !.pc = "n_enable"]
  <2>2. r \in States /\ r.pc = "n_enable" /\ r.mode = s.mode /\ r.irq = s.irq
        /\ r.max = s.max /\ r.low = s.low /\ r.count = s.count
    BY <1>1 DEF States, Points, Carrying, Notifying
  <2>3. Consistent(r)
    <3> HIDE DEF r
    <3> QED
      BY <1>1, <2>1, <2>2 DEF Consistent, Carrying, Notifying, Updating, Starting
  <2> QED
    BY <1>1, <1>2, <1>7, <2>3, NotifiedConsistent, Zenon DEF UpdateIrq
<1>8. CASE UpdateThreshold(t)
  <2>1. s.pc = "u_threshold" /\ s.max = 0
    BY <1>1, <1>8 DEF UpdateThreshold, Consistent, Starting
  <2>2. threshold[s.ctx] \in Nat
    BY <1>1, PlicAssumption DEF RegsOK
  <2> DEFINE r == [s EXCEPT !.pc = "u_clear", !.low = threshold[s.ctx]]
  <2>3. r \in States /\ r.pc = "u_clear" /\ r.max = 0 /\ r.low \in Nat
    BY <1>1, <2>1, <2>2 DEF States, Points, Updating, Starting
  <2>4. Consistent(r)
    <3> HIDE DEF r
    <3> QED
      BY <2>1, <2>3 DEF Consistent, Carrying, Notifying, Pending, Updating, Starting
  <2> QED
    BY <1>2, <1>8, <2>4, Zenon DEF UpdateThreshold
<1>9. CASE UpdateClear(t)
  <2>1. s.pc = "u_clear"
    BY <1>9 DEF UpdateClear, Move
  <2> DEFINE r == [s EXCEPT !.pc = "u_pending"]
  <2>2. r \in States /\ r.pc = "u_pending" /\ r.max = s.max /\ r.low = s.low
        /\ s.low \in Nat
    BY <1>1 DEF States, Points, Updating, Starting
  <2>3. Consistent(r)
    <3> HIDE DEF r
    <3> QED
      BY <1>1, <2>1, <2>2 DEF Consistent, Carrying, Notifying, Pending, Updating, Starting
  <2> QED
    BY <1>2, <1>9, <2>3, Zenon DEF UpdateClear, Move
<1>10. CASE UpdatePending(t)
  <2>1. s.pc = "u_pending"
    BY <1>10 DEF UpdatePending
  <2> DEFINE r == [s EXCEPT !.pc = "u_enable", !.irqs = pending]
  <2>2. r \in States /\ r.pc = "u_enable" /\ r.max = s.max /\ r.low = s.low
        /\ s.low \in Nat
    BY <1>1 DEF RegsOK, States, Points, Updating, Starting
  <2>3. Consistent(r)
    <3> HIDE DEF r
    <3> QED
      BY <1>1, <2>1, <2>2 DEF Consistent, Carrying, Notifying, Pending, Updating, Starting
  <2> QED
    BY <1>2, <1>10, <2>3, Zenon DEF UpdatePending
<1>11. CASE UpdateEnable(t)
  <2>1. s.pc = "u_enable"
    BY <1>11 DEF UpdateEnable
  <2> DEFINE irqs == s.irqs \cap enable[s.ctx]
             r == [s EXCEPT !.pc = "u_prio", !.irqs = irqs]
  <2>2. r \in States /\ r.pc = "u_prio" /\ r.irqs = irqs /\ r.max = s.max
        /\ r.low = s.low /\ s.low \in Nat
    BY <1>1 DEF States, Points, Updating, Starting
  <2>3. Consistent(Scanned(r))
    BY <2>2, ScannedConsistent
  <2>4. irqs # {} => Consistent(r)
    <3> HIDE DEF r
    <3> QED
      BY <1>1, <2>1, <2>2 DEF Consistent, Carrying, Notifying, Pending, Updating, Starting
  <2> QED
    BY <1>2, <1>11, <2>3, <2>4, ZenonT(30) DEF UpdateEnable
<1>12. CASE UpdatePrio(t)
  <2>1. s.pc = "u_prio" /\ s.irqs # {}
    BY <1>1, <1>12 DEF UpdatePrio, Consistent
  <2> DEFINE i == Min(s.irqs)
  <2>2. i \in Irqs /\ prio[i] \in Nat
    BY <1>1, <2>1, MinimumIn, PlicAssumption DEF RegsOK
  <2>3. s.count \in Nat /\ s.low \in Nat /\ s.max \in Nat /\ s.best \in Irqs \cup {0}
    BY <1>1 DEF States
  <2> DEFINE count == IF prio[i] > s.low THEN s.count + 1 ELSE s.count
             max == IF prio[i] > s.max THEN prio[i] ELSE s.max
             best == IF prio[i] > s.max THEN i ELSE s.best
             r == [s EXCEPT !.irqs = @ \ {i}, !.count = count, !.max = max, !.best = best]
  <2>4. count \in Nat /\ max \in Nat /\ best \in Irqs \cup {0}
    BY <2>2, <2>3
  <2>5. s.mode = "claim" /\ max > s.low => count > 0
    BY <1>1, <2>2, <2>3 DEF Consistent
  <2> HIDE DEF i, count, max, best
  <2>6. r \in States
    BY <1>1, <2>4 DEF States
  <2>7. r.pc = "u_prio" /\ r.mode = s.mode /\ r.low = s.low /\ r.count = count /\ r.max = max
    BY <1>1, <2>1 DEF States
  <2>8. Consistent(Scanned(r))
    BY <2>6, ScannedConsistent
  <2>9. r.irqs # {} => Consistent(r)
    <3> HIDE DEF r
    <3> QED
      BY <2>5, <2>6, <2>7 DEF Consistent, Carrying, Notifying, Pending, Updating, Starting
  <2>10. UpdatePrio(t) => /\ Become(t, IF r.irqs = {} THEN Scanned(r) ELSE r)
                         /\ UNCHANGED <<regs, pending, raised, line, track>>
    BY Zenon DEF UpdatePrio, i, count, max, best
  <2> QED
    BY <1>2, <1>12, <2>8, <2>9, <2>10, Zenon
<1>13. CASE UpdateLine(t)
  BY <1>1, <1>2, <1>13, UpdatedConsistent, Zenon DEF UpdateLine
<1>14. CASE SetCeased(t)
  <2>1. 0 \in Ctxs
    BY PlicAssumption DEF Ctxs
  <2>2. Consistent(FullUpdate)
    BY <2>1, DoingConsistent
       DEF FullUpdate, UpdateFrom, Points, Carrying, Notifying, Pending, Updating, Starting
  <2> QED
    BY <1>2, <1>14, <2>2, IdleConsistent, Zenon DEF SetCeased
<1>15. CASE RegPending(t)
  <2>1. s.pc = "r_pending" /\ s.mode = "reg"
    BY <1>1, <1>15 DEF RegPending, Consistent
  <2> DEFINE r == [s EXCEPT !.pc = "r_enable", !.irqs = pending]
  <2>2. r \in States /\ r.pc = "r_enable" /\ r.mode = s.mode
    BY <1>1 DEF RegsOK, States, Points
  <2>3. Consistent(r)
    <3> HIDE DEF r
    <3> QED
      BY <2>1, <2>2 DEF Consistent, Carrying, Notifying, Pending, Starting
  <2> QED
    BY <1>2, <1>15, <2>3, Zenon DEF RegPending
<1>16. CASE RegEnable(t)
  <2>1. s.pc = "r_enable"
    BY <1>16 DEF RegEnable
  <2> DEFINE r == [s EXCEPT !.irqs = Irqs]
  <2>2. r \in States /\ r.mode = s.mode
    BY <1>1 DEF States
  <2>3. Consistent(NextIrq(r))
    BY <1>1, <2>1, <2>2, NextIrqConsistent DEF Consistent
  <2> QED
    BY <1>2, <1>16, <2>3, IdleConsistent, Zenon DEF RegEnable
<1> QED
  BY <1>3, <1>4, <1>5, <1>6, <1>7, <1>8, <1>9, <1>10, <1>11, <1>12, <1>13,
     <1>14, <1>15, <1>16, Zenon DEF Step

(* Ranges, and the account of what was claimed.                            *)
PlicInv == RegsOK /\ ThreadsOK /\ ClaimedOnce

(* Such a step changes neither a pending bit nor the account of claims.    *)
LEMMA LooksKeeps ==
  ASSUME PlicInv, NEW t \in Threads, Looks(t)
  PROVE  PlicInv'
<1>1. RegsOK'
  BY DEF PlicInv, RegsOK, Looks
<1>2. ClaimedOnce'
  BY DEF PlicInv, ClaimedOnce, Looks
<1>3. ThreadsOK'
  BY BecomeOthers, Zenon DEF PlicInv, ThreadsOK, Looks
<1> QED
  BY <1>1, <1>2, <1>3 DEF PlicInv

(* Marking an interrupt as pending credits it once, and only if it was not *)
(* pending already.                                                        *)
LEMMA PendKeeps ==
  ASSUME PlicInv, NEW t \in Threads, NEW i \in Irqs, Pend(i),
         NEW s, Consistent(s), Become(t, s),
         UNCHANGED <<regs, raised, line, guest, service>>
  PROVE  PlicInv'
<1> USE DEF regs
<1>1. RegsOK'
  BY DEF PlicInv, RegsOK, Pend
<1>2. ClaimedOnce'
  BY DEF PlicInv, RegsOK, ClaimedOnce, Pend
<1>3. ThreadsOK'
  BY BecomeOthers, Zenon DEF PlicInv, ThreadsOK
<1> QED
  BY <1>1, <1>2, <1>3 DEF PlicInv

(* The guest and its devices use interrupts that exist.                    *)
LEMMA UsedExist == RegsOK => Used \subseteq Irqs
BY GuestAssumption DEF RegsOK, Used

(* Every step keeps the invariant: a claim debits the interrupt it takes   *)
(* only if the exchange found it pending, and nobody else took it.         *)
LEMMA PlicInvStep ==
  ASSUME PlicInv, Next
  PROVE  PlicInv'
<1> USE DEF regs, track
<1>0. /\ RegsOK /\ ThreadsOK /\ AtOK
      /\ \A t \in Threads : Consistent(at[t]) /\ at[t] \in States /\ at[t].ctx \in Ctxs
  BY DEF PlicInv, ThreadsOK, Consistent, States
<1>00. 0 \in Ctxs
  BY PlicAssumption DEF Ctxs
<1>1. ASSUME NEW t \in Threads, ClaimPending(t) PROVE PlicInv'
  <2> DEFINE s == at[t]
             stolen == s.irq \notin pending
  <2>1. s.pc = "c_pending" /\ s.irq \in Irqs /\ s.ctx \in Ctxs
    BY <1>0, <1>1 DEF ClaimPending, Consistent, Carrying
  <2>2. Consistent(UpdateFrom(s.ctx, "claim"))
    BY <2>1 DEF UpdateFrom, Consistent, States, Doing, Points, Carrying, Notifying,
                Pending, Updating, Starting
  <2>3. ThreadsOK'
    BY <1>0, <1>1, <2>2, BecomeOthers, IdleConsistent, Zenon DEF ClaimPending, ThreadsOK
  <2>4. /\ pending' = pending \ {s.irq}
        /\ service' = IF stolen THEN service ELSE service \cup {<<s.ctx, s.irq>>}
        /\ credit' = [credit EXCEPT ![s.irq] = IF stolen THEN @ ELSE @ - 1]
        /\ UNCHANGED <<regs, raised, line, guest>>
    BY <1>1 DEF ClaimPending
  <2> HIDE DEF s
  <2>5. RegsOK'
    BY <1>0, <2>1, <2>4 DEF RegsOK
  <2>6. ClaimedOnce'
    BY <1>0, <2>1, <2>4 DEF PlicInv, RegsOK, ClaimedOnce
  <2> QED
    BY <2>3, <2>5, <2>6 DEF PlicInv
<1>2. ASSUME NEW t \in Threads, CompletePending(t) PROVE PlicInv'
  <2> DEFINE s == at[t]
             r == [s EXCEPT !.pc = "n_enable"]
  <2>1. s.pc = "f_pending" /\ s.irq \in Irqs /\ s.mode # "claim" /\ s \in States
    BY <1>0, <1>2 DEF CompletePending, Move, Consistent, Carrying, Pending, Updating, Starting
  <2>2. r \in States /\ r.pc = "n_enable" /\ r.mode = s.mode /\ r.irq = s.irq
    BY <2>1 DEF States, Points, Carrying, Notifying
  <2>3. Consistent(r)
    <3> HIDE DEF r
    <3> QED
      BY <2>1, <2>2 DEF Consistent, Starting
  <2> QED
    BY <1>2, <2>1, <2>3, PendKeeps, Zenon DEF CompletePending, Move
<1>3. ASSUME NEW t \in Threads, NEW i \in Irqs, MarkPending(t, i) PROVE PlicInv'
  <2>1. Consistent(Doing("n_enable", "any", 0, i))
    BY <1>00, DoingConsistent DEF Points, Carrying, Notifying, Pending, Updating, Starting
  <2> QED
    BY <1>3, <2>1, IdleConsistent, PendKeeps, Zenon DEF MarkPending
<1>4. ASSUME NEW t \in Threads, RaisePending(t) PROVE PlicInv'
  <2>1. at[t].irq \in Irqs
    BY <1>0, <1>4 DEF RaisePending, Consistent, Carrying, Pending
  <2> QED
    BY <1>3, <1>4, <2>1 DEF RaisePending
<1>5. ASSUME NEW t \in Threads, NEW s, Consistent(s), Become(t, s),
             UNCHANGED <<pending, guest, credit>>,
             RegsOK'
      PROVE  PlicInv'
  <2>1. ThreadsOK'
    BY <1>0, <1>5, BecomeOthers, Zenon DEF ThreadsOK
  <2>2. ClaimedOnce'
    BY <1>5 DEF PlicInv, ClaimedOnce
  <2> QED
    BY <1>5, <2>1, <2>2 DEF PlicInv
<1>6. ASSUME NEW h \in Threads, Access(h) PROVE PlicInv'
  <2>1. Used \subseteq Irqs
    BY <1>0, UsedExist
  <2> USE DEF Points, Carrying, Notifying, Pending, Updating, Starting
  <2>2. ASSUME NEW i \in Used, NEW p \in Prios, SetPrio(h, i, p) PROVE PlicInv'
    <3>1. Consistent(Doing("p_pending", "any", 0, i)) /\ Consistent(Doing("i_pending", "any", 0, i))
      BY <1>00, <2>1, DoingConsistent
    <3>2. RegsOK'
      BY <1>0, <2>2 DEF SetPrio, RegsOK
    <3> QED
      BY <1>5, <2>2, <3>1, <3>2, Zenon DEF SetPrio
  <2>3. ASSUME NEW c \in Ctxs, NEW p \in Prios, SetThreshold(h, c, p) PROVE PlicInv'
    <3>1. Consistent(UpdateFrom(c, "ctx"))
      BY DoingConsistent DEF UpdateFrom
    <3>2. RegsOK'
      BY <1>0, <2>3 DEF SetThreshold, RegsOK
    <3> QED
      BY <1>5, <2>3, <3>1, <3>2, Zenon DEF SetThreshold
  <2>4. ASSUME NEW c \in Ctxs, NEW i \in Used, Enable(h, c, i) PROVE PlicInv'
    <3>1. Consistent(Doing("r_pending", "reg", c, 0))
      BY DoingConsistent
    <3>2. RegsOK'
      BY <1>0, <2>1, <2>4 DEF Enable, RegsOK
    <3> QED
      BY <1>5, <2>4, <3>1, <3>2, Zenon DEF Enable
  <2>5. ASSUME NEW c \in Ctxs, NEW i \in Used, Disable(h, c, i) PROVE PlicInv'
    <3>1. Consistent(Doing("p_pending", "any", 0, i))
      BY <1>00, <2>1, DoingConsistent
    <3>2. RegsOK'
      BY <1>0, <2>1, <2>5 DEF Disable, RegsOK
    <3> QED
      BY <1>5, <2>5, <3>1, <3>2, Zenon DEF Disable
  <2>6. ASSUME NEW c \in Ctxs, NEW i \in Used, Complete(h, c, i) PROVE PlicInv'
    <3>1. Consistent(Doing("f_pending", "one", c, i))
      BY <2>1, DoingConsistent
    <3>2. RegsOK'
      BY <1>0, <2>6 DEF Complete, RegsOK
    <3> QED
      BY <1>5, <2>6, <3>1, <3>2, IdleConsistent, Zenon DEF Complete
  <2>7. ASSUME NEW c \in Ctxs, Claim(h, c) PROVE PlicInv'
    <3> DEFINE r == [Doing("u_clear", "claim", c, 0) EXCEPT !.low = threshold[c]]
    <3>1. threshold[c] \in Nat
      BY <1>0, PlicAssumption DEF RegsOK
    <3>2. r \in States /\ r.pc = "u_clear" /\ r.max = 0 /\ r.low = threshold[c]
      BY <3>1 DEF States, Doing
    <3>3. Consistent(r)
      <4> HIDE DEF r
      <4> QED
        BY <3>1, <3>2 DEF Consistent
    <3>4. RegsOK'
      BY <1>0, <2>7 DEF Claim, RegsOK
    <3> QED
      BY <1>5, <2>7, <3>3, <3>4, Zenon DEF Claim
  <2> QED
    BY <1>6, <2>2, <2>3, <2>4, <2>5, <2>6, <2>7, Zenon DEF Access
<1>7. ASSUME NEW t \in Threads, NEW i \in Irqs, RaiseIrq(t, i) PROVE PlicInv'
  <2>1. Consistent(Doing("s_pending", "any", 0, i))
    BY <1>00, DoingConsistent DEF Points, Carrying, Notifying, Pending, Updating, Starting
  <2>2. RegsOK'
    BY <1>0, <1>7 DEF RaiseIrq, RegsOK
  <2> QED
    BY <1>5, <1>7, <2>1, <2>2, Zenon DEF RaiseIrq
<1>8. ASSUME NEW t \in Threads, NEW i \in Irqs, LowerIrq(t, i) PROVE PlicInv'
  BY <1>8 DEF LowerIrq, PlicInv, RegsOK, ClaimedOnce, ThreadsOK, AtOK
<1>9. ASSUME Reset PROVE PlicInv'
  <2>1. RegsOK' /\ ClaimedOnce'
    BY <1>0, <1>9, PlicAssumption DEF Reset, RegsOK, ClaimedOnce
  <2> QED
    BY <1>9, <2>1 DEF Reset, PlicInv, ThreadsOK, AtOK
<1>10. ASSUME NEW t \in Threads, Step(t) PROVE PlicInv'
  BY <1>0, <1>1, <1>2, <1>4, <1>10, StepLooks, LooksKeeps
<1>11. Harts \subseteq Threads /\ Devices \subseteq Threads /\ Used \subseteq Irqs
  BY <1>0, UsedExist DEF Threads
<1> QED
  BY <1>3, <1>6, <1>7, <1>8, <1>9, <1>10, <1>11, Zenon DEF Next, SendIrq

(* The invariant holds initially.                                          *)
LEMMA PlicInvInit == Init => PlicInv
<1> SUFFICES ASSUME Init PROVE PlicInv
  OBVIOUS
<1>1. RegsOK /\ ClaimedOnce
  BY PlicAssumption DEF Init, RegsOK, ClaimedOnce
<1>2. ThreadsOK
  BY IdleConsistent DEF Init, ThreadsOK, AtOK
<1> QED
  BY <1>1, <1>2 DEF PlicInv

(* The invariant holds of every behaviour.                                 *)
LEMMA PlicInvariant == Spec => []PlicInv
<1>1. Init => PlicInv
  BY PlicInvInit
<1>2. PlicInv /\ [Next]_vars => PlicInv'
  <2>1. ASSUME PlicInv, UNCHANGED vars PROVE PlicInv'
    BY <2>1 DEF vars, regs, track, PlicInv, RegsOK, ThreadsOK, AtOK, ClaimedOnce
  <2> QED
    BY <2>1, PlicInvStep
<1> QED
  BY <1>1, <1>2, PTL DEF Spec

(* The registers, the locals of every access and the count of notifying    *)
(* interrupts stay in their range: when plic_update_ctx subtracts the      *)
(* interrupt that a claim is about to take, it had counted it.             *)
THEOREM TypeCorrect == Spec => []TypeOK
<1>1. PlicInv => TypeOK
  BY DEF PlicInv, RegsOK, ThreadsOK, Consistent, States, TypeOK
<1> QED
  BY <1>1, PlicInvariant, PTL

(* Every time an interrupt becomes pending it is claimed once, however     *)
(* many harts claim at the same time: the claim that loses the exchange of *)
(* the pending bit in plic_claim_irq scans again instead of returning it.  *)
THEOREM InterruptsClaimedOnce == Spec => []ClaimedOnce
<1>1. PlicInv => ClaimedOnce
  BY DEF PlicInv
<1> QED
  BY <1>1, PlicInvariant, PTL
===============================================================================
