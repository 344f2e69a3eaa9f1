--------------------------- MODULE PlicSignalProofs ---------------------------
(***************************************************************************)
(* Proof about module Plic: an interrupt that is pending and deliverable   *)
(* is signalled once all accesses are through, for every number of harts,  *)
(* devices and contexts, any interrupts of a register and every guest of   *)
(* GuestAssumption.                                                        *)
(*                                                                         *)
(* The invariant says who will signal each such interrupt meanwhile: its   *)
(* context's line is set already, or some thread is at a point of a        *)
(* notification, of an update or of a claim from which it goes on to set   *)
(* the line or to take the interrupt.                                      *)
(***************************************************************************)
EXTENDS PlicProofs, FiniteSetTheorems
-----------------------------------------------------------------------------
(* A guest that only ever enables interrupts and raises their priority,    *)
(* and completes what it claimed.                                          *)
Growing == ~guest.thresholds /\ ~guest.masks /\ ~guest.strays

(* Context c is a route of interrupt i, and takes i for good if the guest  *)
(* is of that kind.                                                        *)
Routed(c, i) == <<c, i>> \in guest.routes /\ (Growing => c \in Takers(i))

(* When a thread in state s will set the line of context c, or of another  *)
(* one that takes i: within plic_notify_irq ...                            *)
NotifyCovers(s, i, c) ==
  /\ s.irq = i
  /\ \/ s.pc = "i_pending"
     \/ s.pc \in {"n_enable", "n_prio", "n_line"} /\ s.ctx = c
     \/ s.pc = "n_threshold" /\ s.ctx = c /\ s.max > threshold[c]
     \/ /\ s.mode # "one" /\ s.ctx < c
        /\ \/ s.pc = "n_enable"
           \/ s.pc = "n_prio" /\ i \in enable[s.ctx]
           \/ s.pc = "n_threshold" /\ i \in enable[s.ctx] /\ s.max <= prio[i]

(* ... within plic_update_ctx_irq_reg ...                                  *)
RegCovers(s, i, c) ==
  \/ s.mode = "reg" /\ s.pc \in Notifying /\ i \in s.irqs
  \/ s.pc = "r_pending" /\ s.ctx = c
  \/ s.pc = "r_enable" /\ s.ctx = c /\ i \in s.irqs

(* ... and within plic_update_ctx, which counts what it will notify of.  A *)
(* claim does not notify of the interrupt it is about to take.             *)
UpdateCovers(s, i, c) ==
  /\ s.ctx = c
  /\ \/ s.pc \in {"u_threshold", "u_clear", "u_pending", "u_line"}
     \/ s.pc \in {"u_enable", "u_prio"} /\ i \in s.irqs
     \/ s.pc = "u_prio" /\ s.mode # "claim" /\ s.count >= 1
     \/ /\ s.pc = "u_prio" /\ s.mode = "claim"
        /\ s.count >= 2 \/ (s.best = i /\ s.max > s.low)

(* Or the thread is about to claim i.                                      *)
Covers(s, i, c) ==
  \/ NotifyCovers(s, i, c)
  \/ RegCovers(s, i, c)
  \/ UpdateCovers(s, i, c)
  \/ s.pc = "c_pending" /\ s.irq = i

(* The inductive form of PendingSignalled: each interrupt that is pending  *)
(* and deliverable is signalled, or somebody covers it.                    *)
PendingCovered ==
  \A i \in pending : Takers(i) # {} =>
    \E c \in Takers(i) : c \in line \/ \E t \in Threads : Covers(at[t], i, c)

(* What it rests on: thresholds read are still those of the context, and   *)
(* what is scanned, claimed or completed are routes of the guest.          *)
Routes(s) ==
  /\ s.pc \in {"u_clear", "u_pending", "u_enable", "u_prio"} => s.low = threshold[s.ctx]
  /\ s.pc = "i_pending" => s.ctx = 0 /\ s.mode \in {"any", "reg"}
  /\ s.pc \in {"n_prio", "n_threshold", "n_line"} => <<s.ctx, s.irq>> \in guest.routes
  /\ s.pc = "u_prio" => \A i \in s.irqs :
       <<s.ctx, i>> \in guest.routes /\ (Growing => i \in enable[s.ctx])
  /\ s.pc \in {"u_prio", "u_line"} /\ s.best # 0 => Routed(s.ctx, s.best)
  /\ s.pc \in Starting => s.best = 0
  /\ s.pc \in {"c_pending", "f_pending"} => Routed(s.ctx, s.irq)

(* The threads that do not access the registers, and the devices, do only  *)
(* what they are for; the registers follow the routes of the guest.        *)
RoutesOK ==
  /\ \A c \in Ctxs : \A i \in enable[c] : <<c, i>> \in guest.routes
  /\ ~guest.thresholds => \A c \in Ctxs : threshold[c] = 0
  /\ \A claim \in service : Routed(claim[1], claim[2])
  /\ \A t \in Threads : Routes(at[t])
  /\ \A h \in Harts \ guest.harts : at[h].pc = "idle"
  /\ \A d \in Devices : at[d].pc \in Notifying \cup {"idle", "s_pending"}

(* A guest that is not of the growing kind has one context for each        *)
(* interrupt, so that only that context can take it.                       *)
LEMMA OneTaker ==
  ASSUME RegsOK, RoutesOK, ~Growing, NEW i \in Irqs, NEW c \in Ctxs, NEW d \in Ctxs,
         i \in enable[c] \/ <<c, i>> \in guest.routes, i \in enable[d] \/ <<d, i>> \in guest.routes
  PROVE  c = d
<1>1. ~Shares(guest.routes, i)
  BY GuestAssumption DEF RegsOK, Growing
<1>2. <<c, i>> \in guest.routes /\ <<d, i>> \in guest.routes
  BY DEF RoutesOK
<1> QED
  BY <1>1, <1>2 DEF Shares

(* Idle covers nothing, and needs nothing.                                 *)
LEMMA IdleRoutes ==
  /\ Routes(Idle)
  /\ \A i, c : ~Covers(Idle, i, c)
BY DEF Routes, Covers, NotifyCovers, RegCovers, UpdateCovers, Idle, Doing, Notifying, Starting

(* A thread that has not begun to notify, or that is about to mark an      *)
(* interrupt as pending, covers nothing yet.                               *)
LEMMA IdleCoversNothing ==
  ASSUME NEW s, s.pc \in {"idle", "p_pending", "s_pending", "f_pending"}
  PROVE  \A i, c : ~Covers(s, i, c)
BY DEF Covers, NotifyCovers, RegCovers, UpdateCovers, Notifying

(* The loop of plic_update_ctx_irq_reg comes to every interrupt that is    *)
(* left in the register.                                                   *)
LEMMA NextIrqCovers ==
  ASSUME NEW s \in States, s.mode = "reg"
  PROVE  /\ Routes(NextIrq(s))
         /\ \A i \in s.irqs, c \in Ctxs : Covers(NextIrq(s), i, c)
         /\ NextIrq(s).pc \in {"i_pending", "idle"}
<1>1. CASE s.irqs = {}
  BY <1>1, IdleRoutes DEF NextIrq, Idle, Doing
<1>2. CASE s.irqs # {}
  <2>1. Min(s.irqs) \in s.irqs
    BY <1>2, MinimumIn DEF States
  <2> DEFINE r == [s EXCEPT !.pc = "i_pending", !.ctx = 0, !.max = 0,
                   !.irq = Min(s.irqs), !.irqs = @ \ {Min(s.irqs)}]
  <2>2. r.pc = "i_pending" /\ r.mode = "reg" /\ r.ctx = 0
    BY DEF States
  <2>3. r.irq = Min(s.irqs)
    BY DEF States
  <2>4. r.irqs = s.irqs \ {Min(s.irqs)}
    BY DEF States
  <2>5. NextIrq(s) = r
    BY <1>2 DEF NextIrq
  <2> HIDE DEF r
  <2>6. Routes(r)
    BY <2>2 DEF Routes, Starting
  <2>7. \A i \in s.irqs, c \in Ctxs : Covers(r, i, c)
    BY <2>2, <2>3, <2>4 DEF Covers, NotifyCovers, RegCovers, Notifying
  <2> QED
    BY <2>2, <2>5, <2>6, <2>7
<1> QED
  BY <1>1, <1>2

(* A notification that is through goes on to the rest of the register.     *)
LEMMA NotifiedCovers ==
  ASSUME NEW s \in States
  PROVE  /\ Routes(Notified(s))
         /\ s.mode = "reg" => \A i \in s.irqs, c \in Ctxs : Covers(Notified(s), i, c)
         /\ Notified(s).pc \in {"i_pending", "idle"}
<1>1. CASE s.mode = "reg"
  BY <1>1, NextIrqCovers DEF Notified
<1>2. CASE s.mode # "reg"
  BY <1>2, IdleRoutes DEF Notified, Idle, Doing
<1> QED
  BY <1>1, <1>2

(* A notification refused by one context goes on to the later ones.        *)
LEMMA RefusedCovers ==
  ASSUME NEW s \in States, s.pc \in Notifying
  PROVE  /\ Routes(Refused(s))
         /\ s.mode # "one" => \A c \in Ctxs : s.ctx < c => Covers(Refused(s), s.irq, c)
         /\ s.mode = "reg" => \A i \in s.irqs, c \in Ctxs : Covers(Refused(s), i, c)
         /\ Refused(s).pc \in {"n_enable", "i_pending", "idle"}
<1>1. CASE s.mode # "one" /\ s.ctx + 1 \in Ctxs
  <2> DEFINE r == [s EXCEPT !.pc = "n_enable", !.ctx = @ + 1, !.max = 0]
  <2>1. r.pc = "n_enable" /\ r.mode = s.mode /\ r.irq = s.irq
    BY DEF States
  <2>2. r.ctx = s.ctx + 1 /\ r.irqs = s.irqs
    BY DEF States
  <2>3. Refused(s) = r
    BY <1>1 DEF Refused
  <2>4. s.ctx \in Int /\ Ctxs \subseteq Int
    BY DEF States, Ctxs
  <2> HIDE DEF r
  <2>5. Routes(r)
    BY <2>1 DEF Routes, Starting
  <2>6. \A c \in Ctxs : s.ctx < c => Covers(r, s.irq, c)
    BY <1>1, <2>1, <2>2, <2>4 DEF Covers, NotifyCovers
  <2>7. s.mode = "reg" => \A i \in s.irqs, c \in Ctxs : Covers(r, i, c)
    BY <2>1, <2>2 DEF Covers, RegCovers, Notifying
  <2> QED
    BY <2>1, <2>3, <2>5, <2>6, <2>7
<1>2. CASE s.mode # "one" /\ s.ctx + 1 \notin Ctxs
  <2>1. \A c \in Ctxs : ~(s.ctx < c)
    BY <1>2, PlicAssumption DEF States, Ctxs
  <2> QED
    BY <1>2, <2>1, NotifiedCovers DEF Refused
<1>3. CASE s.mode = "one"
  BY <1>3, NotifiedCovers DEF Refused
<1> QED
  BY <1>1, <1>2, <1>3

(* What follows the update of a context claims the interrupt found.        *)
LEMMA UpdatedCovers ==
  ASSUME NEW s \in States, s.best # 0 => Routed(s.ctx, s.best)
  PROVE  /\ Routes(Updated(s))
         /\ s.mode = "claim" /\ s.best # 0 => \A c : Covers(Updated(s), s.best, c)
<1>1. CASE s.mode = "claim" /\ s.best # 0
  <2> DEFINE r == Doing("c_pending", "claim", s.ctx, s.best)
  <2>1. Updated(s) = r
    BY <1>1 DEF Updated
  <2>2. r.pc = "c_pending" /\ r.irq = s.best /\ r.ctx = s.ctx
    BY DEF Doing
  <2> HIDE DEF r
  <2> QED
    BY <1>1, <2>1, <2>2 DEF Routes, Covers, Starting
<1>2. CASE s.mode = "full" /\ s.ctx + 1 \in Ctxs
  <2> DEFINE r == Doing("u_threshold", "full", s.ctx + 1, 0)
  <2>1. Updated(s) = r
    BY <1>2 DEF Updated, UpdateFrom
  <2>2. r.pc = "u_threshold" /\ r.best = 0
    BY DEF Doing
  <2> HIDE DEF r
  <2> QED
    BY <1>2, <2>1, <2>2 DEF Routes
<1>3. CASE ~(s.mode = "claim" /\ s.best # 0) /\ ~(s.mode = "full" /\ s.ctx + 1 \in Ctxs)
  BY <1>3, IdleRoutes DEF Updated
<1> QED
  BY <1>1, <1>2, <1>3

(* The end of the scan: whoever was counted is notified, except the one    *)
(* that is about to be claimed.                                            *)
LEMMA ScannedCovers ==
  ASSUME NEW s \in States, s.best # 0 => Routed(s.ctx, s.best)
  PROVE  /\ Routes(Scanned(s))
         /\ s.pc = "u_prio" /\ s.irqs = {} =>
              \A i \in Irqs, c \in Ctxs : UpdateCovers(s, i, c) => Covers(Scanned(s), i, c)
<1> DEFINE r == [Doing("u_line", s.mode, s.ctx, 0) EXCEPT !.best = s.best]
           notifying == IF s.mode = "claim" /\ s.max > s.low THEN s.count - 1 ELSE s.count
<1>1. r.pc = "u_line" /\ r.ctx = s.ctx /\ r.best = s.best
  BY DEF Doing
<1>2. Scanned(s) = IF notifying = 0 THEN Updated(s) ELSE r
  BY DEF Scanned
<1>3. s.count \in Nat /\ s.low \in Nat /\ s.max \in Nat
  BY DEF States
<1> HIDE DEF r
<1>4. Routes(r)
  BY <1>1 DEF Routes, Starting
<1>5. ASSUME NEW i \in Irqs, NEW c \in Ctxs,
             s.pc = "u_prio", s.irqs = {}, UpdateCovers(s, i, c)
      PROVE  Covers(Scanned(s), i, c)
  <2>1. Covers(r, i, c)
    BY <1>1, <1>5 DEF Covers, UpdateCovers
  <2>2. notifying = 0 => s.mode = "claim" /\ s.best = i
    BY <1>3, <1>5 DEF UpdateCovers
  <2>3. i # 0
    BY PlicAssumption
  <2> QED
    BY <1>2, <2>1, <2>2, <2>3, UpdatedCovers
<1> QED
  BY <1>2, <1>4, <1>5, UpdatedCovers

(* A step of a thread that changes no register and no pending bit, and     *)
(* after which whatever it covered is still covered.                       *)
Relays(t) ==
  \E r :
    /\ Become(t, r)
    /\ Routes(r)
    /\ at[t].pc # "idle"
    /\ at[t].pc \in Notifying => r.pc \in Notifying \cup {"idle"}
    /\ at[t].pc # "s_pending"
    /\ UNCHANGED <<prio, threshold, enable, pending, guest, service>>
    /\ \A i \in pending : \A c \in Takers(i) :
         Covers(at[t], i, c) \/ (c \in line /\ c \notin line') =>
           \E d \in Takers(i) : d \in line' \/ Covers(r, i, d)

(* Every step that changes no pending bit is of that kind.                 *)
LEMMA StepRelays ==
  ASSUME PlicInv, RoutesOK, NEW t \in Threads, Step(t)
  PROVE  Relays(t) \/ ClaimPending(t) \/ CompletePending(t) \/ RaisePending(t)
<1> DEFINE s == at[t]
<1>0. /\ RegsOK /\ Consistent(s) /\ Routes(s)
      /\ s \in States /\ s.ctx \in Ctxs /\ s.irqs \subseteq Irqs
  BY DEF PlicInv, ThreadsOK, Consistent, States, RoutesOK
<1>1. /\ Ctxs \subseteq Int /\ 0 \in Ctxs
      /\ \A i : Takers(i) \subseteq Ctxs /\ \A c \in Takers(i) : i \in enable[c]
      /\ \A i \in Irqs : prio[i] \in Nat
      /\ \A c \in Ctxs : threshold[c] \in Nat
  <2>1. Ctxs \subseteq Int /\ 0 \in Ctxs
    BY PlicAssumption DEF Ctxs
  <2>2. \A i : Takers(i) \subseteq Ctxs /\ \A c \in Takers(i) : i \in enable[c]
    BY DEF Takers
  <2>3. \A i \in Irqs : prio[i] \in Nat
    BY <1>0, PlicAssumption DEF RegsOK
  <2>4. \A c \in Ctxs : threshold[c] \in Nat
    BY <1>0, PlicAssumption DEF RegsOK
  <2> QED
    BY <2>1, <2>2, <2>3, <2>4
<1>2. ASSUME NEW r, Become(t, r), Routes(r), s.pc \notin {"idle", "s_pending"},
             s.pc \in Notifying => r.pc \in Notifying \cup {"idle"},
             UNCHANGED <<regs, pending, line, raised, track>>,
             \A i \in pending : \A c \in Takers(i) :
               Covers(s, i, c) => \E d \in Takers(i) : Covers(r, i, d)
      PROVE  Relays(t)
  BY <1>2, Zenon DEF Relays, regs, track
<1> USE DEF regs, track
<1>3. CASE NotifyEnabled(t)
  <2>1. s.pc = "n_enable" /\ s.irq \in Irqs
    BY <1>0, <1>3 DEF NotifyEnabled, Consistent, Carrying, Notifying
  <2>2. ASSUME NEW i \in pending, NEW c \in Takers(i), Covers(s, i, c)
        PROVE  \/ s.mode = "reg" /\ i \in s.irqs
               \/ s.irq = i /\ s.ctx = c
               \/ s.irq = i /\ s.mode # "one" /\ s.ctx < c
    BY <2>1, <2>2 DEF Covers, NotifyCovers, RegCovers, UpdateCovers
  <2>3. CASE s.irq \in enable[s.ctx]
    <3> DEFINE r == [s EXCEPT !.pc = "n_prio"]
    <3>1. r.pc = "n_prio" /\ r.mode = s.mode /\ r.irq = s.irq
          /\ r.ctx = s.ctx /\ r.irqs = s.irqs
      BY <1>0 DEF States
    <3>2. Become(t, r) /\ UNCHANGED <<regs, pending, raised, line, track>>
      BY <1>3, <2>3, Zenon DEF NotifyEnabled
    <3> HIDE DEF r
    <3>3. Routes(r)
      BY <1>0, <2>3, <3>1 DEF Routes, RoutesOK, Starting
    <3>4. ASSUME NEW i \in pending, NEW c \in Takers(i), Covers(s, i, c)
          PROVE  Covers(r, i, c)
      BY <2>2, <2>3, <3>1, <3>4 DEF Covers, NotifyCovers, RegCovers, Notifying
    <3> QED
      BY <1>2, <2>1, <3>1, <3>2, <3>3, <3>4 DEF Notifying
  <2>4. CASE s.irq \notin enable[s.ctx]
    <3>1. Become(t, Refused(s)) /\ UNCHANGED <<regs, pending, raised, line, track>>
      BY <1>3, <2>4, Zenon DEF NotifyEnabled
    <3>2. ASSUME NEW i \in pending, NEW c \in Takers(i), Covers(s, i, c)
          PROVE  Covers(Refused(s), i, c)
      <4>1. c \in Ctxs /\ i \in enable[c]
        BY <1>1
      <4>2. ~(s.irq = i /\ s.ctx = c)
        BY <2>4, <4>1
      <4> QED
        BY <1>0, <2>1, <2>2, <3>2, <4>1, <4>2, RefusedCovers DEF Notifying
    <3>3. Routes(Refused(s)) /\ Refused(s).pc \in Notifying \cup {"idle"}
      BY <1>0, <2>1, RefusedCovers DEF Notifying
    <3> QED
      BY <1>2, <2>1, <3>1, <3>2, <3>3
  <2> QED
    BY <2>3, <2>4
<1>4. CASE NotifyPrio(t)
  <2>1. s.pc = "n_prio" /\ s.irq \in Irqs
    BY <1>0, <1>4 DEF NotifyPrio, Consistent, Carrying, Notifying
  <2> DEFINE r == [s EXCEPT !.pc = "n_threshold", !.max = prio[s.irq]]
  <2>2. r.pc = "n_threshold" /\ r.mode = s.mode /\ r.irq = s.irq
        /\ r.ctx = s.ctx /\ r.irqs = s.irqs /\ r.max = prio[s.irq]
    BY <1>0 DEF States
  <2>3. Become(t, r) /\ UNCHANGED <<regs, pending, raised, line, track>>
    BY <1>4, Zenon DEF NotifyPrio
  <2> HIDE DEF r
  <2>4. Routes(r)
    BY <1>0, <2>1, <2>2 DEF Routes, Starting
  <2>5. ASSUME NEW i \in pending, NEW c \in Takers(i), Covers(s, i, c)
        PROVE  Covers(r, i, c)
    <3>1. prio[i] > threshold[c] /\ prio[i] <= prio[i]
      BY <1>0, <1>1 DEF Takers, RegsOK
    <3> QED
      BY <2>1, <2>2, <2>5, <3>1 DEF Covers, NotifyCovers, RegCovers, UpdateCovers, Notifying
  <2> QED
    BY <1>2, <2>1, <2>2, <2>3, <2>4, <2>5 DEF Notifying
<1>5. CASE NotifyThreshold(t)
  <2>1. s.pc = "n_threshold" /\ s.irq \in Irqs /\ s.max \in Nat
    BY <1>0, <1>5 DEF NotifyThreshold, Consistent, Carrying, Notifying, States
  <2>2. ASSUME NEW i \in pending, NEW c \in Takers(i), Covers(s, i, c)
        PROVE  \/ s.mode = "reg" /\ i \in s.irqs
               \/ s.irq = i /\ s.ctx = c /\ s.max > threshold[c]
               \/ /\ s.irq = i /\ s.mode # "one" /\ s.ctx < c
                  /\ i \in enable[s.ctx] /\ s.max <= prio[i]
    BY <2>1, <2>2 DEF Covers, NotifyCovers, RegCovers, UpdateCovers
  <2>3. CASE s.max <= threshold[s.ctx]
    <3>1. Become(t, Refused(s)) /\ UNCHANGED <<regs, pending, raised, line, track>>
      BY <1>5, <2>3, Zenon DEF NotifyThreshold
    <3>2. ASSUME NEW i \in pending, NEW c \in Takers(i), Covers(s, i, c)
          PROVE  Covers(Refused(s), i, c)
      <4>1. threshold[s.ctx] \in Nat
        BY <1>0, <1>1
      <4>2. ~(s.ctx = c /\ s.max > threshold[c])
        BY <2>1, <2>3, <4>1
      <4> QED
        BY <1>0, <1>1, <2>1, <2>2, <3>2, <4>2, RefusedCovers DEF Notifying
    <3> QED
      BY <1>0, <1>2, <2>1, <3>1, <3>2, RefusedCovers DEF Notifying
  <2>4. CASE ~(s.max <= threshold[s.ctx])
    <3> DEFINE r == [s EXCEPT !.pc = "n_line"]
    <3>1. r.pc = "n_line" /\ r.mode = s.mode /\ r.irq = s.irq
          /\ r.ctx = s.ctx /\ r.irqs = s.irqs
      BY <1>0 DEF States
    <3>2. Become(t, r) /\ UNCHANGED <<regs, pending, raised, line, track>>
      BY <1>5, <2>4, Zenon DEF NotifyThreshold
    <3> HIDE DEF r
    <3>3. Routes(r)
      BY <1>0, <2>1, <3>1 DEF Routes, Starting
    <3>4. ASSUME NEW i \in pending, NEW c \in Takers(i), Covers(s, i, c)
          PROVE  \E d \in Takers(i) : Covers(r, i, d)
      <4>1. CASE s.mode = "reg" /\ i \in s.irqs
        BY <3>1, <4>1 DEF Covers, RegCovers, Notifying
      <4>2. CASE s.irq = i /\ s.ctx = c
        BY <3>1, <4>2 DEF Covers, NotifyCovers
      <4>3. CASE s.irq = i /\ i \in enable[s.ctx] /\ s.max <= prio[i]
        <5>0. threshold[s.ctx] \in Nat /\ prio[i] \in Nat
          BY <1>0, <1>1, <2>1, <4>3
        <5>1. s.ctx \in Takers(i)
          BY <1>0, <2>1, <2>4, <4>3, <5>0 DEF Takers
        <5> QED
          BY <3>1, <4>3, <5>1 DEF Covers, NotifyCovers
      <4> QED
        BY <2>2, <3>4, <4>1, <4>2, <4>3
    <3> QED
      BY <1>2, <2>1, <3>1, <3>2, <3>3, <3>4 DEF Notifying
  <2> QED
    BY <2>3, <2>4
<1>6. CASE NotifyLine(t)
  <2>1. s.pc = "n_line" /\ line' = line \cup {s.ctx} /\ Become(t, Notified(s))
        /\ UNCHANGED <<regs, pending, raised, track>>
    BY <1>6 DEF NotifyLine
  <2>2. ASSUME NEW i \in pending, NEW c \in Takers(i), Covers(s, i, c)
        PROVE  c \in line' \/ Covers(Notified(s), i, c)
    <3>1. (s.mode = "reg" /\ i \in s.irqs) \/ s.ctx = c
      BY <2>1, <2>2 DEF Covers, NotifyCovers, RegCovers, UpdateCovers
    <3> QED
      BY <1>0, <1>1, <2>1, <3>1, NotifiedCovers
  <2>3. Routes(Notified(s)) /\ Notified(s).pc \in Notifying \cup {"idle"}
    BY <1>0, NotifiedCovers DEF Notifying
  <2> QED
    BY <2>1, <2>2, <2>3, Zenon DEF Relays
<1>7. CASE UpdateIrq(t)
  <2>1. s.pc = "i_pending" /\ s.ctx = 0 /\ s.mode \in {"any", "reg"}
    BY <1>0, <1>7 DEF UpdateIrq, Routes
  <2>2. ASSUME NEW i \in pending, NEW c \in Takers(i), Covers(s, i, c)
        PROVE  (s.mode = "reg" /\ i \in s.irqs) \/ s.irq = i
    BY <2>1, <2>2 DEF Covers, NotifyCovers, RegCovers, UpdateCovers
  <2>3. CASE s.irq \in pending
    <3> DEFINE r == [s EXCEPT !.pc = "n_enable"]
    <3>1. r.pc = "n_enable" /\ r.mode = s.mode /\ r.irq = s.irq
          /\ r.ctx = s.ctx /\ r.irqs = s.irqs
      BY <1>0 DEF States
    <3>2. Become(t, r) /\ UNCHANGED <<regs, pending, raised, line, track>>
      BY <1>7, <2>3, Zenon DEF UpdateIrq
    <3> HIDE DEF r
    <3>3. Routes(r)
      BY <3>1 DEF Routes, Starting
    <3>4. ASSUME NEW i \in pending, NEW c \in Takers(i), Covers(s, i, c)
          PROVE  Covers(r, i, c)
      <4>1. c = 0 \/ 0 < c
        BY <1>1 DEF Ctxs
      <4> QED
        BY <2>1, <2>2, <3>1, <3>4, <4>1 DEF Covers, NotifyCovers, RegCovers, Notifying
    <3> QED
      BY <1>2, <2>1, <3>1, <3>2, <3>3, <3>4 DEF Notifying
  <2>4. CASE s.irq \notin pending
    <3>1. Become(t, Notified(s)) /\ UNCHANGED <<regs, pending, raised, line, track>>
      BY <1>7, <2>4, Zenon DEF UpdateIrq
    <3>2. ASSUME NEW i \in pending, NEW c \in Takers(i), Covers(s, i, c)
          PROVE  Covers(Notified(s), i, c)
      BY <1>0, <1>1, <2>2, <2>4, <3>2, NotifiedCovers
    <3> QED
      BY <1>0, <1>2, <2>1, <3>1, <3>2, NotifiedCovers DEF Notifying
  <2> QED
    BY <2>3, <2>4
<1>8. CASE UpdateThreshold(t)
  <2>1. s.pc = "u_threshold"
    BY <1>8 DEF UpdateThreshold
  <2> DEFINE r == [s EXCEPT !.pc = "u_clear", !.low = threshold[s.ctx]]
  <2>2. r.pc = "u_clear" /\ r.ctx = s.ctx /\ r.best = s.best /\ r.low = threshold[s.ctx]
    BY <1>0 DEF States
  <2>3. Become(t, r) /\ UNCHANGED <<regs, pending, raised, line, track>>
    BY <1>8, Zenon DEF UpdateThreshold
  <2> HIDE DEF r
  <2>4. Routes(r)
    BY <1>0, <2>1, <2>2 DEF Routes, Starting
  <2>5. ASSUME NEW i \in pending, NEW c \in Takers(i), Covers(s, i, c)
        PROVE  Covers(r, i, c)
    BY <2>1, <2>2, <2>5 DEF Covers, NotifyCovers, RegCovers, UpdateCovers, Notifying
  <2> QED
    BY <1>2, <2>1, <2>3, <2>4, <2>5 DEF Notifying
<1>9. CASE UpdateClear(t)
  <2>1. s.pc = "u_clear" /\ line' = line \ {s.ctx}
    BY <1>9 DEF UpdateClear, Move
  <2> DEFINE r == [s EXCEPT !.pc = "u_pending"]
  <2>2. r.pc = "u_pending" /\ r.ctx = s.ctx /\ r.best = s.best /\ r.low = s.low
    BY <1>0 DEF States
  <2>3. Become(t, r) /\ UNCHANGED <<regs, pending, raised, track>>
    BY <1>9, Zenon DEF UpdateClear, Move
  <2> HIDE DEF r
  <2>4. Routes(r)
    BY <1>0, <2>1, <2>2 DEF Routes, Starting
  <2>5. ASSUME NEW i \in pending, NEW c \in Takers(i),
               Covers(s, i, c) \/ (c \in line /\ c \notin line')
        PROVE  Covers(r, i, c)
    BY <2>1, <2>2, <2>5 DEF Covers, NotifyCovers, RegCovers, UpdateCovers, Notifying
  <2> QED
    BY <2>1, <2>3, <2>4, <2>5, Zenon DEF Relays, Notifying
<1>10. CASE UpdatePending(t)
  <2>1. s.pc = "u_pending"
    BY <1>10 DEF UpdatePending
  <2> DEFINE r == [s EXCEPT !.pc = "u_enable", !.irqs = pending]
  <2>2. r.pc = "u_enable" /\ r.ctx = s.ctx /\ r.best = s.best /\ r.low = s.low
        /\ r.irqs = pending
    BY <1>0 DEF States
  <2>3. Become(t, r) /\ UNCHANGED <<regs, pending, raised, line, track>>
    BY <1>10, Zenon DEF UpdatePending
  <2> HIDE DEF r
  <2>4. Routes(r)
    BY <1>0, <2>1, <2>2 DEF Routes, Starting
  <2>5. ASSUME NEW i \in pending, NEW c \in Takers(i), Covers(s, i, c)
        PROVE  Covers(r, i, c)
    BY <2>1, <2>2, <2>5 DEF Covers, NotifyCovers, RegCovers, UpdateCovers, Notifying
  <2> QED
    BY <1>2, <2>1, <2>3, <2>4, <2>5 DEF Notifying
<1>11. CASE UpdateEnable(t)
  <2>1. s.pc = "u_enable" /\ s.best = 0 /\ s.low = threshold[s.ctx]
    BY <1>0, <1>11 DEF UpdateEnable, Routes, Starting
  <2> DEFINE irqs == s.irqs \cap enable[s.ctx]
             r == [s EXCEPT !.pc = "u_prio", !.irqs = irqs]
  <2>2. r \in States /\ r.pc = "u_prio" /\ r.ctx = s.ctx /\ r.best = 0 /\ r.low = s.low
        /\ r.irqs = irqs
    BY <1>0, <2>1 DEF States, Points, Updating
  <2>3. /\ Become(t, IF irqs = {} THEN Scanned(r) ELSE r)
        /\ UNCHANGED <<regs, pending, raised, line, track>>
    BY <1>11, Zenon DEF UpdateEnable
  <2> HIDE DEF r
  <2>4. Routes(r)
    <3>1. \A i \in irqs : <<s.ctx, i>> \in guest.routes /\ i \in enable[s.ctx]
      BY <1>0 DEF RoutesOK
    <3> QED
      BY <2>1, <2>2, <3>1 DEF Routes, Starting
  <2>5. Routes(Scanned(r))
    BY <2>2, ScannedCovers
  <2>6. ASSUME NEW i \in pending, NEW c \in Takers(i), Covers(s, i, c)
        PROVE  irqs # {} /\ Covers(r, i, c)
    <3>1. s.ctx = c /\ i \in s.irqs /\ i \in enable[c]
      BY <1>1, <2>1, <2>6 DEF Covers, NotifyCovers, RegCovers, UpdateCovers, Notifying
    <3> QED
      BY <2>2, <3>1 DEF Covers, UpdateCovers
  <2> QED
    BY <1>2, <2>1, <2>3, <2>4, <2>5, <2>6 DEF Notifying
<1>12. CASE UpdatePrio(t)
  <2>1. s.pc = "u_prio" /\ s.irqs # {} /\ s.low = threshold[s.ctx]
    BY <1>0, <1>12 DEF UpdatePrio, Consistent, Routes
  <2> DEFINE k == Min(s.irqs)
  <2>2. k \in s.irqs /\ k \in Irqs /\ prio[k] \in Nat
    BY <1>0, <1>1, <2>1, MinimumIn
  <2>3. s.count \in Nat /\ s.low \in Nat /\ s.max \in Nat /\ s.best \in Irqs \cup {0}
    BY <1>0 DEF States
  <2> DEFINE count == IF prio[k] > s.low THEN s.count + 1 ELSE s.count
             max == IF prio[k] > s.max THEN prio[k] ELSE s.max
             best == IF prio[k] > s.max THEN k ELSE s.best
             r == [s EXCEPT !.irqs = @ \ {k}, !.count = count, !.max = max, !.best = best]
  <2>4. /\ Become(t, IF r.irqs = {} THEN Scanned(r) ELSE r)
        /\ UNCHANGED <<regs, pending, raised, line, track>>
    BY <1>12, Zenon DEF UpdatePrio
  <2>5. count \in Nat /\ max \in Nat /\ best \in Irqs \cup {0}
    BY <2>2, <2>3
  <2>6. best # 0 => Routed(s.ctx, best)
    <3>1. CASE prio[k] > s.max
      <4>1. <<s.ctx, k>> \in guest.routes /\ (Growing => k \in enable[s.ctx])
        BY <1>0, <2>1, <2>2 DEF Routes
      <4>2. Growing => threshold[s.ctx] = 0
        BY <1>0 DEF RoutesOK, Growing
      <4>3. Growing => s.ctx \in Takers(k)
        BY <1>0, <2>2, <2>3, <3>1, <4>1, <4>2 DEF Takers
      <4> QED
        BY <3>1, <4>1, <4>3 DEF Routed
    <3>2. CASE ~(prio[k] > s.max)
      BY <1>0, <2>1, <3>2 DEF Routes
    <3> QED
      BY <3>1, <3>2
  <2>7. ASSUME NEW i \in pending, NEW c \in Takers(i), Covers(s, i, c)
        PROVE  /\ s.ctx = c
               /\ \/ i \in s.irqs \ {k}
                  \/ s.mode # "claim" /\ count >= 1
                  \/ s.mode = "claim" /\ (count >= 2 \/ (best = i /\ max > s.low))
    <3>1. /\ s.ctx = c
          /\ \/ i \in s.irqs
             \/ s.mode # "claim" /\ s.count >= 1
             \/ s.mode = "claim" /\ (s.count >= 2 \/ (s.best = i /\ s.max > s.low))
      BY <2>1, <2>7 DEF Covers, NotifyCovers, RegCovers, UpdateCovers, Notifying
    <3>2. s.mode = "claim" /\ s.max > s.low => s.count > 0
      BY <1>0 DEF Consistent
    <3>3. CASE i = k
      <4>1. prio[k] > s.low
        BY <2>1, <3>1, <3>3 DEF Takers
      <4> QED
        BY <2>2, <2>3, <3>1, <3>2, <3>3, <4>1
    <3>4. CASE i # k
      BY <2>2, <2>3, <3>1, <3>2, <3>4
    <3> QED
      BY <3>3, <3>4
  <2> HIDE DEF k, count, max, best
  <2>8. r \in States
    BY <1>0, <2>5 DEF States
  <2>9. r.pc = "u_prio" /\ r.mode = s.mode /\ r.ctx = s.ctx /\ r.low = s.low
    BY <1>0, <2>1 DEF States
  <2>10. r.count = count /\ r.max = max /\ r.best = best /\ r.irqs = s.irqs \ {k}
    BY <1>0 DEF States
  <2> HIDE DEF r
  <2>11. Routes(r) /\ Routes(Scanned(r))
    <3>1. Routes(Scanned(r))
      BY <2>6, <2>8, <2>9, <2>10, ScannedCovers
    <3> QED
      BY <1>0, <2>1, <2>6, <2>9, <2>10, <3>1 DEF Routes, Starting
  <2>12. ASSUME NEW i \in pending, NEW c \in Takers(i), Covers(s, i, c)
         PROVE  UpdateCovers(r, i, c)
    BY <2>7, <2>9, <2>10, <2>12 DEF UpdateCovers
  <2>13. ASSUME NEW i \in pending, NEW c \in Takers(i), Covers(s, i, c)
         PROVE  Covers(IF r.irqs = {} THEN Scanned(r) ELSE r, i, c)
    <3>1. i \in Irqs /\ c \in Ctxs /\ UpdateCovers(r, i, c)
      BY <1>0, <1>1, <2>12, <2>13 DEF RegsOK
    <3>2. r.best # 0 => Routed(r.ctx, r.best)
      BY <2>6, <2>9, <2>10
    <3> QED
      BY <2>8, <2>9, <3>1, <3>2, ScannedCovers DEF Covers
  <2> QED
    BY <1>2, <2>1, <2>4, <2>11, <2>13 DEF Notifying
<1>13. CASE UpdateLine(t)
  <2>1. s.pc = "u_line" /\ line' = line \cup {s.ctx} /\ Become(t, Updated(s))
        /\ UNCHANGED <<regs, pending, raised, track>>
    BY <1>13 DEF UpdateLine
  <2>2. Routes(Updated(s))
    BY <1>0, <2>1, UpdatedCovers DEF Routes
  <2>3. ASSUME NEW i \in pending, NEW c \in Takers(i), Covers(s, i, c)
        PROVE  c \in line'
    BY <2>1, <2>3 DEF Covers, NotifyCovers, RegCovers, UpdateCovers, Notifying
  <2> QED
    BY <2>1, <2>2, <2>3, Zenon DEF Relays, Notifying
<1>14. CASE SetCeased(t)
  <2>1. s.pc = "p_pending"
    BY <1>14 DEF SetCeased
  <2>2. \A i, c : ~Covers(s, i, c)
    BY <2>1, IdleCoversNothing
  <2>3. FullUpdate.pc = "u_threshold" /\ FullUpdate.best = 0
    BY DEF FullUpdate, UpdateFrom, Doing
  <2>4. Routes(FullUpdate)
    BY <2>3 DEF Routes
  <2> QED
    BY <1>2, <1>14, <2>1, <2>2, <2>4, IdleRoutes DEF SetCeased, Notifying
<1>15. CASE RegPending(t)
  <2>1. s.pc = "r_pending"
    BY <1>15 DEF RegPending
  <2> DEFINE r == [s EXCEPT !.pc = "r_enable", !.irqs = pending]
  <2>2. r.pc = "r_enable" /\ r.ctx = s.ctx /\ r.irqs = pending
    BY <1>0 DEF States
  <2>3. Become(t, r) /\ UNCHANGED <<regs, pending, raised, line, track>>
    BY <1>15, Zenon DEF RegPending
  <2> HIDE DEF r
  <2>4. Routes(r)
    BY <2>2 DEF Routes, Starting
  <2>5. ASSUME NEW i \in pending, NEW c \in Takers(i), Covers(s, i, c)
        PROVE  Covers(r, i, c)
    BY <2>1, <2>2, <2>5 DEF Covers, NotifyCovers, RegCovers, UpdateCovers, Notifying
  <2> QED
    BY <1>2, <2>1, <2>3, <2>4, <2>5 DEF Notifying
<1>16. CASE RegEnable(t)
  <2>1. s.pc = "r_enable" /\ s.mode = "reg"
    BY <1>0, <1>16 DEF RegEnable, Consistent
  <2> DEFINE r == [s EXCEPT !.irqs = Irqs]
  <2>2. r \in States /\ r.mode = "reg" /\ r.irqs = Irqs
    BY <1>0, <2>1 DEF States
  <2>3. /\ Become(t, IF s.irqs \cap enable[s.ctx] = {} THEN Idle ELSE NextIrq(r))
        /\ UNCHANGED <<regs, pending, raised, line, track>>
    BY <1>16, Zenon DEF RegEnable
  <2> HIDE DEF r
  <2>4. ASSUME NEW i \in pending, NEW c \in Takers(i), Covers(s, i, c)
        PROVE  s.irqs \cap enable[s.ctx] # {} /\ Covers(NextIrq(r), i, c)
    <3>1. s.ctx = c /\ i \in s.irqs /\ i \in enable[c] /\ i \in Irqs
      BY <1>0, <1>1, <2>1, <2>4
         DEF Covers, NotifyCovers, RegCovers, UpdateCovers, Notifying, RegsOK
    <3> QED
      BY <1>1, <2>2, <3>1, NextIrqCovers
  <2> QED
    BY <1>2, <2>1, <2>2, <2>3, <2>4, NextIrqCovers, IdleRoutes DEF Notifying
<1> QED
  BY <1>3, <1>4, <1>5, <1>6, <1>7, <1>8, <1>9, <1>10, <1>11, <1>12, <1>13,
     <1>14, <1>15, <1>16, Zenon DEF Step

(* What a thread covers depends on its state and on the registers only.    *)
LEMMA CoversSame ==
  ASSUME UNCHANGED <<prio, threshold, enable>>, NEW u, NEW s, at'[u] = s, NEW i, NEW c
  PROVE  Covers(at[u], i, c)' <=> Covers(s, i, c)
BY DEF Covers, NotifyCovers, RegCovers, UpdateCovers, Notifying

(* The contexts that take an interrupt depend on the registers only.       *)
LEMMA TakersSame ==
  ASSUME UNCHANGED <<prio, threshold, enable>>, NEW i
  PROVE  Takers(i)' = Takers(i)
BY DEF Takers

(* Interrupts stay covered if the thread that moves hands on what it       *)
(* covered, and covers what becomes pending.                               *)
LEMMA HandedOn ==
  ASSUME AtOK, PendingCovered, NEW t \in Threads, NEW r, Become(t, r),
         UNCHANGED <<prio, threshold, enable>>,
         \A i \in pending' \cap pending : \A c \in Takers(i) :
           Covers(at[t], i, c) \/ (c \in line /\ c \notin line') =>
             \E d \in Takers(i) : d \in line' \/ Covers(r, i, d),
         \A i \in pending' \ pending : Takers(i) # {} =>
           \E d \in Takers(i) : d \in line' \/ Covers(r, i, d)
  PROVE  PendingCovered'
<1>1. at'[t] = r /\ \A u \in Threads \ {t} : at'[u] = at[u]
  BY BecomeOthers, Zenon
<1>2. SUFFICES ASSUME NEW i \in pending', Takers(i) # {}
               PROVE  \E c \in Takers(i) : c \in line' \/ \E u \in Threads : Covers(at[u], i, c)'
  BY TakersSame, Zenon DEF PendingCovered
<1>3. \A c : Covers(at[t], i, c)' <=> Covers(r, i, c)
  BY <1>1, CoversSame, Zenon
<1>4. CASE i \notin pending
  BY <1>2, <1>3, <1>4, Zenon
<1>5. CASE i \in pending
  <2>1. PICK c \in Takers(i) : c \in line \/ \E u \in Threads : Covers(at[u], i, c)
    BY <1>2, <1>5, Zenon DEF PendingCovered
  <2>2. CASE c \in line'
    BY <2>2, Zenon
  <2>3. CASE c \in line /\ c \notin line'
    BY <1>2, <1>3, <1>5, <2>3, Zenon
  <2>4. ASSUME NEW u \in Threads, Covers(at[u], i, c), u # t
        PROVE  Covers(at[u], i, c)'
    BY <1>1, <2>4, CoversSame, Zenon
  <2>5. CASE Covers(at[t], i, c)
    BY <1>2, <1>3, <1>5, <2>5, Zenon
  <2> QED
    BY <2>1, <2>2, <2>3, <2>4, <2>5, Zenon
<1> QED
  BY <1>4, <1>5

(* A step that takes no context away from the interrupts of a growing      *)
(* guest.                                                                  *)
Widens ==
  /\ guest' = guest
  /\ Growing => /\ \A c \in Ctxs : enable[c] \subseteq enable'[c]
                /\ \A i \in Irqs : prio[i] <= prio'[i]
                /\ threshold' = threshold

(* A route that a growing guest enabled goes on to take the interrupt.     *)
LEMMA RoutedStays ==
  ASSUME RegsOK, RegsOK', Widens, NEW c \in Ctxs, NEW i \in Irqs, Routed(c, i)
  PROVE  Routed(c, i)'
<1>1. guest' = guest /\ (Growing' <=> Growing)
  BY DEF Widens, Growing
<1>2. CASE ~Growing
  BY <1>1, <1>2 DEF Routed
<1>3. CASE Growing
  <2>1. c \in Takers(i) /\ i \in enable[c] /\ prio[i] > threshold[c]
    BY <1>3 DEF Routed, Takers
  <2>2. i \in enable'[c] /\ prio[i] <= prio'[i] /\ threshold'[c] = threshold[c]
    BY <1>3, <2>1 DEF Widens
  <2>3. prio[i] \in Nat /\ prio'[i] \in Nat /\ threshold[c] \in Nat
    BY PlicAssumption DEF RegsOK
  <2>4. c \in Takers(i)'
    BY <2>1, <2>2, <2>3 DEF Takers
  <2> QED
    BY <1>1, <1>3, <2>4 DEF Routed
<1> QED
  BY <1>2, <1>3

(* What Routes says of a thread outlives the steps of the others.          *)
LEMMA RoutesStay ==
  ASSUME RegsOK, RegsOK', Widens, NEW u, NEW s, at'[u] = s, Consistent(s), Routes(s),
         s.pc \in {"u_clear", "u_pending", "u_enable", "u_prio"} =>
           threshold'[s.ctx] = threshold[s.ctx]
  PROVE  Routes(at[u])'
<1>1. guest' = guest /\ (Growing' <=> Growing)
  BY DEF Widens, Growing
<1>2. s.ctx \in Ctxs /\ s.irqs \subseteq Irqs /\ s.irq \in Irqs \cup {0} /\ s.best \in Irqs \cup {0}
  BY DEF Consistent, States
<1>3. s.pc \in {"c_pending", "f_pending"} => Routed(s.ctx, s.irq)'
  <2>1. s.pc \in {"c_pending", "f_pending"} => s.irq \in Irqs
    BY DEF Consistent, Carrying, Pending
  <2> QED
    BY <1>2, <2>1, RoutedStays DEF Routes
<1>4. s.pc \in {"u_prio", "u_line"} /\ s.best # 0 => Routed(s.ctx, s.best)'
  BY <1>2, RoutedStays DEF Routes
<1>5. s.pc = "u_prio" => \A i \in s.irqs :
        <<s.ctx, i>> \in guest'.routes /\ (Growing' => i \in enable'[s.ctx])
  BY <1>1, <1>2 DEF Routes, Widens
<1>6. /\ at'[u].pc = s.pc /\ at'[u].ctx = s.ctx /\ at'[u].irq = s.irq /\ at'[u].irqs = s.irqs
      /\ at'[u].best = s.best /\ at'[u].low = s.low /\ at'[u].mode = s.mode
  OBVIOUS
<1>7. Routed(at[u].ctx, at[u].irq)' <=> Routed(s.ctx, s.irq)'
  BY DEF Routed, Takers, Growing
<1>8. Routed(at[u].ctx, at[u].best)' <=> Routed(s.ctx, s.best)'
  BY DEF Routed, Takers, Growing
<1> QED
  BY <1>1, <1>3, <1>4, <1>5, <1>6, <1>7, <1>8 DEF Routes

(* The two together, and the ranges.                                       *)
CoverInv == PlicInv /\ RoutesOK /\ PendingCovered

(* RoutesOK after a step of thread t to state r.                           *)
LEMMA RoutesKept ==
  ASSUME PlicInv, PlicInv', RoutesOK, Widens, NEW t \in Threads, NEW r, Become(t, r),
         Routes(at[t])',
         \A u \in Threads \ {t} :
           at[u].pc \in {"u_clear", "u_pending", "u_enable", "u_prio"} =>
             threshold'[at[u].ctx] = threshold[at[u].ctx],
         \A c \in Ctxs : \A i \in enable'[c] : <<c, i>> \in guest.routes,
         ~guest.thresholds => threshold' = threshold,
         \A claim \in service' \ service : Routed(claim[1], claim[2])',
         t \in Harts => t \in guest.harts,
         t \in Devices => r.pc \in Notifying \cup {"idle", "s_pending"}
  PROVE  RoutesOK'
<1>1. RegsOK /\ RegsOK' /\ AtOK /\ \A u \in Threads : Consistent(at[u]) /\ Routes(at[u])
  BY DEF PlicInv, ThreadsOK, RoutesOK
<1>2. at'[t] = r /\ \A u \in Threads \ {t} : at'[u] = at[u]
  BY <1>1, BecomeOthers, Zenon
<1>3. \A u \in Threads : Routes(at[u])'
  BY <1>1, <1>2, RoutesStay, Zenon
<1>4. \A claim \in service' : Routed(claim[1], claim[2])'
  <2>1. ASSUME NEW claim \in service PROVE Routed(claim[1], claim[2])'
    <3>1. claim[1] \in Ctxs /\ claim[2] \in Irqs
      BY <1>1 DEF RegsOK
    <3>2. Routed(claim[1], claim[2])
      BY DEF RoutesOK
    <3> QED
      BY <1>1, <3>1, <3>2, RoutedStays
  <2> QED
    BY <2>1, Zenon
<1>5. guest' = guest /\ Harts \subseteq Threads /\ Devices \subseteq Threads
  BY DEF Widens, Threads
<1>6. \A h \in Harts \ guest'.harts : at'[h].pc = "idle"
  BY <1>2, <1>5, Zenon DEF RoutesOK
<1>7. \A d \in Devices : at'[d].pc \in Notifying \cup {"idle", "s_pending"}
  BY <1>2, <1>5, Zenon DEF RoutesOK
<1>8. ~guest'.thresholds => \A c \in Ctxs : threshold'[c] = 0
  BY <1>5 DEF RoutesOK
<1> QED
  BY <1>3, <1>4, <1>5, <1>6, <1>7, <1>8, Zenon DEF RoutesOK

(* Such a step that leaves the registers alone.                            *)
LEMMA RoutesKeptQuietly ==
  ASSUME PlicInv, PlicInv', RoutesOK, NEW t \in Threads, NEW r, Become(t, r), Routes(r),
         UNCHANGED <<prio, threshold, enable, guest>>,
         \A claim \in service' \ service : Routed(claim[1], claim[2]),
         t \in Harts => t \in guest.harts,
         t \in Devices => r.pc \in Notifying \cup {"idle", "s_pending"}
  PROVE  RoutesOK'
<1>1. RegsOK /\ RegsOK' /\ AtOK /\ ThreadsOK'
  BY DEF PlicInv, ThreadsOK
<1>2. Widens
  <2>1. \A i \in Irqs : prio[i] <= prio[i]
    <3>1. \A i \in Irqs : prio[i] \in Nat
      BY <1>1, PlicAssumption DEF RegsOK
    <3> QED
      BY <3>1
  <2> QED
    BY <2>1 DEF Widens
<1>3. at'[t] = r
  BY <1>1, BecomeOthers, Zenon
<1>4. Consistent(r)
  <2>1. Consistent(at[t])'
    BY <1>1 DEF ThreadsOK
  <2>2. Consistent(at[t])' <=> Consistent(r)
    BY <1>3 DEF Consistent, States
  <2> QED
    BY <2>1, <2>2
<1>5. Routes(at[t])'
  BY <1>1, <1>2, <1>3, <1>4, RoutesStay, Zenon
<1>6. \A claim \in service' \ service : Routed(claim[1], claim[2])'
  BY DEF Routed, Takers, Growing
<1>7. \A c \in Ctxs : \A i \in enable'[c] : <<c, i>> \in guest.routes
  BY DEF RoutesOK
<1> QED
  BY <1>2, <1>5, <1>6, <1>7, RoutesKept, Zenon

(* Whoever newly marks an interrupt as pending goes on to notify all the   *)
(* contexts.                                                               *)
LEMMA MarkCovers ==
  ASSUME CoverInv, PlicInv', NEW t \in Threads, NEW j \in Irqs, MarkPending(t, j),
         t \in Harts => t \in guest.harts, \A i, c : ~Covers(at[t], i, c)
  PROVE  RoutesOK' /\ PendingCovered'
<1> DEFINE n == Doing("n_enable", "any", 0, j)
           r == IF j \in pending THEN Idle ELSE n
<1> USE DEF regs
<1>1. PlicInv /\ RoutesOK /\ PendingCovered /\ AtOK
  BY DEF CoverInv, PlicInv, ThreadsOK
<1>2. /\ Become(t, r) /\ UNCHANGED <<prio, threshold, enable, line, guest, service>>
      /\ pending' = pending \cup {j}
  BY DEF MarkPending, Pend
<1>3. n.pc = "n_enable" /\ n.irq = j /\ n.ctx = 0 /\ n.mode = "any" /\ n.best = 0
  BY DEF Doing
<1> HIDE DEF n
<1>4. Routes(n) /\ n.pc \in Notifying /\ Idle.pc = "idle"
  BY <1>3 DEF Routes, Starting, Notifying, Idle, Doing
<1>5. \A c \in Ctxs : Covers(n, j, c)
  <2>1. \A c \in Ctxs : c = 0 \/ 0 < c
    BY DEF Ctxs
  <2> QED
    BY <1>3, <2>1 DEF Covers, NotifyCovers
<1>6. Takers(j) \subseteq Ctxs
  BY DEF Takers
<1>7. PendingCovered'
  BY <1>1, <1>2, <1>5, <1>6, HandedOn, Zenon
<1>8. Routes(r) /\ r.pc \in Notifying \cup {"idle", "s_pending"}
  BY <1>4, IdleRoutes
<1> HIDE DEF r
<1>9. RoutesOK'
  BY <1>1, <1>2, <1>8, RoutesKeptQuietly, Zenon
<1> QED
  BY <1>7, <1>9

(* Every step of a thread keeps interrupts covered.                        *)
LEMMA StepCovers ==
  ASSUME CoverInv, PlicInv', NEW t \in Threads, Step(t)
  PROVE  RoutesOK' /\ PendingCovered'
<1> DEFINE s == at[t]
<1> USE DEF regs, track
<1>1. /\ PlicInv /\ RoutesOK /\ PendingCovered /\ RegsOK /\ AtOK
      /\ Consistent(s) /\ Routes(s) /\ s \in States /\ s.ctx \in Ctxs
  BY DEF CoverInv, PlicInv, ThreadsOK, RoutesOK, Consistent, States
<1>2. s.pc # "idle" /\ t \in Harts => t \in guest.harts
  BY <1>1 DEF RoutesOK
<1>3. t \in Devices => s.pc \in Notifying \cup {"idle", "s_pending"}
  BY <1>1 DEF RoutesOK
<1>4. CASE Relays(t)
  <2>1. PICK r :
          /\ Become(t, r)
          /\ Routes(r)
          /\ s.pc # "idle"
          /\ s.pc \in Notifying => r.pc \in Notifying \cup {"idle"}
          /\ s.pc # "s_pending"
          /\ UNCHANGED <<prio, threshold, enable, pending, guest, service>>
          /\ \A i \in pending : \A c \in Takers(i) :
               Covers(s, i, c) \/ (c \in line /\ c \notin line') =>
                 \E d \in Takers(i) : d \in line' \/ Covers(r, i, d)
    BY <1>4, Zenon DEF Relays
  <2>2. PendingCovered'
    BY <1>1, <2>1, HandedOn, Zenon
  <2>3. t \in Devices => r.pc \in Notifying \cup {"idle", "s_pending"}
    BY <1>3, <2>1
  <2>4. RoutesOK'
    BY <1>1, <1>2, <2>1, <2>3, RoutesKeptQuietly, Zenon
  <2> QED
    BY <2>2, <2>4
<1>5. CASE ClaimPending(t)
  <2> DEFINE stolen == s.irq \notin pending
             r == IF stolen THEN UpdateFrom(s.ctx, "claim") ELSE Idle
  <2>1. s.pc = "c_pending" /\ Routed(s.ctx, s.irq) /\ Become(t, r)
        /\ UNCHANGED <<prio, threshold, enable, line, guest>>
        /\ pending' = pending \ {s.irq}
        /\ service' \subseteq service \cup {<<s.ctx, s.irq>>}
    <3>1. s.pc = "c_pending" /\ Become(t, r)
      BY <1>5, Zenon DEF ClaimPending
    <3>2. Routed(s.ctx, s.irq)
      BY <1>1, <3>1 DEF Routes
    <3>3. UNCHANGED <<prio, threshold, enable, line, guest>> /\ pending' = pending \ {s.irq}
          /\ service' \subseteq service \cup {<<s.ctx, s.irq>>}
      BY <1>5 DEF ClaimPending
    <3> QED
      BY <3>1, <3>2, <3>3
  <2>2. Routes(r)
    <3>1. UpdateFrom(s.ctx, "claim").pc = "u_threshold" /\ UpdateFrom(s.ctx, "claim").best = 0
      BY DEF UpdateFrom, Doing
    <3>2. Routes(UpdateFrom(s.ctx, "claim"))
      BY <3>1 DEF Routes
    <3> QED
      BY <3>2, IdleRoutes
  <2>3. t \notin Devices
    BY <1>3, <2>1 DEF Notifying
  <2>4. \A claim \in service' \ service : Routed(claim[1], claim[2])
    BY <2>1
  <2>5. ASSUME NEW i \in pending' \cap pending, NEW c \in Takers(i) PROVE ~Covers(s, i, c)
    BY <2>1 DEF Covers, NotifyCovers, RegCovers, UpdateCovers, Notifying
  <2> HIDE DEF r
  <2>6. PendingCovered'
    BY <1>1, <2>1, <2>5, HandedOn, Zenon
  <2>7. RoutesOK'
    BY <1>1, <1>2, <2>1, <2>2, <2>3, <2>4, RoutesKeptQuietly, Zenon
  <2> QED
    BY <2>6, <2>7
<1>6. CASE CompletePending(t)
  <2> DEFINE r == [s EXCEPT !.pc = "n_enable"]
  <2>1. s.pc = "f_pending" /\ Routed(s.ctx, s.irq) /\ Become(t, r) /\ s.irq \in Irqs
        /\ UNCHANGED <<prio, threshold, enable, line, guest, service>>
        /\ pending' = pending \cup {s.irq}
    BY <1>1, <1>6 DEF CompletePending, Move, Routes, Pend, Consistent, Carrying, Pending
  <2>2. r.pc = "n_enable" /\ r.irq = s.irq /\ r.ctx = s.ctx
    BY <1>1 DEF States
  <2> HIDE DEF r
  <2>3. Routes(r)
    BY <2>2 DEF Routes, Starting
  <2>4. t \notin Devices
    BY <1>3, <2>1 DEF Notifying
  <2>5. \A i, c : ~Covers(s, i, c)
    BY <2>1, IdleCoversNothing
  <2>6. Takers(s.irq) # {} => s.ctx \in Takers(s.irq)
    <3>1. CASE Growing
      BY <2>1, <3>1 DEF Routed
    <3>2. ASSUME ~Growing, NEW c \in Takers(s.irq) PROVE c = s.ctx
      BY <1>1, <2>1, <3>2, OneTaker DEF Routed, Takers
    <3> QED
      BY <3>1, <3>2
  <2>7. Covers(r, s.irq, s.ctx)
    BY <2>2 DEF Covers, NotifyCovers
  <2>8. PendingCovered'
    BY <1>1, <2>1, <2>5, <2>6, <2>7, HandedOn, Zenon
  <2>9. RoutesOK'
    BY <1>1, <1>2, <2>1, <2>3, <2>4, RoutesKeptQuietly, Zenon
  <2> QED
    BY <2>8, <2>9
<1>7. CASE RaisePending(t)
  <2>1. s.pc = "s_pending" /\ s.irq \in Irqs /\ MarkPending(t, s.irq)
    BY <1>1, <1>7 DEF RaisePending, Consistent, Carrying, Pending
  <2>2. t \in Harts => t \in guest.harts
    BY <1>2, <2>1
  <2>3. \A i, c : ~Covers(s, i, c)
    BY <2>1, IdleCoversNothing
  <2> QED
    BY <1>1, <2>1, <2>2, <2>3, MarkCovers
<1> QED
  BY <1>1, <1>4, <1>5, <1>6, <1>7, StepRelays

(* A single hart accesses the registers of a guest that moves thresholds.  *)
LEMMA AloneWithThresholds ==
  ASSUME RegsOK, RoutesOK, guest.thresholds, NEW h \in guest.harts,
         NEW u \in Threads, u # h
  PROVE  at[u].pc \in Notifying \cup {"idle", "s_pending"}
<1>1. Cardinality(guest.harts) = 1 /\ guest.harts \subseteq Harts
  BY GuestAssumption DEF RegsOK
<1>2. IsFiniteSet(guest.harts)
  BY <1>1, PlicAssumption, FS_Subset DEF Threads
<1>3. PICK x : guest.harts = {x}
  BY <1>1, <1>2, FS_Singleton
<1>4. u \notin guest.harts
  BY <1>3
<1> QED
  BY <1>4 DEF RoutesOK, Threads

(* Another thread covers what it covered, as long as the context's         *)
(* threshold stays, and as long as a context before it that takes the      *)
(* interrupt goes on to take it.                                           *)
LEMMA CoversStays ==
  ASSUME NEW u, NEW s \in States, at'[u] = s, NEW i \in Irqs, NEW c \in Ctxs, Covers(s, i, c),
         threshold'[c] = threshold[c], prio[i] \in Nat, prio'[i] \in Nat,
         s.ctx < c /\ i \in enable[s.ctx] => i \in enable'[s.ctx] /\ prio[i] <= prio'[i]
  PROVE  Covers(at[u], i, c)'
<1>1. s.max \in Nat
  BY DEF States
<1>2. CASE NotifyCovers(s, i, c)
  <2>1. NotifyCovers(at[u], i, c)'
    BY <1>1, <1>2 DEF NotifyCovers
  <2> QED
    BY <2>1 DEF Covers
<1>3. CASE RegCovers(s, i, c)
  BY <1>3 DEF Covers, RegCovers, Notifying
<1>4. CASE UpdateCovers(s, i, c)
  BY <1>4 DEF Covers, UpdateCovers
<1>5. CASE s.pc = "c_pending" /\ s.irq = i
  BY <1>5 DEF Covers
<1> QED
  BY <1>2, <1>3, <1>4, <1>5 DEF Covers

(* Every access of a hart keeps interrupts covered: it notifies of what    *)
(* may have become deliverable by it.                                      *)
LEMMA AccessCovers ==
  ASSUME CoverInv, PlicInv', NEW h \in Harts, h \in guest.harts, Access(h)
  PROVE  RoutesOK' /\ PendingCovered'
<1> USE DEF regs, track
<1>1. /\ PlicInv /\ RoutesOK /\ PendingCovered /\ RegsOK /\ RegsOK' /\ AtOK
      /\ Used \subseteq Irqs /\ h \in Threads /\ h \notin Devices
  BY UsedExist, PlicAssumption DEF CoverInv, PlicInv, ThreadsOK, Threads
<1>2. /\ Ctxs \subseteq Int /\ pending \subseteq Irqs
      /\ \A i \in Irqs : prio[i] \in Nat /\ prio'[i] \in Nat
      /\ \A c \in Ctxs : threshold[c] \in Nat
  <2>1. \A i \in Irqs : prio[i] \in Nat /\ prio'[i] \in Nat
    BY <1>1, PlicAssumption DEF RegsOK
  <2>2. \A c \in Ctxs : threshold[c] \in Nat
    BY <1>1, PlicAssumption DEF RegsOK
  <2> QED
    BY <1>1, <2>1, <2>2 DEF RegsOK, Ctxs
<1>3. ASSUME at[h].pc = "idle" PROVE \A i, c : ~Covers(at[h], i, c)
  BY <1>3, IdleCoversNothing
<1>4. ASSUME NEW r, Become(h, r), at[h].pc = "idle", line' = line,
             NEW i \in pending, NEW c \in Takers(i), threshold'[c] = threshold[c],
             c \in line \/ \E u \in Threads : Covers(at[u], i, c),
             \A d \in Ctxs : d < c /\ i \in enable[d] => i \in enable'[d] /\ prio[i] <= prio'[i]
      PROVE  c \in line' \/ \E u \in Threads : Covers(at[u], i, c)'
  <2>1. ASSUME NEW u \in Threads, Covers(at[u], i, c)
        PROVE  Covers(at[u], i, c)'
    <3>1. u # h /\ at'[u] = at[u]
      BY <1>1, <1>3, <1>4, <2>1, BecomeOthers, Zenon
    <3>2. at[u] \in States /\ at[u].ctx \in Ctxs /\ c \in Ctxs
      BY <1>1 DEF PlicInv, ThreadsOK, Consistent, States, Takers
    <3> QED
      BY <1>2, <1>4, <2>1, <3>1, <3>2, CoversStays
  <2> QED
    BY <1>4, <2>1
<1>5. ASSUME NEW c0 \in Ctxs, NEW pc, NEW mode, NEW i0,
             Become(h, Doing(pc, mode, c0, i0))
      PROVE  at'[h].pc = pc /\ at'[h].irq = i0 /\ at'[h].ctx = c0
             /\ at'[h].best = 0 /\ at'[h].mode = mode
  <2>1. at'[h] = Doing(pc, mode, c0, i0)
    BY <1>1, <1>5, BecomeOthers, Zenon
  <2> QED
    BY <2>1 DEF Doing
<1>6. ASSUME Widens, NEW r, Become(h, r), Routes(at[h])',
             \A u \in Threads \ {h} :
               at[u].pc \in {"u_clear", "u_pending", "u_enable", "u_prio"} =>
                 threshold'[at[u].ctx] = threshold[at[u].ctx],
             \A c \in Ctxs : \A i \in enable'[c] : <<c, i>> \in guest.routes,
             ~guest.thresholds => threshold' = threshold,
             service' \subseteq service
      PROVE  RoutesOK'
  <2>1. \A claim \in service' \ service : Routed(claim[1], claim[2])'
    BY <1>6
  <2> QED
    BY <1>1, <1>6, <2>1, RoutesKept, Zenon
<1>7. \A c \in Ctxs : \A i \in enable[c] : <<c, i>> \in guest.routes
  BY <1>1 DEF RoutesOK
<1>8. ASSUME NEW i0 \in Used, NEW p \in Prios, SetPrio(h, i0, p)
      PROVE  RoutesOK' /\ PendingCovered'
  <2> DEFINE pc == IF p < prio[i0] THEN "p_pending" ELSE "i_pending"
             r == Doing(pc, "any", 0, i0)
  <2>1. /\ at[h].pc = "idle" /\ p # prio[i0] /\ (p < prio[i0] => guest.masks)
        /\ prio' = [prio EXCEPT ![i0] = p] /\ Become(h, r)
        /\ UNCHANGED <<threshold, enable, pending, line, guest, service>>
    BY <1>8 DEF SetPrio
  <2>2. i0 \in Irqs /\ p \in Nat /\ 0 \in Ctxs
    BY <1>1, PlicAssumption DEF Ctxs
  <2>3. at'[h].pc = pc /\ at'[h].irq = i0 /\ at'[h].ctx = 0 /\ at'[h].mode = "any"
        /\ at'[h].best = 0
    BY <1>5, <2>1, <2>2
  <2> HIDE DEF r
  <2>4. \A i \in Irqs : prio'[i] = IF i = i0 THEN p ELSE prio[i]
    BY <1>1, <2>1 DEF RegsOK
  <2>5. Routes(at[h])'
    BY <2>3 DEF Routes, Starting
  <2>6. Widens
    BY <1>2, <2>1, <2>2, <2>4 DEF Widens, Growing
  <2>7. RoutesOK'
    BY <1>6, <1>7, <2>1, <2>5, <2>6, Zenon
  <2>8. PendingCovered'
    <3> SUFFICES ASSUME NEW i \in pending, NEW c1 \in Takers(i)'
                 PROVE  \E c \in Takers(i)' : c \in line' \/ \E u \in Threads : Covers(at[u], i, c)'
      BY <2>1, Zenon DEF PendingCovered
    <3>1. CASE i = i0 /\ ~(p < prio[i0])
      BY <1>1, <2>3, <3>1 DEF Covers, NotifyCovers
    <3>2. CASE i = i0 /\ p < prio[i0]
      <4>1. c1 \in Takers(i)
        BY <1>2, <2>1, <2>2, <2>4, <3>2 DEF Takers
      <4>2. PICK c \in Takers(i) : c \in line \/ \E u \in Threads : Covers(at[u], i, c)
        BY <1>1, <4>1, Zenon DEF PendingCovered
      <4>3. ~Growing /\ c \in Ctxs /\ c1 \in Ctxs /\ i \in enable[c] /\ i \in enable[c1]
        BY <2>1, <3>2, <4>1, <4>2 DEF Growing, Takers
      <4>4. \A d \in Ctxs : i \in enable[d] => d = c
        BY <1>1, <2>2, <3>2, <4>3, OneTaker
      <4>5. \A d \in Ctxs : d < c => d # c
        BY <1>2, <4>3
      <4>6. c1 = c
        BY <4>3, <4>4
      <4>7. c \in line' \/ \E u \in Threads : Covers(at[u], i, c)'
        BY <1>4, <2>1, <4>2, <4>4, <4>5, Zenon
      <4> QED
        BY <4>6, <4>7
    <3>3. CASE i # i0
      <4>1. i \in Irqs /\ prio'[i] = prio[i]
        BY <1>2, <2>4, <3>3
      <4>2. Takers(i)' = Takers(i)
        BY <2>1, <4>1 DEF Takers
      <4>3. PICK c \in Takers(i) : c \in line \/ \E u \in Threads : Covers(at[u], i, c)
        BY <1>1, <4>2, Zenon DEF PendingCovered
      <4>4. prio[i] <= prio'[i]
        BY <1>2, <4>1
      <4>5. c \in line' \/ \E u \in Threads : Covers(at[u], i, c)'
        BY <1>4, <2>1, <4>3, <4>4, Zenon
      <4> QED
        BY <4>2, <4>5
    <3> QED
      BY <3>1, <3>2, <3>3
  <2> QED
    BY <2>7, <2>8
<1>9. ASSUME NEW c0 \in Ctxs, NEW p \in Prios, SetThreshold(h, c0, p)
      PROVE  RoutesOK' /\ PendingCovered'
  <2>1. /\ at[h].pc = "idle" /\ guest.thresholds
        /\ threshold' = [threshold EXCEPT ![c0] = p]
        /\ Become(h, Doing("u_threshold", "ctx", c0, 0))
        /\ UNCHANGED <<prio, enable, pending, line, guest, service>>
    BY <1>9 DEF SetThreshold, UpdateFrom
  <2>2. at'[h].pc = "u_threshold" /\ at'[h].ctx = c0 /\ at'[h].best = 0
    BY <1>5, <2>1
  <2>3. Routes(at[h])'
    BY <2>2 DEF Routes
  <2>4. Widens
    BY <2>1 DEF Widens, Growing
  <2>5. \A u \in Threads \ {h} : at[u].pc \in Notifying \cup {"idle", "s_pending"}
    BY <1>1, <2>1, AloneWithThresholds
  <2>6. \A u \in Threads \ {h} :
          at[u].pc \notin {"u_clear", "u_pending", "u_enable", "u_prio"}
    BY <2>5 DEF Notifying
  <2>7. RoutesOK'
    BY <1>6, <1>7, <2>1, <2>3, <2>4, <2>6, Zenon
  <2>8. PendingCovered'
    <3> SUFFICES ASSUME NEW i \in pending, NEW c1 \in Takers(i)'
                 PROVE  c1 \in line' \/ \E u \in Threads : Covers(at[u], i, c1)'
      BY <2>1, Zenon DEF PendingCovered
    <3>1. CASE c1 = c0
      BY <1>1, <2>2, <3>1 DEF Covers, UpdateCovers
    <3>2. CASE c1 # c0
      <4>1. c1 \in Ctxs /\ threshold'[c1] = threshold[c1]
        BY <1>1, <2>1, <3>2 DEF Takers, RegsOK
      <4>2. c1 \in Takers(i)
        BY <2>1, <4>1 DEF Takers
      <4>3. PICK c \in Takers(i) : c \in line \/ \E u \in Threads : Covers(at[u], i, c)
        BY <1>1, <4>2, Zenon DEF PendingCovered
      <4>4. ~Growing /\ c \in Ctxs /\ i \in enable[c] /\ i \in enable[c1] /\ i \in Irqs
        BY <1>2, <2>1, <4>2, <4>3 DEF Growing, Takers
      <4>5. c1 = c
        BY <1>1, <4>1, <4>4, OneTaker
      <4>6. prio[i] <= prio'[i]
        BY <1>2, <2>1, <4>4
      <4> QED
        BY <1>4, <2>1, <4>1, <4>3, <4>5, <4>6, Zenon
    <3> QED
      BY <3>1, <3>2
  <2> QED
    BY <2>7, <2>8
<1>10. ASSUME NEW c0 \in Ctxs, NEW i0 \in Used, Enable(h, c0, i0)
       PROVE  RoutesOK' /\ PendingCovered'
  <2>1. /\ at[h].pc = "idle" /\ <<c0, i0>> \in guest.routes
        /\ enable' = [enable EXCEPT ![c0] = @ \cup {i0}]
        /\ Become(h, Doing("r_pending", "reg", c0, 0))
        /\ UNCHANGED <<prio, threshold, pending, line, guest, service>>
    BY <1>10 DEF Enable
  <2>2. at'[h].pc = "r_pending" /\ at'[h].ctx = c0 /\ at'[h].best = 0
    BY <1>5, <2>1
  <2>3. Routes(at[h])'
    BY <2>2 DEF Routes, Starting
  <2>4. \A c \in Ctxs : enable'[c] = IF c = c0 THEN enable[c] \cup {i0} ELSE enable[c]
    BY <1>1, <2>1 DEF RegsOK
  <2>5. \A i \in Irqs : prio[i] <= prio'[i]
    <3>1. prio' = prio /\ \A i \in Irqs : prio[i] \in Nat
      BY <1>2, <2>1
    <3> QED
      BY <3>1
  <2>6. Widens
    BY <2>1, <2>4, <2>5 DEF Widens
  <2>7. ASSUME NEW c \in Ctxs, NEW i \in enable'[c] PROVE <<c, i>> \in guest.routes
    <3>1. CASE c = c0 /\ i = i0
      BY <2>1, <3>1
    <3>2. CASE ~(c = c0 /\ i = i0)
      <4>1. i \in enable[c]
        BY <2>4, <3>2
      <4> QED
        BY <1>7, <4>1, Zenon
    <3> QED
      BY <3>1, <3>2
  <2>8. RoutesOK'
    BY <1>6, <2>1, <2>3, <2>6, <2>7, Zenon
  <2>9. PendingCovered'
    <3> SUFFICES ASSUME NEW i \in pending, NEW c1 \in Takers(i)'
                 PROVE  \E c \in Takers(i)' : c \in line' \/ \E u \in Threads : Covers(at[u], i, c)'
      BY <2>1, Zenon DEF PendingCovered
    <3>1. CASE c1 = c0
      BY <1>1, <2>2, <3>1 DEF Covers, RegCovers
    <3>2. CASE c1 # c0
      <4>1. c1 \in Takers(i)
        BY <2>1, <2>4, <3>2 DEF Takers
      <4>2. PICK c \in Takers(i) : c \in line \/ \E u \in Threads : Covers(at[u], i, c)
        BY <1>1, <4>1, Zenon DEF PendingCovered
      <4>3. c \in Takers(i)'
        BY <2>1, <2>4, <4>2 DEF Takers
      <4>4. \A d \in Ctxs : i \in enable[d] => i \in enable'[d] /\ prio[i] <= prio'[i]
        BY <1>2, <2>4, <2>5
      <4>5. c \in line' \/ \E u \in Threads : Covers(at[u], i, c)'
        BY <1>4, <2>1, <4>2, <4>4, Zenon
      <4> QED
        BY <4>3, <4>5
    <3> QED
      BY <3>1, <3>2
  <2> QED
    BY <2>8, <2>9
<1>11. ASSUME NEW c0 \in Ctxs, NEW i0 \in Used, Disable(h, c0, i0)
       PROVE  RoutesOK' /\ PendingCovered'
  <2>1. /\ at[h].pc = "idle" /\ guest.masks /\ i0 \in enable[c0]
        /\ enable' = [enable EXCEPT ![c0] = @ \ {i0}]
        /\ Become(h, Doing("p_pending", "any", 0, i0))
        /\ UNCHANGED <<prio, threshold, pending, line, guest, service>>
    BY <1>11 DEF Disable
  <2>2. 0 \in Ctxs /\ i0 \in Irqs
    BY <1>1, PlicAssumption DEF Ctxs
  <2>3. at'[h].pc = "p_pending" /\ at'[h].best = 0
    BY <1>5, <2>1, <2>2
  <2>4. Routes(at[h])'
    BY <2>3 DEF Routes, Starting
  <2>5. \A c \in Ctxs : enable'[c] = IF c = c0 THEN enable[c] \ {i0} ELSE enable[c]
    BY <1>1, <2>1 DEF RegsOK
  <2>6. ~Growing /\ Widens
    BY <2>1 DEF Widens, Growing
  <2>7. \A c \in Ctxs : \A i \in enable'[c] : <<c, i>> \in guest.routes
    BY <1>7, <2>5
  <2>8. RoutesOK'
    BY <1>6, <2>1, <2>4, <2>6, <2>7, Zenon
  <2>9. PendingCovered'
    <3> SUFFICES ASSUME NEW i \in pending, NEW c1 \in Takers(i)'
                 PROVE  c1 \in line' \/ \E u \in Threads : Covers(at[u], i, c1)'
      BY <2>1, Zenon DEF PendingCovered
    <3>1. c1 \in Ctxs /\ i \in enable'[c1] /\ i \in enable[c1] /\ i \in Irqs
      BY <1>2, <2>5 DEF Takers
    <3>2. ASSUME i = i0 PROVE FALSE
      <4>1. c1 = c0
        BY <1>1, <2>1, <2>2, <2>6, <3>1, <3>2, OneTaker, Zenon
      <4> QED
        BY <2>5, <3>1, <3>2, <4>1
    <3>3. c1 \in Takers(i)
      BY <2>1, <3>1 DEF Takers
    <3>4. PICK c \in Takers(i) : c \in line \/ \E u \in Threads : Covers(at[u], i, c)
      BY <1>1, <3>3, Zenon DEF PendingCovered
    <3>5. c \in Ctxs /\ i \in enable[c]
      BY <3>4 DEF Takers
    <3>6. c1 = c
      BY <1>1, <2>6, <3>1, <3>5, OneTaker
    <3>7. prio[i] <= prio'[i]
      <4>1. prio' = prio /\ prio[i] \in Nat
        BY <1>2, <2>1, <3>1
      <4> QED
        BY <4>1
    <3>8. \A d \in Ctxs : i \in enable[d] => i \in enable'[d]
      BY <2>5, <3>2
    <3> QED
      BY <1>4, <2>1, <3>4, <3>6, <3>7, <3>8, Zenon
  <2> QED
    BY <2>8, <2>9
<1>12. ASSUME NEW c0 \in Ctxs, NEW i0 \in Used, Complete(h, c0, i0)
       PROVE  RoutesOK' /\ PendingCovered'
  <2> DEFINE f == Doing("f_pending", "one", c0, i0)
             r == IF i0 \in raised THEN f ELSE Idle
  <2>1. /\ at[h].pc = "idle"
        /\ <<c0, i0>> \in service \/ (guest.strays /\ <<c0, i0>> \in guest.routes)
        /\ Become(h, r) /\ service' \subseteq service
        /\ UNCHANGED <<prio, threshold, enable, pending, line, guest>>
    BY <1>12 DEF Complete
  <2>2. Routed(c0, i0)
    BY <1>1, <2>1 DEF RoutesOK, Routed, Growing
  <2>3. f.pc = "f_pending" /\ f.irq = i0 /\ f.ctx = c0
    BY DEF Doing
  <2> HIDE DEF f
  <2>4. Routes(f)
    BY <2>2, <2>3 DEF Routes, Starting
  <2>5. Routes(r)
    BY <2>4, IdleRoutes
  <2> HIDE DEF r
  <2>6. RoutesOK'
    BY <1>1, <2>1, <2>5, RoutesKeptQuietly, Zenon
  <2>7. PendingCovered'
    BY <1>1, <1>3, <2>1, HandedOn, Zenon
  <2> QED
    BY <2>6, <2>7
<1>13. ASSUME NEW c0 \in Ctxs, Claim(h, c0)
       PROVE  RoutesOK' /\ PendingCovered'
  <2> DEFINE r == [Doing("u_clear", "claim", c0, 0) EXCEPT !.low = threshold[c0]]
  <2>1. /\ at[h].pc = "idle" /\ Become(h, r)
        /\ UNCHANGED <<prio, threshold, enable, pending, line, guest, service>>
    BY <1>13, Zenon DEF Claim
  <2>2. r.pc = "u_clear" /\ r.ctx = c0 /\ r.low = threshold[c0] /\ r.best = 0
    BY DEF Doing
  <2> HIDE DEF r
  <2>3. Routes(r)
    BY <2>2 DEF Routes, Starting
  <2>4. RoutesOK'
    BY <1>1, <2>1, <2>3, RoutesKeptQuietly, Zenon
  <2>5. PendingCovered'
    BY <1>1, <1>3, <2>1, HandedOn, Zenon
  <2> QED
    BY <2>4, <2>5
<1> QED
  BY <1>8, <1>9, <1>10, <1>11, <1>12, <1>13, Zenon DEF Access

(* The invariant depends on these variables only.                          *)
LEMMA CoverUnchanged ==
  ASSUME RoutesOK, PendingCovered,
         UNCHANGED <<prio, threshold, enable, pending, line, at, guest, service>>
  PROVE  RoutesOK' /\ PendingCovered'
<1>1. RoutesOK'
  BY DEF RoutesOK, Routes, Routed, Growing, Takers
<1>2. \A i, c, u : Covers(at[u], i, c)' <=> Covers(at[u], i, c)
  BY CoversSame, Zenon
<1>3. \A i : Takers(i)' = Takers(i)
  BY TakersSame, Zenon
<1>4. PendingCovered'
  BY <1>2, <1>3, Zenon DEF PendingCovered
<1> QED
  BY <1>1, <1>4

(* The invariant is inductive.                                             *)
LEMMA CoverInvStep ==
  ASSUME CoverInv, Next
  PROVE  CoverInv'
<1> USE DEF regs, track
<1>1. /\ PlicInv /\ RoutesOK /\ PendingCovered /\ RegsOK /\ AtOK /\ PlicInv'
      /\ Used \subseteq Irqs /\ Harts \subseteq Threads /\ Devices \subseteq Threads
      /\ Harts \cap Devices = {}
  BY PlicInvStep, UsedExist, PlicAssumption DEF CoverInv, PlicInv, ThreadsOK, Threads
<1>2. ASSUME NEW t \in Threads, Step(t) PROVE RoutesOK' /\ PendingCovered'
  BY <1>1, <1>2, StepCovers
<1>3. ASSUME NEW h \in Harts, h \in guest.harts, Access(h) PROVE RoutesOK' /\ PendingCovered'
  BY <1>1, <1>3, AccessCovers
<1>4. ASSUME NEW d \in Devices, NEW i \in Used, SendIrq(d, i)
      PROVE  RoutesOK' /\ PendingCovered'
  <2>1. \A j, c : ~Covers(at[d], j, c)
    BY <1>4, IdleCoversNothing DEF SendIrq
  <2>2. d \in Threads /\ i \in Irqs /\ MarkPending(d, i) /\ d \notin Harts
    BY <1>1, <1>4 DEF SendIrq
  <2> QED
    BY <1>1, <2>1, <2>2, MarkCovers
<1>5. ASSUME NEW d \in Devices, NEW i \in Used, RaiseIrq(d, i)
      PROVE  RoutesOK' /\ PendingCovered'
  <2> DEFINE r == Doing("s_pending", "any", 0, i)
  <2>1. /\ at[d].pc = "idle" /\ Become(d, r)
        /\ UNCHANGED <<prio, threshold, enable, pending, line, guest, service>>
    BY <1>5 DEF RaiseIrq
  <2>2. r.pc = "s_pending"
    BY DEF Doing
  <2> HIDE DEF r
  <2>3. Routes(r)
    BY <2>2 DEF Routes, Starting
  <2>4. \A j, c : ~Covers(at[d], j, c)
    BY <2>1, IdleCoversNothing
  <2>5. d \in Threads /\ d \notin Harts /\ r.pc \in Notifying \cup {"idle", "s_pending"}
    BY <1>1, <2>2
  <2>6. RoutesOK'
    BY <1>1, <2>1, <2>3, <2>5, RoutesKeptQuietly, Zenon
  <2>7. PendingCovered'
    BY <1>1, <2>1, <2>4, <2>5, HandedOn, Zenon
  <2> QED
    BY <2>6, <2>7
<1>6. ASSUME NEW d \in Devices, NEW i \in Used, LowerIrq(d, i)
      PROVE  RoutesOK' /\ PendingCovered'
  <2>1. UNCHANGED <<prio, threshold, enable, pending, line, at, guest, service>>
    BY <1>6 DEF LowerIrq
  <2> QED
    BY <1>1, <2>1, CoverUnchanged
<1>7. ASSUME Reset PROVE RoutesOK' /\ PendingCovered'
  <2>1. PendingCovered'
    BY <1>7 DEF Reset, PendingCovered
  <2>2. /\ \A h \in Harts : at[h].pc = "idle"
        /\ threshold' = [c \in Ctxs |-> 0] /\ enable' = [c \in Ctxs |-> {}]
        /\ service' = {} /\ UNCHANGED <<at, guest>>
    BY <1>7 DEF Reset
  <2>3. ASSUME NEW t \in Threads PROVE Routes(at[t])'
    <3>1. at[t].pc \in Notifying \cup {"idle", "s_pending"}
      BY <1>1, <2>2 DEF RoutesOK, Threads
    <3>2. Routes(at[t])
      BY <1>1 DEF RoutesOK
    <3> QED
      BY <2>2, <3>1, <3>2 DEF Routes, Notifying, Starting
  <2>4. RoutesOK'
    BY <1>1, <2>2, <2>3 DEF RoutesOK
  <2> QED
    BY <2>1, <2>4
<1> QED
  BY <1>1, <1>2, <1>3, <1>4, <1>5, <1>6, <1>7, Zenon DEF Next, CoverInv

(* PendingSignalled, for every number of harts, devices and contexts and   *)
(* any interrupts of one register of 32: once all accesses are through, an *)
(* interrupt that is pending and that some context takes is signalled to   *)
(* one that takes it.                                                      *)
(* plic_update_ctx clears the line before it reads what is pending, and    *)
(* every write that makes an interrupt deliverable is followed by a        *)
(* notification or an update; the guests are those of GuestAssumption.     *)
THEOREM PendingInterruptsSignalled == Spec => []PendingSignalled
<1>1. Init => CoverInv
  <2> SUFFICES ASSUME Init PROVE CoverInv
    OBVIOUS
  <2>1. PlicInv
    BY PlicInvInit
  <2>2. \A t \in Threads : at[t] = Idle
    BY DEF Init
  <2>3. Idle.pc = "idle"
    BY DEF Idle, Doing
  <2>4. RoutesOK
    BY <2>2, <2>3, IdleRoutes DEF Init, RoutesOK, Threads
  <2>5. PendingCovered
    BY DEF Init, PendingCovered
  <2> QED
    BY <2>1, <2>4, <2>5 DEF CoverInv
<1>2. CoverInv /\ [Next]_vars => CoverInv'
  <2>1. ASSUME CoverInv, UNCHANGED vars PROVE CoverInv'
    <3>1. PlicInv'
      BY <2>1 DEF CoverInv, vars, regs, track, PlicInv, RegsOK, ThreadsOK, AtOK, ClaimedOnce
    <3> QED
      BY <2>1, <3>1, CoverUnchanged DEF CoverInv, vars, regs, track
  <2> QED
    BY <2>1, CoverInvStep
<1>3. CoverInv => PendingSignalled
  <2> SUFFICES ASSUME CoverInv, Quiet, NEW i \in pending, Takers(i) # {}
               PROVE  Takers(i) \cap line # {}
    BY Zenon DEF PendingSignalled
  <2>1. \A t \in Threads : \A c : ~Covers(at[t], i, c)
    BY IdleCoversNothing DEF Quiet
  <2> QED
    BY <2>1, Zenon DEF CoverInv, PendingCovered
<1> QED
  BY <1>1, <1>2, <1>3, PTL DEF Spec
===============================================================================
