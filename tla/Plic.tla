--------------------------------- MODULE Plic ---------------------------------
(***************************************************************************)
(* The platform-level interrupt controller, which routes the interrupts of *)
(* devices to the external interrupt line of hart contexts                 *)
(* (src/rvvm/src/devices/riscv-plic.c).                                    *)
(*                                                                         *)
(* There is no lock: device threads raise, lower and send interrupts while *)
(* hart threads, through MMIO, write priorities, enable bits, thresholds   *)
(* and claim and complete interrupts.  One action is one access to an      *)
(* atomic.  All sources are in one register of 32 bits, of two, and        *)
(* workaround_intx_storm is off, its default, so plic_update does nothing. *)
(***************************************************************************)
EXTENDS Integers, FiniteSets, FiniteSetsExt

CONSTANTS
  Harts,             \* threads that access the registers
  Devices,           \* threads that raise interrupts
  CtxCount,          \* plic_ctx_count
  Irqs,              \* interrupt sources, from 1
  Prios,             \* priorities and thresholds guests write
  Guests             \* what guests do: see GuestAssumption

Threads == Harts \cup Devices
Ctxs    == 0..CtxCount - 1

ASSUME PlicAssumption ==
  /\ IsFiniteSet(Threads) /\ Harts \cap Devices = {}
  /\ CtxCount \in Nat \ {0}
  /\ IsFiniteSet(Irqs) /\ Irqs \subseteq 1..31
  /\ Prios \subseteq Nat /\ 0 \in Prios

(* Some context takes interrupts from i, and another one too.              *)
Shares(routes, i) ==
  \E c, d \in Ctxs : c # d /\ {<<c, i>>, <<d, i>>} \subseteq routes

(* A guest runs on some harts, enables interrupts along its routes, and    *)
(* may write thresholds, mask interrupts by disabling them or lowering     *)
(* their priority, or stray: complete interrupts that nobody claimed.  It  *)
(* writes thresholds only with a single hart, and does none of the three   *)
(* when it shares an interrupt between contexts: the code loses interrupts *)
(* otherwise (see the README).                                             *)
ASSUME GuestAssumption ==
  \A g \in Guests :
    /\ g \in [harts : SUBSET Harts, routes : SUBSET (Ctxs \X Irqs),
              thresholds : BOOLEAN, masks : BOOLEAN, strays : BOOLEAN]
    /\ g.thresholds => Cardinality(g.harts) = 1
    /\ (g.thresholds \/ g.masks \/ g.strays) => \A i \in Irqs : ~Shares(g.routes, i)

VARIABLES
  prio, threshold,   \* of each interrupt, of each context
  enable,            \* interrupts enabled for each context
  pending, raised,   \* sets of interrupts
  line,              \* contexts whose external interrupt line is set
  at,                \* per thread: where it is and its locals
  guest,             \* the guest that runs; does not change
  service,           \* <<ctx, irq>>: claimed and not completed yet
  credit             \* per interrupt: times it became pending less claims

regs  == <<prio, threshold, enable>>
track == <<guest, service, credit>>
vars  == <<regs, pending, raised, line, at, track>>

(* A thread at `pc`, called in a way `mode`, with its locals.              *)
Doing(pc, mode, ctx, irq) ==
  [pc |-> pc, mode |-> mode, ctx |-> ctx, irq |-> irq,
   irqs |-> {}, low |-> 0, max |-> 0, best |-> 0, count |-> 0]

Idle == Doing("idle", "none", 0, 0)

Init ==
  /\ prio = [i \in Irqs |-> 0]
  /\ threshold = [c \in Ctxs |-> 0]
  /\ enable = [c \in Ctxs |-> {}]
  /\ pending = {}
  /\ raised = {}
  /\ line = {}
  /\ at = [t \in Threads |-> Idle]
  /\ guest \in Guests
  /\ service = {}
  /\ credit = [i \in Irqs |-> 0]

Become(t, state)  == at' = [at EXCEPT ![t] = state]
Move(t, from, to) == at[t].pc = from /\ Become(t, [at[t] EXCEPT !.pc = to])

(* Interrupt i becomes pending.                                            *)
Pend(i) ==
  /\ pending' = pending \cup {i}
  /\ credit' = [credit EXCEPT ![i] = IF i \in pending THEN @ ELSE @ + 1]

-----------------------------------------------------------------------------
(* plic_notify_irq and plic_notify_ctx_irq                                 *)

(* The state of a thread that has handled one interrupt of                 *)
(* plic_update_ctx_irq_reg ...                                             *)
NextIrq(s) ==
  IF s.irqs = {} THEN Idle
  ELSE [s EXCEPT !.pc = "i_pending", !.ctx = 0, !.max = 0,
                 !.irq = Min(s.irqs), !.irqs = @ \ {Min(s.irqs)}]

(* ... that has notified, and that could not notify this context.          *)
Notified(s) == IF s.mode = "reg" THEN NextIrq(s) ELSE Idle
Refused(s)  == IF s.mode # "one" /\ s.ctx + 1 \in Ctxs
               THEN [s EXCEPT !.pc = "n_enable", !.ctx = @ + 1, !.max = 0]
               ELSE Notified(s)

(* "Can we deliver this IRQ to this CTX?"                                  *)
NotifyEnabled(t) ==
  LET s == at[t]
  IN  /\ s.pc = "n_enable"
      /\ Become(t, IF s.irq \in enable[s.ctx] THEN [s EXCEPT !.pc = "n_prio"]
                   ELSE Refused(s))
      /\ UNCHANGED <<regs, pending, raised, line, track>>

NotifyPrio(t) ==
  /\ at[t].pc = "n_prio"
  /\ Become(t, [at[t] EXCEPT !.pc = "n_threshold", !.max = prio[at[t].irq]])
  /\ UNCHANGED <<regs, pending, raised, line, track>>

NotifyThreshold(t) ==
  LET s == at[t]
  IN  /\ s.pc = "n_threshold"
      /\ Become(t, IF s.max <= threshold[s.ctx] THEN Refused(s)
                   ELSE [s EXCEPT !.pc = "n_line"])
      /\ UNCHANGED <<regs, pending, raised, line, track>>

(* riscv_interrupt                                                         *)
NotifyLine(t) ==
  /\ at[t].pc = "n_line"
  /\ line' = line \cup {at[t].ctx}
  /\ Become(t, Notified(at[t]))
  /\ UNCHANGED <<regs, pending, raised, track>>

(* plic_update_irq                                                         *)
UpdateIrq(t) ==
  LET s == at[t]
  IN  /\ s.pc = "i_pending"
      /\ Become(t, IF s.irq \in pending THEN [s EXCEPT !.pc = "n_enable"]
                   ELSE Notified(s))
      /\ UNCHANGED <<regs, pending, raised, line, track>>

-----------------------------------------------------------------------------
(* plic_update_ctx: for one context, for all of them, or to claim          *)

UpdateFrom(c, mode) == Doing("u_threshold", mode, c, 0)
FullUpdate          == UpdateFrom(0, "full")

UpdateThreshold(t) ==
  /\ at[t].pc = "u_threshold"
  /\ Become(t, [at[t] EXCEPT !.pc = "u_clear", !.low = threshold[at[t].ctx]])
  /\ UNCHANGED <<regs, pending, raised, line, track>>

(* riscv_interrupt_clear                                                   *)
UpdateClear(t) ==
  /\ Move(t, "u_clear", "u_pending")
  /\ line' = line \ {at[t].ctx}
  /\ UNCHANGED <<regs, pending, raised, track>>

UpdatePending(t) ==
  /\ at[t].pc = "u_pending"
  /\ Become(t, [at[t] EXCEPT !.pc = "u_enable", !.irqs = pending])
  /\ UNCHANGED <<regs, pending, raised, line, track>>

(* What follows the update of a context ...                                *)
Updated(s) ==
  CASE s.mode = "claim" /\ s.best # 0 ->
         Doing("c_pending", "claim", s.ctx, s.best)
    [] s.mode = "full" /\ s.ctx + 1 \in Ctxs -> UpdateFrom(s.ctx + 1, "full")
    [] OTHER -> Idle

(* ... and the scan of its interrupts: "Don't count the to-be-claimed IRQ  *)
(* as notifying".                                                          *)
Scanned(s) ==
  LET notifying == IF s.mode = "claim" /\ s.max > s.low THEN s.count - 1 ELSE s.count
  IN  IF notifying = 0 THEN Updated(s)
      ELSE [Doing("u_line", s.mode, s.ctx, 0) EXCEPT !.best = s.best]

UpdateEnable(t) ==
  LET s == at[t]
      irqs == s.irqs \cap enable[s.ctx]
      found == [s EXCEPT !.pc = "u_prio", !.irqs = irqs]
  IN  /\ s.pc = "u_enable"
      /\ Become(t, IF irqs = {} THEN Scanned(found) ELSE found)
      /\ UNCHANGED <<regs, pending, raised, line, track>>

(* Slip: off by one at the threshold.                                      *)
UpdatePrio_OffByOne(t) ==
  LET s == at[t]
      i == Min(s.irqs)
      next == [s EXCEPT !.irqs = @ \ {i},
                        !.count = IF prio[i] > s.low + 1 THEN @ + 1 ELSE @,
                        !.max = IF prio[i] > @ THEN prio[i] ELSE @,
                        !.best = IF prio[i] > s.max THEN i ELSE @]
  IN  /\ s.pc = "u_prio"
      /\ Become(t, IF next.irqs = {} THEN Scanned(next) ELSE next)
      /\ UNCHANGED <<regs, pending, raised, line, track>>

(* Count interrupts above the threshold, find the one of highest priority. *)
UpdatePrio(t) ==
  LET s == at[t]
      i == Min(s.irqs)
      next == [s EXCEPT !.irqs = @ \ {i},
                        !.count = IF prio[i] > s.low THEN @ + 1 ELSE @,
                        !.max = IF prio[i] > @ THEN prio[i] ELSE @,
                        !.best = IF prio[i] > s.max THEN i ELSE @]
  IN  /\ s.pc = "u_prio"
      /\ Become(t, IF next.irqs = {} THEN Scanned(next) ELSE next)
      /\ UNCHANGED <<regs, pending, raised, line, track>>

(* riscv_interrupt                                                         *)
UpdateLine(t) ==
  /\ at[t].pc = "u_line"
  /\ line' = line \cup {at[t].ctx}
  /\ Become(t, Updated(at[t]))
  /\ UNCHANGED <<regs, pending, raised, track>>

-----------------------------------------------------------------------------
(* plic_mmio_write, plic_mmio_read                                         *)

(* plic_set_irq_prio                                                       *)
SetPrio(t, i, p) ==
  /\ at[t].pc = "idle"
  /\ p # prio[i] /\ (p < prio[i] => guest.masks)
  /\ prio' = [prio EXCEPT ![i] = p]
  /\ Become(t, Doing(IF p < prio[i] THEN "p_pending" ELSE "i_pending", "any", 0, i))
  /\ UNCHANGED <<threshold, enable, pending, raised, line, track>>

(* Priority lowered, or interrupt disabled: if pending, update entirely.   *)
SetCeased(t) ==
  /\ at[t].pc = "p_pending"
  /\ Become(t, IF at[t].irq \in pending THEN FullUpdate ELSE Idle)
  /\ UNCHANGED <<regs, pending, raised, line, track>>

(* plic_set_enable_bits that clears a bit ...                              *)
Disable(t, c, i) ==
  /\ at[t].pc = "idle"
  /\ guest.masks /\ i \in enable[c]
  /\ enable' = [enable EXCEPT ![c] = @ \ {i}]
  /\ Become(t, Doing("p_pending", "any", 0, i))
  /\ UNCHANGED <<prio, threshold, pending, raised, line, track>>

(* ... and one that sets a bit: plic_update_ctx_irq_reg.                   *)
Enable(t, c, i) ==
  /\ at[t].pc = "idle"
  /\ <<c, i>> \in guest.routes /\ i \notin enable[c]
  /\ enable' = [enable EXCEPT ![c] = @ \cup {i}]
  /\ Become(t, Doing("r_pending", "reg", c, 0))
  /\ UNCHANGED <<prio, threshold, pending, raised, line, track>>

RegPending(t) ==
  /\ at[t].pc = "r_pending"
  /\ Become(t, [at[t] EXCEPT !.pc = "r_enable", !.irqs = pending])
  /\ UNCHANGED <<regs, pending, raised, line, track>>

(* If any is pending and enabled, every interrupt of the register is       *)
(* looked at.                                                              *)
RegEnable(t) ==
  LET s == at[t]
  IN  /\ s.pc = "r_enable"
      /\ Become(t, IF s.irqs \cap enable[s.ctx] = {} THEN Idle
                   ELSE NextIrq([s EXCEPT !.irqs = Irqs]))
      /\ UNCHANGED <<regs, pending, raised, line, track>>

(* plic_set_ctx_threshold                                                  *)
SetThreshold(t, c, p) ==
  /\ at[t].pc = "idle"
  /\ guest.thresholds /\ p # threshold[c]
  /\ threshold' = [threshold EXCEPT ![c] = p]
  /\ Become(t, UpdateFrom(c, "ctx"))
  /\ UNCHANGED <<prio, enable, pending, raised, line, track>>

(* plic_claim_irq: update the context to find the interrupt ...            *)
Claim(t, c) ==
  /\ at[t].pc = "idle"
  /\ Become(t, [Doing("u_clear", "claim", c, 0) EXCEPT !.low = threshold[c]])
  /\ UNCHANGED <<regs, pending, raised, line, track>>

(* Slip: the claim does not look whether the interrupt was still pending.  *)
ClaimPending_Unchecked(t) ==
  LET s == at[t]
  IN  /\ s.pc = "c_pending"
      /\ pending' = pending \ {s.irq}
      /\ service' = service \cup {<<s.ctx, s.irq>>}
      /\ credit' = [credit EXCEPT ![s.irq] = @ - 1]
      /\ Become(t, Idle)
      /\ UNCHANGED <<regs, raised, line, guest>>

(* ... and clear its pending bit, or retry if someone stole it.            *)
ClaimPending(t) ==
  LET s == at[t]
      stolen == s.irq \notin pending
  IN  /\ s.pc = "c_pending"
      /\ pending' = pending \ {s.irq}
      /\ service' = IF stolen THEN service ELSE service \cup {<<s.ctx, s.irq>>}
      /\ credit' = [credit EXCEPT ![s.irq] = IF stolen THEN @ ELSE @ - 1]
      /\ Become(t, IF stolen THEN UpdateFrom(s.ctx, "claim") ELSE Idle)
      /\ UNCHANGED <<regs, raised, line, guest>>

(* Slip: an interrupt that is still raised is forgotten.                   *)
Complete_Forget(t, c, i) ==
  /\ at[t].pc = "idle"
  /\ <<c, i>> \in service \/ (guest.strays /\ <<c, i>> \in guest.routes)
  /\ service' = service \ {<<c, i>>}
  /\ UNCHANGED <<regs, pending, raised, line, at, guest, credit>>

(* plic_complete_irq, which does not ask whether the interrupt was claimed *)
Complete(t, c, i) ==
  /\ at[t].pc = "idle"
  /\ <<c, i>> \in service \/ (guest.strays /\ <<c, i>> \in guest.routes)
  /\ service' = service \ {<<c, i>>}
  /\ Become(t, IF i \in raised
               THEN Doing("f_pending", "one", c, i) ELSE Idle)
  /\ UNCHANGED <<regs, pending, raised, line, guest, credit>>

(* Slip: nobody is told of the rearmed interrupt.                          *)
CompletePending_Silent(t) ==
  /\ at[t].pc = "f_pending"
  /\ Become(t, Idle)
  /\ Pend(at[t].irq)
  /\ UNCHANGED <<regs, raised, line, guest, service>>

(* Rearm a raised interrupt as pending after completion.                   *)
CompletePending(t) ==
  /\ Move(t, "f_pending", "n_enable")
  /\ Pend(at[t].irq)
  /\ UNCHANGED <<regs, raised, line, guest, service>>

-----------------------------------------------------------------------------
(* plic_send_irq, plic_raise_irq, plic_lower_irq                           *)

(* Mark the interrupt pending; only who newly does it notifies.            *)
MarkPending(t, i) ==
  /\ Pend(i)
  /\ Become(t, IF i \in pending THEN Idle ELSE Doing("n_enable", "any", 0, i))
  /\ UNCHANGED <<regs, raised, line, guest, service>>

SendIrq(t, i) ==
  /\ at[t].pc = "idle"
  /\ MarkPending(t, i)

RaiseIrq(t, i) ==
  /\ at[t].pc = "idle"
  /\ i \notin raised
  /\ raised' = raised \cup {i}
  /\ Become(t, Doing("s_pending", "any", 0, i))
  /\ UNCHANGED <<regs, pending, line, track>>

RaisePending(t) ==
  /\ at[t].pc = "s_pending"
  /\ MarkPending(t, at[t].irq)

LowerIrq(t, i) ==
  /\ at[t].pc = "idle"
  /\ i \in raised
  /\ raised' = raised \ {i}
  /\ UNCHANGED <<regs, pending, line, at, track>>

(* plic_reset: the harts are stopped, devices need not be.                 *)
Reset ==
  /\ \A h \in Harts : at[h].pc = "idle"
  /\ prio' = [i \in Irqs |-> 0]
  /\ threshold' = [c \in Ctxs |-> 0]
  /\ enable' = [c \in Ctxs |-> {}]
  /\ pending' = {}
  /\ raised' = {}
  /\ line' = {}
  /\ service' = {}
  /\ credit' = [i \in Irqs |-> 0]
  /\ UNCHANGED <<at, guest>>

-----------------------------------------------------------------------------
Step(t) ==
  \/ NotifyEnabled(t) \/ NotifyPrio(t) \/ NotifyThreshold(t) \/ NotifyLine(t)
  \/ UpdateIrq(t) \/ UpdateThreshold(t) \/ UpdateClear(t) \/ UpdatePending(t)
  \/ UpdateEnable(t) \/ UpdatePrio(t) \/ UpdateLine(t)
  \/ SetCeased(t) \/ RegPending(t) \/ RegEnable(t)
  \/ ClaimPending(t) \/ CompletePending(t) \/ RaisePending(t)

(* Interrupts the guest and its devices use.                               *)
Used == {route[2] : route \in guest.routes}

Access(h) ==
  \/ \E i \in Used, p \in Prios : SetPrio(h, i, p)
  \/ \E c \in Ctxs, p \in Prios : SetThreshold(h, c, p)
  \/ \E c \in Ctxs, i \in Used : Enable(h, c, i) \/ Disable(h, c, i) \/ Complete(h, c, i)
  \/ \E c \in Ctxs : Claim(h, c)

Next ==
  \/ \E t \in Threads : Step(t)
  \/ \E h \in Harts : h \in guest.harts /\ Access(h)
  \/ \E d \in Devices, i \in Used : SendIrq(d, i) \/ RaiseIrq(d, i) \/ LowerIrq(d, i)
  \/ Reset

Spec == Init /\ [][Next]_vars
-----------------------------------------------------------------------------
(* Every variable stays in its range; the count of notifying interrupts    *)
(* does not underflow when the claimed one is subtracted.                  *)
TypeOK ==
  /\ prio \in [Irqs -> Prios] /\ threshold \in [Ctxs -> Prios]
  /\ enable \in [Ctxs -> SUBSET Irqs]
  /\ pending \subseteq Irqs /\ raised \subseteq Irqs /\ line \subseteq Ctxs
  /\ \A t \in Threads :
       /\ at[t].ctx \in Ctxs /\ at[t].irqs \subseteq Irqs
       /\ at[t].irq \in Irqs \cup {0} /\ at[t].best \in Irqs \cup {0}
       /\ (at[t].mode = "claim" /\ at[t].max > at[t].low) => at[t].count > 0
  /\ guest \in Guests /\ service \subseteq Ctxs \X Irqs
  /\ credit \in [Irqs -> Int]

Quiet == \A t \in Threads : at[t].pc = "idle"

(* Contexts that take interrupt i.                                         *)
Takers(i) == {c \in Ctxs : i \in enable[c] /\ prio[i] > threshold[c]}

(* Once all accesses are through, an interrupt that is pending and that    *)
(* some context takes is signalled to one that takes it: raising, enabling *)
(* and raising priorities notify enough, and an update that clears a line  *)
(* for another interrupt, or to claim one, does not wipe it out.           *)
PendingSignalled ==
  Quiet => \A i \in pending : Takers(i) # {} => Takers(i) \cap line # {}

(* Once all accesses are through, an interrupt that a device holds raised  *)
(* is pending, or a hart that claimed it has still to complete it.         *)
RaisedKept ==
  Quiet => \A i \in raised : i \in pending \/ \E claim \in service : claim[2] = i

(* The inductive form of RaisedKept: somebody is about to pend it.         *)
RaisedCovered ==
  \A i \in raised :
    \/ i \in pending
    \/ \E claim \in service : claim[2] = i
    \/ \E t \in Threads : at[t].pc \in {"s_pending", "f_pending"} /\ at[t].irq = i

(* Every time an interrupt becomes pending it is claimed once, by one      *)
(* hart, or stays pending.                                                 *)
ClaimedOnce == \A i \in Irqs : credit[i] = IF i \in pending THEN 1 ELSE 0
===============================================================================
