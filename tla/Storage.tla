-------------------------------- MODULE Storage --------------------------------
(***************************************************************************)
(* A guest's disk from end to end: the NVMe controller (Nvme) tells the    *)
(* guest of completions by messages to a hart's interrupt file (Imsic).    *)
(*                                                                         *)
(* The guest is a driver as the controller expects one.  One hart places   *)
(* commands and rings the submission queue's doorbell, another handles the *)
(* interrupt: it claims it, consumes entries while their phase is the one  *)
(* it expects, and rings the completion queue's doorbell.  A command's     *)
(* slot is not used again while the command is outstanding, because the    *)
(* controller reads the slot until it completes it; after it has unmasked  *)
(* the vector the guest looks at the queue, because a worker may set the   *)
(* pending bit too late.                                                   *)
(***************************************************************************)
EXTENDS Nvme, Imsic

CONSTANTS
  Other,             \* another device that sends messages to this hart
  NvmeId, OtherId,   \* the identities in the messages
  Guests             \* drivers: commands at a time, what else they do

ASSUME StorageAssumption ==
  /\ Senders = Runners \cup {Handler, Other}
  /\ Other \notin Runners \cup {Handler}
  /\ Tags \subseteq Nat
  /\ Guests \subseteq [depth : Nat, does : SUBSET {"mask", "share", "reset"}]
  /\ NvmeId \in Steady /\ OtherId \in Ids /\ OtherId # NvmeId

VARIABLES
  guest,             \* the driver at hand, fixed
  out,               \* commands the guest waits for
  next,              \* the slot to fill next
  head, phase,       \* the entry the guest looks at next and its phase
  isr                \* the handler's hart, between its device accesses

driverVars == <<out, next>>
guestVars  == <<guest, driverVars, head, phase, isr>>
vars == <<nvmeVars, irqVars, guestVars>>

Init ==
  /\ NvmeInit /\ ImsicInit
  /\ guest \in Guests
  /\ out = {} /\ next = 0
  /\ head = 0 /\ phase = 1
  /\ isr = "idle"

-----------------------------------------------------------------------------
(* The driver                                                              *)

(* A command with the first free tag in the next free slot.                *)
Place ==
  /\ door.at = "idle"
  /\ Cardinality(out) < guest.depth /\ sqMem[next] = None
  /\ \E c \in Tags \ out :
       /\ \A d \in Tags \ out : c <= d
       /\ sqMem' = [sqMem EXCEPT ![next] = c]
       /\ out' = out \cup {c}
  /\ next' = Wrap(next, SqSize)
  /\ UNCHANGED <<cqMem, sq, cq, doorVars, run, msixVars, bell, irqVars, guest, head, phase, isr>>

RingSq ==
  /\ next # sq.tail
  /\ SqDoorbell(next)
  /\ UNCHANGED <<irqVars, guestVars>>

ResetCtrl == "reset" \in guest.does /\ ResetBegin /\ UNCHANGED <<irqVars, guestVars>>

(* The handler is not inside its interrupt when the queues come back.      *)
RecreateQueues ==
  /\ isr = "idle" /\ bell = "idle"
  /\ Recreate
  /\ out' = {} /\ next' = 0
  /\ head' = 0 /\ phase' = 1
  /\ UNCHANGED <<irqVars, guest, isr>>

-----------------------------------------------------------------------------
(* The handler                                                             *)

Rested == isr = "idle" /\ bell = "idle"

TakeIrq ==
  /\ Rested /\ line
  /\ TopeiAccess
  /\ isr' = "topei"
  /\ UNCHANGED <<nvmeVars, guest, driverVars, head, phase>>

(* The instruction that scanned is over: an NVMe interrupt was claimed, or *)
(* another one, or none.                                                   *)
Claimed ==
  /\ isr' = IF isr = "topei" /\ scan.ret = NvmeId THEN "poll" ELSE "idle"
  /\ ScanReturn
  /\ UNCHANGED <<nvmeVars, guest, driverVars, head, phase>>

(* The next entry has the expected phase: its command is complete.  What   *)
(* is left of it in both queues, but the phase, means nothing any more.    *)
Consume ==
  /\ isr = "poll" /\ bell = "idle"
  /\ cqMem[head].phase = phase
  /\ out' = out \ {cqMem[head].cid}
  /\ sqMem' = [i \in Slots |-> IF sqMem[i] = cqMem[head].cid THEN None ELSE sqMem[i]]
  /\ cqMem' = [cqMem EXCEPT ![head].cid = None]
  /\ head' = Wrap(head, CqSize)
  /\ phase' = IF head < CqSize THEN phase ELSE 1 - phase
  /\ UNCHANGED <<sq, cq, doorVars, run, msixVars, bell, irqVars, guest, next, isr>>

(* No more entries: tell the controller of those consumed.                 *)
PollEnd ==
  /\ isr = "poll" /\ bell = "idle"
  /\ cqMem[head].phase # phase
  /\ isr' = "idle"
  /\ IF head # cq.head THEN CqDoorbell(head) ELSE UNCHANGED nvmeVars
  /\ UNCHANGED <<irqVars, guest, driverVars, head, phase>>

(* An interrupt that the guest has disabled: it masks the vector and looks *)
(* at the queue when it unmasks it.                                        *)
MaskVector ==
  /\ "mask" \in guest.does /\ isr = "topei" /\ scan.ret = NvmeId
  /\ Mask /\ ScanReturn
  /\ isr' = "idle"
  /\ UNCHANGED <<guest, driverVars, head, phase>>

(* The message, if one is pending, is sent again.                          *)
UnmaskVector ==
  /\ Rested /\ Unmask
  /\ IF pending THEN SendBegin(Handler, NvmeId) ELSE UNCHANGED irqVars
  /\ isr' = "poll"
  /\ UNCHANGED <<guest, driverVars, head, phase>>

(* The guest enables or disables the other device's interrupt.             *)
SwitchOther ==
  /\ "share" \in guest.does /\ Rested /\ EieWrite(OtherId)
  /\ isr' = "eie"
  /\ UNCHANGED <<nvmeVars, guest, driverVars, head, phase>>

OtherSends == "share" \in guest.does /\ SendBegin(Other, OtherId) /\ UNCHANGED <<nvmeVars, guestVars>>

-----------------------------------------------------------------------------
(* Messages tie the controller to the interrupt file.                      *)
SendMsi(t) == RaiseMsi(t) /\ SendBegin(t, NvmeId) /\ UNCHANGED guestVars
CommandEnd(t) == Finish(t) /\ send[t] = NotSending /\ UNCHANGED <<irqVars, guestVars>>
UnmaskEnd == ResendEnd /\ send[Handler] = NotSending /\ UNCHANGED <<irqVars, guestVars>>

(* What each thread does without a choice, in the order of its program.    *)
SendStep(t) == Sending(t) /\ UNCHANGED <<nvmeVars, guestVars>>
CommandStep(t) ==
  \/ /\ Enqueue(t) \/ WriteEntry(t) \/ RaiseMasked(t) \/ SetPending(t)
     /\ UNCHANGED <<irqVars, guestVars>>
  \/ SendMsi(t)
  \/ SendStep(t)
  \/ CommandEnd(t)
WorkerStep(w) == CommandStep(w) \/ (TakeTask(w) /\ UNCHANGED <<irqVars, guestVars>>)
DriverStep ==
  \/ (Dequeue \/ CreateTask \/ ResetQueues) /\ UNCHANGED <<irqVars, guestVars>>
  \/ CommandStep(Driver)
  \/ RecreateQueues
HandlerStep ==
  \/ CqLower /\ UNCHANGED <<irqVars, guestVars>>
  \/ SendStep(Handler)
  \/ UnmaskEnd
  \/ Scanning /\ UNCHANGED <<nvmeVars, guestVars>>
  \/ Claimed
  \/ Consume
  \/ PollEnd

Next ==
  \/ \E w \in Workers : WorkerStep(w)
  \/ DriverStep
  \/ HandlerStep
  \/ SendStep(Other)
  \/ Place \/ RingSq \/ ResetCtrl
  \/ TakeIrq \/ MaskVector \/ UnmaskVector \/ SwitchOther
  \/ OtherSends

Spec == Init /\ [][Next]_vars

(* Harts, workers and the other device run.  The driver rings the doorbell *)
(* for what it has placed; the handler's hart does not keep its interrupts *)
(* off or the vector masked for good, however much else it does.           *)
FairSpec ==
  /\ Spec
  /\ \A w \in Workers : WF_vars(WorkerStep(w))
  /\ WF_vars(DriverStep) /\ WF_vars(HandlerStep) /\ WF_vars(SendStep(Other))
  /\ WF_vars(RingSq) /\ SF_vars(TakeIrq) /\ SF_vars(UnmaskVector)

-----------------------------------------------------------------------------
(* Every variable stays in its range; the number of commands under way is  *)
(* never negative.                                                         *)
TypeOK ==
  /\ NvmeTypeOK /\ ImsicTypeOK
  /\ guest \in Guests /\ out \subseteq Tags /\ next \in Slots
  /\ head \in Entries /\ phase \in {0, 1}
  /\ isr \in {"idle", "topei", "eie", "poll"}

(* Reserved entries, those written that the guest has not seen, ...        *)
Reserved == Between(head, cq.tail, CqSize)
Expected(i) == IF i >= head THEN phase ELSE 1 - phase
Visible == {i \in Reserved : cqMem[i].phase = Expected(i)}
(* ... and how often command c is on its way: placed, with the pool, in a  *)
(* thread's hands or in an entry the guest has still to see.               *)
Places(c) ==
  Cardinality({i \in Between(sq.head, next, SqSize) : sqMem[i] = c})
  + Cardinality({i \in 1..Len(tasks) : sqMem[tasks[i]] = c})
  + (IF door.at = "task" /\ sqMem[door.slot] = c THEN 1 ELSE 0)
  + Cardinality({t \in InHand : sqMem[run[t].slot] = c})
  + Cardinality({i \in Visible : cqMem[i].cid = c})

(* No command is lost or completed twice, however many workers complete at *)
(* once and whatever the order in which they fill the entries they have    *)
(* reserved: a command the guest waits for is in exactly one place, any    *)
(* other in none, and an entry without its phase has a thread to write it. *)
CommandsConserved ==
  door.at # "disabled" =>
    /\ \A c \in Tags : Places(c) = IF c \in out THEN 1 ELSE 0
    /\ \A i \in Reserved \ Visible :
         \E t \in Runners : run[t].at = "write" /\ run[t].entry = i

(* A thread that has written an entry and has still to tell the guest.     *)
Telling ==
  \/ \E t \in Runners : run[t].at \in {"raise", "pend"}
  \/ \E t \in Senders : send[t].at # "idle" /\ send[t].id = NvmeId

(* A completion at the head of the queue does not go unnoticed: unless the *)
(* vector is masked or the guest is about to look, the interrupt is        *)
(* pending and covered, or some thread is still to send it.  The claim of  *)
(* another device's interrupt, a write to eie and the reset of the line in *)
(* between do not lose it.                                                 *)
CompletionNoticed ==
  (head \in Visible /\ ~masked /\ isr # "poll")
    => \/ Telling
       \/ NvmeId \in eip /\ Covered(NvmeId)
       \/ isr = "topei" /\ scan.ret = NvmeId

(* The controller's queues are reset only when no thread uses them.        *)
ResetQuiet ==
  door.at = "disabled" =>
    tasks = <<>> /\ \A t \in Runners : run[t] = Resting

(* A command that was placed is completed, or given up by a reset.         *)
CommandsComplete == \A c \in Tags : (c \in out) ~> (c \notin out)
================================================================================
