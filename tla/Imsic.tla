-------------------------------- MODULE Imsic --------------------------------
(***************************************************************************)
(* A hart's interrupt file for message-signalled interrupts                *)
(* (riscv_send_aia_irq and riscv_update_aia_internal in                    *)
(* src/rvvm/src/riscv_hart.c, the CSRs that call it in riscv_csr.c).       *)
(*                                                                         *)
(* Any thread sends a message; the hart scans and claims in an             *)
(* instruction of its own.  Nothing is locked: one action is one access to *)
(* eip or to the hart's external interrupt line.  Delivery is on and the   *)
(* threshold is zero, as guests leave them; only the hart writes eie.      *)
(***************************************************************************)
EXTENDS Integers

CONSTANTS
  Senders,           \* threads that write to the IMSIC's page
  Ids,               \* interrupt identities
  Width, LastReg,    \* identities per register; the last register
  Steady             \* identities the guest does not mask while in use

ASSUME ImsicAssumption ==
  /\ Width \in Nat \ {0} /\ LastReg \in Nat
  /\ \A id \in Ids : id \in Nat \ {0} /\ id \div Width \in 0..LastReg
  /\ Steady \subseteq Ids

VARIABLES
  eip, eie,          \* identities that are pending, enabled
  line,              \* the external interrupt's bit in pending_irqs
  send,              \* per sender: where it is, its identity, the eie it saw
  scan               \* the hart in riscv_update_aia_internal

irqVars == <<eip, eie, line, send, scan>>

Reg(id) == id \div Width
NotSending  == [at |-> "idle", id |-> 0, enabled |-> FALSE]
NotScanning == [at |-> "idle", claim |-> FALSE, reg |-> 0, ret |-> 0, more |-> FALSE]

ImsicInit ==
  /\ eip = {} /\ eie = Ids /\ line = FALSE
  /\ send = [t \in Senders |-> NotSending]
  /\ scan = NotScanning

-----------------------------------------------------------------------------
(* riscv_send_aia_irq: load eie, set the bit in eip, tell the hart if the  *)
(* identity is enabled and was not pending.                                *)
SendBegin(t, id) ==
  /\ send[t] = NotSending
  /\ send' = [send EXCEPT ![t] = [at |-> "set", id |-> id, enabled |-> id \in eie]]
  /\ UNCHANGED <<eip, eie, line, scan>>

(* Slip: the hart is told only of the first pending identity.              *)
SendSet_FirstOnly(t) ==
  /\ send[t].at = "set"
  /\ eip' = eip \cup {send[t].id}
  /\ send' = [send EXCEPT ![t] =
                IF @.enabled /\ eip = {} THEN [@ EXCEPT !.at = "signal"] ELSE NotSending]
  /\ UNCHANGED <<eie, line, scan>>

SendSet(t) ==
  /\ send[t].at = "set"
  /\ eip' = eip \cup {send[t].id}
  /\ send' = [send EXCEPT ![t] =
                IF @.enabled /\ @.id \notin eip THEN [@ EXCEPT !.at = "signal"]
                                                ELSE NotSending]
  /\ UNCHANGED <<eie, line, scan>>

SendSignal(t) ==
  /\ send[t].at = "signal"
  /\ line' = TRUE
  /\ send' = [send EXCEPT ![t] = NotSending]
  /\ UNCHANGED <<eip, eie, scan>>

-----------------------------------------------------------------------------
(* A write to eie enables or disables an identity and updates the line;    *)
(* an access to topei updates it too and claims what it returns.           *)
EieWrite(id) ==
  /\ id \in Ids \ Steady
  /\ scan = NotScanning
  /\ scan' = [NotScanning EXCEPT !.at = "clear"]
  /\ eie' = (eie \ {id}) \cup ({id} \ eie)
  /\ UNCHANGED <<eip, line, send>>

TopeiAccess ==
  /\ scan = NotScanning
  /\ line' = FALSE
  /\ scan' = [NotScanning EXCEPT !.at = "scan", !.claim = TRUE]
  /\ UNCHANGED <<eip, eie, send>>

(* riscv_update_aia_internal: take the line down, then look.               *)
ScanClear ==
  /\ scan.at = "clear"
  /\ line' = FALSE
  /\ scan' = [scan EXCEPT !.at = "scan"]
  /\ UNCHANGED <<eip, eie, send>>

(* To the next register, or return what was claimed.                       *)
Returning(s) == [NotScanning EXCEPT !.at = "return", !.ret = IF s.claim THEN s.ret ELSE 0]
Advance(s) ==
  IF s.reg < LastReg THEN [s EXCEPT !.at = "scan", !.reg = @ + 1] ELSE Returning(s)

(* One register: the largest identity in it is the one to return; a second *)
(* one anywhere means that the line has to go up again.                    *)
ScanRegister ==
  /\ scan.at = "scan"
  /\ LET bits == {id \in eip \cap eie : Reg(id) = scan.reg}
     IN  \/ bits = {} /\ scan' = Advance(scan)
         \/ bits # {} /\ scan.ret # 0 /\ scan' = [scan EXCEPT !.at = "signal"]
         \/ /\ scan.ret = 0
            /\ \E irq \in bits :
                 /\ \A id \in bits : id <= irq
                 /\ scan' = [scan EXCEPT !.ret = irq,
                                        !.more = scan.claim /\ bits # {irq},
                                        !.at = IF scan.claim THEN "claim" ELSE "signal"]
  /\ UNCHANGED <<eip, eie, line, send>>

(* Slip: the line is taken down with the claim.                            *)
ScanClaim_LateClear ==
  /\ scan.at = "claim"
  /\ eip' = eip \ {scan.ret}
  /\ line' = FALSE
  /\ scan' = IF scan.more THEN [scan EXCEPT !.at = "signal", !.more = FALSE] ELSE Advance(scan)
  /\ UNCHANGED <<eie, send>>

(* Claim: the bit goes, whoever may have set it again meanwhile.           *)
ScanClaim ==
  /\ scan.at = "claim"
  /\ eip' = eip \ {scan.ret}
  /\ scan' = IF scan.more THEN [scan EXCEPT !.at = "signal", !.more = FALSE] ELSE Advance(scan)
  /\ UNCHANGED <<eie, line, send>>

(* Additional interrupts are pending.                                      *)
ScanSignal ==
  /\ scan.at = "signal"
  /\ line' = TRUE
  /\ scan' = Returning(scan)
  /\ UNCHANGED <<eip, eie, send>>

(* The CSR instruction ends with what was found.                           *)
ScanReturn ==
  /\ scan.at = "return"
  /\ scan' = NotScanning
  /\ UNCHANGED <<eip, eie, line, send>>

Sending(t) == SendSet(t) \/ SendSignal(t)
Scanning == ScanClear \/ ScanRegister \/ ScanClaim \/ ScanSignal

-----------------------------------------------------------------------------
ImsicTypeOK ==
  /\ eip \subseteq Ids /\ eie \subseteq Ids /\ line \in BOOLEAN
  /\ send \in [Senders -> {NotSending} \cup
                [at : {"set", "signal"}, id : Ids, enabled : BOOLEAN]]
  /\ scan \in [at : {"idle", "clear", "scan", "claim", "signal", "return"},
               claim : BOOLEAN, reg : 0..LastReg, ret : Ids \cup {0}, more : BOOLEAN]

(* How the hart comes to know of a pending identity: the line is up, its   *)
(* sender is about to raise it, or the hart's scan has still to come to it *)
(* or is about to raise it.                                                *)
Covered(id) ==
  \/ line
  \/ \E t \in Senders : send[t].at = "signal" /\ send[t].id = id
  \/ scan.at \in {"clear", "signal"}
  \/ scan.at = "scan" /\ scan.reg <= Reg(id)
  \/ scan.at = "claim" /\ (scan.ret = id \/ scan.more \/ scan.reg < Reg(id))

(* No message is lost between the threads that send and the hart that      *)
(* scans and claims without a lock: an identity that is pending, and whose *)
(* enable bit is left alone, is covered.  Taking the line down, a claim of *)
(* another identity and a write to another's enable bit do not strand it.  *)
PendingCovered == \A id \in eip \cap Steady : Covered(id)

(* Messages of a steady identity are sent with their identity enabled, and *)
(* a scan that has yet to take the line down starts at the first register. *)
SteadyEnabled ==
  /\ Steady \subseteq eie
  /\ \A t \in Senders : send[t].at = "set" /\ send[t].id \in Steady => send[t].enabled
  /\ scan.at = "clear" => scan.reg = 0
==============================================================================
