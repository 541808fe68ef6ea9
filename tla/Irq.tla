-------------------------------- MODULE Irq --------------------------------
(***************************************************************************)
(* Interrupts: the trap handler and the handler table of sw/irq.c, as hart *)
(* 0 runs them, and the platform-level interrupt controller (PLIC) and the *)
(* external-interrupt bit of hart 0.  The PLIC and the trap come from the  *)
(* RISC-V VP that vp/main.cpp links against, outside this repository; they *)
(* are modelled as far as irq.c and bootstrap.S use them: every interrupt  *)
(* is enabled (bootstrap.S writes -1), one with priority 0 never reaches   *)
(* the hart, and all registered ones have priority 1, so that the lowest   *)
(* number is claimed first.                                                *)
(***************************************************************************)
EXTENDS Integers, FiniteSetsExt

CONSTANTS Irqs,       \* interrupt numbers in use
          NoHandler   \* irq_empty_handler

ASSUME IrqsAssumption == Irqs \subseteq Nat \ {0}

NoIrq == 0   \* what a claim returns when nothing is pending

VARIABLES enabledPrio,   \* interrupts with a priority different from zero
          handlerTable,
          pending,       \* the gateways' pending bits
          hartEip,       \* the PLIC has notified hart 0 and awaits completion
          meip,          \* external interrupt pending in hart 0
          isr,           \* what the trap handler of hart 0 does next
          claimed        \* irq_id of the trap handler

plicVars == <<enabledPrio, pending, hartEip, meip>>
irqVars == <<plicVars, handlerTable, isr, claimed>>

IrqInit ==
  /\ enabledPrio = {}
  /\ handlerTable = [i \in Irqs \cup {NoIrq} |-> NoHandler]
  /\ pending = {}
  /\ hartEip = FALSE /\ meip = FALSE
  /\ isr = "off"
  /\ claimed = NoIrq

-----------------------------------------------------------------------------
(* register_interrupt_handler: first the priority, then the table          *)

SetPriority(i) ==
  /\ enabledPrio' = enabledPrio \cup {i}
  /\ UNCHANGED <<pending, hartEip, meip, handlerTable, isr, claimed>>

SetHandler(i, fn) ==
  /\ handlerTable' = [handlerTable EXCEPT ![i] = fn]
  /\ UNCHANGED <<plicVars, isr, claimed>>

-----------------------------------------------------------------------------
(* The PLIC                                                                *)

\* Mutant of Trigger: interrupt numbers are off by one.
TriggerShifted(i) ==
  /\ pending' = pending \cup {i - 1}
  /\ UNCHANGED <<enabledPrio, hartEip, meip, handlerTable, isr, claimed>>

\* A second trigger before the claim of the first leaves no trace.
Trigger(i) ==
  /\ pending' = pending \cup {i}
  /\ UNCHANGED <<enabledPrio, hartEip, meip, handlerTable, isr, claimed>>

Claimable == pending \cap enabledPrio

\* Mutant of Notify: the priority is ignored.
NotifyAny ==
  /\ ~hartEip /\ pending # {}
  /\ hartEip' = TRUE /\ meip' = TRUE
  /\ UNCHANGED <<enabledPrio, pending, handlerTable, isr, claimed>>

Notify ==
  /\ ~hartEip /\ Claimable # {}
  /\ hartEip' = TRUE /\ meip' = TRUE
  /\ UNCHANGED <<enabledPrio, pending, handlerTable, isr, claimed>>

-----------------------------------------------------------------------------
(* The trap handler, level_1_interrupt_handler                             *)

Trap ==
  /\ isr = "off" /\ meip
  /\ isr' = "clear"
  /\ UNCHANGED <<plicVars, handlerTable, claimed>>

\* csrc mip
ClearPending ==
  /\ isr = "clear"
  /\ meip' = FALSE
  /\ isr' = "claim"
  /\ UNCHANGED <<enabledPrio, pending, hartEip, handlerTable, claimed>>

\* Mutant of Claim: the claimed interrupt stays pending.
ClaimKeepsPending ==
  /\ isr = "claim"
  /\ claimed' = IF Claimable = {} THEN NoIrq ELSE Min(Claimable)
  /\ isr' = "dispatch"
  /\ UNCHANGED <<enabledPrio, pending, hartEip, meip, handlerTable>>

\* Mutant of Claim: the other interrupts are dropped with the claimed one.
ClaimDropsOthers ==
  /\ isr = "claim"
  /\ claimed' = IF Claimable = {} THEN NoIrq ELSE Min(Claimable)
  /\ pending' = {}
  /\ isr' = "dispatch"
  /\ UNCHANGED <<enabledPrio, hartEip, meip, handlerTable>>

Claim ==
  /\ isr = "claim"
  /\ claimed' = IF Claimable = {} THEN NoIrq ELSE Min(Claimable)
  /\ pending' = pending \ {claimed'}
  /\ isr' = "dispatch"
  /\ UNCHANGED <<enabledPrio, hartEip, meip, handlerTable>>

\* irq_handler_table[irq_id](); the effect of the handler is the caller's.
Dispatch ==
  /\ isr = "dispatch"
  /\ isr' = "complete"
  /\ UNCHANGED <<plicVars, handlerTable, claimed>>

\* The handler writes 1, whatever it has claimed; the PLIC takes any value.
Complete ==
  /\ isr = "complete"
  /\ hartEip' = FALSE /\ meip' = FALSE
  /\ isr' = "off"
  /\ claimed' = NoIrq
  /\ UNCHANGED <<enabledPrio, pending, handlerTable>>
=============================================================================
