----------------------------- MODULE IrqDevices ----------------------------
(***************************************************************************)
(* irq.c between a program that starts the timer and then registers one    *)
(* handler per device, in the order of their numbers, and devices that     *)
(* raise their interrupts at any moment, also while the same or another    *)
(* interrupt or a tick is being handled.                                   *)
(***************************************************************************)
EXTENDS Timer

CONSTANT MaxTriggers   \* triggers of each device (bounds the model)

ASSUME IrqDevicesAssumption == MaxTriggers \in Nat /\ NoHandler \notin Irqs

VARIABLES next,       \* interrupt whose handler is registered next
          triggers,   \* triggers of each device so far
          calls,      \* handler calls for each device so far
          unseen      \* devices that triggered after their registration and
                      \* whose handler has not run since

deviceVars == <<next, triggers, calls, unseen>>
allVars == <<irqVars, timerVars, deviceVars>>

DevicesInit ==
  /\ IrqInit /\ TimerInit
  /\ next = Irqs
  /\ triggers = [i \in Irqs |-> 0]
  /\ calls = [i \in Irqs |-> 0]
  /\ unseen = {}

\* The program runs while no trap handler does; the handler of i is i itself.
RegisterPriority ==
  /\ isr = "off" /\ TimerReady /\ next # {} /\ Min(next) \notin enabledPrio
  /\ SetPriority(Min(next))
  /\ UNCHANGED <<timerVars, deviceVars>>

RegisterHandler ==
  /\ isr = "off" /\ next # {} /\ Min(next) \in enabledPrio
  /\ SetHandler(Min(next), Min(next))
  /\ next' = next \ {Min(next)}
  /\ UNCHANGED <<timerVars, triggers, calls, unseen>>

Device(i) ==
  /\ triggers[i] < MaxTriggers
  /\ Trigger(i)
  /\ triggers' = [triggers EXCEPT ![i] = @ + 1]
  /\ unseen' = IF handlerTable[i] = NoHandler THEN unseen ELSE unseen \cup {i}
  /\ UNCHANGED <<timerVars, next, calls>>

Clock == TimePasses /\ UNCHANGED <<irqVars, deviceVars>>

Plic == Notify /\ UNCHANGED <<timerVars, deviceVars>>

RunHandler ==
  /\ Dispatch
  /\ LET fn == handlerTable[claimed]
     IN  /\ calls' = [i \in Irqs |-> IF i = fn THEN calls[i] + 1 ELSE calls[i]]
         /\ unseen' = unseen \ {fn}
  /\ UNCHANGED <<timerVars, next, triggers>>

TrapHandler ==
  \/ (Trap \/ ClearPending \/ Claim \/ Complete) /\ UNCHANGED <<timerVars, deviceVars>>
  \/ RunHandler
  \/ TimerHandler /\ UNCHANGED deviceVars

Program == (TimerMain /\ UNCHANGED deviceVars) \/ RegisterPriority \/ RegisterHandler

Idle ==
  /\ next = {} /\ \A i \in Irqs : triggers[i] = MaxTriggers
  /\ pending = {} /\ isr = "off" /\ mtime = MaxTime /\ ~TimerPending
  /\ UNCHANGED allVars

DevicesNext ==
  \/ Program \/ Clock
  \/ \E i \in Irqs : Device(i)
  \/ Plic \/ TrapHandler \/ Idle

DevicesSpec ==
  /\ DevicesInit /\ [][DevicesNext]_allVars
  /\ WF_allVars(Program)
  /\ WF_allVars(Plic) /\ WF_allVars(TrapHandler)

-----------------------------------------------------------------------------
(* Properties                                                              *)

\* A handler runs at most once per trigger, and only for its own device.
NoSpuriousCall == \A i \in Irqs : calls[i] <= triggers[i]

\* The trap handler always finds what it was called for: no claim returns 0.
ClaimFindsInterrupt == isr \in {"dispatch", "complete"} => claimed # NoIrq

\* An interrupt raised after the registration of its handler is followed by a
\* run of the handler, also when it is raised between the claim and the
\* completion of an earlier one: no wake-up is lost.
NoLostInterrupt == \A i \in Irqs : (i \in unseen) ~> (i \notin unseen)
=============================================================================
