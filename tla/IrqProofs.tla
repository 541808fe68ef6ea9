----------------------------- MODULE IrqProofs -----------------------------
(***************************************************************************)
(* The trap handler never runs in vain and never calls a handler without   *)
(* cause, for any set of interrupts, however they fall between the steps   *)
(* of the handler, of the registrations and of the timer; and the timer    *)
(* keeps time, for halves of any width, wherever the traps fall.           *)
(***************************************************************************)
EXTENDS IrqDevices, FoldLemmas

\* The trap handler for external interrupts.
Serving == {"claim", "dispatch", "complete"}

TypeInv ==
  /\ pending \subseteq Irqs /\ enabledPrio \subseteq Irqs /\ next \subseteq Irqs
  /\ isr \in {"off", "clear", "timer"} \cup Serving
  /\ claimed \in Irqs \cup {NoIrq}
  /\ handlerTable \in [Irqs \cup {NoIrq} -> Irqs \cup {NoHandler}]
  /\ triggers \in [Irqs -> Nat] /\ calls \in [Irqs -> Nat]

\* The hart is told once, and what it was told of waits until it is claimed.
Told ==
  /\ meip => hartEip /\ isr \notin Serving
  /\ isr \in Serving => hartEip
  /\ isr = "clear" => meip
  /\ meip \/ isr = "claim" => Claimable # {}
  /\ isr \in {"dispatch", "complete"} => claimed \in Irqs

\* A trigger is used up by one call at most.
Owed(i) ==
  (IF i \in pending THEN 1 ELSE 0) + (IF isr = "dispatch" /\ claimed = i THEN 1 ELSE 0)

Accounted ==
  /\ \A i \in Irqs : handlerTable[i] \in {i, NoHandler}
  /\ \A i \in Irqs : calls[i] + Owed(i) <= triggers[i]

IrqInv == TypeInv /\ Told /\ Accounted

-----------------------------------------------------------------------------

LEMMA MinIsMember ==
  ASSUME NEW S, S \subseteq Irqs, S # {}
  PROVE  Min(S) \in S
BY LeastIsMember, IrqsAssumption DEF Min

LEMMA InitIrq == DevicesInit => IrqInv
  BY DEF DevicesInit, IrqInit, IrqInv, TypeInv, Told, Accounted, Owed, Claimable, Serving, NoIrq

-----------------------------------------------------------------------------
(* The program                                                             *)

LEMMA PriorityStep == IrqInv /\ RegisterPriority => IrqInv'
<1> SUFFICES ASSUME IrqInv, RegisterPriority PROVE IrqInv'
  OBVIOUS
<1>1. Min(next) \in Irqs
  BY MinIsMember DEF RegisterPriority, IrqInv, TypeInv
<1>2. /\ UNCHANGED <<pending, hartEip, meip, handlerTable, isr, claimed, deviceVars>>
      /\ enabledPrio' = enabledPrio \cup {Min(next)}
  BY DEF RegisterPriority, SetPriority
<1> QED
  BY <1>1, <1>2 DEF IrqInv, TypeInv, Told, Accounted, Owed, Claimable, deviceVars

LEMMA HandlerStep == IrqInv /\ RegisterHandler => IrqInv'
<1> SUFFICES ASSUME IrqInv, RegisterHandler PROVE IrqInv'
  OBVIOUS
<1>1. Min(next) \in Irqs
  BY MinIsMember DEF RegisterHandler, IrqInv, TypeInv
<1>2. /\ UNCHANGED <<plicVars, isr, claimed, triggers, calls>>
      /\ handlerTable' = [handlerTable EXCEPT ![Min(next)] = Min(next)]
      /\ next' = next \ {Min(next)}
  BY DEF RegisterHandler, SetHandler
<1> QED
  BY <1>1, <1>2
     DEF IrqInv, TypeInv, Told, Accounted, Owed, Claimable, plicVars

-----------------------------------------------------------------------------
(* The devices and the controller                                          *)

LEMMA DeviceStep == \A i \in Irqs : IrqInv /\ Device(i) => IrqInv'
<1> SUFFICES ASSUME NEW i \in Irqs, IrqInv, Device(i) PROVE IrqInv'
  OBVIOUS
<1>1. /\ UNCHANGED <<enabledPrio, hartEip, meip, handlerTable, isr, claimed, next, calls>>
      /\ pending' = pending \cup {i}
      /\ triggers' = [triggers EXCEPT ![i] = @ + 1]
  BY DEF Device, Trigger
<1>2. TypeInv' /\ Told'
  BY <1>1 DEF IrqInv, TypeInv, Told, Claimable
<1>3. Accounted'
  BY <1>1 DEF IrqInv, TypeInv, Accounted, Owed
<1> QED
  BY <1>2, <1>3 DEF IrqInv

LEMMA NotifyStep == IrqInv /\ Notify /\ UNCHANGED deviceVars => IrqInv'
  BY DEF IrqInv, TypeInv, Told, Accounted, Owed, Claimable, Notify, deviceVars, Serving

-----------------------------------------------------------------------------
(* The trap handlers                                                       *)

LEMMA EnterStep == IrqInv /\ (Trap \/ ClearPending) /\ UNCHANGED deviceVars => IrqInv'
  BY DEF IrqInv, TypeInv, Told, Accounted, Owed, Claimable, Trap, ClearPending, plicVars,
         deviceVars, Serving

\* What is claimed was pending, so the call it leads to is accounted for.
LEMMA ClaimStep == IrqInv /\ Claim /\ UNCHANGED deviceVars => IrqInv'
<1> SUFFICES ASSUME IrqInv, Claim, UNCHANGED deviceVars PROVE IrqInv'
  OBVIOUS
<1>1. /\ isr = "claim" /\ isr' = "dispatch"
      /\ claimed' = IF Claimable = {} THEN NoIrq ELSE Min(Claimable)
      /\ pending' = pending \ {claimed'}
      /\ UNCHANGED <<enabledPrio, hartEip, meip, handlerTable, next, triggers, calls>>
  BY DEF Claim, deviceVars
<1>2. Claimable # {} /\ Claimable \subseteq Irqs
  BY <1>1 DEF IrqInv, TypeInv, Told, Claimable
<1>3. claimed' \in pending /\ claimed' \in Irqs
  BY <1>1, <1>2, MinIsMember DEF Claimable
<1>4. TypeInv' /\ Told'
  BY <1>1, <1>3 DEF IrqInv, TypeInv, Told, Serving
<1>5. \A i \in Irqs : Owed(i)' = Owed(i)
  BY <1>1, <1>3 DEF Owed
<1> QED
  BY <1>1, <1>4, <1>5 DEF IrqInv, Accounted

LEMMA RunStep == IrqInv /\ RunHandler => IrqInv'
<1> SUFFICES ASSUME IrqInv, RunHandler PROVE IrqInv'
  OBVIOUS
<1> DEFINE fn == handlerTable[claimed]
<1>1. /\ isr = "dispatch" /\ isr' = "complete"
      /\ calls' = [i \in Irqs |-> IF i = fn THEN calls[i] + 1 ELSE calls[i]]
      /\ UNCHANGED <<plicVars, handlerTable, claimed, next, triggers>>
  BY DEF RunHandler, Dispatch
<1>2. claimed \in Irqs /\ fn \in {claimed, NoHandler}
  BY <1>1 DEF IrqInv, Told, Accounted
<1>3. TypeInv' /\ Told'
  BY <1>1, <1>2 DEF IrqInv, TypeInv, Told, Claimable, plicVars, Serving
<1>4. ASSUME NEW i \in Irqs
      PROVE  calls'[i] + Owed(i)' <= triggers'[i]
  <2>1. calls[i] + Owed(i) <= triggers[i] /\ calls[i] \in Nat /\ triggers[i] \in Nat
    BY DEF IrqInv, TypeInv, Accounted
  <2>2. i = fn => i = claimed
    BY <1>2, IrqDevicesAssumption
  <2>3. calls'[i] = (IF i = fn THEN calls[i] + 1 ELSE calls[i])
    BY <1>1
  <2> QED
    BY <1>1, <2>1, <2>2, <2>3 DEF Owed, plicVars
<1> QED
  BY <1>1, <1>3, <1>4 DEF IrqInv, Accounted

LEMMA CompleteStep == IrqInv /\ Complete /\ UNCHANGED deviceVars => IrqInv'
  BY DEF IrqInv, TypeInv, Told, Accounted, Owed, Claimable, Complete, deviceVars, Serving, NoIrq

LEMMA TimerStep == IrqInv /\ TimerHandler /\ UNCHANGED deviceVars => IrqInv'
  BY DEF IrqInv, TypeInv, Told, Accounted, Owed, Claimable, TimerHandler, TimerTrap, CountTick,
         plicVars, irqVars, deviceVars, Serving

LEMMA QuietStep == IrqInv /\ UNCHANGED <<irqVars, deviceVars>> => IrqInv'
  BY DEF IrqInv, TypeInv, Told, Accounted, Owed, Claimable, plicVars, irqVars, deviceVars

LEMMA IrqStep == IrqInv /\ [DevicesNext]_allVars => IrqInv'
<1> SUFFICES ASSUME IrqInv, [DevicesNext]_allVars PROVE IrqInv'
  OBVIOUS
<1>1. CASE Program
  BY <1>1, PriorityStep, HandlerStep, QuietStep DEF Program, TimerMain
<1>2. CASE Clock \/ Idle \/ UNCHANGED allVars
  BY <1>2, QuietStep DEF Clock, Idle, allVars
<1>3. CASE \E i \in Irqs : Device(i)
  BY <1>3, DeviceStep
<1>4. CASE Plic
  BY <1>4, NotifyStep DEF Plic
<1>5. CASE TrapHandler
  BY <1>5, EnterStep, ClaimStep, RunStep, CompleteStep, TimerStep DEF TrapHandler
<1> QED
  BY <1>1, <1>2, <1>3, <1>4, <1>5 DEF DevicesNext

-----------------------------------------------------------------------------

\* The trap handler of irq.c always finds what it was called for, for any set
\* of interrupts and however often the devices raise them.
THEOREM ClaimFinds == DevicesSpec => []ClaimFindsInterrupt
<1>1. IrqInv => ClaimFindsInterrupt
  BY IrqsAssumption DEF IrqInv, Told, ClaimFindsInterrupt, NoIrq
<1> QED
  BY InitIrq, IrqStep, <1>1, PTL DEF DevicesSpec

\* A handler of the table runs at most once per trigger of its device.
THEOREM NoSpurious == DevicesSpec => []NoSpuriousCall
<1>1. IrqInv => NoSpuriousCall
  <2> SUFFICES ASSUME IrqInv, NEW i \in Irqs PROVE calls[i] <= triggers[i]
    BY DEF NoSpuriousCall
  <2>1. calls[i] \in Nat /\ triggers[i] \in Nat /\ Owed(i) \in Nat
    BY DEF IrqInv, TypeInv, Owed
  <2> QED
    BY <2>1 DEF IrqInv, Accounted
<1> QED
  BY InitIrq, IrqStep, <1>1, PTL DEF DevicesSpec

-----------------------------------------------------------------------------
(* The timer                                                               *)

\* A time in its two halves.
Times == {t \in [Halves -> Nat] : t["low"] < Half}
HalvesOf(u) == [half \in Halves |-> HalfOf(u, half)]

TimerTypes ==
  /\ mtime \in Nat /\ numTicks \in Nat /\ carried \in BOOLEAN
  /\ mtimecmp \in Times /\ target \in [Contexts -> Times]
  /\ loadFirst \in Halves /\ storeFirst \in Halves
  /\ setStep \in [Contexts -> {"off", "load1", "load2", "store1", "store2", "count", "done"}]
  /\ setStep["main"] # "count" /\ setStep["trap"] # "done"
  /\ isr = "timer" <=> setStep["trap"] # "off"
  /\ timerHandler \in BOOLEAN /\ timerHandler <=> setStep["main"] # "off"

\* The context has read one half of a time, or a time, of now or earlier.
ReadsTime(c, least) ==
  /\ setStep[c] = "load2" =>
       \E u \in least .. mtime : /\ u \div Half = mtime \div Half
                                 /\ target[c][loadFirst] = HalfOf(u, loadFirst)
  /\ setStep[c] \in {"store1", "store2"} =>
       \E u \in least .. mtime : target[c] = HalvesOf(u)

\* No more than one tick in DELAY, and the next one soon, after n ticks.
Due(n) == n * DELAY + DELAY <= ValueOf(mtimecmp) /\ ValueOf(mtimecmp) <= mtime + DELAY

\* The trap handler, and between traps.
TrapInv ==
  /\ setStep["trap"] = "off" => Due(numTicks)
  /\ setStep["trap"] = "count" => Due(numTicks + 1)
  /\ setStep["trap"] \notin {"off", "count"} =>
       numTicks * DELAY + DELAY <= mtime /\ ReadsTime("trap", numTicks * DELAY + DELAY)
  /\ setStep["trap"] = "store2" => mtimecmp[storeFirst] = Advance(target["trap"])[storeFirst]

\* main has not yet stored a time different from zero.
Unset ==
  \/ setStep["main"] \in {"off", "load1", "load2", "store1"}
  \/ setStep["main"] = "store2" /\ storeFirst = "high"

\* While main stores, the half that it may overwrite too late is zero.
MainInv ==
  /\ ReadsTime("main", 0)
  /\ Unset => numTicks = 0 /\ mtimecmp = Zero /\ setStep["trap"] = "off"
  /\ ~Unset => TrapInv
  /\ setStep["main"] = "store2" =>
       /\ Advance(target["main"])["high"] = 0 /\ mtimecmp["high"] = 0
       /\ setStep["trap"] = "store2" => Advance(target["trap"])["high"] = 0

ClockInv == TimerTypes /\ (~carried => MainInv)

-----------------------------------------------------------------------------
(* Times and their halves                                                  *)

\* The halves of a time make up the time, and it determines them.
LEMMA HalvesAre ==
  ASSUME NEW u \in Nat
  PROVE  /\ HalvesOf(u) \in Times /\ ValueOf(HalvesOf(u)) = u
         /\ HalvesOf(u)["low"] = (u % Half) /\ HalvesOf(u)["high"] = (u \div Half)
<1>1. /\ u \div Half \in Nat /\ u % Half \in 0 .. Half - 1
      /\ (u \div Half) * Half + (u % Half) = u
  BY QuotientRemainder, TimerAssumption
<1>2. /\ HalvesOf(u)["low"] = (u % Half) /\ HalvesOf(u)["high"] = (u \div Half)
      /\ HalvesOf(u) \in [Halves -> Nat]
  BY <1>1 DEF HalvesOf, Halves, HalfOf
<1>3. HalvesOf(u)["low"] < Half
  BY <1>1, <1>2, TimerAssumption
<1> QED
  BY <1>1, <1>2, <1>3 DEF Times, ValueOf

LEMMA AdvanceIs ==
  ASSUME NEW u \in Nat
  PROVE  Advance(HalvesOf(u)) = HalvesOf(u + DELAY)
BY HalvesAre DEF Advance, HalvesOf

LEMMA SameHalves ==
  ASSUME NEW s \in Times, NEW t \in Times, NEW half \in Halves,
         s[half] = t[half], s[Other(half)] = t[Other(half)]
  PROVE  s = t
<1>1. \A h \in Halves : s[h] = t[h]
  BY DEF Halves, Other
<1> QED
  BY <1>1 DEF Times

\* The sum of a time that is known and DELAY can be stored.
LEMMA AdvanceType ==
  ASSUME NEW t \in Times
  PROVE  Advance(t) \in Times
<1>1. ValueOf(t) \in Nat
  <2>1. t["low"] \in Nat /\ t["high"] \in Nat /\ Half \in Nat
    BY TimerAssumption DEF Times, Halves
  <2> QED
    BY <2>1 DEF ValueOf
<1>2. ValueOf(t) + DELAY \in Nat
  BY <1>1, TimerAssumption
<1> QED
  BY <1>2, HalvesAre DEF Advance, HalvesOf

-----------------------------------------------------------------------------
(* set_next_timer_interrupt                                                *)

LEMMA SetNextTypes ==
  ASSUME TimerTypes, NEW c \in Contexts, NEW after, SetNext(c, after),
         UNCHANGED isr, setStep[c] # "off",
         after = IF c = "main" THEN "done" ELSE "count"
  PROVE  TimerTypes'
<1>1. PICK to \in {"load2", "store1", "store2", after} : setStep' = [setStep EXCEPT ![c] = to]
  BY DEF SetNext, Step
<1>2. /\ setStep'["main"] # "count" /\ setStep'["trap"] # "done"
      /\ isr' = "timer" <=> setStep'["trap"] # "off"
      /\ timerHandler <=> setStep'["main"] # "off"
      /\ setStep' \in [Contexts -> {"off", "load1", "load2", "store1", "store2", "count", "done"}]
  BY <1>1 DEF TimerTypes, Contexts
<1>3. UNCHANGED <<mtime, loadFirst, storeFirst, timerHandler, numTicks>> /\ carried' \in BOOLEAN
  BY DEF SetNext, TimerTypes
<1>4. ASSUME NEW half \in Halves, LoadHalf(c, half)
      PROVE  target' \in [Contexts -> Times] /\ mtimecmp' \in Times
  <2>1. /\ HalfOf(mtime, half) \in Nat
        /\ half = "low" => HalfOf(mtime, half) < Half
    <3>1. mtime \in Nat
      BY DEF TimerTypes
    <3>2. mtime \div Half \in Nat /\ mtime % Half \in 0 .. Half - 1 /\ Half \in Nat
      BY <3>1, QuotientRemainder, TimerAssumption
    <3> QED
      BY <3>2 DEF HalfOf
  <2>2. target[c] \in [Halves -> Nat] /\ target[c]["low"] < Half
    BY DEF TimerTypes, Times
  <2>3. [target[c] EXCEPT ![half] = HalfOf(mtime, half)] \in Times
    BY <2>1, <2>2 DEF Times, Halves
  <2>4. target' = [target EXCEPT ![c] = [target[c] EXCEPT ![half] = HalfOf(mtime, half)]]
        /\ mtimecmp' = mtimecmp
    BY <1>4 DEF LoadHalf
  <2> QED
    BY <2>3, <2>4 DEF TimerTypes
<1>5. ASSUME NEW half \in Halves, StoreHalf(c, half)
      PROVE  target' \in [Contexts -> Times] /\ mtimecmp' \in Times
  <2>1. Advance(target[c]) \in Times
    BY AdvanceType DEF TimerTypes
  <2> DEFINE sum == Advance(target[c])
  <2>2. mtimecmp' = [mtimecmp EXCEPT ![half] = sum[half]] /\ target' = target
    BY <1>5 DEF StoreHalf
  <2> HIDE DEF sum
  <2>3. sum \in [Halves -> Nat] /\ sum["low"] < Half
    BY <2>1 DEF Times, sum
  <2>4. mtimecmp' \in Times
    BY <2>2, <2>3 DEF Times, TimerTypes, Halves
  <2> QED
    BY <2>2, <2>4 DEF TimerTypes
<1>6. target' \in [Contexts -> Times] /\ mtimecmp' \in Times
  <2>1. {loadFirst, Other(loadFirst), storeFirst, Other(storeFirst)} \subseteq Halves
    BY DEF TimerTypes, Other, Halves
  <2> QED
    BY <1>4, <1>5, <2>1 DEF SetNext
<1> QED
  BY <1>2, <1>3, <1>6 DEF TimerTypes

\* Unless the clock carries in between, two loads give a time.
LEMMA LoadStep ==
  ASSUME TimerTypes, TimerTypes', NEW c \in Contexts, NEW after, SetNext(c, after),
         setStep[c] \in {"load1", "load2"},
         NEW least \in Nat, least <= mtime, ReadsTime(c, least)
  PROVE  ReadsTime(c, least)' /\ mtimecmp' = mtimecmp
<1>1. /\ UNCHANGED <<mtime, loadFirst>> /\ mtime \in Nat /\ least \in 0 .. mtime
      /\ target \in [Contexts -> Times] /\ target[c] \in [Halves -> Nat]
      /\ setStep \in [Contexts -> {"off", "load1", "load2", "store1", "store2", "count", "done"}]
      /\ loadFirst \in Halves /\ Other(loadFirst) \in Halves /\ Other(loadFirst) # loadFirst
  BY DEF SetNext, TimerTypes, Times, Other, Halves
<1>2. CASE setStep[c] = "load1"
  <2>1. setStep'[c] = "load2" /\ LoadHalf(c, loadFirst)
    BY <1>1, <1>2 DEF SetNext, Step
  <2>2. target'[c][loadFirst] = HalfOf(mtime, loadFirst) /\ mtimecmp' = mtimecmp
    BY <1>1, <2>1 DEF LoadHalf
  <2> QED
    BY <1>1, <2>1, <2>2 DEF ReadsTime
<1>3. CASE setStep[c] = "load2"
  <2>1. setStep'[c] = "store1" /\ LoadHalf(c, Other(loadFirst))
    BY <1>1, <1>3 DEF SetNext, Step
  <2>2. /\ target'[c][Other(loadFirst)] = HalfOf(mtime, Other(loadFirst))
        /\ target'[c][loadFirst] = target[c][loadFirst] /\ mtimecmp' = mtimecmp
    BY <1>1, <2>1 DEF LoadHalf
  <2>3. PICK u \in least .. mtime : /\ u \div Half = mtime \div Half
                                    /\ target[c][loadFirst] = HalfOf(u, loadFirst)
    BY <1>3 DEF ReadsTime
  <2>4. u \in Nat /\ target'[c] \in Times
    BY <1>1, <2>3 DEF TimerTypes
  <2>5. CASE loadFirst = "low"
    <3>1. target'[c]["low"] = HalvesOf(u)["low"] /\ target'[c]["high"] = HalvesOf(u)["high"]
      BY <2>2, <2>3, <2>4, <2>5, HalvesAre DEF HalfOf, Other
    <3>2. target'[c] = HalvesOf(u)
      BY <2>4, <3>1, HalvesAre, SameHalves DEF Other, Halves
    <3> QED
      BY <1>1, <2>1, <2>2, <2>3, <3>2 DEF ReadsTime
  <2>6. CASE loadFirst = "high"
    <3>1. target'[c]["low"] = HalvesOf(mtime)["low"] /\ target'[c]["high"] = HalvesOf(mtime)["high"]
      BY <1>1, <2>2, <2>3, <2>6, HalvesAre DEF HalfOf, Other
    <3>2. target'[c] = HalvesOf(mtime)
      BY <1>1, <2>4, <3>1, HalvesAre, SameHalves DEF Other, Halves
    <3>3. mtime \in least .. mtime
      BY <1>1
    <3> QED
      BY <1>1, <2>1, <2>2, <3>2, <3>3 DEF ReadsTime
  <2> QED
    BY <1>1, <2>5, <2>6 DEF Halves
<1> QED
  BY <1>2, <1>3

\* What is stored, and that the time it is made from is known.
LEMMA StoreStep ==
  ASSUME TimerTypes, TimerTypes', NEW c \in Contexts, NEW after, SetNext(c, after),
         NEW least \in Nat, ReadsTime(c, least), setStep[c] \in {"store1", "store2"},
         after \in {"count", "done"}
  PROVE  /\ ReadsTime(c, least)' /\ target' = target
         /\ setStep[c] = "store1" =>
              /\ setStep'[c] = "store2"
              /\ mtimecmp'[storeFirst] = Advance(target[c])[storeFirst]
              /\ mtimecmp'[Other(storeFirst)] = mtimecmp[Other(storeFirst)]
         /\ setStep[c] = "store2" =>
              /\ setStep'[c] = after
              /\ mtimecmp'[Other(storeFirst)] = Advance(target[c])[Other(storeFirst)]
              /\ mtimecmp'[storeFirst] = mtimecmp[storeFirst]
         /\ \E u \in least .. mtime : /\ u \in Nat /\ target[c] = HalvesOf(u)
                                      /\ Advance(target[c]) = HalvesOf(u + DELAY)
                                      /\ ValueOf(HalvesOf(u + DELAY)) = u + DELAY
<1>1. /\ UNCHANGED <<mtime, loadFirst, storeFirst>> /\ mtime \in Nat
      /\ mtimecmp \in [Halves -> Nat]
      /\ setStep \in [Contexts -> {"off", "load1", "load2", "store1", "store2", "count", "done"}]
      /\ storeFirst \in Halves /\ Other(storeFirst) \in Halves /\ Other(storeFirst) # storeFirst
  BY DEF SetNext, TimerTypes, Times, Other, Halves
<1>2. PICK u \in least .. mtime : target[c] = HalvesOf(u)
  BY DEF ReadsTime
<1>3. /\ u \in Nat /\ Advance(target[c]) = HalvesOf(u + DELAY)
      /\ ValueOf(HalvesOf(u + DELAY)) = u + DELAY
  <2>1. u \in Nat /\ u + DELAY \in Nat
    BY <1>1, TimerAssumption
  <2> QED
    BY <1>2, <2>1, AdvanceIs, HalvesAre
<1>4. CASE setStep[c] = "store1"
  <2>1. setStep'[c] = "store2" /\ StoreHalf(c, storeFirst)
    BY <1>1, <1>4 DEF SetNext, Step
  <2>2. /\ target' = target /\ mtimecmp'[storeFirst] = Advance(target[c])[storeFirst]
        /\ mtimecmp'[Other(storeFirst)] = mtimecmp[Other(storeFirst)]
    BY <1>1, <2>1 DEF StoreHalf
  <2>3. ReadsTime(c, least)'
    BY <1>1, <1>2, <2>1, <2>2 DEF ReadsTime
  <2> QED
    BY <1>2, <1>3, <1>4, <2>1, <2>2, <2>3
<1>5. CASE setStep[c] = "store2"
  <2>1. setStep'[c] = after /\ StoreHalf(c, Other(storeFirst))
    BY <1>1, <1>5 DEF SetNext, Step
  <2>2. /\ target' = target /\ mtimecmp'[storeFirst] = mtimecmp[storeFirst]
        /\ mtimecmp'[Other(storeFirst)] = Advance(target[c])[Other(storeFirst)]
    BY <1>1, <2>1 DEF StoreHalf
  <2>3. ReadsTime(c, least)'
    BY <2>1 DEF ReadsTime
  <2> QED
    BY <1>2, <1>3, <1>5, <2>1, <2>2, <2>3
<1> QED
  BY <1>4, <1>5

-----------------------------------------------------------------------------
(* The clock, main and the trap handler                                    *)

LEMMA InitClock == DevicesInit => ClockInv
<1> SUFFICES ASSUME DevicesInit
             PROVE  ClockInv
  OBVIOUS
<1>1. /\ mtime \in {0, Half + 1} /\ mtimecmp = Zero /\ numTicks = 0 /\ carried = FALSE
      /\ loadFirst \in Halves /\ storeFirst \in Halves /\ isr = "off"
      /\ setStep = [c \in Contexts |-> "off"] /\ target = [c \in Contexts |-> Zero]
      /\ timerHandler = FALSE
  BY DEF DevicesInit, TimerInit, IrqInit
<1>2. Zero \in Times /\ mtime \in Nat
  BY <1>1, TimerAssumption DEF Zero, Times, Halves
<1>3. setStep["main"] = "off" /\ setStep["trap"] = "off"
  BY <1>1 DEF Contexts
<1> QED
  BY <1>1, <1>2, <1>3 DEF ClockInv, TimerTypes, MainInv, Unset, ReadsTime

\* External interrupts leave the timer alone.
LEMMA OtherStep ==
  ASSUME ClockInv, UNCHANGED timerVars, isr' = isr \/ (isr # "timer" /\ isr' # "timer")
  PROVE  ClockInv'
<1>1. /\ UNCHANGED <<mtime, mtimecmp, loadFirst, storeFirst, timerHandler>>
      /\ UNCHANGED <<setStep, target, numTicks, carried>>
  BY DEF timerVars
<1>2. TimerTypes'
  BY <1>1 DEF ClockInv, TimerTypes
<1>3. MainInv' <=> MainInv
  BY <1>1 DEF MainInv, Unset, TrapInv, Due, ReadsTime
<1> QED
  BY <1>1, <1>2, <1>3 DEF ClockInv

\* Time only widens what was allowed, unless it carries between two loads.
LEMMA ClockStep ==
  ASSUME ClockInv, TimePasses, UNCHANGED isr
  PROVE  ClockInv'
<1>1. /\ mtime' = mtime + 1 /\ mtime \in Nat /\ numTicks \in Nat
      /\ carried' = (carried \/ (mtime' % Half = 0 /\ \E c \in Contexts : setStep[c] = "load2"))
      /\ UNCHANGED <<mtimecmp, loadFirst, storeFirst, timerHandler, setStep, target, numTicks>>
  BY DEF TimePasses, ClockInv, TimerTypes
<1>2. TimerTypes'
  BY <1>1 DEF ClockInv, TimerTypes
<1>3. ASSUME NEW c \in Contexts, NEW least \in Nat, ReadsTime(c, least), ~carried'
      PROVE  ReadsTime(c, least)'
  <2>1. least .. mtime \subseteq least .. mtime'
    BY <1>1
  <2>2. setStep[c] = "load2" => mtime' \div Half = mtime \div Half
    BY <1>1, <1>3, SameQuotient, TimerAssumption
  <2> QED
    BY <1>1, <1>3, <2>1, <2>2 DEF ReadsTime
<1>4. ASSUME ~carried'
      PROVE  MainInv'
  <2>1. MainInv
    BY <1>1, <1>4 DEF ClockInv
  <2>2. ReadsTime("main", 0)'
    BY <1>3, <1>4, <2>1 DEF MainInv, Contexts
  <2>3. ASSUME TrapInv
        PROVE  TrapInv'
    <3>1. \A n : Due(n) => Due(n)'
      <4>1. ValueOf(mtimecmp) \in Nat /\ DELAY \in Nat
        <5>1. mtimecmp["low"] \in Nat /\ mtimecmp["high"] \in Nat /\ Half \in Nat /\ DELAY \in Nat
          BY TimerAssumption DEF ClockInv, TimerTypes, Times, Halves
        <5> QED
          BY <5>1 DEF ValueOf
      <4> QED
        BY <1>1, <4>1 DEF Due
    <3>2. PICK least \in Nat : least = numTicks * DELAY + DELAY
      BY <1>1, TimerAssumption
    <3>3. setStep["trap"] \notin {"off", "count"} => least <= mtime' /\ ReadsTime("trap", least)'
      BY <1>1, <1>3, <1>4, <2>3, <3>2 DEF TrapInv, Contexts
    <3>4. setStep'["trap"] \notin {"off", "count"} =>
            /\ numTicks' * DELAY + DELAY <= mtime'
            /\ ReadsTime("trap", numTicks * DELAY + DELAY)'
      BY <1>1, <3>2, <3>3 DEF ReadsTime
    <3> QED
      BY <1>1, <2>3, <3>1, <3>4 DEF TrapInv
  <2> QED
    BY <1>1, <2>1, <2>2, <2>3 DEF MainInv, Unset
<1> QED
  BY <1>2, <1>4 DEF ClockInv

LEMMA StartStep ==
  ASSUME ClockInv, RegisterTimer, isr = "off", UNCHANGED isr
  PROVE  ClockInv'
<1>1. /\ timerHandler' = TRUE /\ setStep["main"] = "off"
      /\ setStep' = [setStep EXCEPT !["main"] = "load1"]
      /\ UNCHANGED <<mtime, mtimecmp, loadFirst, storeFirst, target, numTicks, carried>>
      /\ setStep \in [Contexts -> {"off", "load1", "load2", "store1", "store2", "count", "done"}]
  BY DEF RegisterTimer, ClockInv, TimerTypes
<1>2. setStep'["main"] = "load1" /\ setStep'["trap"] = setStep["trap"]
  BY <1>1 DEF Contexts
<1>3. TimerTypes'
  BY <1>1, <1>2 DEF ClockInv, TimerTypes
<1>4. MainInv => MainInv'
  BY <1>1, <1>2 DEF MainInv, Unset, ReadsTime
<1> QED
  BY <1>1, <1>3, <1>4 DEF ClockInv

\* main sets the timer, between traps.
LEMMA MainStep ==
  ASSUME ClockInv, SetNext("main", "done"), isr = "off", UNCHANGED isr
  PROVE  ClockInv'
<1>1. /\ setStep["main"] \in {"load1", "load2", "store1", "store2"}
      /\ \E to : setStep' = [setStep EXCEPT !["main"] = to]
      /\ UNCHANGED <<mtime, loadFirst, storeFirst, numTicks>>
      /\ carried' = (carried \/ (setStep["main"] = "store1" /\ setStep["main"] \notin {"off", "done"}
                                 /\ Advance(target["main"])["high"] # mtimecmp["high"]))
  BY DEF SetNext, Step
<1>2. TimerTypes /\ "main" \in Contexts /\ "trap" \in Contexts /\ setStep["trap"] = "off"
  BY DEF ClockInv, TimerTypes, Contexts
<1>3. TimerTypes' /\ setStep'["trap"] = "off"
  <2>1. TimerTypes'
    BY <1>1, <1>2, SetNextTypes
  <2> QED
    BY <2>1 DEF TimerTypes
<1>4. SUFFICES ASSUME ~carried'
               PROVE  MainInv'
  BY <1>3 DEF ClockInv
<1>5. MainInv /\ ~carried
  BY <1>1, <1>2, <1>4 DEF ClockInv, TimerTypes
<1>6. mtime \in Nat /\ numTicks \in Nat /\ DELAY \in Nat /\ ReadsTime("main", 0)
  BY <1>2, <1>5, TimerAssumption DEF TimerTypes, MainInv
<1>7. CASE setStep["main"] \in {"load1", "load2"}
  <2>1. ReadsTime("main", 0)' /\ mtimecmp' = mtimecmp
    BY <1>2, <1>3, <1>6, <1>7, LoadStep
  <2>2. setStep'["main"] \in {"load2", "store1"}
    BY <1>2, <1>7 DEF SetNext, Step, TimerTypes
  <2> QED
    BY <1>1, <1>3, <1>5, <1>7, <2>1, <2>2 DEF MainInv, Unset
<1>8. CASE setStep["main"] \in {"store1", "store2"}
  <2>1. ReadsTime("main", 0)' /\ target' = target
    BY <1>2, <1>3, <1>6, <1>8, StoreStep
  <2>2. PICK u \in 0 .. mtime : /\ u \in Nat /\ target["main"] = HalvesOf(u)
                                /\ Advance(target["main"]) = HalvesOf(u + DELAY)
                                /\ ValueOf(HalvesOf(u + DELAY)) = u + DELAY
    BY <1>2, <1>3, <1>6, <1>8, StoreStep
  <2> DEFINE sum == HalvesOf(u + DELAY)
  <2>3. /\ mtimecmp \in Times /\ mtimecmp' \in Times /\ sum \in Times
        /\ storeFirst \in Halves
    <3>1. sum \in Times
      BY <2>2, <1>6, HalvesAre
    <3> QED
      BY <1>2, <1>3, <3>1 DEF TimerTypes
  <2>4. mtimecmp' = sum => TrapInv' \/ numTicks # 0
    <3>1. ASSUME mtimecmp' = sum, numTicks = 0
          PROVE  Due(0)'
      <4>1. ValueOf(mtimecmp') = u + DELAY
        BY <2>2, <3>1
      <4>2. 0 * DELAY + DELAY <= u + DELAY /\ u + DELAY <= mtime + DELAY
        BY <1>6, <2>2
      <4> QED
        BY <1>1, <4>1, <4>2 DEF Due, ValueOf
    <3> QED
      BY <1>1, <1>3, <3>1 DEF TrapInv, Due
  <2> HIDE DEF sum
  <2>5. CASE setStep["main"] = "store1"
    <3>1. /\ setStep'["main"] = "store2" /\ mtimecmp = Zero /\ numTicks = 0
          /\ mtimecmp'[storeFirst] = sum[storeFirst]
          /\ mtimecmp'[Other(storeFirst)] = mtimecmp[Other(storeFirst)]
      BY <1>2, <1>3, <1>5, <1>6, <2>2, <2>5, StoreStep DEF MainInv, Unset, sum
    <3>2. sum["high"] = 0 /\ mtimecmp["high"] = 0 /\ mtimecmp["low"] = 0
      BY <1>1, <1>4, <2>2, <2>5, <3>1 DEF Zero, Halves, sum
    <3>3. CASE storeFirst = "low"
      <4>1. mtimecmp' = sum
        BY <2>3, <3>1, <3>2, <3>3, SameHalves DEF Other
      <4> QED
        BY <1>1, <1>3, <2>1, <2>2, <2>4, <3>1, <3>2, <3>3, <4>1 DEF MainInv, Unset, sum
    <3>4. CASE storeFirst = "high"
      <4>1. mtimecmp' = mtimecmp
        BY <2>3, <3>1, <3>2, <3>4, SameHalves DEF Other
      <4> QED
        BY <1>1, <1>3, <2>1, <2>2, <3>1, <3>2, <3>4, <4>1 DEF MainInv, Unset, sum
    <3> QED
      BY <2>3, <3>3, <3>4 DEF Halves
  <2>6. CASE setStep["main"] = "store2"
    <3>1. /\ setStep'["main"] = "done"
          /\ mtimecmp'[Other(storeFirst)] = sum[Other(storeFirst)]
          /\ mtimecmp'[storeFirst] = mtimecmp[storeFirst]
      BY <1>2, <1>3, <1>5, <1>6, <2>2, <2>6, StoreStep DEF sum
    <3>2. sum["high"] = 0 /\ mtimecmp["high"] = 0
      BY <1>5, <2>2, <2>6 DEF MainInv, sum
    <3>3. TrapInv'
      <4>1. CASE storeFirst = "low"
        <5>1. mtimecmp' = mtimecmp
          BY <2>3, <3>1, <3>2, <4>1, SameHalves DEF Other
        <5>2. TrapInv
          BY <1>5, <2>6, <4>1 DEF MainInv, Unset
        <5> QED
          BY <1>1, <1>2, <1>3, <5>1, <5>2 DEF TrapInv, Due
      <4>2. CASE storeFirst = "high"
        <5>1. mtimecmp' = sum
          BY <2>3, <3>1, <3>2, <4>2, SameHalves DEF Other
        <5>2. numTicks = 0
          BY <1>5, <2>6, <4>2 DEF MainInv, Unset
        <5> QED
          BY <2>4, <5>1, <5>2
      <4> QED
        BY <2>3, <4>1, <4>2 DEF Halves
    <3> QED
      BY <2>1, <3>1, <3>3 DEF MainInv, Unset
  <2> QED
    BY <1>8, <2>5, <2>6
<1> QED
  BY <1>1, <1>7, <1>8

\* A trap without a handler; there is none once mtimecmp has been set, unless
\* a carry has upset the clock.
LEMMA UnhandledTrapStep ==
  ASSUME ClockInv, TimerTrap, ~timerHandler
  PROVE  ClockInv'
<1>1. /\ mtimecmp' = Zero
      /\ UNCHANGED <<isr, setStep, mtime, loadFirst, storeFirst, timerHandler, target,
                     numTicks, carried>>
  BY DEF TimerTrap
<1>2. Zero \in Times
  BY TimerAssumption DEF Zero, Times, Halves
<1>3. TimerTypes'
  BY <1>1, <1>2 DEF ClockInv, TimerTypes
<1>4. carried
  <2>1. setStep["main"] = "off" /\ TimerPending
    BY DEF ClockInv, TimerTypes, TimerTrap
  <2>2. mtimecmp # Zero
    BY <2>1, TimerAssumption DEF TimerPending, Zero, ValueOf, Halves
  <2> QED
    BY <2>1, <2>2 DEF ClockInv, MainInv, Unset
<1> QED
  BY <1>1, <1>3, <1>4 DEF ClockInv

\* A tick is due.
LEMMA TrapStep ==
  ASSUME ClockInv, TimerTrap, timerHandler
  PROVE  ClockInv'
<1>1. /\ isr = "off" /\ isr' = "timer" /\ ValueOf(mtimecmp) > 0 /\ mtime >= ValueOf(mtimecmp)
      /\ setStep' = [setStep EXCEPT !["trap"] = "load1"]
      /\ UNCHANGED <<mtime, mtimecmp, loadFirst, storeFirst, timerHandler, target, numTicks,
                     carried>>
  BY DEF TimerTrap, TimerPending
<1>2. /\ setStep \in [Contexts -> {"off", "load1", "load2", "store1", "store2", "count", "done"}]
      /\ setStep["trap"] = "off" /\ mtime \in Nat /\ numTicks \in Nat /\ DELAY \in Nat
  BY <1>1, TimerAssumption DEF ClockInv, TimerTypes
<1>3. setStep'["trap"] = "load1" /\ setStep'["main"] = setStep["main"]
  BY <1>1, <1>2 DEF Contexts
<1>4. TimerTypes'
  BY <1>1, <1>3 DEF ClockInv, TimerTypes
<1>5. ASSUME MainInv
      PROVE  MainInv'
  <2>1. ~Unset
    <3>1. Unset => ValueOf(mtimecmp) = 0
      BY <1>5, TimerAssumption DEF MainInv, Zero, ValueOf, Halves
    <3> QED
      BY <1>1, <3>1
  <2>2. Due(numTicks)
    BY <1>2, <1>5, <2>1 DEF MainInv, TrapInv
  <2>3. numTicks * DELAY + DELAY <= mtime
    <3>1. ValueOf(mtimecmp) \in Nat /\ numTicks * DELAY + DELAY \in Nat
      <4>1. mtimecmp["low"] \in Nat /\ mtimecmp["high"] \in Nat /\ Half \in Nat
        BY TimerAssumption DEF ClockInv, TimerTypes, Times, Halves
      <4> QED
        BY <1>2, <4>1 DEF ValueOf
    <3> QED
      BY <1>1, <1>2, <2>2, <3>1 DEF Due
  <2>4. TrapInv'
    BY <1>1, <1>3, <2>3 DEF TrapInv, ReadsTime
  <2> QED
    BY <1>1, <1>3, <1>5, <2>1, <2>4 DEF MainInv, Unset, ReadsTime
<1> QED
  BY <1>1, <1>4, <1>5 DEF ClockInv

LEMMA CountStep ==
  ASSUME ClockInv, CountTick
  PROVE  ClockInv'
<1>1. /\ isr = "timer" /\ isr' = "off" /\ setStep["trap"] = "count" /\ numTicks' = numTicks + 1
      /\ setStep' = [setStep EXCEPT !["trap"] = "off"]
      /\ UNCHANGED <<mtime, mtimecmp, loadFirst, storeFirst, timerHandler, target, carried>>
      /\ setStep \in [Contexts -> {"off", "load1", "load2", "store1", "store2", "count", "done"}]
  BY DEF CountTick, ClockInv, TimerTypes
<1>2. setStep'["trap"] = "off" /\ setStep'["main"] = setStep["main"]
  BY <1>1 DEF Contexts
<1>3. TimerTypes'
  BY <1>1, <1>2 DEF ClockInv, TimerTypes
<1>4. ASSUME MainInv
      PROVE  MainInv'
  <2>1. ~Unset /\ Due(numTicks + 1)
    BY <1>1, <1>4 DEF MainInv, TrapInv
  <2>2. TrapInv'
    BY <1>1, <1>2, <2>1 DEF TrapInv, Due
  <2> QED
    BY <1>1, <1>2, <1>4, <2>1, <2>2 DEF MainInv, Unset, ReadsTime
<1> QED
  BY <1>1, <1>3, <1>4 DEF ClockInv

\* The trap handler sets the timer; main may have been interrupted while it
\* stores, but not while it loads.
LEMMA HandlerSetsStep ==
  ASSUME ClockInv, isr = "timer", SetNext("trap", "count"), UNCHANGED isr
  PROVE  ClockInv'
<1>1. /\ setStep["trap"] \in {"load1", "load2", "store1", "store2"}
      /\ \E to : setStep' = [setStep EXCEPT !["trap"] = to]
      /\ UNCHANGED <<mtime, loadFirst, storeFirst, numTicks>>
      /\ carried' = (carried \/ (setStep["trap"] = "store1" /\ setStep["main"] \notin {"off", "done"}
                                 /\ Advance(target["trap"])["high"] # mtimecmp["high"]))
  BY DEF SetNext, Step
<1>2. TimerTypes /\ "main" \in Contexts /\ "trap" \in Contexts
  BY DEF ClockInv, Contexts
<1>3. TimerTypes' /\ setStep'["main"] = setStep["main"]
  <2>1. TimerTypes'
    BY <1>1, <1>2, SetNextTypes
  <2> QED
    BY <1>1, <1>2, <2>1 DEF TimerTypes
<1>4. SUFFICES ASSUME ~carried'
               PROVE  MainInv'
  BY <1>3 DEF ClockInv
<1>5. MainInv /\ ~carried /\ ~Unset /\ TrapInv
  BY <1>1, <1>2, <1>4 DEF ClockInv, TimerTypes, MainInv
<1>6. mtime \in Nat /\ numTicks \in Nat /\ DELAY \in Nat
  BY <1>2, TimerAssumption DEF TimerTypes
<1>7. PICK least \in Nat : least = numTicks * DELAY + DELAY
  BY <1>6
<1>8. least <= mtime /\ ReadsTime("trap", least)
  BY <1>1, <1>5, <1>7 DEF TrapInv
<1>9. target'["main"] = target["main"]
  BY <1>2 DEF SetNext, LoadHalf, StoreHalf, TimerTypes, Contexts
<1>10. ReadsTime("main", 0)'
  BY <1>1, <1>3, <1>5, <1>9 DEF MainInv, ReadsTime
<1>11. ASSUME ReadsTime("trap", least)'
       PROVE  /\ numTicks' * DELAY + DELAY <= mtime'
              /\ ReadsTime("trap", numTicks * DELAY + DELAY)'
  BY <1>1, <1>7, <1>8, <1>11 DEF ReadsTime
<1>12. CASE setStep["trap"] \in {"load1", "load2"}
  <2>1. ReadsTime("trap", least)' /\ mtimecmp' = mtimecmp
    BY <1>2, <1>3, <1>8, <1>12, LoadStep
  <2>2. setStep'["trap"] \in {"load2", "store1"}
    BY <1>2, <1>12 DEF SetNext, Step, TimerTypes
  <2>3. TrapInv'
    BY <1>11, <2>1, <2>2 DEF TrapInv
  <2> QED
    BY <1>1, <1>3, <1>5, <1>9, <1>10, <2>1, <2>2, <2>3 DEF MainInv, Unset
<1>13. CASE setStep["trap"] \in {"store1", "store2"}
  <2>1. ReadsTime("trap", least)' /\ target' = target
    BY <1>2, <1>3, <1>8, <1>13, StoreStep
  <2>2. PICK u \in least .. mtime : /\ u \in Nat /\ target["trap"] = HalvesOf(u)
                                    /\ Advance(target["trap"]) = HalvesOf(u + DELAY)
                                    /\ ValueOf(HalvesOf(u + DELAY)) = u + DELAY
    BY <1>2, <1>3, <1>8, <1>13, StoreStep
  <2> DEFINE sum == HalvesOf(u + DELAY)
  <2>3. /\ mtimecmp \in Times /\ mtimecmp' \in Times /\ sum \in Times
        /\ storeFirst \in Halves
    <3>1. sum \in Times
      BY <1>6, <2>2, HalvesAre
    <3> QED
      BY <1>2, <1>3, <3>1 DEF TimerTypes
  <2>4. setStep["main"] = "store2" => storeFirst = "low" /\ mtimecmp["high"] = 0
    BY <1>5, <2>3 DEF MainInv, Unset, Halves
  <2>5. CASE setStep["trap"] = "store1"
    <3>1. /\ setStep'["trap"] = "store2"
          /\ mtimecmp'[storeFirst] = Advance(target["trap"])[storeFirst]
          /\ mtimecmp'[Other(storeFirst)] = mtimecmp[Other(storeFirst)]
      BY <1>2, <1>3, <1>8, <2>5, StoreStep
    <3>2. TrapInv'
      <4>1. mtimecmp'[storeFirst'] = Advance(target["trap"])'[storeFirst']
        BY <1>1, <2>1, <3>1 DEF Advance, ValueOf
      <4> QED
        BY <1>11, <2>1, <3>1, <4>1 DEF TrapInv
    <3>3. setStep["main"] = "store2" =>
            Advance(target["trap"])["high"] = 0 /\ mtimecmp'["high"] = 0
      BY <1>1, <1>4, <2>4, <2>5, <3>1 DEF Other
    <3> QED
      BY <1>1, <1>3, <1>5, <1>10, <2>1, <3>1, <3>2, <3>3 DEF MainInv, Unset
  <2>6. CASE setStep["trap"] = "store2"
    <3>1. /\ setStep'["trap"] = "count"
          /\ mtimecmp'[Other(storeFirst)] = sum[Other(storeFirst)]
          /\ mtimecmp'[storeFirst] = sum[storeFirst]
      BY <1>2, <1>3, <1>5, <1>8, <2>2, <2>6, StoreStep DEF TrapInv
    <3>2. mtimecmp' = sum
      BY <2>3, <3>1, SameHalves
    <3>3. Due(numTicks + 1)'
      <4>1. ValueOf(mtimecmp') = u + DELAY
        BY <2>2, <3>2
      <4>2. (numTicks + 1) * DELAY + DELAY = least + DELAY
        BY <1>6, <1>7
      <4>3. (numTicks + 1) * DELAY + DELAY <= u + DELAY /\ u + DELAY <= mtime + DELAY
        BY <1>6, <2>2, <4>2
      <4> QED
        BY <1>1, <4>1, <4>3 DEF Due, ValueOf
    <3>4. setStep["main"] = "store2" => mtimecmp'["high"] = 0
      BY <1>5, <2>2, <2>6, <3>2 DEF MainInv
    <3>5. TrapInv'
      BY <1>1, <3>1, <3>3 DEF TrapInv, Due
    <3> QED
      BY <1>1, <1>3, <1>5, <1>10, <2>1, <3>1, <3>4, <3>5 DEF MainInv, Unset
  <2> QED
    BY <1>13, <2>5, <2>6
<1> QED
  BY <1>1, <1>12, <1>13

LEMMA TimerClockStep == ClockInv /\ [DevicesNext]_allVars => ClockInv'
<1> SUFFICES ASSUME ClockInv, [DevicesNext]_allVars
             PROVE  ClockInv'
  OBVIOUS
<1>1. CASE Program
  <2>1. CASE TimerMain
    BY <2>1, StartStep, MainStep DEF TimerMain, irqVars
  <2>2. CASE RegisterPriority \/ RegisterHandler
    BY <2>2, OtherStep DEF RegisterPriority, SetPriority, RegisterHandler, SetHandler
  <2> QED
    BY <1>1, <2>1, <2>2 DEF Program
<1>2. CASE Clock
  BY <1>2, ClockStep DEF Clock, irqVars
<1>3. CASE Idle \/ UNCHANGED allVars
  BY <1>3, OtherStep DEF Idle, allVars, irqVars
<1>4. CASE Plic \/ \E i \in Irqs : Device(i)
  BY <1>4, OtherStep DEF Plic, Notify, Device, Trigger
<1>5. CASE TrapHandler
  <2>1. CASE TimerHandler
    BY <2>1, UnhandledTrapStep, TrapStep, CountStep, HandlerSetsStep DEF TimerHandler, irqVars
  <2>2. CASE RunHandler \/ ((Trap \/ ClearPending \/ Claim \/ Complete) /\ UNCHANGED timerVars)
    BY <2>2, OtherStep
       DEF RunHandler, Dispatch, Trap, ClearPending, Claim, Complete
  <2> QED
    BY <1>5, <2>1, <2>2 DEF TrapHandler
<1> QED
  BY <1>1, <1>2, <1>3, <1>4, <1>5 DEF DevicesNext

\* For any width of the halves of a time, any delay and any interrupts, and
\* wherever the carries and the traps fall: see TicksKeepTime.
THEOREM TicksKeepTimeHolds == DevicesSpec => []TicksKeepTime
<1>1. ClockInv => TicksKeepTime
  <2> SUFFICES ASSUME ClockInv, ~carried, setStep["main"] = "done", isr = "off"
               PROVE  /\ 0 < ValueOf(mtimecmp) /\ ValueOf(mtimecmp) <= mtime + DELAY
                      /\ numTicks * DELAY <= mtime
    BY DEF TicksKeepTime, TimerReady
  <2>1. Due(numTicks)
    BY DEF ClockInv, TimerTypes, MainInv, Unset, TrapInv
  <2>2. /\ mtime \in Nat /\ numTicks * DELAY \in Nat /\ DELAY \in Nat \ {0}
        /\ ValueOf(mtimecmp) \in Nat
    <3>1. mtimecmp["low"] \in Nat /\ mtimecmp["high"] \in Nat /\ Half \in Nat
      BY TimerAssumption DEF ClockInv, TimerTypes, Times, Halves
    <3>2. numTicks \in Nat /\ DELAY \in Nat \ {0} /\ mtime \in Nat
      BY TimerAssumption DEF ClockInv, TimerTypes
    <3> QED
      BY <3>1, <3>2 DEF ValueOf
  <2> QED
    BY <2>1, <2>2 DEF Due
<1> QED
  BY InitClock, TimerClockStep, <1>1, PTL DEF DevicesSpec

=============================================================================
