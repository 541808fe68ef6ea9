------------------------------- MODULE Timer -------------------------------
(***************************************************************************)
(* The timer interrupt of hart 0 (sw/main.cpp, sw/irq.c) next to the       *)
(* external interrupts of Irq.  mtime and mtimecmp have 64 bits and the    *)
(* harts 32: a read or a write of either takes two loads or two stores,    *)
(* whose order is the compiler's choice, and time goes on in between.      *)
(* Time is counted in Half * high + low.  The core-local interruptor is    *)
(* outside the repository; it raises the interrupt while mtimecmp differs  *)
(* from zero and is not beyond mtime.                                      *)
(***************************************************************************)
EXTENDS Irq

CONSTANTS Half,      \* values of one half of a time (2^32 in the code)
          DELAY,     \* 1000 ticks of the clock in the code
          MaxTime    \* the clock stops here (bounds the model)

ASSUME TimerAssumption ==
  Half \in Nat \ {0} /\ DELAY \in 1 .. Half - 1 /\ MaxTime \in Nat

Halves == {"low", "high"}
Contexts == {"main", "trap"}   \* main itself, and the trap handler

VARIABLES mtime,
          mtimecmp,       \* its two halves
          loadFirst, storeFirst,  \* the half that is accessed first
          timerHandler,   \* timer_irq_handler has been registered
          setStep,        \* where each context is in set_next_timer_interrupt
          target,         \* the time it has read, and later the sum
          numTicks,       \* num_ticks
          carried         \* a carry between the halves came between two loads,
                          \* or while main was storing, which a trap can interrupt

timerVars == <<mtime, mtimecmp, loadFirst, storeFirst, timerHandler, setStep, target,
               numTicks, carried>>

Zero == [half \in Halves |-> 0]
ValueOf(t) == t["high"] * Half + t["low"]
HalfOf(t, half) == IF half = "low" THEN t % Half ELSE t \div Half
Other(half) == IF half = "low" THEN "high" ELSE "low"

TimerInit ==
  /\ mtime \in {0, Half + 1} /\ mtimecmp = Zero
  /\ loadFirst \in Halves /\ storeFirst \in Halves
  /\ timerHandler = FALSE
  /\ setStep = [c \in Contexts |-> "off"]
  /\ target = [c \in Contexts |-> Zero]
  /\ numTicks = 0 /\ carried = FALSE

TimePasses ==
  /\ mtime < MaxTime
  /\ mtime' = mtime + 1
  /\ carried' = (carried \/ (mtime' % Half = 0 /\ \E c \in Contexts : setStep[c] = "load2"))
  /\ UNCHANGED <<mtimecmp, loadFirst, storeFirst, timerHandler, setStep, target, numTicks>>

-----------------------------------------------------------------------------
(* set_next_timer_interrupt                                                *)

Step(c, from, to) == setStep[c] = from /\ setStep' = [setStep EXCEPT ![c] = to]

LoadHalf(c, half) ==
  /\ target' = [target EXCEPT ![c][half] = HalfOf(mtime, half)]
  /\ UNCHANGED mtimecmp

\* Mutant of Advance: the carry into the high half is lost.
AdvanceLow(t) == [high |-> t["high"], low |-> (t["low"] + DELAY) % Half]

\* *mtime + 1000
Advance(t) ==
  [half \in Halves |-> HalfOf(ValueOf(t) + DELAY, half)]

StoreHalf(c, half) ==
  /\ mtimecmp' = [mtimecmp EXCEPT ![half] = Advance(target[c])[half]]
  /\ UNCHANGED target

SetNext(c, after) ==
  /\ \/ Step(c, "load1", "load2") /\ LoadHalf(c, loadFirst)
     \/ Step(c, "load2", "store1") /\ LoadHalf(c, Other(loadFirst))
     \/ Step(c, "store1", "store2") /\ StoreHalf(c, storeFirst)
     \/ Step(c, "store2", after) /\ StoreHalf(c, Other(storeFirst))
  /\ carried' = (carried \/ (setStep[c] = "store1" /\ setStep["main"] \notin {"off", "done"}
                             /\ Advance(target[c])["high"] # mtimecmp["high"]))
  /\ UNCHANGED <<mtime, loadFirst, storeFirst, timerHandler, numTicks>>

-----------------------------------------------------------------------------
(* main, and the trap handler                                              *)

\* register_timer_interrupt_handler(timer_irq_handler)
RegisterTimer ==
  /\ ~timerHandler
  /\ timerHandler' = TRUE
  /\ setStep' = [setStep EXCEPT !["main"] = "load1"]
  /\ UNCHANGED <<mtime, mtimecmp, loadFirst, storeFirst, target, numTicks, carried>>

TimerPending == ValueOf(mtimecmp) > 0 /\ mtime >= ValueOf(mtimecmp)

\* The trap with cause 7, when no other trap is being handled or about to be.
\* Without a handler it only takes the interrupt away.
TimerTrap ==
  /\ isr = "off" /\ ~meip /\ TimerPending
  /\ IF timerHandler
     THEN /\ isr' = "timer"
          /\ setStep' = [setStep EXCEPT !["trap"] = "load1"]
          /\ UNCHANGED mtimecmp
     ELSE mtimecmp' = Zero /\ UNCHANGED <<isr, setStep>>
  /\ UNCHANGED <<plicVars, handlerTable, claimed, mtime, loadFirst, storeFirst,
                 timerHandler, target, numTicks, carried>>

\* ++num_ticks, and back to what was interrupted.
CountTick ==
  /\ isr = "timer" /\ setStep["trap"] = "count"
  /\ isr' = "off"
  /\ setStep' = [setStep EXCEPT !["trap"] = "off"]
  /\ numTicks' = numTicks + 1
  /\ UNCHANGED <<plicVars, handlerTable, claimed, mtime, mtimecmp, loadFirst, storeFirst,
                 timerHandler, target, carried>>

TimerMain == isr = "off" /\ (RegisterTimer \/ SetNext("main", "done")) /\ UNCHANGED irqVars
TimerHandler ==
  \/ TimerTrap \/ CountTick
  \/ isr = "timer" /\ SetNext("trap", "count") /\ UNCHANGED irqVars
TimerReady == setStep["main"] = "done"

-----------------------------------------------------------------------------
(* Properties                                                              *)

\* The clock never stops ticking and never ticks early: between traps the next
\* interrupt is at most DELAY away, and there were no more ticks than time for
\* them, as long as no carry falls between the two loads of mtime, which puts
\* the next tick up to 2^32 away, or in main's own two stores, which a trap
\* can interrupt (sw/main.cpp:10-13, 25-28, 227-228).
TicksKeepTime ==
  ~carried /\ TimerReady /\ isr = "off" =>
    /\ 0 < ValueOf(mtimecmp) /\ ValueOf(mtimecmp) <= mtime + DELAY
    /\ numTicks * DELAY <= mtime
=============================================================================
