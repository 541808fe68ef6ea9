------------------------------- MODULE Harts -------------------------------
(***************************************************************************)
(* The software of sw/main.cpp as PROCESSORS harts run it, each from its   *)
(* first instruction in bootstrap.S to the SYS_EXIT that stops the         *)
(* simulation.  The hardware is left arbitrary: an accelerator's interrupt *)
(* handler may run at any moment after its registration.  Platform.tla     *)
(* composes these very actions with the DMA, the accelerators and the PLIC.*)
(*                                                                         *)
(* A step makes at most one access to memory another hart may touch; the   *)
(* read-modify-writes of cnt, total_error and the barrier counter are      *)
(* split into their load and their store, so that only the semaphores      *)
(* protect them.                                                           *)
(***************************************************************************)
EXTENDS Integers, Sequences, FiniteSets, Functions

CONSTANTS PROCESSORS,   \* number of harts (4 in the code)
          NumImages,    \* bound of the inference loop (10 in the code)
          MaxMismatch   \* most mismatches one answer can show (10 in the code)

ASSUME ProcessorsAssumption == PROCESSORS \in Nat \ {0}
ASSUME NumImagesAssumption == NumImages \in Nat
ASSUME MaxMismatchAssumption == MaxMismatch \in Nat

Hart == 0 .. PROCESSORS - 1

Mutexes == {"lock", "dma_lock", "barrier_lock"}
Sems == Mutexes \cup {"barrier_sem", "print_lock"}

NoImage == -1   \* cur_id before the first image is taken

VARIABLES
  pc,              \* where each hart is
  sem,             \* the counting semaphores, by name
  printSem,        \* print_sem; index PROCESSORS lies past the end of the array
  cnt,             \* next image number
  curId,           \* each hart's cur_id
  xfer,            \* which call of the loop body a hart makes: "write" or "read"
  reg,             \* a value loaded from shared memory, 0 when it is dead
  localError,
  totalError,
  barrierCounter,
  j,               \* posts the last hart at the barrier has made
  accCompleted,
  registered,      \* interrupt handlers hart 0 has registered
  exitCounter,
  exitTicket,      \* a0 of each hart after its amoadd
  halted,          \* SYS_EXIT has stopped all harts
  printed,         \* harts in the order they printed their line
  printedTotal     \* the total that hart 0 printed

vars == <<pc, sem, printSem, cnt, curId, xfer, reg, localError, totalError,
          barrierCounter, j, accCompleted, registered, exitCounter, exitTicket,
          halted, printed, printedTotal>>

\* The variables that only some phases of the program touch.
barrierVars == <<barrierCounter, j>>
exitVars == <<exitCounter, exitTicket, halted>>
printVars == <<printSem, printed, printedTotal>>
sumVars == <<localError, totalError>>
imageVars == <<cnt, curId, xfer>>

SetupLabels == {"prio", "table", "init_barrier_lock", "init_barrier_sem",
                "init_print_sem", "init_lock", "init_dma_lock",
                "init_print_lock"}
TakeLabels == {"while", "wait_lock", "take", "inc", "unlock"}
DmaLabels == {"wait_dma", "src", "dst", "len", "op", "dma_unlock"}
AnswerLabels == {"spin", "clear", "compare"}
SumLabels == {"sum_lock", "sum_load", "sum_store", "sum_unlock"}
ArriveLabels == {"bar_lock", "bar_test", "bar_set"}
LeaveLabels == {"bar_unlock", "bar_wait", "bar_unlock_last", "bar_release"}
EndLabels == {"print_wait", "print", "print_post", "exit", "park"}

Labels == SetupLabels \cup TakeLabels \cup DmaLabels \cup AnswerLabels
            \cup SumLabels \cup ArriveLabels \cup LeaveLabels \cup EndLabels

Init ==
  /\ pc = [h \in Hart |-> IF h = 0 THEN "prio" ELSE "while"]
  /\ sem = [s \in Sems |-> 0]
  /\ printSem = [i \in 0 .. PROCESSORS |-> 0]
  /\ cnt = 0
  /\ curId = [h \in Hart |-> NoImage]
  /\ xfer = [h \in Hart |-> "write"]
  /\ reg = [h \in Hart |-> 0]
  /\ localError = [h \in Hart |-> 0]
  /\ totalError = 0
  /\ barrierCounter = 0
  /\ j = 0
  /\ accCompleted = [h \in Hart |-> FALSE]
  /\ registered = 0
  /\ exitCounter = 0
  /\ exitTicket = [h \in Hart |-> 0]
  /\ halted = FALSE
  /\ printed = <<>>
  /\ printedTotal = 0

-----------------------------------------------------------------------------
(* Program counters and semaphores                                         *)

Step(h, from, to) ==
  /\ ~halted
  /\ pc[h] = from
  /\ pc' = [pc EXCEPT ![h] = to]

\* Mutant of SemWait: zero is not waited for.
SemWaitBelowZero(s) == sem' = [sem EXCEPT ![s] = @ - 1]

SemWait(s) == sem[s] > 0 /\ sem' = [sem EXCEPT ![s] = @ - 1]
SemPost(s) == sem' = [sem EXCEPT ![s] = @ + 1]
SemInit(s, count) == sem' = [sem EXCEPT ![s] = count]

-----------------------------------------------------------------------------
(* Hart 0 registers the interrupt handlers and initialises the semaphores  *)

\* register_interrupt_handler enables the interrupt and gives it a priority...
SetPriority ==
  /\ Step(0, "prio", "table")
  /\ UNCHANGED <<sem, reg, accCompleted, registered, imageVars, sumVars,
                 barrierVars, printVars, exitVars>>

\* Mutant of SetHandler: the last accelerator is forgotten.
SetHandlerButLast ==
  /\ Step(0, "table", IF registered + 2 < PROCESSORS
                      THEN "prio" ELSE "init_barrier_lock")
  /\ registered' = registered + 1
  /\ UNCHANGED <<sem, reg, accCompleted, imageVars, sumVars, barrierVars,
                 printVars, exitVars>>

\* ...before it enters the handler in the table.
SetHandler ==
  /\ Step(0, "table", IF registered + 1 < PROCESSORS
                      THEN "prio" ELSE "init_barrier_lock")
  /\ registered' = registered + 1
  /\ UNCHANGED <<sem, reg, accCompleted, imageVars, sumVars, barrierVars,
                 printVars, exitVars>>

InitSemaphores ==
  /\ \/ Step(0, "init_barrier_lock", "init_barrier_sem")
        /\ SemInit("barrier_lock", 1) /\ UNCHANGED printSem
     \/ Step(0, "init_barrier_sem", "init_print_sem")
        /\ SemInit("barrier_sem", 0) /\ UNCHANGED printSem
     \/ Step(0, "init_print_sem", "init_lock")
        /\ printSem' = [i \in 0 .. PROCESSORS |->
                          IF i < PROCESSORS THEN 0 ELSE printSem[i]]
        /\ UNCHANGED sem
     \/ Step(0, "init_lock", "init_dma_lock")
        /\ SemInit("lock", 1) /\ UNCHANGED printSem
     \/ Step(0, "init_dma_lock", "init_print_lock")
        /\ SemInit("dma_lock", 1) /\ UNCHANGED printSem
     \/ Step(0, "init_print_lock", "while")
        /\ SemInit("print_lock", 1) /\ UNCHANGED printSem
  /\ UNCHANGED <<reg, accCompleted, registered, printed, printedTotal,
                 imageVars, sumVars, barrierVars, exitVars>>

Setup == SetPriority \/ SetHandler \/ InitSemaphores

-----------------------------------------------------------------------------
(* The inference loop                                                      *)

\* Mutant of Acquire: the sem_wait is forgotten.
AcquireUnlocked(h, from, s, to) ==
  /\ Step(h, from, to)
  /\ UNCHANGED <<sem, reg, accCompleted, registered, imageVars, sumVars,
                 barrierVars, printVars, exitVars>>

\* Steps that take or give one semaphore and change nothing else.
Acquire(h, from, s, to) ==
  /\ Step(h, from, to)
  /\ SemWait(s)
  /\ UNCHANGED <<reg, accCompleted, registered, imageVars, sumVars,
                 barrierVars, printVars, exitVars>>

Release(h, from, s, to) ==
  /\ Step(h, from, to)
  /\ SemPost(s)
  /\ UNCHANGED <<reg, accCompleted, registered, imageVars, sumVars,
                 barrierVars, printVars, exitVars>>

\* Steps that only move on.
Skip(h, from, to) ==
  /\ Step(h, from, to)
  /\ UNCHANGED <<sem, reg, accCompleted, registered, imageVars, sumVars,
                 barrierVars, printVars, exitVars>>

\* Mutant of TestCnt: <= for <.
TestCntInclusive(h) == Skip(h, "while", IF cnt <= NumImages THEN "wait_lock"
                                                          ELSE "sum_lock")

\* while (cnt < NumImages), read without the lock.
TestCnt(h) == Skip(h, "while", IF cnt < NumImages THEN "wait_lock"
                                                  ELSE "sum_lock")

\* Mutant of TakeLock: cnt is read and incremented without the lock.
TakeLockUnlocked(h) == Skip(h, "wait_lock", "take")

TakeLock(h) == Acquire(h, "wait_lock", "lock", "take")

LoadCnt(h) ==
  /\ Step(h, "take", "inc")
  /\ curId' = [curId EXCEPT ![h] = cnt]
  /\ UNCHANGED <<sem, cnt, xfer, reg, accCompleted, registered, sumVars,
                 barrierVars, printVars, exitVars>>

StoreCnt(h) ==
  /\ Step(h, "inc", "unlock")
  /\ cnt' = curId[h] + 1
  /\ UNCHANGED <<sem, curId, xfer, reg, accCompleted, registered, sumVars,
                 barrierVars, printVars, exitVars>>

DropLock(h) == Release(h, "unlock", "lock", "wait_dma")

\* Mutant of TakeDmaLock: the DMA is programmed without its lock.
TakeDmaLockUnlocked(h) == Skip(h, "wait_dma", "src")

TakeDmaLock(h) == Acquire(h, "wait_dma", "dma_lock", "src")

\* The four register writes of write_data_to_ACC and read_data_from_ACC.
WriteSrc(h) == Skip(h, "src", "dst")
WriteDst(h) == Skip(h, "dst", "len")
WriteLen(h) == Skip(h, "len", "op")
WriteOp(h) == Skip(h, "op", "dma_unlock")

DropDmaLock(h) == Release(h, "dma_unlock", "dma_lock",
                          IF xfer[h] = "write" THEN "spin" ELSE "compare")

\* while (!acc_completed[hart_id]);
SeeCompleted(h) == accCompleted[h] /\ Skip(h, "spin", "clear")

\* Mutant of ClearCompleted: the flag stays set.
ClearCompletedNot(h) ==
  /\ Step(h, "clear", "wait_dma")
  /\ xfer' = [xfer EXCEPT ![h] = "read"]
  /\ UNCHANGED <<sem, cnt, curId, reg, accCompleted, registered, sumVars,
                 barrierVars, printVars, exitVars>>

ClearCompleted(h) ==
  /\ Step(h, "clear", "wait_dma")
  /\ accCompleted' = [accCompleted EXCEPT ![h] = FALSE]
  /\ xfer' = [xfer EXCEPT ![h] = "read"]
  /\ UNCHANGED <<sem, cnt, curId, reg, registered, sumVars, barrierVars,
                 printVars, exitVars>>

\* The answer shows `bad` mismatches with answer[].
Compare(h, bad) ==
  /\ Step(h, "compare", "while")
  /\ localError' = [localError EXCEPT ![h] = @ + bad]
  /\ xfer' = [xfer EXCEPT ![h] = "write"]
  /\ UNCHANGED <<sem, cnt, curId, reg, accCompleted, registered, totalError,
                 barrierVars, printVars, exitVars>>

Infer(h) ==
  \/ TestCnt(h) \/ TakeLock(h) \/ LoadCnt(h) \/ StoreCnt(h) \/ DropLock(h)
  \/ TakeDmaLock(h) \/ WriteSrc(h) \/ WriteDst(h) \/ WriteLen(h) \/ WriteOp(h)
  \/ DropDmaLock(h) \/ SeeCompleted(h) \/ ClearCompleted(h)
  \/ \E bad \in 0 .. MaxMismatch : Compare(h, bad)

-----------------------------------------------------------------------------
(* The global sum and the barrier                                          *)

\* Mutant of SumLock: total_error is updated without the lock.
SumLockUnlocked(h) == Skip(h, "sum_lock", "sum_load")

SumLock(h) == Acquire(h, "sum_lock", "lock", "sum_load")

LoadTotal(h) ==
  /\ Step(h, "sum_load", "sum_store")
  /\ reg' = [reg EXCEPT ![h] = totalError]
  /\ UNCHANGED <<sem, accCompleted, registered, imageVars, sumVars,
                 barrierVars, printVars, exitVars>>

StoreTotal(h) ==
  /\ Step(h, "sum_store", "sum_unlock")
  /\ totalError' = reg[h] + localError[h]
  /\ reg' = [reg EXCEPT ![h] = 0]
  /\ UNCHANGED <<sem, localError, accCompleted, registered, imageVars,
                 barrierVars, printVars, exitVars>>

SumUnlock(h) == Release(h, "sum_unlock", "lock", "bar_lock")

\* Mutant of BarrierLock: the counter is updated without the lock.
BarrierLockUnlocked(h) == Skip(h, "bar_lock", "bar_test")

BarrierLock(h) == Acquire(h, "bar_lock", "barrier_lock", "bar_test")

LoadCounter(h) ==
  /\ Step(h, "bar_test", "bar_set")
  /\ reg' = [reg EXCEPT ![h] = barrierCounter]
  /\ UNCHANGED <<sem, accCompleted, registered, imageVars, sumVars,
                 barrierVars, printVars, exitVars>>

\* Mutant of StoreCounter: the last but one takes itself for the last.
StoreCounterEarly(h) ==
  /\ LET last == reg[h] = PROCESSORS - 2
     IN  /\ Step(h, "bar_set", IF last THEN "bar_unlock_last" ELSE "bar_unlock")
         /\ barrierCounter' = IF last THEN 0 ELSE reg[h] + 1
  /\ reg' = [reg EXCEPT ![h] = 0]
  /\ UNCHANGED <<sem, j, accCompleted, registered, imageVars, sumVars,
                 printVars, exitVars>>

\* The last hart to arrive resets the counter, any other counts itself.
StoreCounter(h) ==
  /\ LET last == reg[h] = PROCESSORS - 1
     IN  /\ Step(h, "bar_set", IF last THEN "bar_unlock_last" ELSE "bar_unlock")
         /\ barrierCounter' = IF last THEN 0 ELSE reg[h] + 1
  /\ reg' = [reg EXCEPT ![h] = 0]
  /\ UNCHANGED <<sem, j, accCompleted, registered, imageVars, sumVars,
                 printVars, exitVars>>

BarrierUnlock(h) == Release(h, "bar_unlock", "barrier_lock", "bar_wait")
BarrierUnlockLast(h) ==
  Release(h, "bar_unlock_last", "barrier_lock", "bar_release")

\* Where a hart goes when it leaves the barrier.
AfterBarrier(h) == IF h = 0 THEN "print" ELSE "print_wait"

BarrierWait(h) == Acquire(h, "bar_wait", "barrier_sem", AfterBarrier(h))

BarrierRelease(h) ==
  /\ j < PROCESSORS - 1
  /\ Step(h, "bar_release", "bar_release")
  /\ SemPost("barrier_sem")
  /\ j' = j + 1
  /\ UNCHANGED <<reg, barrierCounter, accCompleted, registered, imageVars,
                 sumVars, printVars, exitVars>>

BarrierReleased(h) ==
  j >= PROCESSORS - 1 /\ Skip(h, "bar_release", AfterBarrier(h))

Sum(h) == SumLock(h) \/ LoadTotal(h) \/ StoreTotal(h) \/ SumUnlock(h)

Barrier(h) ==
  \/ BarrierLock(h) \/ LoadCounter(h) \/ StoreCounter(h) \/ BarrierUnlock(h)
  \/ BarrierUnlockLast(h) \/ BarrierWait(h) \/ BarrierRelease(h)
  \/ BarrierReleased(h)

-----------------------------------------------------------------------------
(* Printing in core order, and the end of the program in bootstrap.S       *)

\* Mutant of PrintWait: nobody waits for its turn.
PrintWaitNot(h) ==
  /\ Step(h, "print_wait", "print")
  /\ UNCHANGED <<sem, printSem, reg, accCompleted, registered, printed,
                 printedTotal, imageVars, sumVars, barrierVars, exitVars>>

PrintWait(h) ==
  /\ printSem[h] > 0
  /\ Step(h, "print_wait", "print")
  /\ printSem' = [printSem EXCEPT ![h] = @ - 1]
  /\ UNCHANGED <<sem, reg, accCompleted, registered, printed, printedTotal,
                 imageVars, sumVars, barrierVars, exitVars>>

PrintLine(h) ==
  /\ Step(h, "print", "print_post")
  /\ printed' = Append(printed, h)
  /\ printedTotal' = IF h = 0 THEN totalError ELSE printedTotal
  /\ UNCHANGED <<sem, printSem, reg, accCompleted, registered, imageVars,
                 sumVars, barrierVars, exitVars>>

\* "Allow next Core to print": the last hart posts the slot past the array.
PrintPost(h) ==
  /\ Step(h, "print_post", "exit")
  /\ printSem' = [printSem EXCEPT ![h + 1] = @ + 1]
  /\ UNCHANGED <<sem, reg, accCompleted, registered, printed, printedTotal,
                 imageVars, sumVars, barrierVars, exitVars>>

\* amoadd.w a0, t1, 0(t0)
CountExit(h) ==
  /\ Step(h, "exit", "park")
  /\ exitTicket' = [exitTicket EXCEPT ![h] = exitCounter]
  /\ exitCounter' = exitCounter + 1
  /\ UNCHANGED <<sem, reg, halted, accCompleted, registered, imageVars,
                 sumVars, barrierVars, printVars>>

\* Mutant of SysExit: the last hart but one ends the simulation.
SysExitEarly(h) ==
  /\ ~halted
  /\ pc[h] = "park"
  /\ exitTicket[h] >= PROCESSORS - 2
  /\ halted' = TRUE
  /\ UNCHANGED <<pc, sem, reg, exitCounter, exitTicket, accCompleted,
                 registered, imageVars, sumVars, barrierVars, printVars>>

\* blt a0, t2, 1b compares the value the amoadd returned, for ever.
SysExit(h) ==
  /\ ~halted
  /\ pc[h] = "park"
  /\ exitTicket[h] >= PROCESSORS - 1
  /\ halted' = TRUE
  /\ UNCHANGED <<pc, sem, reg, exitCounter, exitTicket, accCompleted,
                 registered, imageVars, sumVars, barrierVars, printVars>>

Finish(h) ==
  PrintWait(h) \/ PrintLine(h) \/ PrintPost(h) \/ CountExit(h) \/ SysExit(h)

-----------------------------------------------------------------------------
(* The specification                                                       *)

HartStep(h) ==
  \/ h = 0 /\ Setup
  \/ Infer(h)
  \/ Sum(h)
  \/ Barrier(h)
  \/ Finish(h)

\* acc_irq_handler_<h>, run on hart 0 between any two of its instructions.
AccIrqHandler(h) ==
  /\ ~halted
  /\ h < registered
  /\ accCompleted' = [accCompleted EXCEPT ![h] = TRUE]
  /\ UNCHANGED <<pc, sem, reg, registered, imageVars, sumVars, barrierVars,
                 printVars, exitVars>>

Halted == halted /\ UNCHANGED vars

Next ==
  \/ \E h \in Hart : HartStep(h)
  \/ \E h \in Hart : AccIrqHandler(h)
  \/ Halted

Spec == Init /\ [][Next]_vars

-----------------------------------------------------------------------------
(* Properties                                                              *)

\* Every variable of sw/main.cpp and bootstrap.S keeps its type; sem_wait never
\* takes a semaphore below zero, and j and the counters stay in range.
TypeOK ==
  /\ pc \in [Hart -> Labels]
  /\ sem \in [Sems -> Nat]
  /\ printSem \in [0 .. PROCESSORS -> Nat]
  /\ cnt \in Nat
  /\ curId \in [Hart -> Nat \cup {NoImage}]
  /\ xfer \in [Hart -> {"write", "read"}]
  /\ reg \in [Hart -> Nat]
  /\ localError \in [Hart -> Nat]
  /\ totalError \in Nat
  /\ barrierCounter \in Nat
  /\ j \in 0 .. PROCESSORS - 1
  /\ accCompleted \in [Hart -> BOOLEAN]
  /\ registered \in Nat
  /\ exitCounter \in Nat
  /\ exitTicket \in [Hart -> Nat]
  /\ halted \in BOOLEAN
  /\ printed \in Seq(Hart)
  /\ printedTotal \in Nat

\* The labels of the critical sections that each binary semaphore guards.
Critical(m) ==
  IF m = "lock" THEN {"take", "inc", "unlock",
                      "sum_load", "sum_store", "sum_unlock"}
  ELSE IF m = "dma_lock" THEN {"src", "dst", "len", "op", "dma_unlock"}
  ELSE {"bar_test", "bar_set", "bar_unlock", "bar_unlock_last"}

\* No two harts are ever between a sem_wait and the sem_post of the same
\* mutex, although harts 1.. may reach their first sem_wait before hart 0 has
\* initialised any semaphore.
MutualExclusion ==
  \A m \in Mutexes : \A g, h \in Hart :
    pc[g] \in Critical(m) /\ pc[h] \in Critical(m) => g = h

\* No image number is handed to two harts: cur_id = cnt; cnt++ under lock.
UniqueIds ==
  \A g, h \in Hart : curId[g] = curId[h] => g = h \/ curId[g] = NoImage

\* The loop test reads cnt without the lock, so up to PROCESSORS - 1 images
\* past the bound are taken, and never more.
CntBound == cnt <= NumImages + PROCESSORS - 1

Arrived(h) == pc[h] \in LeaveLabels \cup EndLabels
Left(h) == pc[h] \in EndLabels

\* The barrier lets nobody through before everybody has arrived, and by then
\* every image has been taken and every local error summed.
BarrierSafety ==
  (\E h \in Hart : Left(h)) =>
    /\ \A h \in Hart : Arrived(h)
    /\ cnt >= NumImages

\* The total that hart 0 prints is the complete sum of all local errors:
\* no update of total_error was lost and none is still to come.
TotalComplete ==
  printed # <<>> => printedTotal = SumFunction(localError)

\* The lines come in core order, each once.
PrintOrder == \A i \in 1 .. Len(printed) : printed[i] = i - 1

\* SYS_EXIT stops the simulation only when every hart has printed its line
\* and is counted; the barrier is left ready for another round, every mutex
\* free and no post of a semaphore unused.
CleanExit ==
  halted =>
    /\ Len(printed) = PROCESSORS
    /\ \A h \in Hart : pc[h] = "park"
    /\ barrierCounter = 0 /\ sem["barrier_sem"] = 0
    /\ \A m \in Mutexes : sem[m] = 1
    /\ \A h \in Hart : printSem[h] = 0

\* "Allow next Core to print": only the PROCESSORS elements that print_sem has
\* are posted.
PrintSemInBounds == printSem[PROCESSORS] = 0

-----------------------------------------------------------------------------
(* The inductive invariant behind HartsProofs.tla                          *)

\* Where hart 0 is until it has initialised mutex m.
Uninitialised(m) ==
  {"prio", "table", "init_barrier_lock"} \cup
  (IF m = "barrier_lock" THEN {}
   ELSE {"init_barrier_sem", "init_print_sem", "init_lock"}) \cup
  (IF m = "dma_lock" THEN {"init_dma_lock"} ELSE {})

\* A mutex is a binary semaphore that is zero while it is held and one while it
\* is not, and until hart 0 has initialised it nobody can hold it.
MutexInvOf(m) ==
  /\ sem[m] \in {0, 1}
  /\ pc[0] \in Uninitialised(m) =>
       sem[m] = 0 /\ \A h \in Hart : pc[h] \notin Critical(m)
  /\ \A h \in Hart : pc[h] \in Critical(m) => sem[m] = 0
  /\ sem[m] = 1 \/ pc[0] \in Uninitialised(m)
       \/ \E h \in Hart : pc[h] \in Critical(m)
  /\ \A g, h \in Hart :
       pc[g] \in Critical(m) /\ pc[h] \in Critical(m) => g = h

MutexInv == \A m \in Mutexes : MutexInvOf(m)

\* Image numbers already taken lie below cnt, except while the taker has
\* loaded cnt and not yet stored its successor.
IdInv ==
  /\ \A h \in Hart : IF pc[h] = "inc" THEN curId[h] = cnt ELSE curId[h] < cnt
  /\ UniqueIds

\* The harts that have passed the loop test and not yet stored cnt.
Committed == {h \in Hart : pc[h] \in {"wait_lock", "take", "inc"}}
CntInv == cnt + Cardinality(Committed) <= NumImages + PROCESSORS - 1

\* While somebody has not arrived, the counter counts those who have and
\* barrier_sem holds nothing to leave with.
BarrierInv ==
  /\ \A h \in Hart : pc[h] = "bar_set" => reg[h] = barrierCounter
  /\ \/ \A h \in Hart : Arrived(h)
     \/ /\ \A h \in Hart :
             ~Left(h) /\ pc[h] \notin {"bar_unlock_last", "bar_release"}
        /\ barrierCounter = Cardinality({h \in Hart : Arrived(h)})
        /\ sem["barrier_sem"] = 0

\* Whoever has left the loop has seen cnt at its bound.
LoopInv ==
  \A h \in Hart :
    pc[h] \in SumLabels \cup ArriveLabels \cup LeaveLabels \cup EndLabels =>
      cnt >= NumImages

\* Once all have arrived, each post of barrier_sem and each hart that still has
\* to leave are accounted for.
Waiters == {h \in Hart : pc[h] \in {"bar_unlock", "bar_wait"}}

ReleaseInv ==
  IF \A h \in Hart : Arrived(h)
  THEN /\ barrierCounter = 0
       /\ Cardinality(Waiters) + j = PROCESSORS - 1 + sem["barrier_sem"]
  ELSE j = 0

\* total_error is the sum of the local errors of the harts that have added
\* theirs, and whoever has loaded it stores its successor next.
Summed(h) == pc[h] \in {"sum_unlock"} \cup ArriveLabels \cup LeaveLabels \cup EndLabels

Added == [h \in Hart |-> IF Summed(h) THEN localError[h] ELSE 0]

SumInv ==
  /\ \A h \in Hart : pc[h] = "sum_store" => reg[h] = totalError
  /\ totalError = SumFunction(Added)
  /\ printed # <<>> => printedTotal = totalError

\* The harts below Len(printed) have printed; the permission to print next is
\* in one place: the hart that printed last, the next one's print_sem, or the
\* next one itself.
Printed(h) == pc[h] \in {"print_post", "exit", "park"}
HasTurn(h) == h = Len(printed) /\ (h > 0 => pc[h - 1] # "print_post")

PrintInv ==
  /\ PrintOrder
  /\ Len(printed) <= PROCESSORS
  /\ \A h \in Hart :
       /\ Printed(h) <=> h < Len(printed)
       /\ pc[h] = "print_post" => h = Len(printed) - 1
       /\ pc[h] = "print" => HasTurn(h)
       /\ printSem[h] = 0 \/ (printSem[h] = 1 /\ 0 < h /\ HasTurn(h) /\ pc[h] # "print")

\* Each parked hart has counted itself, with a ticket below the counter.
Parked == {h \in Hart : pc[h] = "park"}

ExitInv ==
  /\ exitCounter = Cardinality(Parked)
  /\ \A h \in Parked : exitTicket[h] < exitCounter
  /\ halted => exitCounter = PROCESSORS

\* What all of Harts.tla's theorems rest on: together with TypeOK it is inductive,
\* and it implies every property above but PrintSemInBounds.
IInv ==
  /\ MutexInv /\ IdInv /\ CntInv /\ BarrierInv /\ LoopInv
  /\ ReleaseInv /\ SumInv /\ PrintInv /\ ExitInv
=============================================================================
