--------------------------- MODULE PlatformProofs ---------------------------
(***************************************************************************)
(* Theorems about Platform.tla for every number of harts, images, rows and *)
(* every depth of the FIFOs: the machine runs the program of Harts.tla,    *)
(* whose theorems it inherits; whatever the timing, dma_lock keeps each    *)
(* transfer's registers together and no accelerator interrupts too early.  *)
(* When each transfer ends before dma_lock is released, answers are own    *)
(* and whole, and the machine delivers the inference service.              *)
(***************************************************************************)
EXTENDS Platform, FoldLemmas

HP == INSTANCE HartsProofs WITH MaxMismatch <- 1

Lenets == {LenetIrq(p) : p \in Hart}

-----------------------------------------------------------------------------
(* The invariant, whatever the timing                                      *)

IrqTypes ==
  /\ pending \subseteq Irqs /\ enabledPrio \subseteq Lenets
  /\ handlerTable \in [Irqs \cup {I!NoIrq} -> Hart \cup {EmptyHandler}]
  /\ claimed \in Irqs \cup {I!NoIrq}

\* Handlers are registered in the order of the harts, and until the last one is
\* nothing happens in the hardware.
Registering == pc[0] \in {"prio", "table"}

RegisterInv ==
  /\ IF Registering THEN registered < PROCESSORS ELSE registered = PROCESSORS
  /\ \A p \in Hart :
       handlerTable[LenetIrq(p)] = IF p < registered THEN p ELSE EmptyHandler
  /\ handlerTable[DmaIrq] = EmptyHandler
  /\ Registering =>
       /\ D!Quiescent /\ pending = {}
       /\ \A p \in Hart : L!Drained(p) /\ filter[p] = "idle"

\* What hart h has written into the DMA's registers stays there until it
\* releases dma_lock.
Source(h) == IF xfer[h] = "write" THEN Image(curId[h]) ELSE ResultPort(h)
Target(h) == IF xfer[h] = "write" THEN StartPort(h) ELSE LocalBuffer(h)
Size(h) == IF xfer[h] = "write" THEN ImageLen ELSE AnswerLen

ProgramInv ==
  \A h \in Hart :
    /\ pc[h] \in {"dst", "len", "op", "dma_unlock"} => src = Source(h)
    /\ pc[h] \in {"len", "op", "dma_unlock"} => dst = Target(h)
    /\ pc[h] \in {"op", "dma_unlock"} => len = Size(h)
    /\ pc[h] = "dma_unlock" => op = D!OP_MEMCPY

RawInv == HP!TypeOK /\ HP!MutexInv /\ IrqTypes /\ RegisterInv /\ ProgramInv

-----------------------------------------------------------------------------
(* The machine runs the program of Harts.tla                               *)

\* The assumptions of Harts.tla hold of the platform's constants.
LEMMA HartConstants == PROCESSORS \in Nat \ {0} /\ NumImages \in Nat /\ 1 \in Nat
BY PlatformAssumption

LEMMA HartZero == 0 \in Hart /\ HP!Hart = Hart /\ S!Hart = Hart
BY PlatformAssumption DEF Hart, HP!Hart, S!Hart

\* S and HP are the same module instantiated twice.
LEMMA SameNext == [S!Next]_S!vars => [HP!Next]_HP!vars
BY HartZero, SMT DEF S!Setup, HP!Setup, S!SetPriority, HP!SetPriority,
       S!SetHandler, HP!SetHandler, S!InitSemaphores, HP!InitSemaphores,
       S!Infer, HP!Infer, S!TestCnt, HP!TestCnt, S!TakeLock, HP!TakeLock,
       S!LoadCnt, HP!LoadCnt, S!StoreCnt, HP!StoreCnt, S!DropLock,
       HP!DropLock, S!TakeDmaLock, HP!TakeDmaLock, S!WriteSrc, HP!WriteSrc,
       S!WriteDst, HP!WriteDst, S!WriteLen, HP!WriteLen, S!WriteOp,
       HP!WriteOp, S!DropDmaLock, HP!DropDmaLock, S!SeeCompleted,
       HP!SeeCompleted, S!ClearCompleted, HP!ClearCompleted, S!Compare,
       HP!Compare, S!Sum, HP!Sum, S!SumLock, HP!SumLock, S!LoadTotal,
       HP!LoadTotal, S!StoreTotal, HP!StoreTotal, S!SumUnlock, HP!SumUnlock,
       S!Barrier, HP!Barrier, S!BarrierLock, HP!BarrierLock, S!LoadCounter,
       HP!LoadCounter, S!StoreCounter, HP!StoreCounter, S!BarrierUnlock,
       HP!BarrierUnlock, S!BarrierUnlockLast, HP!BarrierUnlockLast,
       S!AfterBarrier, HP!AfterBarrier, S!BarrierWait, HP!BarrierWait,
       S!BarrierRelease, HP!BarrierRelease, S!BarrierReleased,
       HP!BarrierReleased, S!Finish, HP!Finish, S!PrintWait, HP!PrintWait,
       S!PrintLine, HP!PrintLine, S!PrintPost, HP!PrintPost, S!CountExit,
       HP!CountExit, S!SysExit, HP!SysExit, S!HartStep, HP!HartStep, S!Step,
       HP!Step, S!SemWait, HP!SemWait, S!SemPost, HP!SemPost, S!SemInit,
       HP!SemInit, S!Acquire, HP!Acquire, S!Release, HP!Release, S!Skip,
       HP!Skip, S!imageVars, HP!imageVars, S!sumVars, HP!sumVars,
       S!barrierVars, HP!barrierVars, S!printVars, HP!printVars, S!exitVars,
       HP!exitVars, S!Next, HP!Next, S!AccIrqHandler, HP!AccIrqHandler,
       S!Halted, HP!Halted, S!vars, HP!vars

LEMMA SameInit == S!Init => HP!Init
BY DEF S!Init, HP!Init, S!Hart, HP!Hart, S!Sems, HP!Sems, S!Mutexes, HP!Mutexes,
       S!NoImage, HP!NoImage

\* Every step of the machine is one of the program, or leaves it alone.
LEMMA NextProgram == IrqTypes /\ [Next]_vars => [S!Next]_S!vars
<1> SUFFICES ASSUME IrqTypes, [Next]_vars PROVE [S!Next]_S!vars
  OBVIOUS
<1>1. ASSUME NEW h \in Hart, HartAction(h)
      PROVE  S!HartStep(h)
  <2>1. CASE Compute(h)
    BY <2>1 DEF Compute
  <2>2. CASE h = 0 /\ RegisterHandler
    BY <2>2 DEF RegisterHandler, S!HartStep, S!Setup
  <2>3. CASE ProgramDma(h)
    BY <2>3 DEF ProgramDma, S!HartStep, S!Infer
  <2>4. CASE CompareAnswer(h)
    BY <2>4 DEF CompareAnswer, S!HartStep, S!Infer
  <2> QED
    BY <1>1, <2>1, <2>2, <2>3, <2>4 DEF HartAction
<1>2. CASE UNCHANGED hartVars
  BY <1>2 DEF hartVars, S!vars
<1>3. ASSUME RunHandler
      PROVE  [S!Next]_S!vars
  <2>1. handlerTable[claimed] \in Hart \cup {EmptyHandler}
    BY DEF IrqTypes
  <2>2. CASE handlerTable[claimed] = EmptyHandler
    BY <1>2, <1>3, <2>2 DEF RunHandler
  <2>3. CASE handlerTable[claimed] # EmptyHandler
    BY <1>3, <2>1, <2>3, HartZero DEF RunHandler, S!Next
  <2> QED
    BY <2>2, <2>3
<1>4. CASE Live /\ Hardware
  BY <1>2, <1>4 DEF Hardware, DmaAction, WriteBufferAction, FilterAction, PlicAction
<1>5. CASE Live /\ TrapAction
  BY <1>2, <1>3, <1>5 DEF TrapAction
<1>6. CASE UNCHANGED vars
  BY <1>2, <1>6 DEF vars
<1> QED
  BY <1>1, <1>4, <1>5, <1>6, HartZero DEF Next, Stopped, S!Next

-----------------------------------------------------------------------------
(* What the steps of one hart do                                           *)

\* A step that neither enters nor leaves the programming of the DMA, the wait
\* for the answer and the comparison; TakeDmaLock leads to "src".
PlainMove(f, t) ==
  /\ {f, t} \cap {"prio", "table", "dst", "len", "op", "dma_unlock", "spin", "clear",
                  "compare"} = {}
  /\ f # "src"
  /\ f = "wait_dma" <=> t = "src"

PlainStep(h) ==
  /\ UNCHANGED <<curId, xfer, accCompleted, localError, registered>>
  /\ pc' = pc \/ \E f, t : S!Step(h, f, t) /\ PlainMove(f, t)

SpecialStep(h) ==
  \/ S!LoadCnt(h) \/ S!DropDmaLock(h) \/ S!SeeCompleted(h) \/ S!ClearCompleted(h)

LEMMA ComputeSteps ==
  ASSUME NEW h \in Hart, Compute(h)
  PROVE  PlainStep(h) \/ SpecialStep(h)
<1> USE DEF PlainStep, PlainMove, S!imageVars, S!sumVars, S!barrierVars, S!printVars,
            S!exitVars
<1>1. pc[h] \notin {"prio", "table", "src", "dst", "len", "op", "compare"}
      /\ S!HartStep(h)
  BY DEF Compute
<1>2. CASE h = 0 /\ S!Setup
  <2>1. S!InitSemaphores
    BY <1>1, <1>2 DEF S!Setup, S!SetPriority, S!SetHandler, S!Step
  <2> QED
    BY <1>2, <2>1 DEF S!InitSemaphores
<1>3. CASE S!Infer(h)
  <2>1. CASE \E bad \in 0 .. 1 : S!Compare(h, bad)
    BY <1>1, <2>1 DEF S!Compare, S!Step
  <2>2. CASE S!WriteSrc(h) \/ S!WriteDst(h) \/ S!WriteLen(h) \/ S!WriteOp(h)
    BY <1>1, <2>2 DEF S!WriteSrc, S!WriteDst, S!WriteLen, S!WriteOp, S!Skip, S!Step
  <2>3. CASE S!TestCnt(h) \/ S!TakeLock(h) \/ S!DropLock(h) \/ S!TakeDmaLock(h)
    BY <2>3 DEF S!TestCnt, S!TakeLock, S!DropLock, S!TakeDmaLock, S!Skip, S!Acquire,
         S!Release
  <2>4. CASE S!StoreCnt(h)
    BY <2>4 DEF S!StoreCnt
  <2>5. CASE SpecialStep(h)
    BY <2>5
  <2> QED
    BY <1>3, <2>1, <2>2, <2>3, <2>4, <2>5, Zenon DEF S!Infer, SpecialStep
<1>4. CASE S!Sum(h)
  BY <1>4 DEF S!Sum, S!SumLock, S!LoadTotal, S!StoreTotal, S!SumUnlock, S!Acquire,
       S!Release
<1>5. CASE S!Barrier(h)
  <2>1. CASE S!BarrierLock(h) \/ S!LoadCounter(h) \/ S!StoreCounter(h)
    BY <2>1 DEF S!BarrierLock, S!LoadCounter, S!StoreCounter, S!Acquire
  <2>2. CASE \/ S!BarrierUnlock(h) \/ S!BarrierUnlockLast(h) \/ S!BarrierWait(h)
             \/ S!BarrierRelease(h) \/ S!BarrierReleased(h)
    BY <2>2 DEF S!BarrierUnlock, S!BarrierUnlockLast, S!BarrierWait, S!BarrierRelease,
         S!BarrierReleased, S!AfterBarrier, S!Acquire, S!Release, S!Skip
  <2> QED
    BY <1>5, <2>1, <2>2 DEF S!Barrier
<1>6. CASE S!Finish(h)
  BY <1>6 DEF S!Finish, S!PrintWait, S!PrintLine, S!PrintPost, S!CountExit, S!SysExit
<1> QED
  BY <1>1, <1>2, <1>3, <1>4, <1>5, <1>6 DEF S!HartStep

-----------------------------------------------------------------------------
(* The interrupts' types and the registrations                             *)

LEMMA NextIrqTypes == RawInv /\ [Next]_vars => IrqTypes'
<1> SUFFICES ASSUME RawInv, [Next]_vars PROVE IrqTypes'
  OBVIOUS
<1> USE DEF Irqs, Lenets
<1>1. IrqTypes /\ RegisterInv
  BY DEF RawInv
<1>2. CASE UNCHANGED irqVars
  BY <1>1, <1>2 DEF irqVars, IrqTypes
<1>3. ASSUME RegisterHandler
      PROVE  IrqTypes'
  <2>1. registered \in Hart
    <3>1. registered \in Nat
      BY DEF RawInv, HP!TypeOK
    <3>2. Registering
      BY <1>3 DEF RegisterHandler, Registering, S!SetPriority, S!SetHandler, S!Step
    <3> QED
      BY <1>1, <3>1, <3>2, PlatformAssumption DEF RegisterInv, Hart
  <2>2. CASE I!SetPriority(LenetIrq(registered))
    BY <1>1, <2>1, <2>2 DEF I!SetPriority, IrqTypes
  <2>3. CASE I!SetHandler(LenetIrq(registered), registered)
    BY <1>1, <2>1, <2>3 DEF I!SetHandler, I!plicVars, IrqTypes
  <2> QED
    BY <1>3, <2>2, <2>3 DEF RegisterHandler
<1>4. ASSUME NEW i \in Irqs, I!Trigger(i)
      PROVE  IrqTypes'
  BY <1>1, <1>4 DEF I!Trigger, IrqTypes
<1>5. ASSUME I!Notify \/ I!Trap \/ I!ClearPending \/ I!Dispatch \/ I!Complete
      PROVE  IrqTypes'
  BY <1>1, <1>5 DEF I!Notify, I!Trap, I!ClearPending, I!Dispatch, I!Complete, I!plicVars,
       IrqTypes
<1>6. ASSUME I!Claim
      PROVE  IrqTypes'
  <2>1. claimed' \in Irqs \cup {I!NoIrq}
    <3>1. CASE I!Claimable = {}
      BY <1>6, <3>1 DEF I!Claim
    <3>2. CASE I!Claimable # {}
      <4>1. I!Claimable \subseteq Irqs /\ I!Claimable \subseteq Nat
        BY <1>1 DEF IrqTypes, I!Claimable, DmaIrq, LenetIrq, Hart
      <4>2. I!Min(I!Claimable) \in I!Claimable
        BY <3>2, <4>1, LeastIsMember DEF I!Min
      <4> QED
        BY <1>6, <3>2, <4>1, <4>2 DEF I!Claim
    <3> QED
      BY <3>1, <3>2
  <2> QED
    BY <1>1, <1>6, <2>1 DEF I!Claim, IrqTypes
<1>7. CASE \E h \in Hart : HartAction(h)
  BY <1>2, <1>3, <1>7 DEF HartAction, Compute, ProgramDma, CompareAnswer
<1>8. CASE Live /\ Hardware
  <2>1. CASE DmaAction
    BY <1>2, <1>4, <2>1 DEF DmaAction
  <2>2. CASE \E p \in Hart : WriteBufferAction(p) \/ FilterAction(p)
    BY <1>2, <1>4, <2>2 DEF WriteBufferAction, FilterAction
  <2>3. CASE PlicAction
    BY <1>5, <2>3 DEF PlicAction
  <2> QED
    BY <1>8, <2>1, <2>2, <2>3 DEF Hardware
<1>9. CASE Live /\ TrapAction
  BY <1>5, <1>6, <1>9 DEF TrapAction, RunHandler
<1> QED
  BY <1>2, <1>7, <1>8, <1>9 DEF Next, Stopped, vars

\* While hart 0 registers the handlers nobody holds dma_lock.
LEMMA NobodyPrograms ==
  ASSUME RawInv, NEW h \in Hart, pc[h] \in {"src", "dst", "len", "op", "dma_unlock"}
  PROVE  ~Registering
BY HartZero DEF RawInv, HP!MutexInv, HP!MutexInvOf, HP!Mutexes, HP!Uninitialised,
   HP!Critical, Registering

LEMMA NextRegisterInv == RawInv /\ [Next]_vars => RegisterInv'
<1> SUFFICES ASSUME RawInv, [Next]_vars PROVE RegisterInv'
  OBVIOUS
<1>1. /\ IrqTypes /\ RegisterInv /\ registered \in Nat
      /\ pc \in [Hart -> HP!Labels]
  BY HartZero DEF RawInv, HP!TypeOK
<1>2. ASSUME UNCHANGED <<registered, handlerTable>>, Registering' <=> Registering,
             Registering => UNCHANGED <<dmaVars, peVars>> /\ pending' \subseteq pending
      PROVE  RegisterInv'
  <2>1. ASSUME Registering
        PROVE  D!Quiescent' /\ pending' = {}
               /\ \A p \in Hart : L!Drained(p)' /\ filter'[p] = "idle"
    <3>1. D!Quiescent /\ pending = {} /\ \A p \in Hart : L!Drained(p) /\ filter[p] = "idle"
      BY <1>1, <2>1 DEF RegisterInv
    <3>2. UNCHANGED <<dmaVars, peVars>> /\ pending' \subseteq pending
      BY <1>2, <2>1
    <3> QED
      BY <3>1, <3>2 DEF D!Quiescent, L!Drained, dmaVars, peVars
  <2> QED
    BY <1>1, <1>2, <2>1 DEF RegisterInv
<1>3. ASSUME NEW h \in Hart, Compute(h)
      PROVE  RegisterInv'
  <2>1. UNCHANGED registered /\ (Registering' <=> Registering)
    <3>1. CASE PlainStep(h)
      BY <1>1, <3>1, HartZero DEF PlainStep, PlainMove, S!Step, Registering
    <3>2. CASE SpecialStep(h)
      BY <1>1, <3>2, HartZero DEF SpecialStep, S!LoadCnt, S!DropDmaLock, S!SeeCompleted,
           S!ClearCompleted, S!Release, S!Skip, S!Step, Registering
    <3> QED
      BY <1>3, <3>1, <3>2, ComputeSteps
  <2> QED
    BY <1>2, <1>3, <2>1 DEF Compute, irqVars
<1>4. ASSUME RegisterHandler
      PROVE  RegisterInv'
  <2>1. UNCHANGED <<dmaVars, peVars, pending>>
    BY <1>4 DEF RegisterHandler, I!SetPriority, I!SetHandler, I!plicVars
  <2>2. Registering /\ registered < PROCESSORS
    BY <1>1, <1>4 DEF RegisterHandler, S!SetPriority, S!SetHandler, S!Step, RegisterInv,
         Registering
  <2>3. D!Quiescent' /\ pending' = {} /\ \A p \in Hart : L!Drained(p)' /\ filter'[p] = "idle"
    <3>1. D!Quiescent /\ pending = {} /\ \A p \in Hart : L!Drained(p) /\ filter[p] = "idle"
      BY <1>1, <2>2 DEF RegisterInv
    <3> QED
      BY <2>1, <3>1 DEF D!Quiescent, L!Drained, dmaVars, peVars
  <2>4. CASE S!SetPriority /\ I!SetPriority(LenetIrq(registered))
    <3>1. UNCHANGED <<handlerTable, registered>> /\ pc' = [pc EXCEPT ![0] = "table"]
      BY <2>4 DEF S!SetPriority, I!SetPriority, S!Step
    <3>2. Registering'
      BY <1>1, <3>1, HartZero DEF Registering
    <3> QED
      BY <1>1, <2>2, <2>3, <3>1, <3>2 DEF RegisterInv
  <2>5. CASE S!SetHandler /\ I!SetHandler(LenetIrq(registered), registered)
    <3>1. /\ registered' = registered + 1
          /\ handlerTable' = [handlerTable EXCEPT ![LenetIrq(registered)] = registered]
          /\ pc' = [pc EXCEPT ![0] = IF registered + 1 < PROCESSORS THEN "prio"
                                                         ELSE "init_barrier_lock"]
      BY <2>5 DEF S!SetHandler, I!SetHandler, S!Step
    <3>2. IF Registering' THEN registered' < PROCESSORS ELSE registered' = PROCESSORS
      BY <1>1, <2>2, <3>1, HartZero, PlatformAssumption DEF Registering
    <3>3. ASSUME NEW p \in Hart
          PROVE  handlerTable'[LenetIrq(p)] = IF p < registered' THEN p ELSE EmptyHandler
      <4>1. LenetIrq(p) \in Irqs \cup {I!NoIrq} /\ p \in Int
        BY DEF Irqs, Hart
      <4>2. handlerTable[LenetIrq(p)] = IF p < registered THEN p ELSE EmptyHandler
        BY <1>1 DEF RegisterInv
      <4>3. LenetIrq(p) = LenetIrq(registered) <=> p = registered
        BY <1>1, <4>1 DEF LenetIrq
      <4> QED
        BY <1>1, <3>1, <4>1, <4>2, <4>3 DEF IrqTypes
    <3>4. handlerTable'[DmaIrq] = EmptyHandler
      BY <1>1, <3>1 DEF RegisterInv, IrqTypes, DmaIrq, LenetIrq, Irqs
    <3> QED
      BY <2>3, <3>2, <3>3, <3>4 DEF RegisterInv
  <2> QED
    BY <1>4, <2>4, <2>5 DEF RegisterHandler
<1>5. ASSUME NEW h \in Hart, ProgramDma(h)
      PROVE  RegisterInv'
  <2>1. /\ pc[h] \in {"src", "dst", "len", "op"} /\ UNCHANGED <<registered, handlerTable>>
        /\ \E t : pc' = [pc EXCEPT ![h] = t] /\ t \notin {"prio", "table"}
    BY <1>5 DEF ProgramDma, S!WriteSrc, S!WriteDst, S!WriteLen, S!WriteOp, S!Skip, S!Step,
         irqVars
  <2>2. ~Registering /\ ~Registering'
    BY <1>1, <2>1, NobodyPrograms, HartZero DEF Registering
  <2> QED
    BY <1>2, <2>1, <2>2
<1>6. ASSUME NEW h \in Hart, CompareAnswer(h)
      PROVE  RegisterInv'
  <2>1. /\ pc[h] = "compare" /\ pc' = [pc EXCEPT ![h] = "while"]
        /\ UNCHANGED <<registered, handlerTable, dmaVars, peVars, pending>>
    BY <1>6 DEF CompareAnswer, S!Compare, S!Step, irqVars
  <2>2. Registering' <=> Registering
    BY <1>1, <2>1, HartZero DEF Registering
  <2> QED
    BY <1>2, <2>1, <2>2
<1>7. ASSUME DmaAction \/ \E p \in Hart : WriteBufferAction(p) \/ FilterAction(p)
      PROVE  RegisterInv'
  <2>1. UNCHANGED <<registered, handlerTable, pc>>
    BY <1>7 DEF DmaAction, WriteBufferAction, FilterAction, hartVars, irqVars, I!Trigger
  <2>2. ~Registering
    <3>1. SUFFICES ASSUME Registering PROVE FALSE
      OBVIOUS
    <3>2. D!Quiescent /\ \A p \in Hart : L!Drained(p) /\ filter[p] = "idle"
      BY <1>1, <3>1 DEF RegisterInv
    <3>3. CASE DmaAction
      BY <3>2, <3>3 DEF D!Quiescent, DmaAction, D!StartRun, D!LoseRun, ReadImage, ReadResult,
           D!ReadBlock, WriteRow, WriteLocalBuffer, D!WriteBlock, D!Raise
    <3>4. CASE \E p \in Hart : WriteBufferAction(p) \/ FilterAction(p)
      BY <3>2, <3>4, PlatformAssumption DEF L!Drained, WriteBufferAction, FilterAction,
           L!WriteBuffer, L!CollectRow, L!StartCompute, L!ReadStart, L!Compute,
           L!LatencyOver, L!WriteResult
    <3> QED
      BY <1>7, <3>3, <3>4
  <2> QED
    BY <1>2, <2>1, <2>2 DEF Registering
<1>8. ASSUME PlicAction \/ TrapAction
      PROVE  RegisterInv'
  <2>1. UNCHANGED <<registered, pc, handlerTable, dmaVars, peVars>> /\ pending' \subseteq pending
    BY <1>8 DEF PlicAction, TrapAction, RunHandler, I!Notify, I!Trap, I!ClearPending, I!Claim,
         I!Dispatch, I!Complete, I!plicVars, S!AccIrqHandler, hartVars
  <2> QED
    BY <1>2, <2>1 DEF Registering
<1>9. CASE UNCHANGED vars
  BY <1>2, <1>9 DEF vars, hartVars, irqVars, Registering
<1> QED
  BY <1>3, <1>4, <1>5, <1>6, <1>7, <1>8, <1>9 DEF Next, HartAction, Hardware, Stopped

-----------------------------------------------------------------------------
(* The registers of the DMA                                                *)

\* Nobody else is in the section that dma_lock guards.
LEMMA OneProgrammer ==
  ASSUME RawInv, NEW g \in Hart, NEW h \in Hart,
         pc[g] \in {"src", "dst", "len", "op", "dma_unlock"},
         pc[h] \in {"src", "dst", "len", "op", "dma_unlock"}
  PROVE  g = h
BY HartZero DEF RawInv, HP!MutexInv, HP!MutexInvOf, HP!Mutexes, HP!Critical

\* Hart g's share of ProgramInv.
ProgramInvOf(g) ==
  /\ pc[g] \in {"dst", "len", "op", "dma_unlock"} => src = Source(g)
  /\ pc[g] \in {"len", "op", "dma_unlock"} => dst = Target(g)
  /\ pc[g] \in {"op", "dma_unlock"} => len = Size(g)
  /\ pc[g] = "dma_unlock" => op = D!OP_MEMCPY

LEMMA NextProgramInv == RawInv /\ [Next]_vars => ProgramInv'
<1> SUFFICES ASSUME RawInv, [Next]_vars PROVE ProgramInv'
  OBVIOUS
<1>1. /\ pc \in [Hart -> HP!Labels] /\ curId \in [Hart -> Nat \cup {HP!NoImage}]
      /\ xfer \in [Hart -> {"write", "read"}]
  BY HartZero DEF RawInv, HP!TypeOK
<1>2. \A g \in Hart : ProgramInvOf(g)
  BY DEF RawInv, ProgramInv, ProgramInvOf
<1>3. ASSUME NEW g \in Hart, UNCHANGED <<src, dst, len, op>>,
             pc'[g] = pc[g], curId'[g] = curId[g], xfer'[g] = xfer[g]
      PROVE  ProgramInvOf(g)'
  BY <1>2, <1>3 DEF ProgramInvOf, Source, Target, Size
<1>4. ASSUME NEW h \in Hart, NEW t, pc' = [pc EXCEPT ![h] = t],
             t \notin {"dst", "len", "op", "dma_unlock"}, UNCHANGED <<src, dst, len, op>>,
             \A g \in Hart \ {h} : curId'[g] = curId[g] /\ xfer'[g] = xfer[g]
      PROVE  ProgramInv'
  <2>1. \A g \in Hart \ {h} : ProgramInvOf(g)'
    BY <1>1, <1>3, <1>4
  <2>2. ProgramInvOf(h)'
    BY <1>1, <1>4 DEF ProgramInvOf
  <2> QED
    BY <2>1, <2>2 DEF ProgramInv, ProgramInvOf
<1>5. ASSUME UNCHANGED <<src, dst, len, op, pc, curId, xfer>>
      PROVE  ProgramInv'
  BY <1>3, <1>5 DEF ProgramInv, ProgramInvOf
<1>6. ASSUME NEW h \in Hart, Compute(h)
      PROVE  ProgramInv'
  <2>1. UNCHANGED <<src, dst, len, op>>
    BY <1>6 DEF Compute, dmaVars
  <2>2. CASE PlainStep(h)
    BY <1>4, <1>5, <2>1, <2>2 DEF PlainStep, PlainMove, S!Step
  <2>3. CASE S!LoadCnt(h)
    BY <1>1, <1>4, <2>1, <2>3 DEF S!LoadCnt, S!Step
  <2>4. CASE S!DropDmaLock(h)
    <3> DEFINE to == IF xfer[h] = "write" THEN "spin" ELSE "compare"
    <3>1. UNCHANGED <<curId, xfer>> /\ pc' = [pc EXCEPT ![h] = to]
      BY <2>4 DEF S!DropDmaLock, S!Release, S!Step, S!imageVars
    <3>2. to \notin {"dst", "len", "op", "dma_unlock"}
      OBVIOUS
    <3> HIDE DEF to
    <3> QED
      BY <1>4, <2>1, <3>1, <3>2
  <2>5. CASE S!SeeCompleted(h)
    BY <1>4, <2>1, <2>5 DEF S!SeeCompleted, S!Skip, S!Step, S!imageVars
  <2>6. CASE S!ClearCompleted(h)
    BY <1>1, <1>4, <2>1, <2>6 DEF S!ClearCompleted, S!Step
  <2> QED
    BY <1>6, <2>2, <2>3, <2>4, <2>5, <2>6, ComputeSteps DEF SpecialStep
<1>7. ASSUME RegisterHandler
      PROVE  ProgramInv'
  <2>1. /\ UNCHANGED <<src, dst, len, op, curId, xfer>>
        /\ \E t : pc' = [pc EXCEPT ![0] = t] /\ t \notin {"dst", "len", "op", "dma_unlock"}
    BY <1>7 DEF RegisterHandler, S!SetPriority, S!SetHandler, S!Step, dmaVars, S!imageVars
  <2> QED
    BY <1>4, <2>1, HartZero
<1>8. ASSUME NEW h \in Hart, ProgramDma(h)
      PROVE  ProgramInv'
  <2>1. /\ pc[h] \in {"src", "dst", "len", "op"} /\ UNCHANGED <<curId, xfer>>
        /\ \E t : pc' = [pc EXCEPT ![h] = t]
    BY <1>8 DEF ProgramDma, S!WriteSrc, S!WriteDst, S!WriteLen, S!WriteOp, S!Skip, S!Step,
         S!imageVars
  <2>2. \A g \in Hart \ {h} : ProgramInvOf(g)'
    <3> SUFFICES ASSUME NEW g \in Hart \ {h} PROVE ProgramInvOf(g)'
      OBVIOUS
    <3>1. pc[g] \notin {"src", "dst", "len", "op", "dma_unlock"}
      BY <2>1, OneProgrammer
    <3>2. pc'[g] = pc[g]
      BY <1>1, <2>1
    <3> QED
      BY <3>1, <3>2 DEF ProgramInvOf
  <2>3. ProgramInvOf(h)'
    <3> USE DEF ProgramInvOf, Source, Target, Size, S!Skip, S!Step
    <3>1. Source(h)' = Source(h) /\ Target(h)' = Target(h) /\ Size(h)' = Size(h)
      BY <2>1
    <3>2. CASE S!WriteSrc(h) /\ D!WriteSrc(Source(h))
      BY <1>1, <2>1, <3>1, <3>2 DEF S!WriteSrc, D!WriteSrc
    <3>3. CASE S!WriteDst(h) /\ D!WriteDst(Target(h))
      BY <1>1, <1>2, <2>1, <3>1, <3>3 DEF S!WriteDst, D!WriteDst
    <3>4. CASE S!WriteLen(h) /\ D!WriteLen(Size(h))
      BY <1>1, <1>2, <2>1, <3>1, <3>4 DEF S!WriteLen, D!WriteLen
    <3>5. CASE S!WriteOp(h) /\ D!WriteOp(D!OP_MEMCPY)
      BY <1>1, <1>2, <2>1, <3>1, <3>5 DEF S!WriteOp, D!WriteOp
    <3> QED
      BY <1>8, <3>2, <3>3, <3>4, <3>5 DEF ProgramDma
  <2> QED
    BY <2>2, <2>3 DEF ProgramInv, ProgramInvOf
<1>9. ASSUME NEW h \in Hart, CompareAnswer(h)
      PROVE  ProgramInv'
  BY <1>1, <1>4, <1>9 DEF CompareAnswer, S!Compare, S!Step, dmaVars
<1>10. CASE Live /\ Hardware
  BY <1>5, <1>10 DEF Hardware, DmaAction, WriteBufferAction, FilterAction, PlicAction,
     hartVars, dmaVars, D!StartRun, D!LoseRun, ReadImage, ReadResult, WriteRow,
     WriteLocalBuffer, D!ReadBlock, D!WriteBlock, D!Raise, D!registers
<1>11. CASE Live /\ TrapAction
  BY <1>5, <1>11 DEF TrapAction, RunHandler, S!AccIrqHandler, S!imageVars, hartVars, dmaVars
<1>12. CASE UNCHANGED vars
  BY <1>5, <1>12 DEF vars, hartVars, dmaVars
<1> QED
  BY <1>6, <1>7, <1>8, <1>9, <1>10, <1>11, <1>12 DEF Next, HartAction, Stopped

-----------------------------------------------------------------------------
(* The invariant of Spec                                                   *)

LEMMA InitRawInv == Init => RawInv
<1> SUFFICES ASSUME Init PROVE RawInv
  OBVIOUS
<1>1. HP!TypeOK /\ HP!MutexInv
  BY SameInit, HartConstants, HP!InitTypeOK, HP!InitMutexInv DEF Init
<1>2. IrqTypes
  BY DEF Init, I!IrqInit, IrqTypes
<1>3. RegisterInv
  BY HartZero, PlatformAssumption DEF Init, S!Init, D!DmaInit, L!PeInit, I!IrqInit,
     RegisterInv, Registering, D!Quiescent, L!Drained, DmaIrq, LenetIrq, Irqs, Hart
<1>4. ProgramInv
  BY HartZero DEF Init, S!Init, ProgramInv
<1> QED
  BY <1>1, <1>2, <1>3, <1>4 DEF RawInv

LEMMA NextRawInv == RawInv /\ [Next]_vars => RawInv'
<1> SUFFICES ASSUME RawInv, [Next]_vars PROVE RawInv'
  OBVIOUS
<1>1. HP!TypeOK /\ HP!MutexInv /\ [HP!Next]_HP!vars
  BY NextProgram, SameNext DEF RawInv
<1>2. HP!TypeOK' /\ HP!MutexInv'
  BY <1>1, HartConstants, HP!NextTypeOK, HP!NextMutexInv
<1> QED
  BY <1>2, NextIrqTypes, NextRegisterInv, NextProgramInv DEF RawInv

\* The machine runs the program: whatever the hardware does, what the harts do
\* is a behaviour of Harts.tla, so that all theorems about it hold of the machine.
THEOREM RunsTheProgram == Spec => S!Spec
<1>1. Init => S!Init
  BY DEF Init
<1>2. RawInv /\ [Next]_vars => [S!Next]_S!vars
  BY NextProgram DEF RawInv
<1> QED
  BY InitRawInv, NextRawInv, <1>1, <1>2, PTL DEF Spec, S!Spec

\* When a hart writes OP, the other three registers are those of its own transfer
\* (write_data_to_ACC and read_data_from_ACC under dma_lock), whatever the timing.
THEOREM ProgrammedAsUnitHolds == Spec => []ProgrammedAsUnit
<1>1. RawInv => ProgrammedAsUnit
  BY DEF RawInv, ProgramInv, ProgrammedAsUnit, Source, Target, Size
<1> QED
  BY InitRawInv, NextRawInv, <1>1, PTL DEF Spec

\* No accelerator's interrupt is pending before its handler is in the table: the
\* other harts wait for semaphores that hart 0 initialises after its registrations.
THEOREM HandlerReadyHolds == Spec => []HandlerReady
<1>1. RawInv => HandlerReady
  <2> SUFFICES ASSUME RawInv, NEW p \in Hart, LenetIrq(p) \in pending
               PROVE  handlerTable[LenetIrq(p)] = p
    BY DEF HandlerReady
  <2>1. RegisterInv
    BY DEF RawInv
  <2>2. registered = PROCESSORS
    BY <2>1 DEF RegisterInv
  <2> QED
    BY <2>1, <2>2, PlatformAssumption DEF RegisterInv, Hart
<1> QED
  BY InitRawInv, NextRawInv, <1>1, PTL DEF Spec

-----------------------------------------------------------------------------
(* The invariant when each transfer is over in time                        *)

Datum == {Junk} \cup [kind : {"row"}, image : Int, row : RowIndex]

PeTypes ==
  /\ dataFifo \in [Hart -> Seq(Datum)]
  /\ row \in [Hart -> 0 .. Rows]
  /\ inputImg \in [Hart -> [RowIndex -> Datum]]
  /\ startFifo \in [Hart -> Nat]
  /\ filter \in [Hart -> {"idle", "compute", "result", "latency"}]
  /\ scores \in [Hart -> [RowIndex -> Datum]]
  /\ resultFifo \in [Hart -> Seq([RowIndex -> Datum])]
  /\ DOMAIN localBuffer = Hart

\* The trap handler is never entered in vain.
Serving == {"claim", "dispatch", "complete"}

TrapInv ==
  /\ isr \in {"off", "clear"} \cup Serving
  /\ meip => hartEip /\ isr \notin Serving
  /\ isr \in Serving => hartEip
  /\ isr = "clear" => meip
  /\ meip \/ isr = "claim" => I!Claimable # {}
  /\ isr = "dispatch" => claimed \in Lenets \ pending
  /\ HP!Left(0) => isr = "off"

\* xfer tells which of the two calls a hart is in.
XferInv ==
  \A h \in Hart :
    /\ pc[h] \in {"spin", "clear"} => xfer[h] = "write"
    /\ pc[h] = "compare" => xfer[h] = "read"
    /\ pc[h] \notin HP!DmaLabels \cup HP!AnswerLabels => xfer[h] = "write"

\* The DMA works for the hart that holds dma_lock.
DmaInv ==
  /\ engine \in {"wait", "read", "write", "raise"} /\ runEvent \in BOOLEAN
  /\ runEvent => engine = "wait"
  /\ ~D!Quiescent => \E h \in Hart : pc[h] = "dma_unlock"
  /\ n \in Nat /\ off \in Nat
  /\ engine \in {"read", "write"} => off % BLOCK = 0 /\ n > 0 /\ off + n = len
  /\ ~wrecked

\* Rows that hart h has sent of the image it works on.
Sent(h) ==
  IF pc[h] \in {"spin", "clear", "compare"} \/ xfer[h] = "read" THEN Rows
  ELSE IF pc[h] # "dma_unlock" \/ runEvent THEN 0
  ELSE IF engine \in {"read", "write"} THEN off \div BLOCK ELSE Rows

\* The stages of an image in accelerator h.
Collecting(h, sent) ==
  /\ startFifo[h] = 0 /\ filter[h] \in {"idle", "latency"} /\ resultFifo[h] = <<>>
  /\ row[h] + Len(dataFifo[h]) = sent
  /\ \A i \in RowIndex : i < row[h] => inputImg[h][i] = Row(curId[h], i)
  /\ \A i \in 1 .. Len(dataFifo[h]) : dataFifo[h][i] = Row(curId[h], row[h] + i - 1)

Filling(h) == Collecting(h, Sent(h))
Emptied(h) == Collecting(h, 0)

Collected(h) == dataFifo[h] = <<>> /\ row[h] = 0

Started(h) ==
  /\ Collected(h) /\ resultFifo[h] = <<>> /\ inputImg[h] = Whole(curId[h])
  /\ \/ startFifo[h] = 1 /\ filter[h] \in {"idle", "latency"}
     \/ startFifo[h] = 0 /\ filter[h] = "compute"

Computed(h) ==
  /\ Collected(h) /\ resultFifo[h] = <<>> /\ scores[h] = Whole(curId[h])
  /\ startFifo[h] = 0 /\ filter[h] = "result"

Answered(h) ==
  /\ Collected(h) /\ resultFifo[h] = <<Whole(curId[h])>>
  /\ startFifo[h] = 0 /\ filter[h] \in {"idle", "latency"}

\* The completion is on its way to hart h, or has reached it.
InFlight(h) == LenetIrq(h) \in pending \/ (isr = "dispatch" /\ claimed = LenetIrq(h))
Calm(h) == ~InFlight(h) /\ ~accCompleted[h]

HasAnswer(h) == localBuffer[h] = Answer(Whole(curId[h]))

Sending(h) == xfer[h] = "write" /\ pc[h] # "clear"
Asking(h) == xfer[h] = "read" /\ pc[h] # "compare"

ImageInvOf(h) ==
  /\ Sending(h) =>
       \/ Filling(h) /\ Calm(h)
       \/ Sent(h) = Rows /\ (Started(h) \/ Computed(h)) /\ Calm(h)
       \/ Sent(h) = Rows /\ Answered(h) /\ (InFlight(h) <=> ~accCompleted[h])
  /\ pc[h] = "clear" => Answered(h) /\ accCompleted[h] /\ ~InFlight(h)
  /\ Asking(h) => Calm(h)
  /\ Asking(h) /\ (pc[h] # "dma_unlock" \/ runEvent \/ engine = "read") => Answered(h)
  /\ Asking(h) /\ pc[h] = "dma_unlock" /\ ~runEvent /\ engine # "read" =>
       /\ Emptied(h)
       /\ IF engine = "write" THEN buffer = Answer(Whole(curId[h])) ELSE HasAnswer(h)
  /\ pc[h] = "compare" => Emptied(h) /\ Calm(h) /\ HasAnswer(h)

ImageInv == \A h \in Hart : ImageInvOf(h)

TransferInv ==
  \A h \in Hart :
    pc[h] = "dma_unlock" /\ xfer[h] = "write" /\ engine = "write" =>
      buffer = Row(curId[h], off \div BLOCK)

\* So far every answer was right.
ErrorInv == \A h \in Hart : localError[h] = 0

PromptInv ==
  /\ RawInv /\ HP!IInv /\ PeTypes /\ TrapInv /\ XferInv /\ DmaInv /\ ImageInv
  /\ TransferInv /\ ErrorInv

-----------------------------------------------------------------------------
(* The steps again, as the invariant sees them                             *)

HardwareSame ==
  UNCHANGED <<engine, n, off, buffer, peVars, memVars, pending, hartEip, meip, isr, claimed>>

Proceeds(h) ==
  /\ UNCHANGED <<curId, xfer, accCompleted, localError, runEvent>>
  /\ \/ pc' = pc
     \/ \E f, t : /\ pc[h] = f /\ pc' = [pc EXCEPT ![h] = t]
                  /\ {f, t} \cap {"dma_unlock", "spin", "clear", "compare"} = {}
                  /\ f \in HP!DmaLabels => t \in HP!DmaLabels

Takes(h) ==
  /\ pc[h] = "take" /\ pc' = [pc EXCEPT ![h] = "inc"]
  /\ curId' = [curId EXCEPT ![h] = cnt]
  /\ UNCHANGED <<xfer, accCompleted, localError, runEvent>>

StartsDma(h) ==
  /\ pc[h] = "op" /\ pc' = [pc EXCEPT ![h] = "dma_unlock"]
  /\ runEvent' = TRUE
  /\ UNCHANGED <<curId, xfer, accCompleted, localError>>

\* This is where PromptSpec differs from Spec.
LeavesDma(h) ==
  /\ pc[h] = "dma_unlock" /\ D!Quiescent
  /\ pc' = [pc EXCEPT ![h] = IF xfer[h] = "write" THEN "spin" ELSE "compare"]
  /\ UNCHANGED <<curId, xfer, accCompleted, localError, runEvent>>

SeesAnswer(h) ==
  /\ pc[h] = "spin" /\ accCompleted[h] /\ pc' = [pc EXCEPT ![h] = "clear"]
  /\ UNCHANGED <<curId, xfer, accCompleted, localError, runEvent>>

TurnsToRead(h) ==
  /\ pc[h] = "clear" /\ pc' = [pc EXCEPT ![h] = "wait_dma"]
  /\ xfer' = [xfer EXCEPT ![h] = "read"]
  /\ accCompleted' = [accCompleted EXCEPT ![h] = FALSE]
  /\ UNCHANGED <<curId, localError, runEvent>>

Judges(h) ==
  /\ pc[h] = "compare" /\ pc' = [pc EXCEPT ![h] = "while"]
  /\ xfer' = [xfer EXCEPT ![h] = "write"]
  /\ localError' = [localError EXCEPT ![h] = @ + IF Matches(localBuffer[h]) THEN 0 ELSE 1]
  /\ UNCHANGED <<curId, accCompleted, runEvent>>

HartMove(h) ==
  /\ HardwareSame /\ enabledPrio \subseteq enabledPrio'
  /\ h = 0 => isr = "off"
  /\ \/ Proceeds(h) \/ Takes(h) \/ StartsDma(h) \/ LeavesDma(h) \/ SeesAnswer(h)
     \/ TurnsToRead(h) \/ Judges(h)

\* Mostly a step of S!HartStep is plain.
LEMMA HartMoves ==
  ASSUME RawInv, XferInv, NEW h \in Hart, HartAction(h), Prompt
  PROVE  HartMove(h)
<1> USE DEF HartMove, S!imageVars, S!Step
<1>1. HardwareSame /\ enabledPrio \subseteq enabledPrio'
  BY DEF HartAction, Compute, RegisterHandler, ProgramDma, CompareAnswer, dmaVars, irqVars,
     HardwareSame, D!WriteSrc, D!WriteDst, D!WriteLen, D!WriteOp, D!copyVars,
     I!SetPriority, I!SetHandler, I!plicVars
<1>2. h = 0 => isr = "off"
  BY DEF HartAction, Running
<1>3. CASE Compute(h) /\ PlainStep(h)
  <2>1. UNCHANGED <<curId, xfer, accCompleted, localError, runEvent>>
    BY <1>3 DEF Compute, dmaVars, PlainStep
  <2>2. CASE pc' = pc
    BY <1>1, <1>2, <2>1, <2>2 DEF Proceeds
  <2>3. CASE \E f, t : S!Step(h, f, t) /\ PlainMove(f, t)
    <3>1. PICK f, t : S!Step(h, f, t) /\ PlainMove(f, t)
      BY <2>3
    <3>2. pc[h] = f /\ pc' = [pc EXCEPT ![h] = t]
      BY <3>1
    <3>3. {f, t} \cap {"dma_unlock", "spin", "clear", "compare"} = {}
      BY <3>1 DEF PlainMove
    <3>4. f \in HP!DmaLabels => t \in HP!DmaLabels
      BY <1>3, <3>1, <3>2 DEF PlainMove, Compute, HP!DmaLabels
    <3>5. Proceeds(h)
      BY <2>1, <3>2, <3>3, <3>4 DEF Proceeds
    <3> QED
      BY <1>1, <1>2, <3>5
  <2> QED
    BY <1>3, <2>2, <2>3 DEF PlainStep
<1>4. CASE Compute(h) /\ S!LoadCnt(h)
  BY <1>1, <1>2, <1>4 DEF Compute, dmaVars, S!LoadCnt, S!sumVars, Takes
<1>5. CASE Compute(h) /\ S!DropDmaLock(h)
  <2>1. sem' = [sem EXCEPT !["dma_lock"] = @ + 1]
    BY <1>5 DEF S!DropDmaLock, S!Release, S!SemPost
  <2>2. sem["dma_lock"] \in Nat /\ "dma_lock" \in DOMAIN sem
    BY DEF RawInv, HP!TypeOK, HP!Sems, HP!Mutexes
  <2>3. D!Quiescent
    BY <2>1, <2>2 DEF Prompt
  <2> QED
    BY <1>1, <1>2, <1>5, <2>3 DEF Compute, dmaVars, S!DropDmaLock, S!Release, S!sumVars,
       LeavesDma
<1>6. CASE Compute(h) /\ S!SeeCompleted(h)
  BY <1>1, <1>2, <1>6 DEF Compute, dmaVars, S!SeeCompleted, S!Skip, S!sumVars, SeesAnswer
<1>7. CASE Compute(h) /\ S!ClearCompleted(h)
  BY <1>1, <1>2, <1>7 DEF Compute, dmaVars, S!ClearCompleted, S!sumVars, TurnsToRead
<1>8. CASE h = 0 /\ RegisterHandler
  <2>1. /\ UNCHANGED <<curId, xfer, accCompleted, localError, runEvent>>
        /\ pc[h] \in {"prio", "table"}
        /\ \E t \in {"prio", "table", "init_barrier_lock"} : pc' = [pc EXCEPT ![h] = t]
    BY <1>8 DEF RegisterHandler, S!SetPriority, S!SetHandler, S!sumVars, dmaVars
  <2> QED
    BY <1>1, <1>2, <2>1, Zenon DEF Proceeds, HP!DmaLabels
<1>9. CASE ProgramDma(h)
  <2> USE DEF S!WriteSrc, S!WriteDst, S!WriteLen, S!WriteOp, S!Skip, S!sumVars
  <2>1. CASE S!WriteOp(h) /\ D!WriteOp(D!OP_MEMCPY)
    BY <1>1, <1>2, <2>1 DEF D!WriteOp, StartsDma
  <2>2. CASE \/ S!WriteSrc(h) /\ D!WriteSrc(IF xfer[h] = "write" THEN Image(curId[h])
                                                                 ELSE ResultPort(h))
             \/ S!WriteDst(h) /\ D!WriteDst(IF xfer[h] = "write" THEN StartPort(h)
                                                                 ELSE LocalBuffer(h))
             \/ S!WriteLen(h) /\ D!WriteLen(IF xfer[h] = "write" THEN ImageLen ELSE AnswerLen)
    BY <1>1, <1>2, <2>2 DEF D!WriteSrc, D!WriteDst, D!WriteLen, Proceeds, HP!DmaLabels
  <2> QED
    BY <1>9, <2>1, <2>2 DEF ProgramDma
<1>10. CASE CompareAnswer(h)
  BY <1>1, <1>2, <1>10 DEF CompareAnswer, S!Compare, dmaVars, Judges
<1> QED
  BY <1>3, <1>4, <1>5, <1>6, <1>7, <1>8, <1>9, <1>10, ComputeSteps
     DEF HartAction, SpecialStep

\* The DMA serves the hart at "dma_unlock", whose transfer is in the registers.
Starts(h) ==
  /\ runEvent /\ engine = "wait" /\ runEvent' = FALSE /\ engine' = "read"
  /\ n' = Size(h) /\ off' = 0
  /\ UNCHANGED <<buffer, peVars, memVars, pending>>

FetchesRow(h) ==
  /\ xfer[h] = "write" /\ engine = "read" /\ engine' = "write"
  /\ buffer' = Row(curId[h], off \div BLOCK)
  /\ UNCHANGED <<runEvent, n, off, peVars, memVars, pending>>

FetchesAnswer(h) ==
  /\ xfer[h] = "read" /\ engine = "read" /\ engine' = "write"
  /\ L!PopResult(h)
  /\ buffer' = Answer(Head(resultFifo[h]))
  /\ UNCHANGED <<runEvent, n, off, memVars, pending>>

SendsRow(h) ==
  /\ xfer[h] = "write" /\ engine = "write"
  /\ L!PushRow(h, Row(curId[h], off \div BLOCK))
  /\ IF n > BLOCK THEN engine' = "read" /\ off' = off + BLOCK /\ n' = n - BLOCK
                  ELSE engine' = "raise" /\ UNCHANGED <<off, n>>
  /\ UNCHANGED <<runEvent, buffer, memVars, pending>>

StoresAnswer(h) ==
  /\ xfer[h] = "read" /\ engine = "write" /\ engine' = "raise"
  /\ localBuffer' = [localBuffer EXCEPT ![h] = buffer]
  /\ UNCHANGED <<runEvent, n, off, buffer, peVars, wrecked, pending>>

Raises ==
  /\ engine = "raise" /\ engine' = "wait" /\ pending' = pending \cup {DmaIrq}
  /\ UNCHANGED <<runEvent, n, off, buffer, peVars, memVars>>

DmaMove(h) ==
  /\ pc[h] = "dma_unlock"
  /\ UNCHANGED <<hartVars, src, dst, len, op, hartEip, meip, isr, claimed, enabledPrio>>
  /\ \/ Starts(h) \/ FetchesRow(h) \/ FetchesAnswer(h) \/ SendsRow(h) \/ StoresAnswer(h)
     \/ Raises

\* What the copy in progress is like.
LEMMA Transfer ==
  ASSUME RawInv, DmaInv, engine \in {"read", "write"}, NEW h \in Hart, pc[h] = "dma_unlock"
  PROVE  /\ off \in Nat /\ n \in Nat /\ off % BLOCK = 0 /\ n > 0
         /\ off + n = IF xfer[h] = "write" THEN ImageLen ELSE AnswerLen
BY DEF RawInv, ProgramInv, DmaInv, Size

LEMMA DmaMoves ==
  ASSUME RawInv, DmaInv, TransferInv, DmaAction
  PROVE  \E h \in Hart : DmaMove(h)
<1>1. ~D!Quiescent
  BY DEF D!Quiescent, DmaAction, D!StartRun, D!LoseRun, ReadImage, ReadResult,
     D!ReadBlock, WriteRow, WriteLocalBuffer, D!WriteBlock, D!Raise
<1>2. PICK h \in Hart : pc[h] = "dma_unlock"
  BY <1>1 DEF DmaInv
<1>3. /\ src = Source(h) /\ dst = Target(h) /\ len = Size(h) /\ op = D!OP_MEMCPY
      /\ xfer[h] \in {"write", "read"}
  BY <1>2, HartZero DEF RawInv, ProgramInv, HP!TypeOK
<1>4. runEvent => engine = "wait"
  BY DEF DmaInv
<1>5. UNCHANGED hartVars
  BY DEF DmaAction
<1> USE <1>2, <1>3, <1>4, <1>5 DEF DmaMove, D!registers, D!copyVars
<1>6. CASE (D!StartRun \/ D!LoseRun) /\ UNCHANGED <<peVars, irqVars, memVars>>
  BY <1>6 DEF D!StartRun, D!LoseRun, D!OP_MEMCPY, D!OP_NOP, irqVars, Starts
<1>7. CASE ReadImage /\ UNCHANGED <<irqVars, memVars>>
  <2>1. xfer[h] = "write" /\ src.of = curId[h]
    BY <1>7 DEF ReadImage, Source, Image, ResultPort
  <2>2. off < ImageLen
    BY <1>7, <2>1, Transfer, PlatformAssumption DEF ReadImage, D!ReadBlock, ImageLen, BLOCK
  <2> QED
    BY <1>7, <2>1, <2>2 DEF ReadImage, D!ReadBlock, irqVars, FetchesRow
<1>8. CASE ReadResult /\ UNCHANGED <<irqVars, memVars>>
  <2>1. xfer[h] = "read" /\ src.of = h
    BY <1>8 DEF ReadResult, Source, Image, ResultPort
  <2>2. engine = "read"
    BY <1>8 DEF ReadResult, D!ReadBlock
  <2>3. off = 0
    BY <2>1, <2>2, Transfer DEF AnswerLen
  <2> QED
    BY <1>8, <2>1, <2>3 DEF ReadResult, D!ReadBlock, irqVars, FetchesAnswer
<1>9. CASE WriteRow /\ UNCHANGED irqVars
  <2>1. xfer[h] = "write" /\ dst.of = h
    BY <1>9 DEF WriteRow, Target, StartPort, LocalBuffer
  <2>2. buffer = Row(curId[h], off \div BLOCK)
    BY <1>9, <2>1 DEF WriteRow, D!WriteBlock, TransferInv
  <2>3. buffer.kind = "row"
    BY <2>2 DEF Row
  <2>4. L!PushRow(h, Row(curId[h], off \div BLOCK)) /\ D!WriteBlock /\ UNCHANGED memVars
    BY <1>9, <2>1, <2>2, <2>3 DEF WriteRow
  <2>5. n \in Nat
    BY DEF DmaInv
  <2> QED
    BY <1>9, <2>1, <2>4, <2>5 DEF D!WriteBlock, irqVars, SendsRow, BLOCK
<1>10. CASE WriteLocalBuffer /\ UNCHANGED irqVars
  <2>1. xfer[h] = "read" /\ dst.of = h
    BY <1>10 DEF WriteLocalBuffer, Target, StartPort, LocalBuffer
  <2>2. engine = "write"
    BY <1>10 DEF WriteLocalBuffer, D!WriteBlock
  <2>3. off = 0 /\ n = 1
    BY <2>1, <2>2, Transfer DEF AnswerLen
  <2>4. D!Chunk = 1
    BY <2>3 DEF D!Chunk, BLOCK
  <2>5. localBuffer' = [localBuffer EXCEPT ![h] = buffer] /\ UNCHANGED <<wrecked, peVars>>
    BY <1>10, <2>1, <2>3, <2>4 DEF WriteLocalBuffer, AnswerLen
  <2>6. engine' = "raise" /\ UNCHANGED <<n, off, src, dst, len, op, runEvent, buffer>>
    BY <1>10, <2>3 DEF WriteLocalBuffer, D!WriteBlock, BLOCK
  <2> QED
    BY <1>10, <2>1, <2>2, <2>5, <2>6 DEF irqVars, StoresAnswer
<1>11. CASE D!Raise /\ I!Trigger(DmaIrq) /\ UNCHANGED <<peVars, memVars>>
  BY <1>11 DEF D!Raise, I!Trigger, Raises
<1> QED
  BY <1>6, <1>7, <1>8, <1>9, <1>10, <1>11 DEF DmaAction

\* The accelerators.
Quietly(p) ==
  /\ \/ L!CollectRow(p) \/ L!StartCompute(p) \/ L!ReadStart(p) \/ L!Compute(p)
     \/ L!LatencyOver(p)
  /\ UNCHANGED pending

PeMove(p) ==
  /\ Quietly(p) \/ (L!WriteResult(p) /\ pending' = pending \cup {LenetIrq(p)})
  /\ UNCHANGED <<hartVars, dmaVars, memVars, hartEip, meip, isr, claimed, enabledPrio>>

LEMMA PeMoves ==
  ASSUME NEW p \in Hart, WriteBufferAction(p) \/ FilterAction(p)
  PROVE  PeMove(p)
BY DEF WriteBufferAction, FilterAction, L!WriteBuffer, PeMove, Quietly, irqVars, I!Trigger

\* The interrupt path: nothing but the flag of one hart changes in the program.
IrqMove ==
  /\ UNCHANGED <<dmaVars, peVars, memVars, pc, xfer, curId, localError, enabledPrio>>
  /\ \/ UNCHANGED accCompleted
        /\ (I!Notify \/ I!Trap \/ I!ClearPending \/ I!Claim \/ I!Complete)
     \/ \E p \in Hart : /\ claimed = LenetIrq(p) /\ I!Dispatch
                        /\ accCompleted' = [accCompleted EXCEPT ![p] = TRUE]

\* While a completion is in flight, its answer waits to be read.
LEMMA InFlightAnswered ==
  ASSUME RawInv, XferInv, ImageInv, NEW p \in Hart, InFlight(p)
  PROVE  /\ Answered(p) /\ ~accCompleted[p] /\ Sending(p) /\ Sent(p) = Rows
         /\ pc[p] \in {"spin", "dma_unlock"}
<1>1. ImageInvOf(p) /\ xfer[p] \in {"write", "read"}
  BY HartZero DEF ImageInv, RawInv, HP!TypeOK
<1>2. Answered(p) /\ ~accCompleted[p] /\ Sending(p) /\ Sent(p) = Rows
  BY <1>1 DEF ImageInvOf, Calm, Sending, Asking
<1> QED
  BY <1>1, <1>2, PlatformAssumption DEF Sending, Sent, XferInv

LEMMA IrqMoves ==
  ASSUME RawInv, XferInv, TrapInv, ImageInv, PlicAction \/ TrapAction
  PROVE  IrqMove
<1>1. CASE PlicAction \/ (TrapAction /\ ~RunHandler)
  BY <1>1 DEF PlicAction, TrapAction, IrqMove, hartVars, I!Notify, I!Trap, I!ClearPending,
     I!Claim, I!Complete, I!plicVars
<1>2. CASE TrapAction /\ RunHandler
  <2>1. I!Dispatch /\ isr = "dispatch" /\ UNCHANGED <<dmaVars, peVars, memVars, enabledPrio>>
    BY <1>2 DEF TrapAction, RunHandler, I!Dispatch, I!plicVars
  <2>2. PICK p \in Hart : claimed = LenetIrq(p)
    BY <2>1 DEF TrapInv, Lenets
  <2>3. Answered(p)
    BY <2>1, <2>2, InFlightAnswered DEF InFlight
  <2>4. ~Registering
    BY <2>3 DEF RawInv, RegisterInv, L!Drained, Answered
  <2>5. handlerTable[claimed] = p
    BY <2>2, <2>4, PlatformAssumption DEF RawInv, RegisterInv, Hart
  <2>6. S!AccIrqHandler(p)
    BY <1>2, <2>5 DEF RunHandler, EmptyHandler, Hart
  <2> QED
    BY <2>1, <2>2, <2>6 DEF IrqMove, S!AccIrqHandler, S!imageVars, S!sumVars
<1> QED
  BY <1>1, <1>2

\* All steps of PromptSpec.
LEMMA Moves ==
  ASSUME PromptInv, [PromptNext]_vars
  PROVE  \/ \E h \in Hart : HartMove(h) \/ DmaMove(h) \/ PeMove(h)
         \/ IrqMove
         \/ UNCHANGED vars
BY HartMoves, DmaMoves, PeMoves, IrqMoves
   DEF PromptInv, PromptNext, Next, Hardware, Stopped

\* What a step of hart h does to another hart.
LEMMA OthersStay ==
  ASSUME RawInv, NEW h \in Hart, HartMove(h), NEW g \in Hart \ {h}
  PROVE  /\ pc'[g] = pc[g] /\ xfer'[g] = xfer[g] /\ curId'[g] = curId[g]
         /\ accCompleted'[g] = accCompleted[g] /\ localError'[g] = localError[g]
         /\ pc[g] = "dma_unlock" => UNCHANGED <<runEvent, engine, n, off, buffer>>
<1>1. /\ pc \in [Hart -> HP!Labels] /\ curId \in [Hart -> Nat \cup {HP!NoImage}]
      /\ xfer \in [Hart -> {"write", "read"}] /\ localError \in [Hart -> Nat]
      /\ accCompleted \in [Hart -> BOOLEAN]
  BY HartZero DEF RawInv, HP!TypeOK
<1>2. CASE StartsDma(h)
  <2>1. pc[g] # "dma_unlock"
    BY <1>2, OneProgrammer DEF StartsDma
  <2> QED
    BY <1>1, <1>2, <2>1 DEF StartsDma
<1>3. CASE Proceeds(h)
  BY <1>1, <1>3 DEF HartMove, HardwareSame, Proceeds
<1>4. CASE Takes(h) \/ LeavesDma(h) \/ SeesAnswer(h) \/ TurnsToRead(h) \/ Judges(h)
  BY <1>1, <1>4 DEF HartMove, HardwareSame, Takes, LeavesDma, SeesAnswer, TurnsToRead, Judges
<1> QED
  BY <1>2, <1>3, <1>4 DEF HartMove

-----------------------------------------------------------------------------
(* What the steps preserve, part by part                                   *)

LEMMA Types ==
  ASSUME RawInv
  PROVE  /\ pc \in [Hart -> HP!Labels] /\ xfer \in [Hart -> {"write", "read"}]
         /\ curId \in [Hart -> Nat \cup {HP!NoImage}] /\ localError \in [Hart -> Nat]
         /\ accCompleted \in [Hart -> BOOLEAN]
BY HartZero DEF RawInv, HP!TypeOK

LEMMA NextXferInv == PromptInv /\ [PromptNext]_vars => XferInv'
<1> SUFFICES ASSUME PromptInv, [PromptNext]_vars PROVE XferInv'
  OBVIOUS
<1>1. RawInv /\ XferInv
  BY DEF PromptInv
<1>2. ASSUME UNCHANGED <<pc, xfer>>
      PROVE  XferInv'
  BY <1>1, <1>2 DEF XferInv
<1>3. ASSUME NEW h \in Hart, HartMove(h), NEW g \in Hart
      PROVE  /\ pc'[g] \in {"spin", "clear"} => xfer'[g] = "write"
             /\ pc'[g] = "compare" => xfer'[g] = "read"
             /\ pc'[g] \notin HP!DmaLabels \cup HP!AnswerLabels => xfer'[g] = "write"
  <2> USE DEF XferInv, HP!AnswerLabels, HP!DmaLabels
  <2>1. CASE g # h
    <3>1. pc'[g] = pc[g] /\ xfer'[g] = xfer[g]
      BY <1>1, <1>3, <2>1, OthersStay
    <3> QED
      BY <1>1, <3>1
  <2>2. CASE g = h /\ Proceeds(h)
    BY <1>1, <2>2, Types DEF Proceeds
  <2>3. CASE g = h /\ (Takes(h) \/ StartsDma(h))
    BY <1>1, <2>3, Types DEF Takes, StartsDma
  <2>4. CASE g = h /\ LeavesDma(h)
    BY <1>1, <2>4, Types DEF LeavesDma
  <2>5. CASE g = h /\ (SeesAnswer(h) \/ TurnsToRead(h) \/ Judges(h))
    BY <1>1, <2>5, Types DEF SeesAnswer, TurnsToRead, Judges
  <2> QED
    BY <1>3, <2>1, <2>2, <2>3, <2>4, <2>5 DEF HartMove
<1>4. ASSUME NEW h \in Hart, HartMove(h)
      PROVE  XferInv'
  BY <1>3, <1>4 DEF XferInv
<1> QED
  BY <1>2, <1>4, Moves DEF DmaMove, PeMove, IrqMove, hartVars, vars

LEMMA NextErrorInv == PromptInv /\ [PromptNext]_vars => ErrorInv'
<1> SUFFICES ASSUME PromptInv, [PromptNext]_vars PROVE ErrorInv'
  OBVIOUS
<1>1. RawInv /\ ErrorInv /\ ImageInv
  BY DEF PromptInv
<1>2. CASE UNCHANGED localError
  BY <1>1, <1>2 DEF ErrorInv
<1>3. ASSUME NEW h \in Hart, HartMove(h), NEW g \in Hart
      PROVE  localError'[g] = 0
  <2>1. CASE g # h
    BY <1>1, <1>3, <2>1, OthersStay DEF ErrorInv
  <2>2. CASE g = h /\ Judges(h)
    <3>1. localBuffer[h] = Answer(Whole(curId[h]))
      BY <1>1, <2>2 DEF Judges, ImageInv, ImageInvOf, HasAnswer
    <3>2. Matches(localBuffer[h])
      BY <3>1 DEF Matches, Answer, Whole, Row
    <3>3. localError[h] = 0
      BY <1>1 DEF ErrorInv
    <3> QED
      BY <1>1, <2>2, <3>2, <3>3, Types DEF Judges
  <2>3. CASE g = h /\ ~Judges(h)
    BY <1>1, <1>3, <2>3 DEF HartMove, Proceeds, Takes, StartsDma, LeavesDma, SeesAnswer,
       TurnsToRead, ErrorInv
  <2> QED
    BY <2>1, <2>2, <2>3
<1> QED
  BY <1>2, <1>3, Moves DEF DmaMove, PeMove, IrqMove, hartVars, vars, ErrorInv

\* No transfer begins while another one is on its way.
LEMMA NextDmaInv == PromptInv /\ RawInv' /\ [PromptNext]_vars => DmaInv'
<1> SUFFICES ASSUME PromptInv, RawInv', [PromptNext]_vars PROVE DmaInv'
  OBVIOUS
<1>1. RawInv /\ DmaInv
  BY DEF PromptInv
<1>2. ASSUME UNCHANGED <<dmaVars, pc, wrecked>>
      PROVE  DmaInv'
  BY <1>1, <1>2 DEF DmaInv, D!Quiescent, dmaVars
<1>3. ASSUME NEW h \in Hart, HartMove(h)
      PROVE  DmaInv'
  <2>1. UNCHANGED <<engine, n, off, wrecked>>
    BY <1>3 DEF HartMove, HardwareSame, memVars
  <2>2. CASE StartsDma(h)
    <3>1. \A g \in Hart : pc[g] # "dma_unlock"
      BY <1>1, <2>2, OneProgrammer DEF StartsDma
    <3>2. engine = "wait"
      BY <1>1, <3>1 DEF DmaInv, D!Quiescent
    <3>3. runEvent' = TRUE /\ pc'[h] = "dma_unlock"
      BY <1>1, <2>2, Types DEF StartsDma
    <3> QED
      BY <1>1, <2>1, <3>2, <3>3 DEF DmaInv
  <2>3. CASE ~StartsDma(h)
    <3>1. runEvent' = runEvent
      BY <1>3, <2>3 DEF HartMove, Proceeds, Takes, LeavesDma, SeesAnswer, TurnsToRead, Judges
    <3>2. ASSUME ~D!Quiescent
          PROVE  \E g \in Hart : pc'[g] = "dma_unlock" /\ len' = len
      <4>1. PICK g \in Hart : pc[g] = "dma_unlock"
        BY <1>1, <3>2 DEF DmaInv
      <4>2. pc'[g] = "dma_unlock" /\ xfer'[g] = xfer[g]
        <5>1. CASE g # h
          BY <1>1, <1>3, <4>1, <5>1, OthersStay
        <5>2. CASE g = h
          BY <1>3, <2>3, <3>2, <4>1, <5>2 DEF HartMove, Proceeds, Takes, LeavesDma,
             SeesAnswer, TurnsToRead, Judges
        <5> QED
          BY <5>1, <5>2
      <4>3. len = Size(g) /\ len' = Size(g)'
        BY <1>1, <4>1, <4>2 DEF RawInv, ProgramInv
      <4> QED
        BY <4>2, <4>3 DEF Size
    <3>3. engine \in {"read", "write"} => ~D!Quiescent
      BY DEF D!Quiescent
    <3> QED
      BY <1>1, <2>1, <3>1, <3>2, <3>3 DEF DmaInv, D!Quiescent
  <2> QED
    BY <2>2, <2>3
<1>4. ASSUME NEW h \in Hart, DmaMove(h)
      PROVE  DmaInv'
  <2>1. pc' = pc /\ len' = len /\ pc'[h] = "dma_unlock" /\ wrecked' = wrecked
    BY <1>4 DEF DmaMove, hartVars, Starts, FetchesRow, FetchesAnswer, SendsRow, StoresAnswer,
       Raises, memVars
  <2>2. len = Size(h) /\ Size(h) \in Nat \ {0}
    BY <1>1, <1>4, PlatformAssumption DEF DmaMove, RawInv, ProgramInv, Size, ImageLen, BLOCK,
       AnswerLen
  <2>3. CASE Starts(h)
    <3>1. /\ engine' = "read" /\ runEvent' = FALSE /\ n' = len /\ off' = 0
          /\ len \in Nat \ {0}
      BY <2>2, <2>3 DEF Starts
    <3>2. off' % BLOCK = 0 /\ off' + n' = len' /\ n' > 0 /\ n' \in Nat /\ off' \in Nat
      BY <2>1, <3>1 DEF BLOCK
    <3>3. ~runEvent' /\ runEvent' \in BOOLEAN
      BY <3>1
    <3> QED
      BY <1>1, <2>1, <3>1, <3>2, <3>3 DEF DmaInv
  <2>4. CASE FetchesRow(h) \/ FetchesAnswer(h)
    BY <1>1, <2>1, <2>4 DEF FetchesRow, FetchesAnswer, DmaInv
  <2>5. CASE SendsRow(h)
    BY <1>1, <2>1, <2>5 DEF SendsRow, DmaInv, BLOCK
  <2>6. CASE StoresAnswer(h) \/ Raises
    BY <1>1, <2>1, <2>6 DEF StoresAnswer, Raises, DmaInv
  <2> QED
    BY <1>4, <2>3, <2>4, <2>5, <2>6 DEF DmaMove
<1> QED
  BY <1>2, <1>3, <1>4, Moves DEF PeMove, IrqMove, hartVars, vars, memVars

LEMMA NextTransferInv == PromptInv /\ [PromptNext]_vars => TransferInv'
<1> SUFFICES ASSUME PromptInv, [PromptNext]_vars PROVE TransferInv'
  OBVIOUS
<1>1. RawInv /\ DmaInv /\ TransferInv
  BY DEF PromptInv
<1>2. ASSUME UNCHANGED <<dmaVars, pc, xfer, curId>>
      PROVE  TransferInv'
  BY <1>1, <1>2 DEF TransferInv, dmaVars
<1>3. ASSUME NEW h \in Hart, HartMove(h), NEW g \in Hart,
             pc'[g] = "dma_unlock", xfer'[g] = "write", engine' = "write"
      PROVE  buffer' = Row(curId'[g], off' \div BLOCK)
  <2>1. UNCHANGED <<engine, off, buffer>>
    BY <1>3 DEF HartMove, HardwareSame
  <2>2. ~D!Quiescent
    BY <1>3, <2>1 DEF D!Quiescent
  <2>3. PICK k \in Hart : pc[k] = "dma_unlock"
    BY <1>1, <2>2 DEF DmaInv
  <2>4. pc[g] = "dma_unlock" /\ xfer[g] = xfer'[g] /\ curId[g] = curId'[g]
    <3>1. CASE g # h
      BY <1>1, <1>3, <3>1, OthersStay
    <3>2. CASE g = h
      <4>1. ~StartsDma(h)
        BY <1>1, <2>3, OneProgrammer DEF StartsDma
      <4> QED
        BY <1>1, <1>3, <2>2, <3>2, <4>1, Types DEF HartMove, Proceeds, Takes, LeavesDma,
           SeesAnswer, TurnsToRead, Judges
    <3> QED
      BY <3>1, <3>2
  <2> QED
    BY <1>1, <1>3, <2>1, <2>4 DEF TransferInv
<1>4. ASSUME NEW h \in Hart, DmaMove(h), NEW g \in Hart,
             pc'[g] = "dma_unlock", xfer'[g] = "write", engine' = "write"
      PROVE  buffer' = Row(curId'[g], off' \div BLOCK)
  <2>1. UNCHANGED <<pc, xfer, curId>> /\ pc[h] = "dma_unlock"
    BY <1>4 DEF DmaMove, hartVars
  <2>2. g = h
    BY <1>1, <1>4, <2>1, OneProgrammer
  <2> QED
    BY <1>4, <2>1, <2>2 DEF DmaMove, Starts, FetchesRow, FetchesAnswer, SendsRow,
       StoresAnswer, Raises
<1> QED
  BY <1>2, <1>3, <1>4, Moves DEF PeMove, IrqMove, hartVars, vars, TransferInv

LEMMA NextPeTypes == PromptInv /\ [PromptNext]_vars => PeTypes'
<1> SUFFICES ASSUME PromptInv, [PromptNext]_vars PROVE PeTypes'
  OBVIOUS
<1> USE DEF PeTypes
<1>1. RawInv /\ DmaInv /\ PeTypes
  BY DEF PromptInv
<1>2. CASE UNCHANGED <<peVars, memVars>>
  BY <1>1, <1>2 DEF peVars, memVars
<1>3. ASSUME NEW h \in Hart, DmaMove(h)
      PROVE  PeTypes'
  <2>1. CASE FetchesAnswer(h)
    <3>1. resultFifo[h] \in Seq([RowIndex -> Datum]) /\ resultFifo[h] # <<>>
      BY <1>1, <2>1 DEF FetchesAnswer, L!PopResult
    <3>2. Tail(resultFifo[h]) \in Seq([RowIndex -> Datum])
      BY <3>1
    <3> QED
      BY <1>1, <2>1, <3>2 DEF FetchesAnswer, L!PopResult, memVars
  <2>2. CASE SendsRow(h)
    <3>1. off < ImageLen /\ off % BLOCK = 0 /\ off \in Nat
      BY <1>1, <1>3, <2>2, Transfer DEF DmaMove, SendsRow
    <3>2. off \div BLOCK \in RowIndex
      BY <3>1, PlatformAssumption DEF ImageLen, BLOCK, RowIndex
    <3>3. curId[h] \in Int
      BY <1>1, Types DEF HP!NoImage
    <3>4. Row(curId[h], off \div BLOCK) \in Datum
      BY <3>2, <3>3 DEF Row, Datum
    <3>5. Append(dataFifo[h], Row(curId[h], off \div BLOCK)) \in Seq(Datum)
      BY <1>1, <3>4
    <3> QED
      BY <1>1, <2>2, <3>5 DEF SendsRow, L!PushRow, memVars
  <2>3. CASE StoresAnswer(h)
    BY <1>1, <2>3 DEF StoresAnswer, peVars
  <2>4. CASE Starts(h) \/ FetchesRow(h) \/ Raises
    BY <1>2, <2>4 DEF Starts, FetchesRow, Raises
  <2> QED
    BY <1>3, <2>1, <2>2, <2>3, <2>4 DEF DmaMove
<1>4. ASSUME NEW p \in Hart, PeMove(p)
      PROVE  PeTypes'
  <2>1. localBuffer' = localBuffer
    BY <1>4 DEF PeMove, memVars
  <2>2. CASE L!CollectRow(p)
    <3>1. row[p] \in RowIndex /\ row[p] + 1 \in 0 .. Rows
      BY <1>1, <2>2, PlatformAssumption DEF L!CollectRow, RowIndex
    <3>2. dataFifo[p] \in Seq(Datum) /\ dataFifo[p] # <<>>
      BY <1>1, <2>2 DEF L!CollectRow
    <3>3. Head(dataFifo[p]) \in Datum /\ Tail(dataFifo[p]) \in Seq(Datum)
      BY <3>2
    <3> QED
      BY <1>1, <2>1, <2>2, <3>1, <3>3 DEF L!CollectRow
  <2>3. CASE L!StartCompute(p)
    BY <1>1, <2>1, <2>3, PlatformAssumption DEF L!StartCompute
  <2>4. CASE L!ReadStart(p)
    BY <1>1, <2>1, <2>4 DEF L!ReadStart
  <2>5. CASE L!Compute(p)
    BY <1>1, <2>1, <2>5 DEF L!Compute
  <2>6. CASE L!LatencyOver(p)
    BY <1>1, <2>1, <2>6 DEF L!LatencyOver
  <2>7. CASE L!WriteResult(p)
    <3>1. Append(resultFifo[p], scores[p]) \in Seq([RowIndex -> Datum])
      BY <1>1
    <3> QED
      BY <1>1, <2>1, <2>7, <3>1 DEF L!WriteResult
  <2> QED
    BY <1>4, <2>2, <2>3, <2>4, <2>5, <2>6, <2>7 DEF PeMove, Quietly
<1> QED
  BY <1>2, <1>3, <1>4, Moves DEF HartMove, HardwareSame, IrqMove, vars

\* Nobody leaves the barrier while an accelerator's interrupt is to be served.
LEMMA StaysToServe ==
  ASSUME PromptInv, NEW p \in Hart, InFlight(p)
  PROVE  ~HP!Left(0)
<1>1. pc[p] \in {"spin", "dma_unlock"}
  BY InFlightAnswered DEF PromptInv
<1>2. ~HP!Arrived(p)
  BY <1>1 DEF HP!Arrived, HP!LeaveLabels, HP!EndLabels
<1> QED
  BY <1>2, HartZero DEF PromptInv, HP!IInv, HP!BarrierInv

LEMMA ClaimableInFlight ==
  ASSUME PromptInv, I!Claimable # {}
  PROVE  /\ I!Claimable \subseteq Lenets
         /\ \E p \in Hart : InFlight(p)
         /\ I!Min(I!Claimable) \in I!Claimable
<1>1. I!Claimable \subseteq Lenets /\ I!Claimable \subseteq Nat
  BY DEF PromptInv, RawInv, IrqTypes, I!Claimable, Lenets, LenetIrq, Hart
<1>2. \E p \in Hart : InFlight(p)
  BY <1>1 DEF Lenets, InFlight, I!Claimable
<1>3. I!Min(I!Claimable) \in I!Claimable
  BY <1>1, LeastIsMember DEF I!Min
<1> QED
  BY <1>1, <1>2, <1>3

LEMMA NextTrapInv == PromptInv /\ [PromptNext]_vars => TrapInv'
<1> SUFFICES ASSUME PromptInv, [PromptNext]_vars PROVE TrapInv'
  OBVIOUS
<1> USE DEF TrapInv, Serving
<1>1. RawInv /\ TrapInv /\ ImageInv /\ XferInv
  BY DEF PromptInv
<1>2. ASSUME UNCHANGED <<isr, meip, hartEip, claimed>>, I!Claimable \subseteq I!Claimable',
             isr = "dispatch" => claimed \in Lenets \ pending',
             HP!Left(0)' => HP!Left(0) \/ isr = "off"
      PROVE  TrapInv'
  BY <1>1, <1>2
<1>3. ASSUME NEW h \in Hart, HartMove(h)
      PROVE  TrapInv'
  <2>1. /\ UNCHANGED <<isr, meip, hartEip, claimed, pending>>
        /\ enabledPrio \subseteq enabledPrio'
    BY <1>3 DEF HartMove, HardwareSame
  <2>2. HP!Left(0)' => HP!Left(0) \/ isr = "off"
    <3>1. CASE h = 0
      BY <1>3, <3>1 DEF HartMove
    <3>2. CASE h # 0
      BY <1>1, <1>3, <3>2, OthersStay, HartZero DEF HP!Left
    <3> QED
      BY <3>1, <3>2
  <2> QED
    BY <1>1, <1>2, <2>1, <2>2 DEF I!Claimable
<1>4. ASSUME NEW h \in Hart, DmaMove(h)
      PROVE  TrapInv'
  <2>1. UNCHANGED <<isr, meip, hartEip, claimed, enabledPrio, pc>>
    BY <1>4 DEF DmaMove, hartVars
  <2>2. pending' = pending \/ pending' = pending \cup {DmaIrq}
    BY <1>4 DEF DmaMove, Starts, FetchesRow, FetchesAnswer, SendsRow, StoresAnswer, Raises
  <2>3. DmaIrq \notin Lenets
    BY DEF DmaIrq, Lenets, LenetIrq, Hart
  <2> QED
    BY <1>1, <1>2, <2>1, <2>2, <2>3 DEF I!Claimable, HP!Left
<1>5. ASSUME NEW p \in Hart, PeMove(p)
      PROVE  TrapInv'
  <2>1. UNCHANGED <<isr, meip, hartEip, claimed, enabledPrio, pc>>
    BY <1>5 DEF PeMove, hartVars
  <2>2. CASE pending' = pending
    BY <1>1, <1>2, <2>1, <2>2 DEF I!Claimable, HP!Left
  <2>3. CASE L!WriteResult(p) /\ pending' = pending \cup {LenetIrq(p)}
    <3>1. ~Answered(p)
      BY <2>3 DEF L!WriteResult, Answered
    <3>2. ~InFlight(p)
      BY <1>1, <3>1, InFlightAnswered
    <3> QED
      BY <1>1, <1>2, <2>1, <2>3, <3>2 DEF I!Claimable, HP!Left, InFlight
  <2> QED
    BY <1>5, <2>2, <2>3 DEF PeMove, Quietly
<1>6. ASSUME IrqMove
      PROVE  TrapInv'
  <2>1. UNCHANGED <<pc, enabledPrio>>
    BY <1>6 DEF IrqMove
  <2>2. HP!Left(0)' <=> HP!Left(0)
    BY <2>1 DEF HP!Left
  <2>3. CASE I!Notify
    BY <1>1, <2>1, <2>2, <2>3 DEF I!Notify, I!Claimable
  <2>4. CASE I!Trap
    <3>1. ~HP!Left(0)
      BY <1>1, <2>4, ClaimableInFlight, StaysToServe DEF I!Trap
    <3> QED
      BY <1>1, <2>1, <2>2, <2>4, <3>1 DEF I!Trap, I!plicVars, I!Claimable
  <2>5. CASE I!ClearPending
    BY <1>1, <2>1, <2>2, <2>5 DEF I!ClearPending, I!Claimable
  <2>6. CASE I!Claim
    <3>1. isr = "claim" /\ I!Claimable # {}
      BY <1>1, <2>6 DEF I!Claim
    <3>2. claimed' = I!Min(I!Claimable) /\ pending' = pending \ {claimed'}
      BY <2>6, <3>1 DEF I!Claim
    <3>3. claimed' \in Lenets \ pending'
      BY <3>1, <3>2, ClaimableInFlight
    <3> QED
      BY <1>1, <2>2, <2>6, <3>1, <3>3 DEF I!Claim
  <2>7. CASE I!Dispatch
    BY <1>1, <2>2, <2>7 DEF I!Dispatch, I!plicVars
  <2>8. CASE I!Complete
    BY <1>1, <2>8 DEF I!Complete
  <2> QED
    BY <1>6, <2>3, <2>4, <2>5, <2>6, <2>7, <2>8 DEF IrqMove
<1>7. CASE UNCHANGED vars
  BY <1>1, <1>2, <1>7 DEF vars, hartVars, irqVars, I!Claimable, HP!Left
<1> QED
  BY <1>3, <1>4, <1>5, <1>6, <1>7, Moves

-----------------------------------------------------------------------------
(* The stages of an image                                                  *)

\* What ImageInvOf(g) speaks about stays as it is.
Undisturbed(g) ==
  /\ pc'[g] = pc[g] /\ xfer'[g] = xfer[g] /\ curId'[g] = curId[g]
  /\ accCompleted'[g] = accCompleted[g] /\ localBuffer'[g] = localBuffer[g]
  /\ dataFifo'[g] = dataFifo[g] /\ row'[g] = row[g] /\ inputImg'[g] = inputImg[g]
  /\ startFifo'[g] = startFifo[g] /\ filter'[g] = filter[g] /\ scores'[g] = scores[g]
  /\ resultFifo'[g] = resultFifo[g]
  /\ InFlight(g)' <=> InFlight(g)
  /\ pc[g] = "dma_unlock" => UNCHANGED <<runEvent, engine, off, buffer>>

\* The predicates that ImageInvOf(g) is made of.
Stages(g) ==
  /\ Emptied(g)' <=> Emptied(g)
  /\ Sent(g)' = Sent(g) => (Filling(g)' <=> Filling(g))
  /\ Started(g)' <=> Started(g)
  /\ Computed(g)' <=> Computed(g)
  /\ Answered(g)' <=> Answered(g)

SamePe(g) ==
  /\ dataFifo'[g] = dataFifo[g] /\ row'[g] = row[g] /\ inputImg'[g] = inputImg[g]
  /\ startFifo'[g] = startFifo[g] /\ filter'[g] = filter[g] /\ scores'[g] = scores[g]
  /\ resultFifo'[g] = resultFifo[g]

LEMMA SameStages ==
  ASSUME NEW g \in Hart, curId'[g] = curId[g], SamePe(g)
  PROVE  Stages(g)
<1> USE DEF SamePe
<1>1. Emptied(g)' <=> Emptied(g)
  BY DEF Emptied, Collecting
<1>2. ASSUME Sent(g)' = Sent(g) PROVE Filling(g)' <=> Filling(g)
  BY <1>2 DEF Filling, Collecting
<1>3. Collected(g)' <=> Collected(g)
  BY DEF Collected
<1>4. Started(g)' <=> Started(g)
  BY <1>3 DEF Started
<1>5. Computed(g)' <=> Computed(g)
  BY <1>3 DEF Computed
<1>6. Answered(g)' <=> Answered(g)
  BY <1>3 DEF Answered
<1> QED
  BY <1>1, <1>2, <1>4, <1>5, <1>6 DEF Stages

LEMMA UndisturbedImage ==
  ASSUME NEW g \in Hart, ImageInvOf(g), Undisturbed(g)
  PROVE  ImageInvOf(g)'
<1> USE DEF Undisturbed
<1>1. Stages(g)
  BY SameStages DEF SamePe
<1>2. Sent(g)' = Sent(g)
  BY DEF Sent
<1>3. /\ Calm(g)' <=> Calm(g)
      /\ Sending(g)' <=> Sending(g)
      /\ Asking(g)' <=> Asking(g)
      /\ HasAnswer(g)' <=> HasAnswer(g)
  BY DEF Calm, Sending, Asking, HasAnswer
<1> QED
  BY <1>1, <1>2, <1>3 DEF ImageInvOf, Stages

\* Instructions of hart h.
LEMMA HartImage ==
  ASSUME PromptInv, NEW h \in Hart, HartMove(h)
  PROVE  ImageInvOf(h)'
<1>1. /\ RawInv /\ XferInv /\ DmaInv /\ PeTypes /\ ImageInvOf(h)
      /\ xfer[h] \in {"write", "read"}
  BY Types DEF PromptInv, ImageInv
<1>2. UNCHANGED <<engine, off, buffer, peVars, localBuffer, pending, isr, claimed>>
  BY DEF HartMove, HardwareSame, memVars
<1>3. InFlight(h)' <=> InFlight(h)
  BY <1>2 DEF InFlight
<1>4. SamePe(h)
  BY <1>2 DEF SamePe, peVars
<1>5. ASSUME curId'[h] = curId[h]
      PROVE  Stages(h) /\ (HasAnswer(h)' <=> HasAnswer(h))
  BY <1>2, <1>4, <1>5, SameStages DEF HasAnswer
<1>6. ASSUME accCompleted'[h] = accCompleted[h]
      PROVE  Calm(h)' <=> Calm(h)
  BY <1>3, <1>6 DEF Calm
<1> USE DEF Sending, Asking, Stages
<1>7. CASE Proceeds(h) /\ pc' = pc
  <2>1. Undisturbed(h)
    BY <1>2, <1>3, <1>7 DEF Proceeds, Undisturbed, peVars
  <2> QED
    BY <1>1, <2>1, UndisturbedImage
<1>8. CASE Proceeds(h) /\ pc' # pc
  <2>1. /\ UNCHANGED <<curId, xfer, accCompleted, runEvent>>
        /\ pc[h] \notin {"dma_unlock", "spin", "clear", "compare"}
        /\ pc'[h] \notin {"dma_unlock", "spin", "clear", "compare"}
    BY <1>1, <1>8, Types DEF Proceeds
  <2>2. Sent(h)' = Sent(h)
    BY <2>1 DEF Sent
  <2> QED
    BY <1>1, <1>3, <1>5, <1>6, <2>1, <2>2 DEF ImageInvOf
<1>9. CASE Takes(h)
  <2>1. /\ pc[h] = "take" /\ pc'[h] = "inc" /\ UNCHANGED <<xfer, accCompleted>>
        /\ xfer[h] = "write"
    BY <1>1, <1>9, Types DEF Takes, XferInv, HP!DmaLabels, HP!AnswerLabels
  <2>2. Sent(h) = 0 /\ Sent(h)' = 0
    BY <2>1 DEF Sent
  <2>3. Filling(h) /\ Calm(h)
    BY <1>1, <2>1, <2>2, PlatformAssumption DEF ImageInvOf
  <2>4. row[h] = 0 /\ Len(dataFifo[h]) = 0
    <3>1. row[h] \in Nat /\ Len(dataFifo[h]) \in Nat
      BY <1>1 DEF PeTypes
    <3> QED
      BY <2>2, <2>3, <3>1 DEF Filling, Collecting
  <2>5. Filling(h)'
    BY <1>4, <2>2, <2>3, <2>4 DEF Filling, Collecting, SamePe, RowIndex
  <2> QED
    BY <1>6, <2>1, <2>3, <2>5 DEF ImageInvOf
<1>10. CASE StartsDma(h)
  <2>1. /\ pc[h] = "op" /\ pc'[h] = "dma_unlock" /\ runEvent'
        /\ UNCHANGED <<curId, xfer, accCompleted>>
    BY <1>1, <1>10, Types DEF StartsDma
  <2>2. Sent(h)' = Sent(h)
    BY <2>1 DEF Sent
  <2> QED
    BY <1>1, <1>3, <1>5, <1>6, <2>1, <2>2 DEF ImageInvOf
<1>11. CASE LeavesDma(h)
  <2>1. /\ pc[h] = "dma_unlock" /\ ~runEvent /\ engine = "wait"
        /\ pc'[h] = IF xfer[h] = "write" THEN "spin" ELSE "compare"
        /\ UNCHANGED <<curId, xfer, accCompleted>>
    BY <1>1, <1>11, Types DEF LeavesDma, D!Quiescent
  <2>2. Sent(h)' = Sent(h)
    BY <2>1 DEF Sent
  <2> QED
    BY <1>1, <1>3, <1>5, <1>6, <2>1, <2>2 DEF ImageInvOf
<1>12. CASE SeesAnswer(h)
  <2>1. /\ pc[h] = "spin" /\ pc'[h] = "clear" /\ accCompleted[h]
        /\ UNCHANGED <<curId, xfer, accCompleted>> /\ xfer[h] = "write"
    BY <1>1, <1>12, Types DEF SeesAnswer, XferInv
  <2>2. Answered(h) /\ ~InFlight(h)
    BY <1>1, <2>1 DEF ImageInvOf, Calm
  <2> QED
    BY <1>3, <1>5, <2>1, <2>2 DEF ImageInvOf
<1>13. CASE TurnsToRead(h)
  <2>1. /\ pc[h] = "clear" /\ pc'[h] = "wait_dma" /\ xfer'[h] = "read"
        /\ ~accCompleted'[h] /\ UNCHANGED curId
    BY <1>1, <1>13, Types DEF TurnsToRead
  <2>2. Answered(h) /\ ~InFlight(h)
    BY <1>1, <2>1 DEF ImageInvOf
  <2> QED
    BY <1>3, <1>5, <2>1, <2>2 DEF ImageInvOf, Calm
<1>14. CASE Judges(h)
  <2>1. /\ pc[h] = "compare" /\ pc'[h] = "while" /\ xfer'[h] = "write"
        /\ UNCHANGED <<curId, accCompleted>>
    BY <1>1, <1>14, Types DEF Judges
  <2>2. Emptied(h) /\ Calm(h)
    BY <1>1, <2>1 DEF ImageInvOf
  <2>3. Sent(h)' = 0
    BY <2>1 DEF Sent
  <2>4. Filling(h)'
    BY <1>4, <2>1, <2>2, <2>3 DEF Filling, Emptied, Collecting, SamePe
  <2> QED
    BY <1>6, <2>1, <2>2, <2>4 DEF ImageInvOf
<1> QED
  BY <1>7, <1>8, <1>9, <1>10, <1>11, <1>12, <1>13, <1>14 DEF HartMove

\* Transactions of the DMA for hart h.
LEMMA DmaImage ==
  ASSUME PromptInv, NEW h \in Hart, DmaMove(h)
  PROVE  ImageInvOf(h)'
<1>1. /\ RawInv /\ DmaInv /\ PeTypes /\ ImageInvOf(h) /\ pc[h] = "dma_unlock"
      /\ xfer[h] \in {"write", "read"}
  BY Types DEF PromptInv, ImageInv, DmaMove
<1>2. UNCHANGED <<pc, xfer, curId, accCompleted, isr, claimed>>
  BY DEF DmaMove, hartVars
<1>3. Calm(h)' <=> Calm(h)
  <2>1. pending' = pending \/ pending' = pending \cup {DmaIrq}
    BY DEF DmaMove, Starts, FetchesRow, FetchesAnswer, SendsRow, StoresAnswer, Raises
  <2>2. DmaIrq # LenetIrq(h)
    BY DEF DmaIrq, LenetIrq, Hart
  <2>3. LenetIrq(h) \in pending' <=> LenetIrq(h) \in pending
    BY <2>1, <2>2
  <2> QED
    BY <1>2, <2>3 DEF Calm, InFlight
<1>4. InFlight(h)' <=> InFlight(h)
  <2>1. pending' = pending \/ pending' = pending \cup {DmaIrq}
    BY DEF DmaMove, Starts, FetchesRow, FetchesAnswer, SendsRow, StoresAnswer, Raises
  <2>2. DmaIrq # LenetIrq(h)
    BY DEF DmaIrq, LenetIrq, Hart
  <2> QED
    BY <1>2, <2>1, <2>2 DEF InFlight
<1>5. ASSUME UNCHANGED peVars
      PROVE  Stages(h)
  BY <1>2, <1>5, SameStages DEF SamePe, peVars
<1> USE DEF Sending, Asking, Stages
<1>6. CASE Starts(h)
  <2>1. /\ runEvent /\ engine = "wait" /\ ~runEvent' /\ engine' = "read" /\ off' = 0
        /\ UNCHANGED peVars
    BY <1>6 DEF Starts
  <2>2. Sent(h)' = Sent(h)
    BY <1>1, <1>2, <2>1 DEF Sent, BLOCK
  <2> QED
    BY <1>1, <1>2, <1>3, <1>4, <1>5, <2>1, <2>2 DEF ImageInvOf
<1>7. CASE FetchesRow(h)
  <2>1. /\ engine = "read" /\ engine' = "write" /\ UNCHANGED <<peVars, runEvent, off>>
        /\ xfer[h] = "write"
    BY <1>7 DEF FetchesRow
  <2>2. Sent(h)' = Sent(h)
    BY <1>2, <2>1 DEF Sent
  <2> QED
    BY <1>1, <1>2, <1>3, <1>4, <1>5, <2>1, <2>2 DEF ImageInvOf
<1>8. CASE FetchesAnswer(h)
  <2>1. /\ engine = "read" /\ engine' = "write" /\ xfer[h] = "read"
        /\ UNCHANGED <<dataFifo, row, startFifo, filter, inputImg, runEvent>>
        /\ resultFifo'[h] = Tail(resultFifo[h]) /\ buffer' = Answer(Head(resultFifo[h]))
    BY <1>1, <1>8 DEF FetchesAnswer, L!PopResult, PeTypes
  <2>2. Answered(h) /\ Calm(h)
    BY <1>1, <2>1 DEF ImageInvOf
  <2>3. Emptied(h)' /\ buffer' = Answer(Whole(curId'[h]))
    <3> DEFINE w == Whole(curId[h])
    <3>1. /\ resultFifo[h] = <<w>> /\ dataFifo[h] = <<>> /\ row[h] = 0 /\ startFifo[h] = 0
          /\ filter[h] \in {"idle", "latency"}
      BY <2>2 DEF Answered, Collected
    <3>2. w = Whole(curId'[h])
      BY <1>2
    <3> HIDE DEF w
    <3>3. Head(resultFifo[h]) = w /\ Tail(resultFifo[h]) = <<>> /\ Len(dataFifo[h]) = 0
      BY <3>1
    <3>4. Emptied(h)'
      BY <1>2, <2>1, <3>1, <3>3 DEF Emptied, Collecting, RowIndex
    <3> QED
      BY <2>1, <3>2, <3>3, <3>4
  <2>4. ~runEvent'
    BY <1>1, <2>1 DEF DmaInv
  <2> QED
    BY <1>1, <1>2, <1>3, <2>1, <2>2, <2>3, <2>4 DEF ImageInvOf
<1>9. CASE SendsRow(h)
  <2> DEFINE rr == Row(curId[h], off \div BLOCK)
  <2>1. /\ engine = "write" /\ xfer[h] = "write"
        /\ UNCHANGED <<row, startFifo, filter, inputImg, resultFifo, runEvent>>
        /\ dataFifo'[h] = Append(dataFifo[h], rr)
    BY <1>1, <1>9 DEF SendsRow, L!PushRow, PeTypes
  <2>2. off \in Nat /\ n \in Nat /\ off % 2 = 0 /\ n > 0 /\ off + n = Rows * 2
    BY <1>1, <2>1, Transfer DEF ImageLen, BLOCK
  <2>3. ~runEvent
    BY <1>1, <2>1 DEF DmaInv
  <2>4. Sent(h) = off \div 2
    BY <1>1, <2>1, <2>3 DEF Sent, BLOCK
  <2>5. off \div 2 \in Nat /\ off \div 2 < Rows
    BY <2>2, PlatformAssumption
  <2>6. Filling(h) /\ Calm(h)
    BY <1>1, <2>1, <2>4, <2>5 DEF ImageInvOf
  <2>7. Sent(h)' = off \div 2 + 1
    <3>1. CASE n > 2
      <4>1. engine' = "read" /\ off' = off + 2
        BY <1>9, <3>1 DEF SendsRow, BLOCK
      <4>2. Sent(h)' = off' \div 2
        BY <1>1, <1>2, <2>1, <2>3, <4>1 DEF Sent, BLOCK
      <4> QED
        BY <2>2, <4>1, <4>2
    <3>2. CASE ~(n > 2)
      <4>1. engine' = "raise"
        BY <1>9, <3>2 DEF SendsRow, BLOCK
      <4>2. Sent(h)' = Rows
        BY <1>1, <1>2, <2>1, <2>3, <4>1 DEF Sent
      <4>3. Rows = off \div 2 + 1
        BY <2>2, <3>2, PlatformAssumption
      <4> QED
        BY <4>2, <4>3
    <3> QED
      BY <3>1, <3>2
  <2>8. Filling(h)'
    <3> HIDE DEF rr
    <3>1. /\ dataFifo[h] \in Seq(Datum) /\ row[h] \in Nat
          /\ Len(dataFifo[h]) \in Nat
      BY <1>1 DEF PeTypes
    <3>2. /\ startFifo[h] = 0 /\ filter[h] \in {"idle", "latency"} /\ resultFifo[h] = <<>>
          /\ row[h] + Len(dataFifo[h]) = off \div 2
          /\ \A i \in RowIndex : i < row[h] => inputImg[h][i] = Row(curId[h], i)
          /\ \A i \in 1 .. Len(dataFifo[h]) : dataFifo[h][i] = Row(curId[h], row[h] + i - 1)
      BY <2>4, <2>6 DEF Filling, Collecting
    <3>3. rr = Row(curId[h], row[h] + (Len(dataFifo[h]) + 1) - 1)
      <4>1. row[h] + (Len(dataFifo[h]) + 1) - 1 = off \div 2
        BY <3>1, <3>2
      <4> QED
        BY <4>1 DEF rr, BLOCK
    <3>4. /\ Len(dataFifo'[h]) = Len(dataFifo[h]) + 1
          /\ dataFifo'[h][Len(dataFifo[h]) + 1] = rr
          /\ \A i \in 1 .. Len(dataFifo[h]) : dataFifo'[h][i] = dataFifo[h][i]
      BY <2>1, <3>1
    <3>5. ASSUME NEW i \in 1 .. Len(dataFifo'[h])
          PROVE  dataFifo'[h][i] = Row(curId[h], row[h] + i - 1)
      <4>1. i \in 1 .. Len(dataFifo[h]) \/ i = Len(dataFifo[h]) + 1
        BY <3>1, <3>4
      <4> QED
        BY <3>2, <3>3, <3>4, <4>1
    <3>6. row[h] + Len(dataFifo'[h]) = off \div 2 + 1
      BY <3>1, <3>2, <3>4
    <3> QED
      BY <1>2, <2>1, <2>7, <3>2, <3>5, <3>6 DEF Filling, Collecting
  <2> QED
    BY <1>1, <1>2, <1>3, <2>1, <2>6, <2>8 DEF ImageInvOf
<1>10. CASE StoresAnswer(h)
  <2>1. /\ engine = "write" /\ engine' = "raise" /\ xfer[h] = "read"
        /\ UNCHANGED <<peVars, runEvent, off>> /\ localBuffer'[h] = buffer
    BY <1>1, <1>10 DEF StoresAnswer, PeTypes
  <2>2. ~runEvent
    BY <1>1, <2>1 DEF DmaInv
  <2>3. Emptied(h) /\ Calm(h) /\ buffer = Answer(Whole(curId[h]))
    BY <1>1, <2>1, <2>2 DEF ImageInvOf
  <2>4. HasAnswer(h)'
    BY <1>2, <2>1, <2>3 DEF HasAnswer
  <2> QED
    BY <1>1, <1>2, <1>3, <1>5, <2>1, <2>2, <2>3, <2>4 DEF ImageInvOf
<1>11. CASE Raises
  <2>1. /\ engine = "raise" /\ engine' = "wait"
        /\ UNCHANGED <<peVars, memVars, runEvent, off>>
    BY <1>11 DEF Raises
  <2>2. Sent(h)' = Sent(h)
    BY <1>2, <2>1 DEF Sent
  <2>3. HasAnswer(h)' <=> HasAnswer(h)
    BY <1>2, <2>1 DEF HasAnswer, memVars
  <2>4. ~runEvent
    BY <1>1, <2>1 DEF DmaInv
  <2> QED
    BY <1>1, <1>2, <1>3, <1>4, <1>5, <2>1, <2>2, <2>3, <2>4 DEF ImageInvOf
<1> QED
  BY <1>6, <1>7, <1>8, <1>9, <1>10, <1>11 DEF DmaMove

\* In each stage an accelerator can do one thing for the image of hart p.
LEMMA StageOfStep ==
  ASSUME PromptInv, NEW p \in Hart
  PROVE  /\ L!CollectRow(p) \/ L!StartCompute(p) =>
              Sending(p) /\ Filling(p) /\ Calm(p)
         /\ L!ReadStart(p) =>
              Sending(p) /\ Sent(p) = Rows /\ Started(p) /\ startFifo[p] = 1 /\ Calm(p)
         /\ L!Compute(p) =>
              Sending(p) /\ Sent(p) = Rows /\ Started(p) /\ startFifo[p] = 0 /\ Calm(p)
         /\ L!WriteResult(p) => Sending(p) /\ Sent(p) = Rows /\ Computed(p) /\ Calm(p)
<1>1. /\ ImageInvOf(p) /\ xfer[p] \in {"write", "read"} /\ row[p] \in Nat
      /\ dataFifo[p] \in Seq(Datum)
      /\ pc[p] = "clear" => xfer[p] = "write"
      /\ pc[p] = "compare" => xfer[p] = "read"
  BY Types DEF PromptInv, ImageInv, PeTypes, XferInv
<1>2. Emptied(p) => dataFifo[p] = <<>> /\ row[p] = 0
  BY <1>1 DEF Emptied, Collecting
<1>3. L!CollectRow(p) \/ L!StartCompute(p) => dataFifo[p] # <<>> \/ row[p] # 0
  BY PlatformAssumption DEF L!CollectRow, L!StartCompute
<1>4. L!CollectRow(p) \/ L!StartCompute(p) => Sending(p) /\ Filling(p) /\ Calm(p)
  BY <1>1, <1>2, <1>3 DEF ImageInvOf, Sending, Asking, Started, Computed, Answered, Collected
<1>5. L!ReadStart(p) =>
        Sending(p) /\ Sent(p) = Rows /\ Started(p) /\ startFifo[p] = 1 /\ Calm(p)
  BY <1>1 DEF L!ReadStart, ImageInvOf, Sending, Asking, Started, Computed, Answered, Filling,
     Emptied, Collecting
<1>6. L!Compute(p) =>
        Sending(p) /\ Sent(p) = Rows /\ Started(p) /\ startFifo[p] = 0 /\ Calm(p)
  BY <1>1 DEF L!Compute, ImageInvOf, Sending, Asking, Started, Computed, Answered, Filling,
     Emptied, Collecting
<1>7. L!WriteResult(p) => Sending(p) /\ Sent(p) = Rows /\ Computed(p) /\ Calm(p)
  BY <1>1 DEF L!WriteResult, ImageInvOf, Sending, Asking, Started, Computed, Answered,
     Filling, Emptied, Collecting
<1> QED
  BY <1>4, <1>5, <1>6, <1>7

\* A hart sends no more than an image.
LEMMA SentIsNat ==
  ASSUME RawInv, DmaInv, NEW h \in Hart
  PROVE  Sent(h) \in 0 .. Rows
<1>1. CASE pc[h] = "dma_unlock" /\ engine \in {"read", "write"} /\ xfer[h] = "write"
  <2>1. off \in Nat /\ n \in Nat /\ off % 2 = 0 /\ n > 0 /\ off + n = Rows * 2
    BY <1>1, Transfer DEF ImageLen, BLOCK
  <2>2. off \div 2 \in 0 .. Rows
    BY <2>1, PlatformAssumption
  <2> QED
    BY <2>2, PlatformAssumption DEF Sent, BLOCK
<1>2. CASE ~(pc[h] = "dma_unlock" /\ engine \in {"read", "write"} /\ xfer[h] = "write")
  BY <1>2, PlatformAssumption, Types DEF Sent
<1> QED
  BY <1>1, <1>2

\* Steps of accelerator p, for hart p.
LEMMA PeImage ==
  ASSUME PromptInv, NEW p \in Hart, PeMove(p)
  PROVE  ImageInvOf(p)'
<1>1. RawInv /\ DmaInv /\ PeTypes /\ ImageInvOf(p)
  BY DEF PromptInv, ImageInv
<1>2. UNCHANGED <<pc, xfer, curId, accCompleted, isr, claimed, runEvent, engine, off, buffer,
                  localBuffer>>
  BY DEF PeMove, hartVars, dmaVars, memVars
<1>3. Sent(p)' = Sent(p) /\ (Sending(p)' <=> Sending(p)) /\ (Asking(p)' <=> Asking(p))
  BY <1>2 DEF Sent, Sending, Asking
<1>4. HasAnswer(p)' <=> HasAnswer(p)
  BY <1>2 DEF HasAnswer
<1>5. ASSUME UNCHANGED pending
      PROVE  (Calm(p)' <=> Calm(p)) /\ (InFlight(p)' <=> InFlight(p))
  BY <1>2, <1>5 DEF Calm, InFlight
<1>6. ASSUME Sending(p), Filling(p)' \/ (Sent(p) = Rows /\ (Started(p)' \/ Computed(p)')),
             Calm(p)'
      PROVE  ImageInvOf(p)'
  <2>1. ~Asking(p) /\ pc[p] # "clear" /\ pc[p] # "compare"
    BY <1>6 DEF PromptInv, Sending, Asking, XferInv
  <2> QED
    BY <1>2, <1>3, <1>6, <2>1 DEF ImageInvOf
<1>7. CASE L!CollectRow(p) /\ UNCHANGED pending
  <2>1. Sending(p) /\ Filling(p) /\ Calm(p)
    BY <1>7, StageOfStep
  <2>2. /\ dataFifo'[p] = Tail(dataFifo[p]) /\ UNCHANGED <<startFifo, filter, resultFifo>>
        /\ dataFifo[p] \in Seq(Datum) /\ dataFifo[p] # <<>>
    BY <1>1, <1>7 DEF L!CollectRow, PeTypes
  <2>3. row'[p] = row[p] + 1 /\ row[p] \in RowIndex /\ row[p] \in Nat
    BY <1>1, <1>7, PlatformAssumption DEF L!CollectRow, PeTypes, RowIndex
  <2>4. \A i \in RowIndex :
           inputImg'[p][i] = IF i = row[p] THEN Head(dataFifo[p]) ELSE inputImg[p][i]
    BY <1>1, <1>7, <2>3 DEF L!CollectRow, PeTypes
  <2>5. /\ startFifo[p] = 0 /\ filter[p] \in {"idle", "latency"} /\ resultFifo[p] = <<>>
        /\ row[p] + Len(dataFifo[p]) = Sent(p)
        /\ \A i \in RowIndex : i < row[p] => inputImg[p][i] = Row(curId[p], i)
        /\ \A i \in 1 .. Len(dataFifo[p]) : dataFifo[p][i] = Row(curId[p], row[p] + i - 1)
    BY <2>1 DEF Filling, Collecting
  <2>6. /\ Len(dataFifo[p]) \in Nat /\ Len(dataFifo[p]) > 0
        /\ Len(dataFifo'[p]) = Len(dataFifo[p]) - 1
        /\ Head(dataFifo[p]) = dataFifo[p][1]
        /\ \A i \in 1 .. Len(dataFifo'[p]) : dataFifo'[p][i] = dataFifo[p][i + 1]
    BY <2>2
  <2>7. row'[p] + Len(dataFifo'[p]) = Sent(p)
    <3>1. row[p] + Len(dataFifo[p]) = Sent(p)
      BY <2>5
    <3>2. Len(dataFifo[p]) \in Nat /\ Len(dataFifo'[p]) = Len(dataFifo[p]) - 1
      BY <2>6
    <3> QED
      BY <2>3, <3>1, <3>2
  <2>8. ASSUME NEW i \in RowIndex, i < row'[p]
        PROVE  inputImg'[p][i] = Row(curId[p], i)
    <3>1. CASE i = row[p]
      <4>1. row[p] + 1 - 1 = row[p] /\ 1 \in 1 .. Len(dataFifo[p])
        BY <2>6, <2>3
      <4>2. Head(dataFifo[p]) = Row(curId[p], row[p])
        BY <2>5, <2>6, <4>1
      <4> QED
        BY <2>4, <3>1, <4>2
    <3>2. CASE i # row[p]
      <4>1. i < row[p]
        BY <2>8, <2>3, <3>2 DEF RowIndex
      <4> QED
        BY <2>5, <2>4, <3>2, <4>1
    <3> QED
      BY <3>1, <3>2
  <2>9. ASSUME NEW i \in 1 .. Len(dataFifo'[p])
        PROVE  dataFifo'[p][i] = Row(curId[p], row'[p] + i - 1)
    <3>1. i \in Nat /\ i + 1 \in 1 .. Len(dataFifo[p])
      BY <2>6
    <3>2. row[p] + (i + 1) - 1 = row'[p] + i - 1
      BY <2>3, <3>1
    <3> QED
      BY <2>5, <2>6, <3>1, <3>2
  <2>10. Filling(p)'
    BY <1>2, <1>3, <2>2, <2>5, <2>7, <2>8, <2>9 DEF Filling, Collecting
  <2> QED
    BY <1>5, <1>6, <1>7, <2>1, <2>10
<1>8. CASE L!StartCompute(p) /\ UNCHANGED pending
  <2>1. Sending(p) /\ Filling(p) /\ Calm(p)
    BY <1>8, StageOfStep
  <2>2. /\ row[p] = Rows /\ row'[p] = 0 /\ startFifo'[p] = startFifo[p] + 1
        /\ UNCHANGED <<dataFifo, inputImg, filter, resultFifo>>
        /\ dataFifo[p] \in Seq(Datum) /\ inputImg[p] \in [RowIndex -> Datum]
    BY <1>1, <1>8 DEF L!StartCompute, PeTypes
  <2>3. Len(dataFifo[p]) \in Nat /\ Rows \in Nat
    BY <2>2, PlatformAssumption
  <2>4. Sent(p) = Rows /\ Len(dataFifo[p]) = 0
    <3>1. Rows + Len(dataFifo[p]) = Sent(p)
      BY <2>1, <2>2 DEF Filling, Collecting
    <3>2. Sent(p) <= Rows /\ Sent(p) \in Nat
      BY <1>1, <2>3, SentIsNat
    <3> QED
      BY <2>3, <3>1, <3>2
  <2>5. \A i \in RowIndex : inputImg[p][i] = Row(curId[p], i)
    BY <2>1, <2>2, <2>3 DEF Filling, Collecting, RowIndex
  <2>6. inputImg[p] = Whole(curId[p])
    BY <2>2, <2>5 DEF Whole
  <2>7. Started(p)'
    BY <1>2, <2>1, <2>2, <2>4, <2>6 DEF Filling, Collecting, Started, Collected
  <2> QED
    BY <1>5, <1>6, <1>8, <2>1, <2>4, <2>7
<1>9. CASE L!ReadStart(p) /\ UNCHANGED pending
  <2>1. Sending(p) /\ Sent(p) = Rows /\ Started(p) /\ startFifo[p] = 1 /\ Calm(p)
    BY <1>9, StageOfStep
  <2>2. /\ startFifo'[p] = 0 /\ filter'[p] = "compute"
        /\ UNCHANGED <<dataFifo, row, inputImg, resultFifo>>
    BY <1>1, <1>9, <2>1 DEF L!ReadStart, PeTypes
  <2>3. Started(p)'
    BY <1>2, <2>1, <2>2 DEF Started, Collected
  <2> QED
    BY <1>5, <1>6, <1>9, <2>1, <2>3
<1>10. CASE L!Compute(p) /\ UNCHANGED pending
  <2>1. Sending(p) /\ Sent(p) = Rows /\ Started(p) /\ startFifo[p] = 0 /\ Calm(p)
    BY <1>10, StageOfStep
  <2>2. /\ scores'[p] = inputImg[p] /\ filter'[p] = "result"
        /\ UNCHANGED <<dataFifo, row, startFifo, resultFifo>>
    BY <1>1, <1>10 DEF L!Compute, PeTypes
  <2>3. Computed(p)'
    BY <1>2, <2>1, <2>2 DEF Started, Computed, Collected
  <2> QED
    BY <1>5, <1>6, <1>10, <2>1, <2>3
<1>11. CASE L!LatencyOver(p) /\ UNCHANGED pending
  <2>1. /\ filter[p] = "latency" /\ filter'[p] = "idle"
        /\ UNCHANGED <<dataFifo, row, inputImg, startFifo, scores, resultFifo>>
    BY <1>1, <1>11 DEF L!LatencyOver, PeTypes
  <2>2. Filling(p)' <=> Filling(p)
    BY <1>2, <1>3, <2>1 DEF Filling, Collecting
  <2>3. Emptied(p)' <=> Emptied(p)
    BY <1>2, <2>1 DEF Emptied, Collecting
  <2>4. Collected(p)' <=> Collected(p)
    BY <2>1 DEF Collected
  <2>5. Started(p)' <=> Started(p)
    BY <1>2, <2>1, <2>4 DEF Started
  <2>6. ~Computed(p)
    BY <2>1 DEF Computed
  <2>7. Answered(p)' <=> Answered(p)
    BY <1>2, <2>1, <2>4 DEF Answered
  <2> QED
    BY <1>1, <1>2, <1>3, <1>4, <1>5, <1>11, <2>2, <2>3, <2>5, <2>6, <2>7 DEF ImageInvOf
<1>12. CASE L!WriteResult(p) /\ pending' = pending \cup {LenetIrq(p)}
  <2>1. Sending(p) /\ Sent(p) = Rows /\ Computed(p) /\ Calm(p)
    BY <1>12, StageOfStep
  <2>2. /\ resultFifo'[p] = Append(resultFifo[p], scores[p]) /\ filter'[p] = "latency"
        /\ UNCHANGED <<dataFifo, row, startFifo>>
    BY <1>1, <1>12 DEF L!WriteResult, PeTypes
  <2>3. resultFifo'[p] = <<Whole(curId[p])>>
    <3> DEFINE w == Whole(curId[p])
    <3>1. resultFifo[p] = <<>> /\ scores[p] = w
      BY <2>1 DEF Computed
    <3> HIDE DEF w
    <3>2. resultFifo'[p] = <<w>>
      BY <2>2, <3>1
    <3> QED
      BY <3>2 DEF w
  <2>4. Answered(p)'
    BY <1>2, <2>1, <2>2, <2>3 DEF Computed, Answered, Collected
  <2>5. InFlight(p)' /\ ~accCompleted'[p]
    BY <1>2, <1>12, <2>1 DEF InFlight, Calm
  <2>6. ~Asking(p) /\ pc[p] # "clear" /\ pc[p] # "compare"
    BY <2>1 DEF PromptInv, Sending, Asking, XferInv
  <2> QED
    BY <1>2, <1>3, <2>1, <2>4, <2>5, <2>6 DEF ImageInvOf
<1> QED
  BY <1>7, <1>8, <1>9, <1>10, <1>11, <1>12 DEF PeMove, Quietly

\* Steps for one hart leave the images of the others alone.
LEMMA OtherImages ==
  ASSUME PromptInv, NEW h \in Hart, HartMove(h) \/ DmaMove(h) \/ PeMove(h),
         NEW g \in Hart \ {h}
  PROVE  ImageInvOf(g)'
<1>1. RawInv /\ PeTypes /\ ImageInvOf(g)
  BY DEF PromptInv, ImageInv
<1> SUFFICES Undisturbed(g)
  BY <1>1, UndisturbedImage
<1>2. LenetIrq(g) # LenetIrq(h) /\ LenetIrq(g) # DmaIrq
  BY DEF LenetIrq, DmaIrq, Hart
<1>3. CASE HartMove(h)
  <2>1. UNCHANGED <<peVars, memVars, pending, isr, claimed>>
    BY <1>3 DEF HartMove, HardwareSame
  <2> QED
    BY <1>1, <1>3, <2>1, OthersStay DEF Undisturbed, InFlight, peVars, memVars
<1>4. CASE DmaMove(h)
  <2>1. UNCHANGED <<pc, xfer, curId, accCompleted, isr, claimed>> /\ pc[h] = "dma_unlock"
    BY <1>4 DEF DmaMove, hartVars
  <2>2. pc[g] # "dma_unlock"
    BY <1>1, <2>1, OneProgrammer
  <2>3. pending' = pending \/ pending' = pending \cup {DmaIrq}
    BY <1>4 DEF DmaMove, Starts, FetchesRow, FetchesAnswer, SendsRow, StoresAnswer, Raises
  <2>4. InFlight(g)' <=> InFlight(g)
    BY <1>2, <2>1, <2>3 DEF InFlight
  <2>5. SamePe(g) /\ localBuffer'[g] = localBuffer[g]
    <3>1. CASE FetchesAnswer(h)
      BY <1>1, <3>1 DEF FetchesAnswer, L!PopResult, PeTypes, SamePe, memVars
    <3>2. CASE SendsRow(h)
      BY <1>1, <3>2 DEF SendsRow, L!PushRow, PeTypes, SamePe, memVars
    <3>3. CASE StoresAnswer(h)
      BY <1>1, <3>3 DEF StoresAnswer, PeTypes, SamePe, peVars
    <3>4. CASE Starts(h) \/ FetchesRow(h) \/ Raises
      BY <3>4 DEF Starts, FetchesRow, Raises, SamePe, peVars, memVars
    <3> QED
      BY <1>4, <3>1, <3>2, <3>3, <3>4 DEF DmaMove
  <2> QED
    BY <2>1, <2>2, <2>4, <2>5 DEF Undisturbed, SamePe
<1>5. CASE PeMove(h)
  <2>1. /\ UNCHANGED <<pc, xfer, curId, accCompleted, isr, claimed, localBuffer>>
        /\ UNCHANGED <<runEvent, engine, off, buffer>>
    BY <1>5 DEF PeMove, hartVars, dmaVars, memVars
  <2>2. pending' = pending \/ pending' = pending \cup {LenetIrq(h)}
    BY <1>5 DEF PeMove, Quietly
  <2>3. InFlight(g)' <=> InFlight(g)
    BY <1>2, <2>1, <2>2 DEF InFlight
  <2>4. SamePe(g)
    <3> USE DEF PeTypes, SamePe
    <3>1. CASE L!CollectRow(h) \/ L!StartCompute(h)
      BY <1>1, <3>1 DEF L!CollectRow, L!StartCompute
    <3>2. CASE L!ReadStart(h) \/ L!Compute(h)
      BY <1>1, <3>2 DEF L!ReadStart, L!Compute
    <3>3. CASE L!LatencyOver(h) \/ L!WriteResult(h)
      BY <1>1, <3>3 DEF L!LatencyOver, L!WriteResult
    <3> QED
      BY <1>5, <3>1, <3>2, <3>3 DEF PeMove, Quietly
  <2> QED
    BY <2>1, <2>3, <2>4 DEF Undisturbed, SamePe
<1> QED
  BY <1>3, <1>4, <1>5

\* The interrupt path delivers what is in flight to the right hart.
LEMMA IrqImages ==
  ASSUME PromptInv, IrqMove, NEW g \in Hart
  PROVE  ImageInvOf(g)'
<1>1. RawInv /\ XferInv /\ TrapInv /\ ImageInv /\ ImageInvOf(g)
  BY DEF PromptInv, ImageInv
<1>2. UNCHANGED <<dmaVars, peVars, memVars, pc, xfer, curId>>
  BY DEF IrqMove
<1>3. ASSUME accCompleted'[g] = accCompleted[g], InFlight(g)' <=> InFlight(g)
      PROVE  ImageInvOf(g)'
  <2>1. Undisturbed(g)
    BY <1>2, <1>3 DEF Undisturbed, dmaVars, peVars, memVars
  <2> QED
    BY <1>1, <2>1, UndisturbedImage
<1>4. CASE UNCHANGED accCompleted /\ (I!Notify \/ I!Trap \/ I!ClearPending \/ I!Complete)
  <2>1. InFlight(g)' <=> InFlight(g)
    BY <1>4 DEF I!Notify, I!Trap, I!ClearPending, I!Complete, I!plicVars, InFlight
  <2> QED
    BY <1>3, <1>4, <2>1
<1>5. CASE UNCHANGED accCompleted /\ I!Claim
  <2>1. isr = "claim" /\ I!Claimable # {}
    BY <1>1, <1>5 DEF I!Claim, TrapInv
  <2>2. claimed' \in pending
    BY <1>5, <2>1, ClaimableInFlight DEF I!Claim, I!Claimable
  <2>3. pending' = pending \ {claimed'} /\ isr' = "dispatch"
    BY <1>5 DEF I!Claim
  <2>4. InFlight(g)' <=> InFlight(g)
    BY <2>1, <2>2, <2>3 DEF InFlight
  <2> QED
    BY <1>3, <1>5, <2>4
<1>6. ASSUME NEW p \in Hart, claimed = LenetIrq(p), I!Dispatch,
             accCompleted' = [accCompleted EXCEPT ![p] = TRUE]
      PROVE  ImageInvOf(g)'
  <2>1. /\ isr = "dispatch" /\ isr' = "complete" /\ UNCHANGED <<pending, claimed>>
        /\ claimed \notin pending
    BY <1>1, <1>6 DEF I!Dispatch, I!plicVars, TrapInv
  <2>2. CASE g # p
    <3>1. LenetIrq(g) # LenetIrq(p)
      BY <2>2 DEF LenetIrq, Hart
    <3>2. InFlight(g)' <=> InFlight(g)
      BY <1>6, <2>1, <3>1 DEF InFlight
    <3> QED
      BY <1>1, <1>3, <1>6, <2>2, <3>2, Types
  <2>3. CASE g = p
    <3>1. /\ Answered(g) /\ Sending(g) /\ Sent(g) = Rows
          /\ pc[g] \in {"spin", "dma_unlock"}
      BY <1>1, <1>6, <2>1, <2>3, InFlightAnswered DEF InFlight
    <3>2. ~InFlight(g)' /\ accCompleted'[g]
      BY <1>1, <1>6, <2>1, <2>3, Types DEF InFlight
    <3>3. Stages(g)
      BY <1>2, SameStages DEF SamePe, peVars
    <3>4. Sent(g)' = Sent(g) /\ (Sending(g)' <=> Sending(g)) /\ (Asking(g)' <=> Asking(g))
      BY <1>2 DEF Sent, Sending, Asking, dmaVars
    <3>5. ~Asking(g)
      BY <3>1 DEF Sending, Asking
    <3> QED
      BY <1>2, <3>1, <3>2, <3>3, <3>4, <3>5 DEF ImageInvOf, Stages
  <2> QED
    BY <2>2, <2>3
<1> QED
  BY <1>4, <1>5, <1>6 DEF IrqMove

LEMMA NextImageInv == PromptInv /\ [PromptNext]_vars => ImageInv'
<1> SUFFICES ASSUME PromptInv, [PromptNext]_vars, NEW g \in Hart
             PROVE  ImageInvOf(g)'
  BY DEF ImageInv
<1>1. ASSUME NEW h \in Hart, HartMove(h) \/ DmaMove(h) \/ PeMove(h)
      PROVE  ImageInvOf(g)'
  BY <1>1, HartImage, DmaImage, PeImage, OtherImages
<1>2. CASE UNCHANGED vars
  <2>1. Undisturbed(g)
    BY <1>2 DEF Undisturbed, vars, hartVars, dmaVars, peVars, memVars, irqVars, InFlight
  <2> QED
    BY <2>1, UndisturbedImage DEF PromptInv, ImageInv
<1> QED
  BY <1>1, <1>2, IrqImages, Moves

-----------------------------------------------------------------------------
(* The invariant of PromptSpec                                             *)

LEMMA InitPromptInv == Init => PromptInv
<1> SUFFICES ASSUME Init PROVE PromptInv
  OBVIOUS
<1> USE DEF Init, S!Init, D!DmaInit, L!PeInit, I!IrqInit
<1>1. RawInv
  BY InitRawInv
<1>2. HP!IInv
  BY SameInit, HartConstants, HP!InitIInv
<1>3. L!RowIndex = RowIndex /\ S!Hart = Hart
  BY HartZero DEF L!RowIndex, RowIndex
<1>4. PeTypes
  BY <1>3, PlatformAssumption DEF PeTypes, Datum
<1>5. /\ pc = [h \in Hart |-> IF h = 0 THEN "prio" ELSE "while"]
      /\ xfer = [h \in Hart |-> "write"] /\ localError = [h \in Hart |-> 0]
      /\ accCompleted = [h \in Hart |-> FALSE]
  BY <1>3
<1>6. XferInv
  BY <1>5 DEF XferInv
<1>7. ErrorInv
  BY <1>5 DEF ErrorInv
<1>8. TransferInv
  BY <1>5 DEF TransferInv
<1>9. TrapInv
  BY <1>5, HartZero DEF TrapInv, Serving, HP!Left, HP!EndLabels
<1>10. DmaInv
  BY DEF DmaInv, D!Quiescent
<1>11. ASSUME NEW h \in Hart
       PROVE  ImageInvOf(h)
  <2>1. Sent(h) = 0 /\ Sending(h) /\ ~Asking(h) /\ pc[h] # "clear" /\ pc[h] # "compare"
    BY <1>5 DEF Sent, Sending, Asking
  <2>2. Collecting(h, 0)
    BY DEF Collecting, RowIndex
  <2>3. Calm(h)
    BY <1>5 DEF Calm, InFlight
  <2> QED
    BY <2>1, <2>2, <2>3 DEF ImageInvOf, Filling
<1> QED
  BY <1>1, <1>2, <1>4, <1>6, <1>7, <1>8, <1>9, <1>10, <1>11 DEF PromptInv, ImageInv

LEMMA NextPromptInv == PromptInv /\ [PromptNext]_vars => PromptInv'
<1> SUFFICES ASSUME PromptInv, [PromptNext]_vars PROVE PromptInv'
  OBVIOUS
<1>1. RawInv /\ HP!IInv /\ [Next]_vars
  BY DEF PromptInv, PromptNext
<1>2. RawInv'
  BY <1>1, NextRawInv
<1>3. HP!IInv'
  <2>1. HP!TypeOK /\ [HP!Next]_HP!vars
    BY <1>1, NextProgram, SameNext DEF RawInv
  <2> QED
    BY <1>1, <2>1, HartConstants, HP!NextIInv
<1> QED
  BY <1>2, <1>3, NextPeTypes, NextTrapInv, NextXferInv, NextDmaInv, NextImageInv,
     NextTransferInv, NextErrorInv DEF PromptInv

LEMMA PromptInvariant == PromptSpec => []PromptInv
BY InitPromptInv, NextPromptInv, PTL DEF PromptSpec

-----------------------------------------------------------------------------
(* What it gives                                                           *)

\* The answer a hart compares is the whole answer to the image it sent last
\* (local_buffer after read_data_from_ACC, sw/main.cpp).
THEOREM AnswerIsOwnHolds == PromptSpec => []AnswerIsOwn
<1>1. PromptInv => AnswerIsOwn
  BY DEF PromptInv, ImageInv, ImageInvOf, HasAnswer, AnswerIsOwn
<1> QED
  BY PromptInvariant, <1>1, PTL

\* While a start is waiting or being served in an accelerator, its input_img holds
\* the image that its hart is working on, although write_buffer may overwrite it at
\* any time.
THEOREM ImageIntactHolds == PromptSpec => []ImageIntact
<1>1. PromptInv => ImageIntact
  <2> SUFFICES ASSUME PromptInv, NEW p \in Hart, startFifo[p] > 0 \/ filter[p] = "compute"
               PROVE  inputImg[p] = Whole(curId[p])
    BY DEF ImageIntact
  <2>1. ImageInvOf(p) /\ xfer[p] \in {"write", "read"}
    BY Types DEF PromptInv, ImageInv
  <2>2. ~Filling(p) /\ ~Emptied(p) /\ ~Computed(p) /\ ~Answered(p)
    BY DEF Filling, Emptied, Collecting, Computed, Answered
  <2>3. Started(p)
    BY <2>1, <2>2 DEF ImageInvOf, Sending, Asking
  <2> QED
    BY <2>3 DEF Started
<1> QED
  BY PromptInvariant, <1>1, PTL

\* A computation ends only when the handler has run for the one before and the flag
\* has been cleared: the PLIC merges no two completions, and no hart clears one away.
THEOREM CompletionsDistinctHolds == PromptSpec => []CompletionsDistinct
<1>1. PromptInv => CompletionsDistinct
  <2> SUFFICES ASSUME PromptInv, NEW p \in Hart, filter[p] = "result"
               PROVE  /\ LenetIrq(p) \notin pending /\ ~accCompleted[p]
                      /\ ~(claimed = LenetIrq(p) /\ isr = "dispatch")
    BY DEF CompletionsDistinct
  <2>1. ImageInvOf(p) /\ xfer[p] \in {"write", "read"}
    BY Types DEF PromptInv, ImageInv
  <2>2. ~Filling(p) /\ ~Emptied(p) /\ ~Started(p) /\ ~Answered(p)
    BY DEF Filling, Emptied, Collecting, Started, Answered
  <2>3. Calm(p)
    BY <2>1, <2>2 DEF ImageInvOf, Sending, Asking
  <2> QED
    BY <2>3 DEF Calm, InFlight
<1> QED
  BY PromptInvariant, <1>1, PTL

\* No start of the DMA comes while its thread is busy, and no register is written
\* during a copy: dma_lock is held until the transfer is over.
THEOREM DmaUndisturbedHolds == PromptSpec => []DmaUndisturbed
<1>1. PromptInv => DmaUndisturbed
  <2> SUFFICES ASSUME PromptInv
               PROVE  /\ runEvent => engine = "wait"
                      /\ \A h \in Hart :
                           engine # "wait" => pc[h] \notin {"src", "dst", "len", "op"}
    BY DEF DmaUndisturbed
  <2>1. RawInv /\ DmaInv
    BY DEF PromptInv
  <2>2. ASSUME engine # "wait", NEW h \in Hart
        PROVE  pc[h] \notin {"src", "dst", "len", "op"}
    <3>1. PICK g \in Hart : pc[g] = "dma_unlock"
      BY <2>1, <2>2 DEF DmaInv, D!Quiescent
    <3> QED
      BY <2>1, <3>1, OneProgrammer
  <2> QED
    BY <2>1, <2>2 DEF DmaInv
<1> QED
  BY PromptInvariant, <1>1, PTL

\* Whatever total is printed is zero.
LEMMA TotalIsZero ==
  ASSUME PromptInv, printed # <<>>
  PROVE  printedTotal = 0
<1>1. HP!TypeOK /\ HP!IInv /\ HP!Hart = Hart
  BY HartZero DEF PromptInv, RawInv
<1>2. \A h \in HP!Hart : localError[h] = 0
  BY <1>1 DEF PromptInv, ErrorInv
<1> QED
  BY <1>1, <1>2, HartConstants, HP!NoErrorsNoTotal

\* When SYS_EXIT stops the simulation nothing is left on its way through the DMA, the
\* accelerators and the PLIC, and the total that hart 0 printed is zero.
THEOREM CleanHaltHolds == PromptSpec => []CleanHalt
<1>1. PromptInv => CleanHalt
  <2> SUFFICES ASSUME PromptInv, halted
               PROVE  /\ D!Quiescent /\ \A p \in Hart : L!Drained(p)
                      /\ pending \subseteq {DmaIrq} /\ isr = "off"
                      /\ printedTotal = 0
    BY DEF CleanHalt
  <2>1. \A h \in Hart : pc[h] = "park"
    BY HartConstants, HartZero, HP!CleanExitFromInv DEF PromptInv, RawInv, HP!CleanExit
  <2>2. D!Quiescent
    BY <2>1 DEF PromptInv, DmaInv
  <2>3. ASSUME NEW p \in Hart
        PROVE  Filling(p) /\ Sent(p) = 0 /\ Calm(p)
    <3>1. xfer[p] = "write"
      BY <2>1 DEF PromptInv, XferInv, HP!DmaLabels, HP!AnswerLabels
    <3>2. Sending(p) /\ Sent(p) = 0
      BY <2>1, <3>1 DEF Sending, Sent
    <3> QED
      BY <3>2, PlatformAssumption DEF PromptInv, ImageInv, ImageInvOf
  <2>4. ASSUME NEW p \in Hart
        PROVE  L!Drained(p)
    <3>1. row[p] \in Nat /\ dataFifo[p] \in Seq(Datum)
      BY DEF PromptInv, PeTypes
    <3>2. row[p] + Len(dataFifo[p]) = 0 /\ Len(dataFifo[p]) \in Nat
      BY <2>3, <3>1 DEF Filling, Collecting
    <3>3. row[p] = 0 /\ dataFifo[p] = <<>>
      BY <3>1, <3>2
    <3> QED
      BY <2>3, <3>3 DEF Filling, Collecting, L!Drained
  <2>5. pending \subseteq {DmaIrq}
    BY <2>3 DEF PromptInv, RawInv, IrqTypes, Irqs, Calm, InFlight
  <2>6. isr = "off"
    BY <2>1, HartZero DEF PromptInv, TrapInv, HP!Left, HP!EndLabels
  <2>7. printedTotal = 0
    <3>1. Len(printed) = PROCESSORS
      BY HartConstants, HP!CleanExitFromInv DEF PromptInv, RawInv, HP!CleanExit
    <3>2. printed # <<>>
      BY <3>1, PlatformAssumption
    <3> QED
      BY <3>2, TotalIsZero
  <2> QED
    BY <2>2, <2>4, <2>5, <2>6, <2>7
<1> QED
  BY PromptInvariant, <1>1, PTL

-----------------------------------------------------------------------------
(* The machine delivers the inference service, step by step                *)

\* A hart that works on an image has one, and a local_buffer that was ever written
\* holds the whole answer to an image that has been taken.
WorkInv == \A h \in Hart : pc[h] \in WorkLabels => curId[h] \in Nat

HasSomeAnswer(h) == \E k \in Nat : k < cnt /\ localBuffer[h] = Answer(Whole(k))
BufferInv == \A h \in Hart : localBuffer[h] = Junk \/ HasSomeAnswer(h)

ServiceInv == PromptInv /\ WorkInv /\ BufferInv

\* How the variables of the service are read off the machine.
Working == [h \in Hart |-> IF pc[h] \in WorkLabels THEN curId[h] ELSE NoneYet]
Held == [h \in Hart |-> AnsweredImage(localBuffer[h])]
Reported == IF printed = <<>> THEN NoneYet ELSE printedTotal

\* Instructions that the service does not see.
Unseen(h) ==
  /\ UNCHANGED <<cnt, printed>>
  /\ \/ pc' = pc /\ curId' = curId
     \/ \E f, t : /\ pc[h] = f /\ pc' = [pc EXCEPT ![h] = t]
                  /\ f \in WorkLabels <=> t \in WorkLabels
                  /\ curId' = curId
     \/ /\ pc[h] = "take" /\ pc' = [pc EXCEPT ![h] = "inc"]
        /\ \E k : curId' = [curId EXCEPT ![h] = k]

LEMMA SeenSteps ==
  ASSUME NEW h \in Hart, S!HartStep(h)
  PROVE  Unseen(h) \/ S!StoreCnt(h) \/ (\E bad : S!Compare(h, bad)) \/ S!PrintLine(h)
<1> USE DEF Unseen, WorkLabels, S!DmaLabels, S!AnswerLabels, S!imageVars, S!printVars,
            S!Step
<1>1. CASE h = 0 /\ S!Setup
  <2>1. CASE S!SetPriority
    BY <1>1, <2>1 DEF S!SetPriority
  <2>2. CASE S!SetHandler
    <3> DEFINE to == IF registered + 1 < PROCESSORS THEN "prio" ELSE "init_barrier_lock"
    <3>1. to \notin WorkLabels
      OBVIOUS
    <3>2. /\ pc[h] = "table" /\ pc' = [pc EXCEPT ![h] = to]
          /\ UNCHANGED <<cnt, printed, curId>>
      BY <1>1, <2>2 DEF S!SetHandler
    <3> HIDE DEF to
    <3> QED
      BY <3>1, <3>2
  <2>3. CASE S!InitSemaphores
    BY <1>1, <2>3 DEF S!InitSemaphores
  <2> QED
    BY <1>1, <2>1, <2>2, <2>3 DEF S!Setup
<1>2. CASE S!TestCnt(h) \/ S!TakeLock(h) \/ S!DropLock(h) \/ S!TakeDmaLock(h)
  BY <1>2 DEF S!TestCnt, S!TakeLock, S!DropLock, S!TakeDmaLock, S!Skip, S!Acquire, S!Release
<1>3. CASE S!LoadCnt(h)
  BY <1>3 DEF S!LoadCnt
<1>4. CASE S!WriteSrc(h) \/ S!WriteDst(h) \/ S!WriteLen(h) \/ S!WriteOp(h)
  BY <1>4 DEF S!WriteSrc, S!WriteDst, S!WriteLen, S!WriteOp, S!Skip
<1>5. CASE S!DropDmaLock(h) \/ S!SeeCompleted(h) \/ S!ClearCompleted(h)
  BY <1>5 DEF S!DropDmaLock, S!SeeCompleted, S!ClearCompleted, S!Skip, S!Release
<1>6. CASE S!Sum(h)
  BY <1>6 DEF S!Sum, S!SumLock, S!LoadTotal, S!StoreTotal, S!SumUnlock, S!Acquire, S!Release
<1>7. CASE S!Barrier(h)
  <2>1. CASE S!BarrierLock(h) \/ S!LoadCounter(h) \/ S!StoreCounter(h)
    BY <2>1 DEF S!BarrierLock, S!LoadCounter, S!StoreCounter, S!Acquire
  <2>2. CASE \/ S!BarrierUnlock(h) \/ S!BarrierUnlockLast(h) \/ S!BarrierWait(h)
             \/ S!BarrierRelease(h) \/ S!BarrierReleased(h)
    BY <2>2 DEF S!BarrierUnlock, S!BarrierUnlockLast, S!BarrierWait, S!BarrierRelease,
         S!BarrierReleased, S!AfterBarrier, S!Acquire, S!Release, S!Skip
  <2> QED
    BY <1>7, <2>1, <2>2 DEF S!Barrier
<1>8. CASE S!Finish(h)
  BY <1>8 DEF S!Finish, S!PrintWait, S!PrintPost, S!CountExit, S!SysExit
<1>9. CASE S!Infer(h)
  BY <1>2, <1>3, <1>4, <1>5, <1>9, Zenon DEF S!Infer
<1> QED
  BY <1>1, <1>6, <1>7, <1>8, <1>9 DEF S!HartStep

LEMMA ActionIsStep ==
  ASSUME NEW h \in Hart, HartAction(h)
  PROVE  S!HartStep(h) /\ localBuffer' = localBuffer
<1>1. CASE Compute(h)
  BY <1>1 DEF Compute, memVars
<1>2. CASE h = 0 /\ RegisterHandler
  BY <1>2 DEF RegisterHandler, S!HartStep, S!Setup, memVars
<1>3. CASE ProgramDma(h)
  BY <1>3 DEF ProgramDma, S!HartStep, S!Infer, memVars
<1>4. CASE CompareAnswer(h)
  BY <1>4 DEF CompareAnswer, S!HartStep, S!Infer, memVars
<1> QED
  BY <1>1, <1>2, <1>3, <1>4 DEF HartAction

\* What a step can be, for the service.
Accepts(h) == S!StoreCnt(h) /\ localBuffer' = localBuffer
Checks(h) == (\E bad : S!Compare(h, bad)) /\ localBuffer' = localBuffer
Prints(h) == S!PrintLine(h) /\ localBuffer' = localBuffer
Delivers(h) ==
  /\ pc[h] = "dma_unlock" /\ UNCHANGED <<pc, curId, cnt, printed, printedTotal>>
  /\ StoresAnswer(h)
Silent ==
  /\ UNCHANGED <<cnt, printed, localBuffer>>
  /\ (pc' = pc /\ curId' = curId) \/ \E h \in Hart : Unseen(h)

LEMMA ServiceSteps ==
  ASSUME PromptInv, [PromptNext]_vars
  PROVE  \/ \E h \in Hart : Accepts(h) \/ Checks(h) \/ Prints(h) \/ Delivers(h)
         \/ Silent
<1>1. CASE \E h \in Hart : HartAction(h)
  <2>1. PICK h \in Hart : HartAction(h)
    BY <1>1
  <2>2. S!HartStep(h) /\ localBuffer' = localBuffer
    BY <2>1, ActionIsStep
  <2> QED
    BY <2>2, SeenSteps DEF Accepts, Checks, Prints, Silent, Unseen
<1>2. CASE DmaAction
  <2>1. PICK h \in Hart : DmaMove(h)
    BY <1>2, DmaMoves DEF PromptInv
  <2>2. UNCHANGED <<pc, curId, cnt, printed, printedTotal>>
    BY <2>1 DEF DmaMove, hartVars
  <2>3. CASE StoresAnswer(h)
    BY <2>1, <2>2, <2>3 DEF DmaMove, Delivers
  <2>4. CASE ~StoresAnswer(h)
    BY <2>1, <2>2, <2>4 DEF DmaMove, Starts, FetchesRow, FetchesAnswer, SendsRow, Raises,
       memVars, Silent
  <2> QED
    BY <2>3, <2>4
<1>3. CASE \E p \in Hart : WriteBufferAction(p) \/ FilterAction(p)
  BY <1>3 DEF WriteBufferAction, FilterAction, hartVars, memVars, Silent
<1>4. CASE PlicAction \/ TrapAction
  BY <1>4 DEF PlicAction, TrapAction, RunHandler, S!AccIrqHandler, S!imageVars, S!printVars,
     hartVars, memVars, Silent
<1>5. CASE UNCHANGED vars
  BY <1>5 DEF vars, hartVars, memVars, Silent
<1> QED
  BY <1>1, <1>2, <1>3, <1>4, <1>5 DEF PromptNext, Next, Hardware, Stopped

\* What IInv of the program says of cnt.
LEMMA CntFacts ==
  ASSUME PromptInv
  PROVE  /\ cnt \in Nat
         /\ \A h \in Hart : IF pc[h] = "inc" THEN curId[h] = cnt ELSE curId[h] < cnt
BY HartZero DEF PromptInv, RawInv, HP!TypeOK, HP!IInv, HP!IdInv

LEMMA NextServiceInv == ServiceInv /\ [PromptNext]_vars => ServiceInv'
<1> SUFFICES ASSUME ServiceInv, [PromptNext]_vars PROVE ServiceInv'
  OBVIOUS
<1>1. PromptInv /\ WorkInv /\ BufferInv
  BY DEF ServiceInv
<1>2. PromptInv'
  BY <1>1, NextPromptInv
<1>3. /\ pc \in [Hart -> HP!Labels] /\ curId \in [Hart -> Nat \cup {HP!NoImage}]
      /\ cnt \in Nat /\ DOMAIN localBuffer = Hart
  BY <1>1, Types, CntFacts DEF PromptInv, PeTypes
<1> USE DEF WorkInv, BufferInv, HasSomeAnswer, WorkLabels, S!DmaLabels, S!AnswerLabels,
            S!Step
<1>4. ASSUME NEW h \in Hart, Accepts(h)
      PROVE  WorkInv' /\ BufferInv'
  <2>1. /\ pc[h] = "inc" /\ pc' = [pc EXCEPT ![h] = "unlock"] /\ curId' = curId
        /\ cnt' = curId[h] + 1 /\ localBuffer' = localBuffer
    BY <1>4 DEF Accepts, S!StoreCnt
  <2>2. curId[h] = cnt /\ cnt' = cnt + 1
    BY <1>1, <2>1, CntFacts
  <2>3. WorkInv'
    BY <1>1, <1>3, <2>1, <2>2
  <2>4. \A k \in Nat : k < cnt => k < cnt'
    BY <1>3, <2>2
  <2> QED
    BY <1>1, <2>1, <2>3, <2>4
<1>5. ASSUME NEW h \in Hart, Checks(h) \/ Prints(h)
      PROVE  WorkInv' /\ BufferInv'
  <2>1. /\ UNCHANGED <<curId, cnt, localBuffer>>
        /\ \E t \in {"while", "print_post"} : pc' = [pc EXCEPT ![h] = t]
    BY <1>5 DEF Checks, Prints, S!Compare, S!PrintLine, S!imageVars
  <2>2. BufferInv'
    BY <1>1, <2>1
  <2> QED
    BY <1>1, <1>3, <2>1, <2>2
<1>6. ASSUME NEW h \in Hart, Delivers(h)
      PROVE  WorkInv' /\ BufferInv'
  <2>1. /\ UNCHANGED <<pc, curId, cnt>> /\ pc[h] = "dma_unlock"
        /\ localBuffer' = [localBuffer EXCEPT ![h] = buffer]
        /\ xfer[h] = "read" /\ engine = "write"
    BY <1>6 DEF Delivers, StoresAnswer
  <2>2. ~runEvent
    BY <1>1, <2>1 DEF PromptInv, DmaInv
  <2>3. buffer = Answer(Whole(curId[h]))
    BY <1>1, <2>1, <2>2 DEF PromptInv, ImageInv, ImageInvOf, Asking
  <2>4. curId[h] \in Nat /\ curId[h] < cnt
    BY <1>1, <2>1, CntFacts
  <2>5. HasSomeAnswer(h)'
    BY <1>3, <2>1, <2>3, <2>4
  <2>6. \A g \in Hart \ {h} : localBuffer'[g] = localBuffer[g]
    BY <1>3, <2>1
  <2> QED
    BY <1>1, <2>1, <2>5, <2>6
<1>7. ASSUME Silent
      PROVE  WorkInv' /\ BufferInv'
  <2>1. BufferInv'
    BY <1>1, <1>7 DEF Silent
  <2>2. WorkInv'
    BY <1>1, <1>3, <1>7 DEF Silent, Unseen
  <2> QED
    BY <2>1, <2>2
<1> QED
  BY <1>1, <1>2, <1>4, <1>5, <1>6, <1>7, ServiceSteps DEF ServiceInv

\* The image that an answer belongs to.
LEMMA AnswerOfImage ==
  ASSUME NEW c \in Nat, NEW k \in Nat, k < c, NEW d, d = Answer(Whole(k))
  PROVE  /\ d # Junk /\ \E l \in 0 .. c : d = Answer(Whole(l))
         /\ (CHOOSE l \in 0 .. c : d = Answer(Whole(l))) = k
<1>1. d # Junk
  BY DEF Answer, Junk
<1>2. \A l : d = Answer(Whole(l)) => l = k
  <2> SUFFICES ASSUME NEW l, d = Answer(Whole(l)) PROVE l = k
    OBVIOUS
  <2>1. Whole(k) = Whole(l)
    BY DEF Answer
  <2>2. 0 \in RowIndex
    BY PlatformAssumption DEF RowIndex
  <2>3. Row(k, 0) = Row(l, 0)
    BY <2>1, <2>2 DEF Whole
  <2> QED
    BY <2>3 DEF Row
<1>3. k \in 0 .. c
  OBVIOUS
<1>4. (CHOOSE l \in 0 .. c : d = Answer(Whole(l))) = k
  BY <1>2, <1>3, Zenon
<1> QED
  BY <1>1, <1>3, <1>4

LEMMA ImageOfAnswer ==
  ASSUME cnt \in Nat, NEW k \in Nat, k < cnt, NEW d, d = Answer(Whole(k))
  PROVE  AnsweredImage(d) = k
BY AnswerOfImage DEF AnsweredImage

\* An old answer remains what it is.
LEMMA HeldStays ==
  ASSUME ServiceInv, NEW g \in Hart, localBuffer'[g] = localBuffer[g],
         cnt' \in Nat, cnt <= cnt'
  PROVE  AnsweredImage(localBuffer[g])' = AnsweredImage(localBuffer[g])
<1>1. cnt \in Nat
  BY CntFacts DEF ServiceInv
<1>2. CASE localBuffer[g] = Junk
  BY <1>2 DEF AnsweredImage
<1>3. CASE HasSomeAnswer(g)
  <2>1. PICK k \in Nat : k < cnt /\ localBuffer[g] = Answer(Whole(k))
    BY <1>3 DEF HasSomeAnswer
  <2>2. AnsweredImage(localBuffer[g]) = k
    BY <1>1, <2>1, ImageOfAnswer
  <2>3. k < cnt' /\ localBuffer'[g] = Answer(Whole(k))
    BY <1>1, <2>1
  <2>4. AnsweredImage(localBuffer[g])' = k
    BY <2>3, AnswerOfImage DEF AnsweredImage
  <2> QED
    BY <2>2, <2>4
<1> QED
  BY <1>2, <1>3 DEF ServiceInv, BufferInv

\* An instruction that ends neither the acceptance nor the work of a hart.
LEMMA WorkingStays ==
  ASSUME RawInv, (pc' = pc /\ curId' = curId) \/ \E h \in Hart : Unseen(h)
  PROVE  Working' = Working
<1>1. pc \in [Hart -> HP!Labels] /\ curId \in [Hart -> Nat \cup {HP!NoImage}]
  BY Types
<1>2. CASE pc' = pc /\ curId' = curId
  BY <1>2 DEF Working
<1>3. ASSUME NEW h \in Hart, Unseen(h), NEW g \in Hart
      PROVE  Working'[g] = Working[g]
  <2>1. CASE pc' = pc /\ curId' = curId
    BY <2>1 DEF Working
  <2>2. CASE \E f, t : /\ pc[h] = f /\ pc' = [pc EXCEPT ![h] = t]
                       /\ f \in WorkLabels <=> t \in WorkLabels
                       /\ curId' = curId
    BY <1>1, <2>2 DEF Working
  <2>3. CASE /\ pc[h] = "take" /\ pc' = [pc EXCEPT ![h] = "inc"]
             /\ \E k : curId' = [curId EXCEPT ![h] = k]
    BY <1>1, <2>3 DEF Working, WorkLabels, S!DmaLabels, S!AnswerLabels
  <2> QED
    BY <1>3, <2>1, <2>2, <2>3 DEF Unseen
<1>4. ASSUME \E h \in Hart : Unseen(h)
      PROVE  Working' = Working
  BY <1>3, <1>4 DEF Working
<1> QED
  BY <1>2, <1>4

ReportInv == Reported = IF printed = <<>> THEN NoneYet ELSE 0

LEMMA ReportIsZero == PromptInv => ReportInv
BY TotalIsZero DEF Reported, ReportInv

\* A hart still inside the loop or the barrier keeps hart 0 from printing.
LEMMA NothingPrinted ==
  ASSUME PromptInv, NEW h \in Hart, ~HP!Arrived(h)
  PROVE  printed = <<>>
BY HartConstants, HartZero, HP!PrintedAfterBarrier DEF PromptInv, RawInv, HP!IInv

\* A hart about to store cnt has room for its image.
LEMMA RoomForOne ==
  ASSUME PromptInv, NEW h \in Hart, pc[h] = "inc"
  PROVE  cnt < NumImages + Service!Cardinality(Hart) - 1
<1>1. cnt < NumImages + PROCESSORS - 1
  BY HartConstants, HartZero, HP!RoomForOne DEF PromptInv, RawInv
<1>2. Cardinality(Hart) = PROCESSORS
  BY PlatformAssumption, FS_Interval DEF Hart
<1>3. Service!Cardinality(Hart) = Cardinality(Hart)
  BY DEF Service!Cardinality, Cardinality
<1> QED
  BY <1>1, <1>2, <1>3

LEMMA AcceptsIsTake ==
  ASSUME ServiceInv, ServiceInv', NEW h \in Hart, Accepts(h)
  PROVE  Service!Take(h)
<1>1. /\ pc[h] = "inc" /\ pc' = [pc EXCEPT ![h] = "unlock"] /\ curId' = curId
      /\ cnt' = curId[h] + 1 /\ localBuffer' = localBuffer /\ UNCHANGED <<printed, printedTotal>>
  BY DEF Accepts, S!StoreCnt, S!Step, S!printVars
<1>2. PromptInv /\ cnt \in Nat /\ curId[h] = cnt /\ cnt' = cnt + 1
  BY <1>1, CntFacts DEF ServiceInv
<1>3. /\ pc \in [Hart -> HP!Labels] /\ DOMAIN localBuffer = Hart
  BY <1>2, Types DEF PromptInv, PeTypes
<1>4. printed = <<>>
  BY <1>1, <1>2, NothingPrinted DEF HP!Arrived, HP!LeaveLabels, HP!EndLabels
<1>5. Reported = NoneYet /\ Reported' = Reported
  BY <1>1, <1>4 DEF Reported
<1>6. Working[h] = NoneYet
  BY <1>1 DEF Working, WorkLabels, S!DmaLabels, S!AnswerLabels
<1>7. Working' = [Working EXCEPT ![h] = cnt]
  BY <1>1, <1>2, <1>3 DEF Working, WorkLabels
<1>8. Held' = Held
  BY <1>1, <1>2, HeldStays DEF Held
<1>9. cnt < NumImages + Service!Cardinality(Hart) - 1
  BY <1>1, <1>2, RoomForOne
<1> QED
  BY <1>2, <1>5, <1>6, <1>7, <1>8, <1>9 DEF Service!Take, Working, Held, Reported

LEMMA DeliversIsDeliver ==
  ASSUME ServiceInv, ServiceInv', NEW h \in Hart, Delivers(h)
  PROVE  Service!Deliver(h) \/ UNCHANGED <<cnt, Working, Held, Reported>>
<1>1. /\ UNCHANGED <<pc, curId, cnt, printed, printedTotal>> /\ pc[h] = "dma_unlock"
      /\ localBuffer' = [localBuffer EXCEPT ![h] = buffer]
      /\ xfer[h] = "read" /\ engine = "write"
  BY DEF Delivers, StoresAnswer
<1>2. PromptInv /\ DOMAIN localBuffer = Hart /\ cnt \in Nat /\ ~runEvent
  BY <1>1, CntFacts DEF ServiceInv, PromptInv, PeTypes, DmaInv
<1>3. buffer = Answer(Whole(curId[h]))
  BY <1>1, <1>2 DEF PromptInv, ImageInv, ImageInvOf, Asking
<1>4. curId[h] \in Nat /\ curId[h] < cnt
  BY <1>1, <1>2, CntFacts DEF ServiceInv, WorkInv, WorkLabels, S!DmaLabels
<1>5. Working' = Working /\ Reported' = Reported /\ Working[h] = curId[h]
  BY <1>1 DEF Working, Reported, WorkLabels, S!DmaLabels
<1>6. AnsweredImage(localBuffer[h])' = curId[h]
  <2> DEFINE k == curId[h]
  <2>1. k \in Nat /\ cnt' \in Nat /\ k < cnt'
    BY <1>1, <1>2, <1>4
  <2>2. localBuffer'[h] = Answer(Whole(k))
    BY <1>1, <1>2, <1>3
  <2> HIDE DEF k
  <2>3. AnsweredImage(localBuffer[h])' = k
    BY <2>1, <2>2, AnswerOfImage DEF AnsweredImage
  <2> QED
    BY <2>3 DEF k
<1>7. \A g \in Hart \ {h} : AnsweredImage(localBuffer[g])' = AnsweredImage(localBuffer[g])
  BY <1>1, <1>2, HeldStays
<1>8. Held' = [Held EXCEPT ![h] = Working[h]]
  BY <1>5, <1>6, <1>7 DEF Held
<1>9. CASE Held[h] = Working[h]
  <2>1. Held' = Held
    BY <1>8, <1>9 DEF Held
  <2> QED
    BY <1>1, <1>5, <2>1
<1>10. CASE Held[h] # Working[h]
  <2>1. Working[h] # NoneYet
    BY <1>4, <1>5 DEF NoneYet
  <2> QED
    BY <1>1, <1>5, <1>8, <1>10, <2>1 DEF Service!Deliver, Working, Held, Reported
<1> QED
  BY <1>9, <1>10

LEMMA ChecksIsCheck ==
  ASSUME ServiceInv, ServiceInv', NEW h \in Hart, Checks(h)
  PROVE  Service!Check(h)
<1>1. /\ UNCHANGED <<curId, cnt, printed, printedTotal, localBuffer>> /\ pc[h] = "compare"
      /\ pc' = [pc EXCEPT ![h] = "while"]
  BY DEF Checks, S!Compare, S!Step, S!printVars
<1>2. PromptInv /\ cnt \in Nat /\ pc \in [Hart -> HP!Labels]
  BY CntFacts, Types DEF ServiceInv, PromptInv
<1>3. curId[h] \in Nat /\ curId[h] < cnt
  BY <1>1, <1>2, CntFacts DEF ServiceInv, WorkInv, WorkLabels, S!AnswerLabels
<1>4. localBuffer[h] = Answer(Whole(curId[h]))
  BY <1>1, <1>2 DEF PromptInv, ImageInv, ImageInvOf, HasAnswer
<1>5. Working[h] = curId[h] /\ Working[h] # NoneYet
  BY <1>1, <1>3 DEF Working, WorkLabels, S!AnswerLabels, NoneYet
<1>6. Held[h] = Working[h]
  BY <1>2, <1>3, <1>4, <1>5, ImageOfAnswer DEF Held
<1>7. Working' = [Working EXCEPT ![h] = NoneYet]
  BY <1>1, <1>2 DEF Working, WorkLabels, S!DmaLabels, S!AnswerLabels
<1>8. Held' = Held
  BY <1>1, <1>2, HeldStays DEF Held
<1>9. Reported' = Reported
  BY <1>1 DEF Reported
<1> QED
  BY <1>1, <1>5, <1>6, <1>7, <1>8, <1>9 DEF Service!Check, Working, Held, Reported

LEMMA PrintsIsReport ==
  ASSUME ServiceInv, ServiceInv', NEW h \in Hart, Prints(h)
  PROVE  Service!Report \/ UNCHANGED <<cnt, Working, Held, Reported>>
<1>1. /\ UNCHANGED <<curId, cnt, localBuffer>> /\ pc[h] = "print"
      /\ pc' = [pc EXCEPT ![h] = "print_post"] /\ printed' = Append(printed, h)
  BY DEF Prints, S!PrintLine, S!Step, S!imageVars
<1>2. /\ PromptInv /\ PromptInv' /\ cnt \in Nat /\ pc \in [Hart -> HP!Labels]
      /\ printed \in Seq(Hart)
  BY CntFacts, Types, HartZero DEF ServiceInv, PromptInv, RawInv, HP!TypeOK
<1>3. printed' # <<>>
  BY <1>1, <1>2
<1>4. Reported' = 0
  <2>1. PromptInv' => ReportInv'
    BY ReportIsZero, PTL
  <2> QED
    BY <1>2, <1>3, <2>1 DEF ReportInv
<1>5. Working' = Working
  BY <1>1, <1>2 DEF Working, WorkLabels, S!DmaLabels, S!AnswerLabels
<1>6. Held' = Held
  BY <1>1, <1>2, HeldStays DEF Held
<1>7. CASE printed # <<>>
  BY <1>1, <1>2, <1>4, <1>5, <1>6, <1>7, ReportIsZero DEF ReportInv
<1>8. CASE printed = <<>>
  <2>1. \A g \in Hart : HP!Arrived(g)
    BY <1>1, <1>2, HartZero DEF PromptInv, HP!IInv, HP!BarrierInv, HP!Left, HP!EndLabels
  <2>2. \A g \in Hart : Working[g] = NoneYet
    BY <2>1 DEF Working, WorkLabels, S!DmaLabels, S!AnswerLabels, HP!Arrived,
       HP!LeaveLabels, HP!EndLabels
  <2>3. cnt >= NumImages
    BY <1>1, <1>2, HartZero DEF PromptInv, HP!IInv, HP!LoopInv, HP!EndLabels
  <2>4. Reported = NoneYet
    BY <1>8 DEF Reported
  <2> QED
    BY <1>1, <1>4, <1>5, <1>6, <2>2, <2>3, <2>4 DEF Service!Report, Working, Held, Reported
<1> QED
  BY <1>7, <1>8

LEMMA InitServiceInv == Init => ServiceInv
<1> SUFFICES ASSUME Init PROVE ServiceInv
  OBVIOUS
<1>1. \A h \in Hart : pc[h] \in {"prio", "while"} /\ localBuffer[h] = Junk
  BY HartZero DEF Init, S!Init
<1> QED
  BY <1>1, InitPromptInv DEF ServiceInv, WorkInv, BufferInv, WorkLabels, S!DmaLabels,
     S!AnswerLabels

\* Every step of the machine is a step of the service or invisible to it: an image
\* is taken by one hart, its whole and correct answer arrives in the local_buffer of
\* that hart, the hart finds it right, and what hart 0 reports in the end is zero.
THEOREM ServiceDelivered == PromptSpec => Service!Init /\ [][Service!Next]_(Service!vars)
<1>1. Init => Service!Init
  <2> SUFFICES ASSUME Init PROVE Service!Init
    OBVIOUS
  <2>1. /\ cnt = 0 /\ printed = <<>>
        /\ \A h \in Hart : pc[h] \notin WorkLabels /\ localBuffer[h] = Junk
    BY HartZero DEF Init, S!Init, WorkLabels, S!DmaLabels, S!AnswerLabels
  <2>2. Working = [h \in Hart |-> NoneYet] /\ Held = [h \in Hart |-> NoneYet]
    BY <2>1 DEF Working, Held, AnsweredImage
  <2>3. Reported = NoneYet
    BY <2>1 DEF Reported
  <2> QED
    BY <2>1, <2>2, <2>3 DEF Service!Init, Working, Held, Reported
<1>2. ServiceInv /\ [PromptNext]_vars => [Service!Next]_(Service!vars)
  <2> SUFFICES ASSUME ServiceInv, [PromptNext]_vars
               PROVE  [Service!Next]_(Service!vars)
    OBVIOUS
  <2>1. ServiceInv' /\ PromptInv /\ RawInv /\ cnt \in Nat
    BY NextServiceInv, CntFacts DEF ServiceInv, PromptInv
  <2>2. CASE \E h \in Hart : Accepts(h) \/ Checks(h)
    BY <2>1, <2>2, AcceptsIsTake, ChecksIsCheck DEF Service!Next
  <2>3. UNCHANGED <<cnt, Working, Held, Reported>> => UNCHANGED Service!vars
    BY DEF Service!vars, Working, Held, Reported
  <2>4. CASE \E h \in Hart : Prints(h) \/ Delivers(h)
    BY <2>1, <2>3, <2>4, PrintsIsReport, DeliversIsDeliver DEF Service!Next
  <2>5. CASE Silent
    <3>1. Working' = Working
      BY <2>1, <2>5, WorkingStays DEF Silent
    <3>2. Held' = Held
      BY <2>1, <2>5, HeldStays DEF Silent, Held
    <3>3. Reported' = Reported
      <4>1. PromptInv' => ReportInv'
        BY ReportIsZero, PTL
      <4> QED
        BY <2>1, <2>5, <4>1, ReportIsZero DEF Silent, ServiceInv, ReportInv
    <3> QED
      BY <2>3, <2>5, <3>1, <3>2, <3>3 DEF Silent
  <2> QED
    BY <2>1, <2>2, <2>4, <2>5, ServiceSteps
<1> QED
  BY InitServiceInv, NextServiceInv, <1>1, <1>2, PTL DEF PromptSpec
=============================================================================
