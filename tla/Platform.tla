------------------------------ MODULE Platform ------------------------------
(***************************************************************************)
(* The whole machine: the harts of sw/main.cpp, the DMA, one accelerator   *)
(* per hart and the interrupt path, connected as in vp/main.cpp.  Steps    *)
(* that touch two of them (a register write, a bus transaction, an         *)
(* interrupt) are conjunctions of the steps of the two.                    *)
(*                                                                         *)
(* Spec has no clock: between a write of the DMA's OP register and the end *)
(* of the transfer, the program may execute any number of instructions, as *)
(* nothing in the code orders the two.  PromptSpec adds the one thing that *)
(* the simulation's timing brings: a transfer is over when the hart that   *)
(* started it has released dma_lock.                                       *)
(*                                                                         *)
(* Every row of an image carries the number of the image a hart meant to   *)
(* send, so that stale and mixed data can be told apart, although the code *)
(* sends one and the same picture each time.                               *)
(***************************************************************************)
EXTENDS Integers, Sequences, FiniteSets

CONSTANTS PROCESSORS, NumImages,
          Rows,        \* rows of an image
          FifoDepth    \* depth of the accelerator's FIFOs

ASSUME PlatformAssumption ==
  /\ PROCESSORS \in Nat \ {0} /\ NumImages \in Nat
  /\ Rows \in Nat \ {0} /\ FifoDepth \in Nat \ {0}

\* 64 bytes to a block in the code, an answer (40 bytes) fits in one of them.
BLOCK == 2
ImageLen == Rows * BLOCK
AnswerLen == 1

VARIABLES
  pc, sem, printSem, cnt, curId, xfer, reg, localError, totalError,
  barrierCounter, j, accCompleted, registered, exitCounter, exitTicket,
  halted, printed, printedTotal,                                \* Harts
  src, dst, len, op, runEvent, engine, n, off, buffer,          \* Dma
  dataFifo, row, inputImg, startFifo, filter, scores, resultFifo,  \* LenetPE
  enabledPrio, handlerTable, pending, hartEip, meip, isr, claimed, \* Irq
  localBuffer,   \* local_buffer of each hart
  wrecked        \* a transfer has written past a local_buffer, onto the stack

Hart == 0 .. PROCESSORS - 1

\* vp/main.cpp numbers the DMA's interrupt 4 and those of the accelerators 6,
\* 8, 9 and 10; only their order matters.
DmaIrq == 1
LenetIrq(p) == p + 2
Irqs == {DmaIrq} \cup {LenetIrq(p) : p \in Hart}
EmptyHandler == -1

\* Bus addresses: `of` is the hart or accelerator, or the image's number.
Image(k) == [space |-> "input_img", of |-> k]
StartPort(p) == [space |-> "start", of |-> p]
ResultPort(p) == [space |-> "result", of |-> p]
LocalBuffer(h) == [space |-> "local_buffer", of |-> h]
NoAddress == [space |-> "none", of |-> 0]

\* What travels in a transaction.
Junk == [kind |-> "junk"]
Row(k, i) == [kind |-> "row", image |-> k, row |-> i]
Answer(img) == [kind |-> "answer", to |-> img]

RowIndex == 0 .. Rows - 1
Whole(k) == [i \in RowIndex |-> Row(k, i)]

S == INSTANCE Harts WITH MaxMismatch <- 1
D == INSTANCE Dma WITH ResetAddr <- NoAddress, NoData <- Junk
L == INSTANCE LenetPE WITH PE <- Hart, NoRow <- Junk
I == INSTANCE Irq WITH NoHandler <- EmptyHandler

hartVars == <<pc, sem, printSem, cnt, curId, xfer, reg, localError, totalError,
              barrierCounter, j, accCompleted, registered, exitCounter,
              exitTicket, halted, printed, printedTotal>>
dmaVars == <<src, dst, len, op, runEvent, engine, n, off, buffer>>
peVars == <<dataFifo, row, inputImg, startFifo, filter, scores, resultFifo>>
irqVars == <<enabledPrio, handlerTable, pending, hartEip, meip, isr, claimed>>
memVars == <<localBuffer, wrecked>>
vars == <<hartVars, dmaVars, peVars, irqVars, memVars>>

Init ==
  /\ S!Init /\ D!DmaInit /\ L!PeInit /\ I!IrqInit
  /\ localBuffer = [h \in Hart |-> Junk]
  /\ wrecked = FALSE

-----------------------------------------------------------------------------
(* Instructions of the harts                                               *)

\* Hart 0 executes the main program while it handles no interrupt.
Running(h) == ~wrecked /\ (h = 0 => isr = "off")

\* Steps that concern the software alone.
Compute(h) ==
  /\ pc[h] \notin {"prio", "table", "src", "dst", "len", "op", "compare"}
  /\ S!HartStep(h)
  /\ UNCHANGED <<dmaVars, peVars, irqVars, memVars>>

RegisterHandler ==
  /\ \/ S!SetPriority /\ I!SetPriority(LenetIrq(registered))
     \/ S!SetHandler /\ I!SetHandler(LenetIrq(registered), registered)
  /\ UNCHANGED <<dmaVars, peVars, memVars>>

\* Mutant of ProgramDma: every hart reads the result of accelerator 0.
ProgramDmaFirstPort(h) ==
  /\ LET write == xfer[h] = "write"
     IN  \/ S!WriteSrc(h)
            /\ D!WriteSrc(IF write THEN Image(curId[h]) ELSE ResultPort(0))
         \/ S!WriteDst(h)
            /\ D!WriteDst(IF write THEN StartPort(h) ELSE LocalBuffer(h))
         \/ S!WriteLen(h) /\ D!WriteLen(IF write THEN ImageLen ELSE AnswerLen)
         \/ S!WriteOp(h) /\ D!WriteOp(D!OP_MEMCPY)
  /\ UNCHANGED <<peVars, irqVars, memVars>>

\* write_data_to_ACC(Lenet_START_ADDR[h], input_img, 1024) and
\* read_data_from_ACC(Lenet_READ_ADDR[h], local_buffer, 40)
ProgramDma(h) ==
  /\ LET write == xfer[h] = "write"
     IN  \/ S!WriteSrc(h)
            /\ D!WriteSrc(IF write THEN Image(curId[h]) ELSE ResultPort(h))
         \/ S!WriteDst(h)
            /\ D!WriteDst(IF write THEN StartPort(h) ELSE LocalBuffer(h))
         \/ S!WriteLen(h) /\ D!WriteLen(IF write THEN ImageLen ELSE AnswerLen)
         \/ S!WriteOp(h) /\ D!WriteOp(D!OP_MEMCPY)
  /\ UNCHANGED <<peVars, irqVars, memVars>>

\* answer[] is right for the picture, whichever hart sent it when.
Matches(data) ==
  /\ data.kind = "answer"
  /\ \A i \in RowIndex :
       data.to[i].kind = "row" /\ data.to[i].row = i

CompareAnswer(h) ==
  /\ S!Compare(h, IF Matches(localBuffer[h]) THEN 0 ELSE 1)
  /\ UNCHANGED <<dmaVars, peVars, irqVars, memVars>>

HartAction(h) ==
  /\ Running(h)
  /\ \/ Compute(h)
     \/ h = 0 /\ RegisterHandler
     \/ ProgramDma(h)
     \/ CompareAnswer(h)

-----------------------------------------------------------------------------
(* The DMA and its bus transactions                                        *)

\* input_img, and whatever lies in memory after it.
ReadImage ==
  /\ src.space = "input_img"
  /\ D!ReadBlock(IF off < ImageLen THEN Row(src.of, off \div BLOCK) ELSE Junk)
  /\ UNCHANGED peVars

\* The accelerator answers at its result address alone.
ReadResult ==
  /\ src.space = "result"
  /\ \/ /\ off = 0
        /\ L!PopResult(src.of)
        /\ D!ReadBlock(Answer(Head(resultFifo[src.of])))
     \/ /\ off # 0
        /\ D!ReadBlock(Junk)
        /\ UNCHANGED peVars

\* It takes 64 bytes wherever they are written.
WriteRow ==
  /\ dst.space = "start"
  /\ D!WriteBlock
  /\ L!PushRow(dst.of, IF buffer.kind = "row" THEN buffer ELSE Junk)
  /\ UNCHANGED memVars

WriteLocalBuffer ==
  /\ dst.space = "local_buffer"
  /\ D!WriteBlock
  /\ \/ /\ off + D!Chunk <= AnswerLen
        /\ localBuffer' = [localBuffer EXCEPT ![dst.of] = buffer]
        /\ UNCHANGED wrecked
     \/ /\ off + D!Chunk > AnswerLen
        /\ wrecked' = TRUE
        /\ UNCHANGED localBuffer
  /\ UNCHANGED peVars

DmaAction ==
  /\ \/ (D!StartRun \/ D!LoseRun) /\ UNCHANGED <<peVars, irqVars, memVars>>
     \/ (ReadImage \/ ReadResult) /\ UNCHANGED <<irqVars, memVars>>
     \/ (WriteRow \/ WriteLocalBuffer) /\ UNCHANGED irqVars
     \/ D!Raise /\ I!Trigger(DmaIrq) /\ UNCHANGED <<peVars, memVars>>
  /\ UNCHANGED hartVars

-----------------------------------------------------------------------------
(* The accelerators and the interrupt path                                 *)

WriteBufferAction(p) ==
  L!WriteBuffer(p) /\ UNCHANGED <<hartVars, dmaVars, irqVars, memVars>>

FilterAction(p) ==
  /\ \/ (L!ReadStart(p) \/ L!Compute(p) \/ L!LatencyOver(p)) /\ UNCHANGED irqVars
     \/ L!WriteResult(p) /\ I!Trigger(LenetIrq(p))
  /\ UNCHANGED <<hartVars, dmaVars, memVars>>

PlicAction == I!Notify /\ UNCHANGED <<hartVars, dmaVars, peVars, memVars>>

RunHandler ==
  /\ I!Dispatch
  /\ LET fn == handlerTable[claimed]
     IN  IF fn = EmptyHandler THEN UNCHANGED hartVars ELSE S!AccIrqHandler(fn)

TrapAction ==
  /\ \/ (I!Trap \/ I!ClearPending \/ I!Claim \/ I!Complete) /\ UNCHANGED hartVars
     \/ RunHandler
  /\ UNCHANGED <<dmaVars, peVars, memVars>>

Hardware ==
  \/ DmaAction
  \/ \E p \in Hart : WriteBufferAction(p) \/ FilterAction(p)
  \/ PlicAction

-----------------------------------------------------------------------------
(* The specification                                                       *)

Live == ~halted /\ ~wrecked

Stopped == ~Live /\ UNCHANGED vars

Next ==
  \/ \E h \in Hart : HartAction(h)
  \/ Live /\ Hardware
  \/ Live /\ TrapAction
  \/ Stopped

Spec == Init /\ [][Next]_vars

\* The simulation's timing: sem_post(&dma_lock) comes after the transfer.
Prompt == sem'["dma_lock"] > sem["dma_lock"] => D!Quiescent

PromptNext == Next /\ Prompt

PromptSpec == Init /\ [][PromptNext]_vars

\* Each hart executes instructions, each SystemC process runs when it can.
Fairness ==
  /\ \A h \in Hart : WF_vars(HartAction(h) /\ Prompt)
  /\ WF_vars(Live /\ DmaAction)
  /\ \A p \in Hart : WF_vars(Live /\ WriteBufferAction(p))
  /\ \A p \in Hart : WF_vars(Live /\ FilterAction(p))
  /\ WF_vars(Live /\ PlicAction)
  /\ WF_vars(Live /\ TrapAction)

FairPromptSpec == PromptSpec /\ Fairness

-----------------------------------------------------------------------------
(* Properties of the program as written, whatever the timing               *)

\* When a hart writes OP, the other three registers are those of its own
\* transfer: dma_lock keeps the programming of two harts apart.
ProgrammedAsUnit ==
  \A h \in Hart : pc[h] = "op" =>
    IF xfer[h] = "write"
    THEN src = Image(curId[h]) /\ dst = StartPort(h) /\ len = ImageLen
    ELSE src = ResultPort(h) /\ dst = LocalBuffer(h) /\ len = AnswerLen

\* An accelerator's interrupt never arrives before its handler is in the
\* table: the other harts cannot take an image before hart 0 is through its
\* registrations.
HandlerReady ==
  \A p \in Hart : LenetIrq(p) \in pending => handlerTable[LenetIrq(p)] = p

-----------------------------------------------------------------------------
(* Properties that need the transfer to be over in time                    *)

\* The answer a hart compares is the whole answer to the image it sent last.
AnswerIsOwn ==
  \A h \in Hart : pc[h] = "compare" => localBuffer[h] = Answer(Whole(curId[h]))

\* While a start is waiting or being served, input_img holds that very image.
ImageIntact ==
  \A p \in Hart :
    startFifo[p] > 0 \/ filter[p] = "compute" => inputImg[p] = Whole(curId[p])

\* A computation ends only when the handler has run for the one before and the
\* flag has been cleared: no completion is merged with another or cleared away.
CompletionsDistinct ==
  \A p \in Hart : filter[p] = "result" =>
    /\ LenetIrq(p) \notin pending /\ ~accCompleted[p]
    /\ ~(claimed = LenetIrq(p) /\ isr = "dispatch")

\* No start of the DMA comes while its thread is busy, and no register is
\* written during a copy.
DmaUndisturbed ==
  /\ runEvent => engine = "wait"
  /\ engine # "wait" => \A h \in Hart : pc[h] \notin {"src", "dst", "len", "op"}

\* When SYS_EXIT stops the simulation nothing is left on its way, and all the
\* answers were right.
CleanHalt ==
  halted =>
    /\ D!Quiescent /\ \A p \in Hart : L!Drained(p)
    /\ pending \subseteq {DmaIrq} /\ isr = "off"
    /\ printedTotal = 0

\* The program ends, on every hart.
Termination == <>halted

-----------------------------------------------------------------------------
(* What the documentation says and the machine does not do                 *)

\* "The PLIC is used to handle interrupts from the DMA (when the DMA transfer
\* is complete)": some time during the run the DMA's interrupt is claimed.
DmaInterruptServed == <>(claimed = DmaIrq)

-----------------------------------------------------------------------------
(* Refinement of the abstract service                                      *)

\* A hart works on its image from the store of cnt to the comparison.
WorkLabels == {"unlock"} \cup S!DmaLabels \cup S!AnswerLabels

NoneYet == -1

\* The image whose whole answer lies in a local_buffer; a torn or foreign one
\* is -2, which is no image.
AnsweredImage(data) ==
  IF data = Junk THEN NoneYet
  ELSE IF \E k \in 0 .. cnt : data = Answer(Whole(k))
       THEN CHOOSE k \in 0 .. cnt : data = Answer(Whole(k))
       ELSE -2

Service == INSTANCE InferenceService WITH
  None <- NoneYet,
  taken <- cnt,
  working <- [h \in Hart |-> IF pc[h] \in WorkLabels THEN curId[h] ELSE NoneYet],
  answer <- [h \in Hart |-> AnsweredImage(localBuffer[h])],
  report <- IF printed = <<>> THEN NoneYet ELSE printedTotal

\* Harts, DMA, accelerators and interrupts together deliver the service: each
\* image goes to one hart, which gets the whole and correct answer to it.
DeliversService == Service!Spec
=============================================================================
