-------------------------------- MODULE Dma --------------------------------
(***************************************************************************)
(* SimpleDMA of vp/dma.h: four registers that software writes at any time, *)
(* one SystemC thread that copies block by block, and the run event        *)
(* between them.  The bus is left to the module that uses this one: it     *)
(* supplies what a read transaction returns and decides when a transaction *)
(* that may block can end.  DmaCopy.tla closes it with a memory, Platform  *)
(* with the accelerators.                                                  *)
(***************************************************************************)
EXTENDS Integers

CONSTANTS BLOCK,      \* bytes the engine's buffer holds (64 in the code)
          ResetAddr,  \* what the address registers hold before any write
          NoData      \* contents of the engine's buffer before any read

ASSUME BlockAssumption == BLOCK \in Nat \ {0}

OP_NOP == 0
OP_MEMCPY == 1
OP_MEMSET == 2   \* like every further operation, an assertion that fails

VARIABLES src, dst, len, op,   \* the registers
          runEvent,            \* the notification of run_event is under way
          engine,              \* what the thread does next
          n, off,              \* bytes left and offset, locals of _perform_memcpy
          buffer

registers == <<src, dst, len, op>>
copyVars == <<n, off, buffer>>
dmaVars == <<registers, runEvent, engine, copyVars>>

DmaInit ==
  /\ src = ResetAddr /\ dst = ResetAddr /\ len = 0 /\ op = OP_NOP
  /\ runEvent = FALSE
  /\ engine = "wait"
  /\ n = 0 /\ off = 0 /\ buffer = NoData

-----------------------------------------------------------------------------
(* Register writes.  Nothing refuses one while a copy is in progress.      *)

WriteSrc(a) ==
  src' = a /\ UNCHANGED <<dst, len, op, runEvent, engine, copyVars>>
WriteDst(a) ==
  dst' = a /\ UNCHANGED <<src, len, op, runEvent, engine, copyVars>>
WriteLen(l) ==
  len' = l /\ UNCHANGED <<src, dst, op, runEvent, engine, copyVars>>

\* A write of OP also notifies run_event, 10 ns later; a notification that is
\* still under way absorbs another one.
WriteOp(o) ==
  /\ op' = o
  /\ runEvent' = TRUE
  /\ UNCHANGED <<src, dst, len, engine, copyVars>>

-----------------------------------------------------------------------------
(* The thread                                                              *)

\* Mutant of StartRun: OP_NOP ends without the interrupt.
StartRunSilentNop ==
  /\ runEvent /\ engine = "wait"
  /\ runEvent' = FALSE
  /\ \/ /\ op = OP_NOP
        /\ UNCHANGED <<engine, copyVars>>
     \/ /\ op = OP_MEMCPY
        /\ engine' = "read"
        /\ n' = len /\ off' = 0
        /\ UNCHANGED buffer
     \/ /\ op \notin {OP_NOP, OP_MEMCPY}
        /\ engine' = "aborted"
        /\ UNCHANGED copyVars
  /\ UNCHANGED registers

\* The event occurs while the thread waits for it: switch (op).
StartRun ==
  /\ runEvent /\ engine = "wait"
  /\ runEvent' = FALSE
  /\ \/ /\ op = OP_NOP
        /\ engine' = "raise"
        /\ UNCHANGED copyVars
     \/ /\ op = OP_MEMCPY
        /\ engine' = "read"
        /\ n' = len /\ off' = 0
        /\ UNCHANGED buffer
     \/ /\ op \notin {OP_NOP, OP_MEMCPY}
        /\ engine' = "aborted"
        /\ UNCHANGED copyVars
  /\ UNCHANGED registers

\* The event occurs while the thread is elsewhere: nobody ever sees it.
LoseRun ==
  /\ runEvent /\ engine # "wait"
  /\ runEvent' = FALSE
  /\ UNCHANGED <<registers, engine, copyVars>>

\* Bytes the next _copy_block moves: the last block takes what is left.
Chunk == IF n > BLOCK THEN BLOCK ELSE n

\* The two transactions of _copy_block, at src + off and dst + off as the
\* registers stand when each is issued.
ReadBlock(data) ==
  /\ engine = "read"
  /\ buffer' = data
  /\ engine' = "write"
  /\ UNCHANGED <<registers, runEvent, n, off>>

\* Mutant of WriteBlock: # for >, as in while (n != buffer.size()).
WriteBlockUnequal ==
  /\ engine = "write"
  /\ \/ /\ n # BLOCK
        /\ n' = n - BLOCK
        /\ off' = off + BLOCK
        /\ engine' = "read"
     \/ /\ n = BLOCK
        /\ engine' = "raise"
        /\ UNCHANGED <<n, off>>
  /\ UNCHANGED <<registers, runEvent, buffer>>

\* Mutant of WriteBlock: off is not advanced.
WriteBlockInPlace ==
  /\ engine = "write"
  /\ \/ /\ n > BLOCK
        /\ n' = n - BLOCK
        /\ off' = off
        /\ engine' = "read"
     \/ /\ n <= BLOCK
        /\ engine' = "raise"
        /\ UNCHANGED <<n, off>>
  /\ UNCHANGED <<registers, runEvent, buffer>>

WriteBlock ==
  /\ engine = "write"
  /\ \/ /\ n > BLOCK
        /\ n' = n - BLOCK
        /\ off' = off + BLOCK
        /\ engine' = "read"
     \/ /\ n <= BLOCK
        /\ engine' = "raise"
        /\ UNCHANGED <<n, off>>
  /\ UNCHANGED <<registers, runEvent, buffer>>

\* gateway_trigger_interrupt, then back to wait(run_event).
Raise ==
  /\ engine = "raise"
  /\ engine' = "wait"
  /\ UNCHANGED <<registers, runEvent, copyVars>>

\* Nothing is copied and nothing is about to be.
Quiescent == engine = "wait" /\ ~runEvent
=============================================================================
