------------------------------ MODULE DmaCopy ------------------------------
(***************************************************************************)
(* The DMA between a byte-addressed memory and a client that leaves the    *)
(* registers alone while a copy is in progress: what _perform_memcpy does  *)
(* to memory, for every source, destination and length.                    *)
(***************************************************************************)
EXTENDS Dma

CONSTANTS MemSize,   \* bytes of memory
          MaxJobs    \* jobs the client starts (bounds the model)

ASSUME MemSizeAssumption == MemSize \in Nat \ {0}
ASSUME MaxJobsAssumption == MaxJobs \in Nat
ASSUME ResetAddrAssumption == ResetAddr \in Nat

Address == 0 .. MemSize - 1

VARIABLES mem,       \* each byte is tagged with the address it started at
          before,    \* the memory when the last job was started
          started, completed

memVars == <<mem, before, started, completed>>
copyAllVars == <<dmaVars, memVars>>

MemInit ==
  /\ DmaInit
  /\ mem = [a \in Address |-> a]
  /\ before = mem
  /\ started = 0 /\ completed = 0

\* The client programs a job and starts it, when the previous one is over.
Program(s, d, l) ==
  /\ Quiescent /\ started < MaxJobs
  /\ s + l <= MemSize /\ d + l <= MemSize
  /\ src' = s /\ dst' = d /\ len' = l
  /\ UNCHANGED <<op, runEvent, engine, copyVars, memVars>>

Start(o) ==
  /\ Quiescent /\ started < MaxJobs
  /\ WriteOp(o)
  /\ before' = mem
  /\ started' = started + 1
  /\ UNCHANGED <<mem, completed>>

Event == StartRun /\ UNCHANGED memVars

BusRead ==
  /\ ReadBlock([i \in 0 .. Chunk - 1 |-> mem[src + off + i]])
  /\ UNCHANGED memVars

BusWrite ==
  /\ WriteBlock
  /\ mem' = [a \in Address |-> IF a \in dst + off .. dst + off + Chunk - 1
                               THEN buffer[a - dst - off] ELSE mem[a]]
  /\ UNCHANGED <<before, started, completed>>

Interrupt ==
  /\ Raise
  /\ completed' = completed + 1
  /\ UNCHANGED <<mem, before, started>>

Done ==
  /\ (started = MaxJobs /\ Quiescent) \/ engine = "aborted"
  /\ UNCHANGED copyAllVars

Thread == Event \/ BusRead \/ BusWrite \/ Interrupt

MemNext ==
  \/ \E s, d \in Address, l \in 0 .. MemSize : Program(s, d, l)
  \/ \E o \in {OP_NOP, OP_MEMCPY, OP_MEMSET} : Start(o)
  \/ Thread
  \/ Done

MemSpec == MemInit /\ [][MemNext]_copyAllVars /\ WF_copyAllVars(Thread)

-----------------------------------------------------------------------------
(* Properties                                                              *)

\* Splitting into blocks loses, repeats and misplaces nothing: when the
\* interrupt is raised the destination holds the source as it was, and no
\* other byte has changed.  Copying forwards in blocks, this needs the
\* destination not to lie ahead inside the source.
ForwardSafe == dst <= src \/ dst >= src + len \/ len <= BLOCK

CopyExact ==
  engine = "raise" /\ op = OP_MEMCPY /\ ForwardSafe =>
    mem = [a \in Address |-> IF a \in dst .. dst + len - 1
                             THEN before[src + a - dst] ELSE before[a]]

\* Each start is answered by one interrupt, unless it asks for one of the
\* operations that end the simulation with "not implemented".
EveryStartCompletes ==
  (started = MaxJobs) ~> (completed = MaxJobs \/ engine = "aborted")
=============================================================================
