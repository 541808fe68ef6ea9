------------------------------- MODULE Flash -------------------------------
(***************************************************************************)
(* Flashcontroller of vp/flash.h: a register selects a block of a file or  *)
(* a block device of the host, and a window shows that block through a     *)
(* write-back buffer of one block.  Transfers to and from the host may     *)
(* fail or end early; the code then reports on stderr and goes on.         *)
(***************************************************************************)
EXTENDS Integers

CONSTANTS DevBlocks,   \* blocks on the medium
          Width,       \* bytes in a block (512 in the code)
          Bytes,       \* values of a byte
          Garbage      \* what the buffer holds before the first transfer

ASSUME FlashAssumption ==
  DevBlocks \in Nat \ {0} /\ Width \in Nat \ {0} /\ Bytes # {}

Blocks == 0 .. DevBlocks - 1
Pos == 0 .. Width - 1

VARIABLES medium,        \* "file", "device" or "none", what was opened
          power,         \* "on", "off", "lost", or "aborted" by an assertion
          dev,           \* contents of the medium
          buf, offs, dirty, active,   \* the Blockbuffer
          targetBlock,   \* the address register
          reply,         \* what the last read of the window returned
          touched,       \* block numbers loaded so far
          failed         \* some transfer has failed

bufferVars == <<buf, offs, dirty, active>>
flashVars == <<medium, power, dev, bufferVars, targetBlock, reply, touched, failed>>

NoBlock == [i \in Pos |-> Garbage]

FlashInit ==
  /\ medium \in {"file", "device", "none"} /\ power = "on"
  /\ dev \in [Blocks -> [Pos -> Bytes]]
  /\ buf = NoBlock /\ offs = 0 /\ dirty = FALSE /\ active = FALSE
  /\ targetBlock = 0
  /\ reply = Garbage /\ touched = {} /\ failed = FALSE

\* BLKGETSIZE64 counts bytes; only the size of a file is divided afterwards.
DeviceNumBlocks == IF medium = "device" THEN DevBlocks * Width ELSE DevBlocks

-----------------------------------------------------------------------------
(* Blockbuffer                                                             *)

\* The first k bytes of a, then those of b: a transfer that ended early.
Mixed(k, a, b) == [i \in Pos |-> IF i < k THEN a[i] ELSE b[i]]

\* Bytes a transfer of block b may move; past the end of the medium it fails.
Transfers(b) == IF b \in Blocks THEN 0 .. Width ELSE {0}

\* Mutant of Moves: a buffer that was never loaded counts as block 0.
MovesNever == targetBlock # offs

Moves == targetBlock # offs \/ ~active
WritesBack == Moves /\ dirty /\ active

\* Mutant of AfterWriteBack: the buffer goes to the block addressed next.
AfterWriteBackNext(w) ==
  [b \in Blocks |-> IF WritesBack /\ b = targetBlock THEN Mixed(w, buf, dev[b]) ELSE dev[b]]

AfterWriteBack(w) ==
  [b \in Blocks |-> IF WritesBack /\ b = offs THEN Mixed(w, buf, dev[b]) ELSE dev[b]]

Loaded(w, r) == IF Moves THEN Mixed(r, AfterWriteBack(w)[targetBlock], buf) ELSE buf

\* setPos, with w bytes written back and r bytes read.  A failed write-back
\* leaves dirty set, and offs moves on all the same.
SetPos(w, r) ==
  /\ dev' = AfterWriteBack(w)
  /\ offs' = targetBlock
  /\ active' = TRUE
  /\ touched' = touched \cup {targetBlock}
  /\ failed' = (failed \/ (WritesBack /\ w < Width) \/ (Moves /\ r < Width))

\* dirty after setPos: a complete transfer in either direction clears it.
DirtyAfter(w, r) == dirty /\ ~(Moves /\ (r = Width \/ (WritesBack /\ w = Width)))

-----------------------------------------------------------------------------
(* transport                                                               *)

Opened == power = "on" /\ medium # "none"

WriteTarget(b) ==
  /\ Opened
  /\ targetBlock' = b
  /\ UNCHANGED <<medium, power, dev, bufferVars, reply, touched, failed>>

\* The assertions: a file must be open, and the block must exist.
Abort ==
  /\ power = "on" /\ (medium = "none" \/ targetBlock >= DeviceNumBlocks)
  /\ power' = "aborted" /\ active' = FALSE
  /\ UNCHANGED <<medium, dev, buf, offs, dirty, targetBlock, reply, touched, failed>>

WriteWindow(i, v, w, r) ==
  /\ Opened /\ targetBlock < DeviceNumBlocks
  /\ SetPos(w, r)
  /\ buf' = [Loaded(w, r) EXCEPT ![i] = v]
  /\ dirty' = TRUE
  /\ UNCHANGED <<medium, power, targetBlock, reply>>

ReadWindow(i, w, r) ==
  /\ Opened /\ targetBlock < DeviceNumBlocks
  /\ SetPos(w, r)
  /\ buf' = Loaded(w, r)
  /\ dirty' = DirtyAfter(w, r)
  /\ reply' = buf'[i]
  /\ UNCHANGED <<medium, power, targetBlock>>

\* Bytes a transfer the next access needs may move: all of them unless the
\* host fails.
AccessWindow ==
  \E w \in IF WritesBack THEN Transfers(offs) ELSE {Width},
     r \in IF Moves THEN Transfers(targetBlock) ELSE {Width}, i \in Pos :
    \/ \E v \in Bytes : WriteWindow(i, v, w, r)
    \/ ReadWindow(i, w, r)

-----------------------------------------------------------------------------
(* Destructor, a crash that skips it, and the next simulation              *)

\* Mutant of Destroy: the buffer is dropped.
DestroyDrops(w) ==
  /\ Opened
  /\ active' = FALSE /\ power' = "off"
  /\ UNCHANGED <<medium, dev, buf, offs, dirty, targetBlock, reply, touched, failed>>

\* clear(): the buffer is written back if it is dirty.
Destroy(w) ==
  /\ Opened
  /\ dev' = [b \in Blocks |->
               IF active /\ dirty /\ b = offs THEN Mixed(w, buf, dev[b]) ELSE dev[b]]
  /\ dirty' = (dirty /\ ~(active /\ w = Width))
  /\ failed' = (failed \/ (active /\ dirty /\ w < Width))
  /\ active' = FALSE /\ power' = "off"
  /\ UNCHANGED <<medium, buf, offs, targetBlock, reply, touched>>

PowerLoss ==
  /\ power = "on"
  /\ active' = FALSE /\ power' = "lost"
  /\ UNCHANGED <<medium, dev, buf, offs, dirty, targetBlock, reply, touched, failed>>

\* The constructor, on the same medium.
Construct ==
  /\ power \in {"off", "lost"}
  /\ power' = "on"
  /\ buf' = NoBlock /\ offs' = 0 /\ dirty' = FALSE /\ active' = FALSE
  /\ targetBlock' = 0
  /\ UNCHANGED <<medium, dev, reply, touched, failed>>

FlashNext ==
  \/ \E b \in 0 .. DeviceNumBlocks : WriteTarget(b)
  \/ AccessWindow
  \/ \E w \in IF active /\ dirty THEN Transfers(offs) ELSE {Width} : Destroy(w)
  \/ PowerLoss \/ Construct \/ Abort

FlashSpec == FlashInit /\ [][FlashNext]_flashVars

-----------------------------------------------------------------------------
(* Properties                                                              *)

\* What the program sees: the medium, with the block in the buffer instead of
\* its stale copy.
View == [b \in Blocks |-> IF active /\ b = offs THEN buf ELSE dev[b]]

Store == INSTANCE BlockStore WITH
           Data <- Bytes, store <- View, stable <- dev, last <- offs

\* The controller is an array of blocks: reads return what was written last,
\* whichever blocks were visited in between; only the block addressed last can
\* be lost in a crash; and a failing host never damages a block that was not
\* addressed (Blockbuffer and transport, vp/flash.h).
FlashImplementsStore == Store!StoreSpec

\* "Access Flash out of bounds!" (vp/flash.h:165): no access reaches a block
\* that the medium does not have.
FlashInRange == active => offs \in Blocks
=============================================================================
