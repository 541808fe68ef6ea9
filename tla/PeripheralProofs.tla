-------------------------- MODULE PeripheralProofs --------------------------
(***************************************************************************)
(* Theorems about the peripherals of the virtual platform.                 *)
(***************************************************************************)
EXTENDS DmaCopy, PeStream, Ethernet, Flash, Sensors, Display, MemoryMap, FoldLemmas,
        SequenceTheorems

(***************************************************************************)
(* The flash controller implements BlockStore, for a medium of any size    *)
(* and blocks of any width, with a host that fails whenever it likes.      *)
(***************************************************************************)

Values == Bytes \cup {Garbage}
Contents == [Pos -> Values]

TypeInv ==
  /\ dev \in [Blocks -> Contents] /\ buf \in Contents
  /\ active \in BOOLEAN /\ dirty \in BOOLEAN /\ failed \in BOOLEAN

\* Whatever may have been changed in the buffer or written back is known to
\* have been addressed, and a clean buffer shows what is on the medium.
BufferInv ==
  /\ active => offs \in touched
  /\ power # "on" => ~active
  /\ ~failed => offs \in Blocks
  /\ ~failed /\ active /\ ~dirty => buf = dev[offs]

FlashInv == TypeInv /\ BufferInv

\* A step in which no transfer fails.
Whole(w, r) == (WritesBack => w = Width) /\ (Moves => r = Width /\ targetBlock \in Blocks)

-----------------------------------------------------------------------------
(* Transfers                                                               *)

LEMMA MixedType ==
  ASSUME NEW k \in Nat, NEW a \in Contents, NEW b \in Contents
  PROVE  Mixed(k, a, b) \in Contents
  BY DEF Mixed, Contents

LEMMA MixedWhole ==
  ASSUME NEW a \in Contents, NEW b \in Contents
  PROVE  Mixed(Width, a, b) = a
  BY FlashAssumption DEF Mixed, Contents, Pos

\* A block past the end of the medium is read as nothing, which leaves the
\* buffer as it was.
LEMMA TransferSizes ==
  ASSUME NEW b, NEW k \in Transfers(b)
  PROVE  /\ k \in 0 .. Width
         /\ ~(k < Width) => k = Width /\ b \in Blocks
         /\ b \notin Blocks => k = 0
  BY FlashAssumption DEF Transfers

LEMMA WriteBackType ==
  ASSUME TypeInv, NEW w \in Nat
  PROVE  AfterWriteBack(w) \in [Blocks -> Contents]
  BY MixedType DEF TypeInv, AfterWriteBack

LEMMA MixedNothing ==
  ASSUME NEW a, NEW b \in Contents
  PROVE  Mixed(0, a, b) = b
  BY FlashAssumption DEF Mixed, Contents, Pos

LEMMA LoadedType ==
  ASSUME TypeInv, NEW w \in Nat,
         NEW r \in IF Moves THEN Transfers(targetBlock) ELSE {Width}
  PROVE  Loaded(w, r) \in Contents
<1>1. CASE Moves /\ targetBlock \in Blocks
  <2>1. r \in Nat /\ AfterWriteBack(w)[targetBlock] \in Contents
    BY <1>1, TransferSizes, WriteBackType, FlashAssumption
  <2> QED
    BY <1>1, <2>1, MixedType DEF Loaded, TypeInv
<1>2. CASE Moves /\ targetBlock \notin Blocks
  BY <1>2, TransferSizes, MixedNothing DEF Loaded, TypeInv
<1>3. CASE ~Moves
  BY <1>3 DEF Loaded, TypeInv
<1> QED
  BY <1>1, <1>2, <1>3

\* What a step without a failure finds: the buffer shows the block addressed,
\* and the medium has all the others.
LEMMA WholeAccess ==
  ASSUME FlashInv, ~failed, NEW w \in Nat, NEW r \in Nat, Whole(w, r)
  PROVE  /\ targetBlock \in Blocks
         /\ Loaded(w, r) = View[targetBlock]
         /\ AfterWriteBack(w) = IF targetBlock = offs THEN dev ELSE View
         /\ \A b \in Blocks \ {targetBlock} : AfterWriteBack(w)[b] = View[b]
         /\ Moves => Loaded(w, r) = AfterWriteBack(w)[targetBlock]
         /\ ~Moves => Loaded(w, r) = buf /\ AfterWriteBack(w) = dev
<1> USE DEF FlashInv
<1>1. targetBlock \in Blocks /\ offs \in Blocks
  BY DEF Whole, Moves, BufferInv
<1>2. CASE ~Moves
  <2>1. targetBlock = offs /\ active /\ ~WritesBack
    BY <1>2 DEF Moves, WritesBack
  <2>2. AfterWriteBack(w) = dev
    BY <2>1 DEF AfterWriteBack, TypeInv
  <2>3. Loaded(w, r) = buf
    BY <1>2 DEF Loaded
  <2> QED
    BY <1>1, <1>2, <2>1, <2>2, <2>3 DEF View
<1>3. CASE Moves
  <2>1. AfterWriteBack(w) \in [Blocks -> Contents]
    BY WriteBackType
  <2>2. ASSUME NEW b \in Blocks
        PROVE  AfterWriteBack(w)[b] = View[b]
    <3>1. CASE WritesBack /\ b = offs
      <4>1. Mixed(w, buf, dev[b]) = buf
        BY <3>1, MixedWhole DEF Whole, TypeInv
      <4> QED
        BY <3>1, <4>1 DEF AfterWriteBack, View, WritesBack
    <3>2. CASE ~WritesBack /\ b = offs /\ active
      BY <1>3, <3>2 DEF AfterWriteBack, View, WritesBack, BufferInv
    <3>3. CASE b # offs \/ ~active
      BY <3>3 DEF AfterWriteBack, View, WritesBack
    <3> QED
      BY <3>1, <3>2, <3>3
  <2>3. AfterWriteBack(w) = View
    BY <2>1, <2>2 DEF View
  <2>4. Loaded(w, r) = AfterWriteBack(w)[targetBlock]
    <3>1. AfterWriteBack(w)[targetBlock] \in Contents
      BY <1>1, <2>1
    <3> QED
      BY <1>3, <3>1, MixedWhole DEF Loaded, Whole, TypeInv
  <2>5. targetBlock = offs => ~active
    BY <1>3 DEF Moves
  <2>6. targetBlock = offs => View = dev
    BY <2>5 DEF View, TypeInv
  <2> QED
    BY <1>1, <1>3, <2>3, <2>4, <2>6
<1> QED
  BY <1>2, <1>3

-----------------------------------------------------------------------------
(* An access of the window                                                 *)

LEMMA SetPosEffect ==
  ASSUME FlashInv,
         NEW w \in IF WritesBack THEN Transfers(offs) ELSE {Width},
         NEW r \in IF Moves THEN Transfers(targetBlock) ELSE {Width},
         SetPos(w, r)
  PROVE  /\ w \in Nat /\ r \in Nat
         /\ failed' \in BOOLEAN
         /\ failed => failed'
         /\ ~failed' => Whole(w, r)
         /\ dev' \in [Blocks -> Contents]
         /\ touched' = touched \cup {targetBlock}
         /\ \A b \in Blocks \ touched' : dev'[b] = dev[b]
<1>1. w \in 0 .. Width /\ r \in 0 .. Width
  BY TransferSizes, FlashAssumption
<1>2. failed' = (failed \/ (WritesBack /\ w < Width) \/ (Moves /\ r < Width))
  BY DEF SetPos
<1>3. failed' \in BOOLEAN /\ (failed => failed')
  BY <1>2, Zenon
<1>4. ~failed' => ~(WritesBack /\ w < Width) /\ ~(Moves /\ r < Width)
  BY <1>2, Zenon
<1>5. ~failed' => Whole(w, r)
  BY <1>1, <1>4, TransferSizes, FlashAssumption DEF Whole
<1>6. dev' \in [Blocks -> Contents]
  BY <1>1, WriteBackType DEF SetPos, FlashInv
<1>7. \A b \in Blocks \ touched' : dev'[b] = dev[b]
  BY DEF SetPos, AfterWriteBack, WritesBack, FlashInv, BufferInv
<1> QED
  BY <1>1, <1>3, <1>5, <1>6, <1>7 DEF SetPos

\* After a failure the store may do anything to the blocks addressed so far.
LEMMA DegradedStep ==
  ASSUME FlashInv, failed' = TRUE, touched \subseteq touched',
         active' => offs' \in touched',
         \A b \in Blocks \ touched' : dev'[b] = dev[b]
  PROVE  Store!Degraded
<1> SUFFICES ASSUME NEW b \in Blocks \ touched'
             PROVE  View'[b] = View[b] /\ dev'[b] = dev[b]
  BY DEF Store!Degraded
<1>1. View'[b] = dev'[b]
  BY DEF View
<1>2. View[b] = dev[b]
  BY DEF View, FlashInv, BufferInv
<1> QED
  BY <1>1, <1>2

LEMMA WriteStep ==
  ASSUME FlashInv,
         NEW w \in IF WritesBack THEN Transfers(offs) ELSE {Width},
         NEW r \in IF Moves THEN Transfers(targetBlock) ELSE {Width},
         NEW i \in Pos, NEW v \in Bytes, WriteWindow(i, v, w, r)
  PROVE  FlashInv' /\ Store!StoreNext
<1>1. SetPos(w, r)
  BY DEF WriteWindow
<1>2. /\ buf' = [Loaded(w, r) EXCEPT ![i] = v] /\ dirty' = TRUE /\ reply' = reply
      /\ offs' = targetBlock /\ active' = TRUE /\ power = "on" /\ power' = "on"
      /\ dev' = AfterWriteBack(w)
  BY DEF WriteWindow, SetPos, Opened
<1>3. buf' \in Contents
  BY <1>1, <1>2, LoadedType, SetPosEffect DEF FlashInv, Contents, Values
<1>4. TypeInv'
  BY <1>1, <1>2, <1>3, SetPosEffect DEF TypeInv
<1>5. BufferInv'
  BY <1>1, <1>2, SetPosEffect, WholeAccess DEF BufferInv
<1>6. CASE failed'
  <2>1. Store!Degraded
    BY <1>1, <1>2, <1>4, <1>6, SetPosEffect, DegradedStep DEF TypeInv
  <2> QED
    BY <1>4, <1>5, <2>1 DEF FlashInv, Store!StoreNext, Store!InService
<1>7. CASE ~failed'
  <2>1. ~failed /\ Whole(w, r) /\ w \in Nat /\ r \in Nat
    BY <1>1, <1>7, SetPosEffect
  <2>2. Loaded(w, r) \in Contents
    BY <2>1, LoadedType DEF FlashInv
  <2>3. View' = [View EXCEPT ![targetBlock][i] = v]
    <3>1. View' \in [Blocks -> Contents] /\ View \in [Blocks -> Contents]
      BY <1>3, <1>4 DEF View, TypeInv, FlashInv
    <3>2. View'[targetBlock] = [View[targetBlock] EXCEPT ![i] = v]
      BY <1>2, <2>1, WholeAccess DEF View
    <3>3. \A b \in Blocks \ {targetBlock} : View'[b] = View[b]
      BY <1>2, <2>1, WholeAccess DEF View
    <3> QED
      BY <3>1, <3>2, <3>3, <2>1, WholeAccess
  <2>4. dev' = IF targetBlock = offs THEN dev ELSE View
    BY <1>2, <2>1, WholeAccess
  <2>5. Store!Write(targetBlock, i, v)
    BY <1>1, <1>2, <1>4, <1>7, <2>1, <2>3, <2>4, SetPosEffect
       DEF Store!Write, Store!Address, TypeInv, FlashInv
  <2>6. failed' = FALSE /\ targetBlock \in Blocks
    BY <1>4, <1>7, <2>1, WholeAccess DEF TypeInv
  <2> QED
    BY <1>2, <1>4, <1>5, <2>1, <2>5, <2>6 DEF FlashInv, Store!StoreNext, Store!InService
<1> QED
  BY <1>6, <1>7

LEMMA ReadStep ==
  ASSUME FlashInv,
         NEW w \in IF WritesBack THEN Transfers(offs) ELSE {Width},
         NEW r \in IF Moves THEN Transfers(targetBlock) ELSE {Width},
         NEW i \in Pos, ReadWindow(i, w, r)
  PROVE  FlashInv' /\ Store!StoreNext
<1>1. SetPos(w, r)
  BY DEF ReadWindow
<1>2. /\ buf' = Loaded(w, r) /\ reply' = buf'[i]
      /\ offs' = targetBlock /\ active' = TRUE /\ power = "on" /\ power' = "on"
      /\ dev' = AfterWriteBack(w)
  BY DEF ReadWindow, SetPos, Opened
<1>3. dirty' = (dirty /\ ~(Moves /\ (r = Width \/ (WritesBack /\ w = Width))))
  BY DEF ReadWindow, DirtyAfter
<1>4. dirty' \in BOOLEAN /\ (dirty' => dirty) /\ (Moves /\ r = Width => ~dirty')
      /\ (~Moves /\ dirty => dirty')
  BY <1>3, Zenon
<1>5. TypeInv'
  BY <1>1, <1>2, <1>4, LoadedType, SetPosEffect DEF TypeInv, FlashInv
<1>6. ~failed' => /\ ~failed /\ Whole(w, r) /\ w \in Nat /\ r \in Nat
                  /\ targetBlock \in Blocks
  BY <1>1, SetPosEffect, WholeAccess
<1>7. BufferInv'
  <2>1. ASSUME ~failed', ~dirty' PROVE buf' = dev'[offs']
    <3>1. CASE Moves
      BY <1>2, <1>6, <2>1, <3>1, WholeAccess
    <3>2. CASE ~Moves
      <4>1. ~dirty /\ active /\ targetBlock = offs
        BY <1>4, <2>1, <3>2 DEF Moves
      <4>2. buf = dev[offs]
        BY <1>6, <2>1, <4>1 DEF FlashInv, BufferInv
      <4> QED
        BY <1>2, <1>6, <2>1, <3>2, <4>1, <4>2, WholeAccess
    <3> QED
      BY <3>1, <3>2
  <2> QED
    BY <1>1, <1>2, <1>6, <2>1, SetPosEffect DEF BufferInv
<1>8. CASE failed'
  <2>1. Store!Degraded
    BY <1>1, <1>2, <1>5, <1>8, SetPosEffect, DegradedStep DEF TypeInv
  <2> QED
    BY <1>5, <1>7, <2>1 DEF FlashInv, Store!StoreNext, Store!InService
<1>9. CASE ~failed'
  <2>1. View' = View
    <3>1. \A b \in Blocks : View'[b] = View[b]
      BY <1>2, <1>6, <1>9, WholeAccess DEF View
    <3> QED
      BY <3>1 DEF View
  <2>2. dev' = IF targetBlock = offs THEN dev ELSE View
    BY <1>2, <1>6, <1>9, WholeAccess
  <2>3. reply' = View[targetBlock][i]
    BY <1>2, <1>6, <1>9, WholeAccess
  <2>4. failed' = FALSE /\ failed = FALSE
    BY <1>5, <1>6, <1>9 DEF TypeInv, FlashInv
  <2>5. Store!Read(targetBlock, i)
    BY <1>1, <1>2, <2>1, <2>2, <2>3, <2>4, SetPosEffect DEF Store!Read, Store!Address
  <2> QED
    BY <1>2, <1>5, <1>6, <1>7, <1>9, <2>4, <2>5 DEF FlashInv, Store!StoreNext, Store!InService
<1> QED
  BY <1>8, <1>9

-----------------------------------------------------------------------------
(* The end of a simulation, and the next one                               *)

LEMMA DestroyStep ==
  ASSUME FlashInv, NEW w \in IF active /\ dirty THEN Transfers(offs) ELSE {Width}, Destroy(w)
  PROVE  FlashInv' /\ Store!StoreNext
<1>1. w \in 0 .. Width /\ (active /\ dirty /\ ~(w < Width) => w = Width)
  BY TransferSizes, FlashAssumption
<1>2. /\ active' = FALSE /\ power = "on" /\ power' = "off"
      /\ UNCHANGED <<buf, offs, targetBlock, reply, touched>>
  BY DEF Destroy, Opened
<1>3. /\ failed' = (failed \/ (active /\ dirty /\ w < Width))
      /\ dirty' = (dirty /\ ~(active /\ w = Width))
  BY DEF Destroy
<1>4. /\ failed' \in BOOLEAN /\ dirty' \in BOOLEAN
      /\ failed => failed'
      /\ ~failed' => ~(active /\ dirty /\ w < Width)
  BY <1>3, Zenon
<1>5. dev' = [b \in Blocks |->
                IF active /\ dirty /\ b = offs THEN Mixed(w, buf, dev[b]) ELSE dev[b]]
  BY DEF Destroy
<1>6. dev' \in [Blocks -> Contents]
  BY <1>1, <1>5, MixedType, FlashAssumption DEF FlashInv, TypeInv
<1>7. FlashInv'
  BY <1>2, <1>4, <1>6 DEF FlashInv, TypeInv, BufferInv
<1>8. CASE failed'
  <2>1. \A b \in Blocks \ touched' : dev'[b] = dev[b]
    BY <1>2, <1>5 DEF FlashInv, BufferInv
  <2>2. Store!Degraded
    BY <1>2, <1>7, <1>8, <2>1, DegradedStep DEF FlashInv, TypeInv
  <2> QED
    BY <1>7, <2>2 DEF Store!StoreNext, Store!InService
<1>9. CASE ~failed'
  <2>1. ~failed /\ (active /\ dirty => w = Width)
    BY <1>1, <1>4, <1>9
  <2>2. \A b \in Blocks : dev'[b] = View[b]
    <3> SUFFICES ASSUME NEW b \in Blocks PROVE dev'[b] = View[b]
      OBVIOUS
    <3>1. CASE active /\ dirty /\ b = offs
      BY <1>5, <2>1, <3>1, MixedWhole DEF View, FlashInv, TypeInv
    <3>2. CASE active /\ ~dirty /\ b = offs
      BY <1>5, <2>1, <3>2 DEF View, FlashInv, BufferInv
    <3>3. CASE ~active \/ b # offs
      BY <1>5, <3>3 DEF View
    <3> QED
      BY <3>1, <3>2, <3>3
  <2>3. dev' = View /\ View' = View
    BY <1>2, <1>6, <2>2 DEF View
  <2>4. failed' = FALSE /\ failed = FALSE /\ offs \in Blocks
    BY <1>4, <1>9, <2>1 DEF FlashInv, TypeInv, BufferInv
  <2>5. Store!Close
    BY <1>2, <2>3, <2>4 DEF Store!Close
  <2> QED
    BY <1>2, <1>7, <2>4, <2>5 DEF Store!StoreNext, Store!InService
<1> QED
  BY <1>8, <1>9

\* With the buffer gone the program sees the medium.
LEMMA PowerStep ==
  ASSUME FlashInv, PowerLoss \/ Abort \/ Construct
  PROVE  FlashInv' /\ Store!StoreNext
<1>1. /\ active' = FALSE /\ dev' = dev /\ UNCHANGED <<reply, touched, failed>>
      /\ offs' \in {offs, 0} /\ dirty' \in BOOLEAN /\ buf' \in Contents
  BY DEF PowerLoss, Abort, Construct, NoBlock, FlashInv, TypeInv, Contents, Values
<1>2. 0 \in Blocks
  BY FlashAssumption DEF Blocks
<1>3. FlashInv'
  BY <1>1, <1>2 DEF FlashInv, TypeInv, BufferInv
<1>4. View' = dev
  BY <1>1 DEF View, FlashInv, TypeInv
<1>5. CASE failed
  <2>1. Store!Degraded
    BY <1>1, <1>3, <1>5, DegradedStep DEF FlashInv, TypeInv
  <2> QED
    BY <1>3, <2>1 DEF Store!StoreNext, Store!InService
<1>6. CASE ~failed /\ (PowerLoss \/ Abort)
  <2>1. power = "on" /\ Store!Crash /\ offs' \in Blocks
    BY <1>1, <1>4, <1>6 DEF PowerLoss, Abort, Store!Crash, FlashInv, BufferInv
  <2> QED
    BY <1>1, <1>3, <1>6, <2>1 DEF Store!StoreNext, Store!InService, FlashInv, TypeInv
<1>7. CASE ~failed /\ Construct
  <2>1. View = dev /\ offs' = 0
    BY <1>7 DEF Construct, View, FlashInv, TypeInv, BufferInv
  <2>2. Store!Reset
    BY <1>1, <1>4, <1>7, <2>1 DEF Construct, Store!Reset
  <2> QED
    BY <1>1, <1>2, <1>3, <1>7, <2>1, <2>2 DEF Store!StoreNext, Store!InService, FlashInv, TypeInv
<1> QED
  BY <1>5, <1>6, <1>7

\* The address register does not touch the store.
LEMMA OtherStep ==
  ASSUME FlashInv, (\E b \in 0 .. DeviceNumBlocks : WriteTarget(b)) \/ UNCHANGED flashVars
  PROVE  FlashInv' /\ UNCHANGED Store!storeVars
<1>1. UNCHANGED <<dev, bufferVars, reply, touched, failed, power>>
  BY DEF WriteTarget, flashVars
<1> QED
  BY <1>1 DEF FlashInv, TypeInv, BufferInv, bufferVars, View, Store!storeVars

-----------------------------------------------------------------------------

LEMMA InitStep == FlashInit => FlashInv /\ Store!StoreInit
<1> SUFFICES ASSUME FlashInit PROVE FlashInv /\ Store!StoreInit
  OBVIOUS
<1>1. FlashInv
  <2>1. dev \in [Blocks -> Contents]
    BY DEF FlashInit, Contents, Values
  <2>2. buf \in Contents
    BY DEF FlashInit, NoBlock, Contents, Values
  <2>3. offs \in Blocks
    BY FlashAssumption DEF FlashInit, Blocks
  <2> QED
    BY <2>1, <2>2, <2>3 DEF FlashInit, FlashInv, TypeInv, BufferInv
<1>2. View = dev
  BY <1>1 DEF FlashInit, View, FlashInv, TypeInv
<1> QED
  BY <1>1, <1>2 DEF FlashInit, Store!StoreInit

\* The flash controller is an array of blocks: reads return what was written
\* last, a crash takes back at most the writes to the block addressed last, and
\* a failing host damages no block but those addressed.
THEOREM FlashRefinement == FlashSpec => FlashImplementsStore
<1>1. FlashInv /\ [FlashNext]_flashVars => FlashInv' /\ [Store!StoreNext]_(Store!storeVars)
  BY WriteStep, ReadStep, DestroyStep, PowerStep, OtherStep DEF FlashNext, AccessWindow
<1> QED
  BY InitStep, <1>1, PTL DEF FlashSpec, FlashImplementsStore, Store!StoreSpec

-----------------------------------------------------------------------------
(***************************************************************************)
(* The frames of both sensors are punctual, whatever the range of scaler   *)
(* and whenever it is written.                                             *)
(***************************************************************************)

\* Between frames exactly one notification is under way, and it is due when
\* scaler says; when the thread is about to run, there is none, or the one of a
\* write of scaler that came in between.
Notified ==
  /\ scaler \in 1 .. MaxScaler /\ due \in Nat /\ age \in Nat
  /\ ~runnable => due > 0 /\ age + due = scaler
  /\ runnable /\ ~rushed => due = 0 /\ age = scaler
  /\ runnable /\ rushed => due = scaler

LEMMA InitNotified == SensorInit => Notified
  BY SensorAssumption, SMT DEF SensorInit, Notified

LEMMA NextNotified ==
  ASSUME Notified, [SensorNext]_sensorVars
  PROVE  Notified'
<1>1. CASE Millisecond
  <2>1. /\ ~runnable /\ due > 0 /\ age + due = scaler
        /\ due' = due - 1 /\ age' = age + 1 /\ rushed' = FALSE /\ scaler' = scaler
    BY <1>1 DEF Notified, Millisecond
  <2>2. CASE due = 1
    <3>1. runnable'
      BY <1>1, <2>2, Zenon DEF Millisecond
    <3> QED
      BY <2>1, <2>2, <3>1, SensorAssumption DEF Notified
  <2>3. CASE due # 1
    <3>1. ~runnable'
      BY <1>1, <2>3, Zenon DEF Millisecond
    <3> QED
      BY <2>1, <2>3, <3>1, SensorAssumption DEF Notified
  <2> QED
    BY <2>2, <2>3
<1>2. CASE Generate
  BY <1>2, SensorAssumption DEF Notified, Generate
<1>3. ASSUME NEW v \in 0 .. MaxScaler + 1, WriteScaler(v)
      PROVE  Notified'
  BY <1>3, SensorAssumption DEF Notified, WriteScaler, Renotify
<1>4. CASE (\E v \in 0 .. 3 : WriteFilter(v)) \/ UNCHANGED sensorVars
  BY <1>4 DEF Notified, WriteFilter, sensorVars
<1> QED
  BY <1>1, <1>2, <1>3, <1>4 DEF SensorNext

\* A frame comes exactly scaler milliseconds after the one before it or after
\* the last change of scaler.
THEOREM Punctual == SensorSpec => []SensorPunctual
<1>1. Notified => SensorPunctual
  BY DEF Notified, SensorPunctual
<1>2. Notified /\ [SensorNext]_sensorVars => Notified'
  BY NextNotified
<1> QED
  BY InitNotified, <1>1, <1>2, PTL DEF SensorSpec

-----------------------------------------------------------------------------
(***************************************************************************)
(* The bus takes every access to the device it is meant for, whatever the  *)
(* start and the sizes of the memories that the options ask for, but for   *)
(* the two cases in which RAM reaches further than the assertion looks.    *)
(***************************************************************************)

RouteInv ==
  /\ ramStart \in RamStarts /\ ramSize \in RamSizes /\ mramSize \in MramSizes
  /\ phase = "run" => OptionsAccepted
  /\ address \in Int
  /\ address = 0 \/ \E m \in Masters : port = Route(m, address)

LEMMA EndTypes ==
  ASSUME RouteInv
  PROVE  /\ ramStart \in Nat /\ RamEnd \in Nat /\ MramEnd \in Nat
         /\ DisplayEnd \in Nat /\ 1824 * MiB <= DisplayEnd /\ DisplayEnd < 1840 * MiB
<1>1. Space \in Nat \ {0} /\ MramStart \in Nat
  BY SMT DEF Space, MiB, MramStart
<1>2. ramStart \in Nat /\ ramSize \in Nat /\ mramSize \in Nat
  BY <1>1, MapAssumption DEF RouteInv
<1>3. RamEnd \in Nat
  BY <1>1, <1>2, SMT DEF RamEnd
<1>4. MramEnd \in Nat
  BY <1>1, <1>2, SMT DEF MramEnd
<1>5. DisplaySize \in 0 .. 16 * MiB - 1
  BY MapAssumption
<1>6. DisplayEnd \in Nat /\ 1824 * MiB <= DisplayEnd /\ DisplayEnd < 1840 * MiB
  BY <1>5, SMT DEF DisplayEnd, MiB
<1> QED
  BY <1>2, <1>3, <1>4, <1>6

-----------------------------------------------------------------------------
(* The ports                                                               *)

LEMMA PortsOf ==
  /\ DOMAIN DevicePorts = 1 .. 16
  /\ DOMAIN Ports = 1 .. 17
  /\ \A k \in 1 .. 16 : Ports[k + 1] = DevicePorts[k]
  /\ Ports[1] = Port("ram", ramStart, RamEnd)
<1> DEFINE ram == <<Port("ram", ramStart, RamEnd)>>
           P == {DevicePorts[i] : i \in 1 .. 16} \cup {Port("ram", ramStart, RamEnd)}
<1>1. Len(DevicePorts) = 16 /\ DOMAIN DevicePorts = 1 .. 16
  BY DEF DevicePorts
<1>2. DevicePorts \in Seq(P)
  BY <1>1 DEF DevicePorts
<1> HIDE DEF DevicePorts
<1>3. ram \in Seq(P) /\ Len(ram) = 1 /\ ram[1] = Port("ram", ramStart, RamEnd)
  OBVIOUS
<1>4. Ports = ram \o DevicePorts
  BY DEF Ports
<1> HIDE DEF P, ram
<1>5. /\ Ports \in Seq(P) /\ Len(Ports) = Len(ram) + Len(DevicePorts)
      /\ \A i \in 1 .. Len(ram) + Len(DevicePorts) :
           Ports[i] = IF i <= Len(ram) THEN ram[i] ELSE DevicePorts[i - Len(ram)]
  BY <1>2, <1>3, <1>4, ConcatProperties
<1>6. DOMAIN Ports = 1 .. 17
  BY <1>1, <1>3, <1>5
<1> QED
  BY <1>1, <1>3, <1>5, <1>6

Spans(p, first, last) == p.first = first /\ p.last = last

LEMMA DeviceRanges ==
  /\ Spans(DevicePorts[1], ClintStart, ClintStart + 63)
  /\ Spans(DevicePorts[2], 1024 * MiB, 1040 * MiB)
  /\ Spans(DevicePorts[3], 512 * MiB, 512 * MiB)
  /\ Spans(DevicePorts[4], 512 * MiB + 64, 512 * MiB + 67)
  /\ Spans(DevicePorts[5], 1280 * MiB, 1280 * MiB + 4)
  /\ Spans(DevicePorts[6], DmaStart, DmaStart + 4)
  /\ Spans(DevicePorts[7], 1280 * MiB + 8, 1280 * MiB + 16)
  /\ Spans(DevicePorts[8], MramStart, MramEnd)
  /\ Spans(DevicePorts[9], 1808 * MiB, 1808 * MiB)
  /\ Spans(DevicePorts[10], 768 * MiB, 768 * MiB + 1)
  /\ Spans(DevicePorts[11], 1824 * MiB, DisplayEnd)
  /\ Spans(DevicePorts[12], ClintStart + 64, ClintStart + 64)
  /\ Spans(DevicePorts[13], 1840 * MiB, 1856 * MiB - 1)
  /\ Spans(DevicePorts[14], 1856 * MiB, 1872 * MiB - 1)
  /\ Spans(DevicePorts[15], 1872 * MiB, 1888 * MiB - 1)
  /\ Spans(DevicePorts[16], 1888 * MiB, 1904 * MiB - 1)
BY DEF DevicePorts, Port, Spans

LEMMA Sixteen ==
  \A i \in 1 .. 16 :
    \/ i = 1 \/ i = 2 \/ i = 3 \/ i = 4 \/ i = 5 \/ i = 6 \/ i = 7 \/ i = 8
    \/ i = 9 \/ i = 10 \/ i = 11 \/ i = 12 \/ i = 13 \/ i = 14 \/ i = 15 \/ i = 16
OBVIOUS

RamPort == Port("ram", ramStart, RamEnd)

LEMMA RamHolds ==
  ASSUME NEW a PROVE Holds(RamPort, a) <=> ramStart <= a /\ a <= RamEnd
BY DEF RamPort, Holds, Port

LEMMA AcceleratorNames ==
  \A k \in 13 .. 16 : DevicePorts[k].name \in Accelerators
<1>1. \A k \in 13 .. 16 : k = 13 \/ k = 14 \/ k = 15 \/ k = 16
  OBVIOUS
<1>2. /\ DevicePorts[13].name = "lenet0" /\ DevicePorts[14].name = "lenet1"
      /\ DevicePorts[15].name = "lenet2" /\ DevicePorts[16].name = "lenet3"
  BY DEF DevicePorts, Port
<1> QED
  BY <1>1, <1>2 DEF Accelerators

\* What a device holds no other device does; the RAM does only if it begins
\* after the display, and then only what an accelerator holds.
LEMMA DevicesApart ==
  ASSUME RouteInv, OptionsAccepted, NEW a \in Int,
         NEW k \in 1 .. 16, Holds(DevicePorts[k], a)
  PROVE  /\ Holds(RamPort, a) => ramStart > DisplayEnd /\ k \in 13 .. 16
         /\ \A i \in 1 .. 16 : Holds(DevicePorts[i], a) => i = k
<1>1. ClintStart <= a
  BY Sixteen, DeviceRanges, EndTypes, SMT
     DEF Spans, Holds, ClintStart, DmaStart, MramStart, MiB
<1>2. k \notin 13 .. 16 => a <= DisplayEnd
  BY Sixteen, DeviceRanges, EndTypes, SMT
     DEF Spans, Holds, OptionsAccepted, ClintStart, DmaStart, MramStart, MiB
<1>3. ClintStart \in Int
  BY SMT DEF ClintStart, MiB
<1>4. Holds(RamPort, a) => ramStart > DisplayEnd /\ k \in 13 .. 16
  BY <1>1, <1>2, <1>3, RamHolds, EndTypes, SMT DEF OptionsAccepted
<1>5. ASSUME NEW i \in 1 .. 16, Holds(DevicePorts[i], a) PROVE i = k
  BY <1>5, Sixteen, DeviceRanges, EndTypes, SMTT(60)
     DEF Spans, Holds, OptionsAccepted, ClintStart, DmaStart, MramStart, MiB
<1> QED
  BY <1>4, <1>5

LEMMA PortBounds ==
  ASSUME RouteInv
  PROVE  /\ \A k \in DOMAIN Ports : Ports[k].first \in Int /\ Ports[k].last \in Int
         /\ \A k \in 1 .. 16 : DevicePorts[k].first \in Int /\ DevicePorts[k].first > 0
<1> USE DEF Spans, ClintStart, MramStart, DmaStart, MiB
<1>1. ASSUME NEW k \in 1 .. 16
      PROVE  /\ DevicePorts[k].first \in Int /\ DevicePorts[k].last \in Int
             /\ DevicePorts[k].first > 0
  <2>1. DevicePorts[k].first \in Nat \ {0}
    BY Sixteen, DeviceRanges, SMT
  <2>2. MramEnd \in Int /\ DisplayEnd \in Int
    BY EndTypes, SMT
  <2>3. DevicePorts[k].last \in Int
    BY <2>2, Sixteen, DeviceRanges, SMT
  <2> QED
    BY <2>1, <2>3, SMT
<1>2. Ports[1].first \in Int /\ Ports[1].last \in Int
  BY EndTypes, PortsOf DEF Port
<1>3. ASSUME NEW k \in DOMAIN Ports
      PROVE  Ports[k].first \in Int /\ Ports[k].last \in Int
  <2>1. k = 1 \/ (k - 1 \in 1 .. 16 /\ Ports[k] = DevicePorts[k - 1])
    BY PortsOf
  <2> QED
    BY <1>1, <1>2, <2>1
<1> QED
  BY <1>1, <1>3

\* The bus takes every access meant for a device there, or to RAM that holds
\* the address as well.
LEMMA RoutedToDevice ==
  ASSUME RouteInv, OptionsAccepted, NEW a \in Int, NEW k \in 1 .. 16,
         Holds(DevicePorts[k], a)
  PROVE  \/ BusRoute(a) = DevicePorts[k].name
         \/ BusRoute(a) = "ram" /\ Holds(RamPort, a)
<1> DEFINE fits == {i \in DOMAIN Ports : Holds(Ports[i], a)}
           first == CHOOSE i \in fits : \A l \in fits : i <= l
<1>1. \A i \in 1 .. 16 : Holds(DevicePorts[i], a) => i = k
  BY DevicesApart
<1>2. k + 1 \in fits
  BY PortsOf
<1>3. ASSUME NEW i \in fits PROVE i = 1 \/ i = k + 1
  <2>1. i \in 1 .. 17 /\ Holds(Ports[i], a)
    BY <1>3, PortsOf
  <2>2. CASE i = 1
    BY <2>2
  <2>3. CASE i # 1
    <3>1. i - 1 \in 1 .. 16 /\ Ports[i] = DevicePorts[i - 1]
      BY <2>1, <2>3, PortsOf
    <3> QED
      BY <1>1, <2>1, <3>1
  <2> QED
    BY <2>2, <2>3
<1>4. 1 \in fits => Holds(RamPort, a) /\ Ports[1].name = "ram"
  BY PortsOf DEF RamPort, Port
<1>5. Ports[k + 1] = DevicePorts[k]
  BY PortsOf
<1>6. BusRoute(a) = Ports[first].name
  BY <1>2 DEF BusRoute
<1> HIDE DEF fits
<1>7. \E i \in fits : \A l \in fits : i <= l
  <2>1. CASE 1 \in fits
    <3>1. \A l \in fits : 1 <= l
      BY <1>3
    <3> QED
      BY <2>1, <3>1
  <2>2. CASE 1 \notin fits
    <3>1. \A l \in fits : k + 1 <= l
      BY <1>3, <2>2
    <3> QED
      BY <1>2, <3>1
  <2> QED
    BY <2>1, <2>2
<1>8. first \in fits
  BY <1>7
<1> QED
  BY <1>3, <1>4, <1>5, <1>6, <1>8

\* Past the bus a hart finds the RAM where the bus has it, unless it wraps.
LEMMA PastTheBus ==
  ASSUME RouteInv, NEW a \in ramStart .. ramStart + ramSize - 1,
         ~(ramStart + ramSize > Space)
  PROVE  Holds(RamPort, a)
<1>1. Space \in Nat \ {0}
  BY SMT DEF Space, MiB
<1>2. ramStart \in Nat /\ ramSize \in Nat \ {0}
  BY <1>1, MapAssumption DEF RouteInv
<1>3. ramStart + ramSize - 1 \in 0 .. Space - 1
  BY <1>1, <1>2
<1>4. RamEnd = ramStart + ramSize - 1
  BY <1>1, <1>3, SMT DEF RamEnd
<1> QED
  BY <1>2, <1>4, RamHolds

LEMMA InitRoute == MapInit => RouteInv
BY DEF MapInit, RouteInv

LEMMA NextRoute ==
  ASSUME RouteInv, [MapNext]_mapVars
  PROVE  RouteInv'
<1>1. ASSUME UNCHANGED <<ramStart, ramSize, mramSize, dmi>>, NEW a, NEW m
      PROVE  (OptionsAccepted' <=> OptionsAccepted) /\ Route(m, a)' = Route(m, a)
  BY <1>1 DEF OptionsAccepted, RamEnd, MramEnd, Route, BusRoute, Ports, DevicePorts
<1>2. CASE Parse
  <2>1. UNCHANGED <<ramStart, ramSize, mramSize, dmi, address, port>>
    BY <1>2 DEF Parse
  <2>2. phase' = "run" => OptionsAccepted
    BY <1>2 DEF Parse
  <2>3. /\ OptionsAccepted' <=> OptionsAccepted
        /\ \A m \in Masters : Route(m, address)' = Route(m, address)
    BY <1>1, <2>1
  <2> QED
    BY <2>1, <2>2, <2>3 DEF RouteInv
<1>3. CASE Access
  <2>1. UNCHANGED <<ramStart, ramSize, mramSize, dmi, phase>>
    BY <1>3 DEF Access
  <2>2. /\ OptionsAccepted' <=> OptionsAccepted
        /\ \A m \in Masters : Route(m, address)' = Route(m, address')
    BY <2>1 DEF OptionsAccepted, RamEnd, MramEnd, Route, BusRoute, Ports, DevicePorts
  <2>3. address' \in Int
    BY <1>3, PortBounds DEF Access
  <2>4. \E m \in Masters : port' = Route(m, address)'
    BY <1>3, <2>2 DEF Access
  <2> QED
    BY <2>1, <2>2, <2>3, <2>4 DEF RouteInv
<1>4. CASE UNCHANGED mapVars
  <2>1. UNCHANGED <<ramStart, ramSize, mramSize, dmi, phase, address, port>>
    BY <1>4 DEF mapVars
  <2>2. /\ OptionsAccepted' <=> OptionsAccepted
        /\ \A m \in Masters : Route(m, address)' = Route(m, address)
    BY <1>1, <2>1
  <2> QED
    BY <2>1, <2>2 DEF RouteInv
<1> QED
  BY <1>2, <1>3, <1>4 DEF MapNext

\* Nothing is a device's at address 0, where the bus has not been used yet.
LEMMA RouteImpliesReachable == RouteInv => DevicesReachable
<1> SUFFICES ASSUME RouteInv, phase = "run",
                    NEW k \in DOMAIN DevicePorts, Holds(DevicePorts[k], address)
             PROVE  \/ port = DevicePorts[k].name
                    \/ /\ port = "ram"
                       /\ \/ ramStart > DisplayEnd /\ DevicePorts[k].name \in Accelerators
                          \/ dmi /\ ramStart + ramSize > Space
  BY DEF DevicesReachable
<1>1. k \in 1 .. 16 /\ address \in Int /\ OptionsAccepted
  BY PortsOf DEF RouteInv
<1>2. address # 0
  <2>1. DevicePorts[k].first \in Int /\ DevicePorts[k].first > 0
    BY <1>1, PortBounds
  <2> QED
    BY <1>1, <2>1 DEF Holds
<1>3. Holds(RamPort, address) =>
        ramStart > DisplayEnd /\ DevicePorts[k].name \in Accelerators
  BY <1>1, DevicesApart, AcceleratorNames
<1>4. PICK m \in Masters : port = Route(m, address)
  BY <1>2 DEF RouteInv
<1>5. CASE port = BusRoute(address)
  BY <1>1, <1>3, <1>5, RoutedToDevice
<1>6. CASE /\ port = "ram" /\ dmi
           /\ address \in ramStart .. ramStart + ramSize - 1
  BY <1>3, <1>6, PastTheBus
<1> QED
  BY <1>4, <1>5, <1>6 DEF Route

\* Options the assertions accept, wherever the RAM begins and however large it
\* and the MRAM are, leave no device in another's shadow; in that of the RAM
\* only accelerators, of RAM after the display, and for a hart past the bus
\* what RAM that wraps covers.
THEOREM DevicesReachableHolds == MapSpec => []DevicesReachable
<1>1. MapSpec => []RouteInv
  BY InitRoute, NextRoute, PTL DEF MapSpec
<1> QED
  BY <1>1, RouteImpliesReachable, PTL

(***************************************************************************)
(* The DMA copies exactly, in blocks of any size: the invariant follows    *)
(* the boundary between what has been moved and what has not, and shows    *)
(* that no block is read behind it, whatever the copy.                     *)
(***************************************************************************)

\* The registers describe a copy inside the memory, once there is any length,
\* and while the thread works they stay as they are.
JobInv ==
  /\ {src, dst, len, n, off} \subseteq Nat
  /\ len > 0 => src + len <= MemSize /\ dst + len <= MemSize
  /\ mem = [a \in Address |-> mem[a]] /\ before = [a \in Address |-> before[a]]
  /\ runEvent => engine = "wait" /\ mem = before
  /\ engine \in {"read", "write"} => /\ op = OP_MEMCPY /\ off + n = len
                                     /\ len <= BLOCK => off = 0

\* What is in memory when the first k bytes of a copy have been moved.
Copied(k) == mem = [a \in Address |-> IF a \in dst .. dst + k - 1
                                      THEN before[src + a - dst] ELSE before[a]]

CopyInv ==
  op = OP_MEMCPY /\ ForwardSafe =>
    /\ engine \in {"read", "write"} => Copied(off)
    /\ engine = "write" => buffer = [i \in 0 .. Chunk - 1 |-> before[src + off + i]]
    /\ engine = "raise" => Copied(len)

DmaInv == JobInv /\ CopyInv

\* Nothing is copied at first.
LEMMA InitDma == MemInit => DmaInv
BY ResetAddrAssumption DEF MemInit, DmaInit, DmaInv, JobInv, CopyInv

\* The client touches registers only while nothing is copied.
LEMMA ClientStep ==
  ASSUME DmaInv,
         (\E s, d \in Address, l \in 0 .. MemSize : Program(s, d, l))
           \/ (\E o \in {OP_NOP, OP_MEMCPY, OP_MEMSET} : Start(o))
  PROVE  DmaInv'
<1>1. ASSUME NEW s \in Address, NEW d \in Address, NEW l \in 0 .. MemSize, Program(s, d, l)
      PROVE  DmaInv'
  BY <1>1, MemSizeAssumption
  DEF Program, Quiescent, DmaInv, JobInv, CopyInv, Address, memVars, copyVars
<1>2. ASSUME NEW o, Start(o)
      PROVE  DmaInv'
  BY <1>2 DEF Start, WriteOp, Quiescent, DmaInv, JobInv, CopyInv, copyVars
<1> QED
  BY <1>1, <1>2

\* A copy begins with nothing moved.
LEMMA EventStep ==
  ASSUME DmaInv, Event
  PROVE  DmaInv'
<1>1. /\ runEvent /\ engine = "wait" /\ runEvent' = FALSE /\ mem = before
      /\ UNCHANGED <<src, dst, len, op, mem, before>>
  BY DEF Event, StartRun, registers, memVars, DmaInv, JobInv
<1>2. CASE op = OP_NOP
  BY <1>1, <1>2
  DEF Event, StartRun, copyVars, DmaInv, JobInv, CopyInv, OP_NOP, OP_MEMCPY
<1>3. CASE op = OP_MEMCPY
  <2>1. engine' = "read" /\ n' = len /\ off' = 0
    BY <1>1, <1>3 DEF Event, StartRun, OP_NOP, OP_MEMCPY
  <2>2. JobInv'
    BY <1>1, <1>3, <2>1 DEF DmaInv, JobInv
  <2>3. Copied(off)'
    <3>1. \A a \in Address : ~(a \in dst .. dst + 0 - 1)
      BY DEF DmaInv, JobInv
    <3>2. mem = [a \in Address |-> mem[a]]
      BY DEF DmaInv, JobInv
    <3> QED
      BY <1>1, <2>1, <3>1, <3>2 DEF Copied
  <2> QED
    BY <2>1, <2>2, <2>3 DEF DmaInv, CopyInv
<1>4. CASE op \notin {OP_NOP, OP_MEMCPY}
  BY <1>1, <1>4 DEF Event, StartRun, copyVars, DmaInv, JobInv, CopyInv
<1> QED
  BY <1>2, <1>3, <1>4

\* What is still to be read has not been overwritten.
LEMMA BusReadStep ==
  ASSUME DmaInv, BusRead
  PROVE  DmaInv'
<1>1. /\ engine = "read" /\ engine' = "write"
      /\ buffer' = [i \in 0 .. Chunk - 1 |-> mem[src + off + i]]
      /\ UNCHANGED <<src, dst, len, op, runEvent, n, off, mem, before>>
  BY DEF BusRead, ReadBlock, registers, memVars
<1>2. {src, dst, len, n, off, BLOCK} \subseteq Nat /\ off + n = len
  BY <1>1, BlockAssumption DEF DmaInv, JobInv
<1>3. JobInv'
  BY <1>1 DEF DmaInv, JobInv
<1>4. ASSUME op = OP_MEMCPY, ForwardSafe
      PROVE  Copied(off)' /\ buffer' = [i \in 0 .. Chunk' - 1 |-> before'[src' + off' + i]]
  <2>1. Copied(off)
    BY <1>1, <1>4 DEF DmaInv, CopyInv
  <2>2. Chunk \in Nat /\ Chunk <= n
    BY <1>2 DEF Chunk
  <2>3. ASSUME NEW i \in 0 .. Chunk - 1
        PROVE  mem[src + off + i] = before[src + off + i]
    <3>1. i \in Nat /\ i < n /\ len > 0 /\ off + i < len
      BY <1>2, <2>2
    <3>2. src + len <= MemSize /\ (len <= BLOCK => off = 0)
      BY <1>1, <3>1 DEF DmaInv, JobInv
    <3>3. src + off + i \in Address
      BY <1>2, <3>1, <3>2, MemSizeAssumption DEF Address
    <3>4. dst <= src \/ dst >= src + len \/ off = 0
      BY <1>4, <3>2 DEF ForwardSafe
    <3>5. ~(src + off + i \in dst .. dst + off - 1)
      BY <1>2, <3>1, <3>4
    <3> QED
      BY <2>1, <3>3, <3>5 DEF Copied
  <2> QED
    BY <1>1, <2>1, <2>3 DEF Copied, Chunk
<1>5. CopyInv'
  BY <1>1, <1>4 DEF CopyInv, ForwardSafe
<1> QED
  BY <1>3, <1>5 DEF DmaInv

\* The block just read goes right behind those before it.
LEMMA BusWriteStep ==
  ASSUME DmaInv, BusWrite
  PROVE  DmaInv'
<1>1. /\ engine = "write"
      /\ mem' = [a \in Address |-> IF a \in dst + off .. dst + off + Chunk - 1
                                   THEN buffer[a - dst - off] ELSE mem[a]]
      /\ UNCHANGED <<src, dst, len, op, runEvent, before>>
  BY DEF BusWrite, WriteBlock, registers
<1>2. {src, dst, len, n, off, BLOCK} \subseteq Nat /\ off + n = len /\ op = OP_MEMCPY
  BY <1>1, BlockAssumption DEF DmaInv, JobInv
<1>3. \/ n > BLOCK /\ n' = n - BLOCK /\ off' = off + BLOCK /\ engine' = "read"
      \/ n <= BLOCK /\ engine' = "raise" /\ UNCHANGED <<n, off>>
  BY DEF BusWrite, WriteBlock
<1>4. JobInv'
  BY <1>1, <1>2, <1>3 DEF DmaInv, JobInv
<1>5. ASSUME ForwardSafe
      PROVE  mem' = [a \in Address |-> IF a \in dst .. dst + (off + Chunk) - 1
                                     THEN before[src + a - dst] ELSE before[a]]
  <2>1. /\ Copied(off)
        /\ buffer = [i \in 0 .. Chunk - 1 |-> before[src + off + i]]
    BY <1>1, <1>2, <1>5 DEF DmaInv, CopyInv
  <2>2. Chunk \in Nat
    BY <1>2 DEF Chunk
  <2>3. ASSUME NEW a \in Address
        PROVE  mem'[a] = IF a \in dst .. dst + (off + Chunk) - 1
                         THEN before[src + a - dst] ELSE before[a]
    <3>1. CASE a \in dst + off .. dst + off + Chunk - 1
      <4>1. a - dst - off \in 0 .. Chunk - 1 /\ src + off + (a - dst - off) = src + a - dst
        BY <1>2, <2>2, <3>1
      <4>2. mem'[a] = before[src + a - dst]
        BY <1>1, <2>1, <3>1, <4>1
      <4>3. a \in dst .. dst + (off + Chunk) - 1
        BY <1>2, <2>2, <3>1
      <4> QED
        BY <4>2, <4>3
    <3>2. CASE ~(a \in dst + off .. dst + off + Chunk - 1)
      <4>1. mem'[a] = mem[a]
        BY <1>1, <3>2
      <4>2. a \in dst .. dst + (off + Chunk) - 1 <=> a \in dst .. dst + off - 1
        BY <1>2, <2>2, <3>2 DEF Address
      <4>3. mem[a] = IF a \in dst .. dst + off - 1 THEN before[src + a - dst] ELSE before[a]
        BY <2>1 DEF Copied
      <4> QED
        BY <4>1, <4>2, <4>3
    <3> QED
      BY <3>1, <3>2
  <2> QED
    BY <1>1, <2>3
<1>6. CopyInv'
  <2>1. CASE n > BLOCK
    <3>1. engine' = "read" /\ off' = off + Chunk
      BY <1>2, <1>3, <2>1 DEF Chunk
    <3> QED
      BY <1>1, <1>5, <3>1 DEF CopyInv, ForwardSafe, Copied
  <2>2. CASE n <= BLOCK
    <3>1. engine' = "raise" /\ len = off + Chunk
      BY <1>2, <1>3, <2>2 DEF Chunk
    <3> QED
      BY <1>1, <1>5, <3>1 DEF CopyInv, ForwardSafe, Copied
  <2> QED
    BY <1>2, <2>1, <2>2
<1> QED
  BY <1>4, <1>6 DEF DmaInv

\* The invariant is inductive.
LEMMA DmaInvariant == MemSpec => []DmaInv
<1>1. DmaInv /\ [MemNext]_copyAllVars => DmaInv'
  <2> SUFFICES ASSUME DmaInv, [MemNext]_copyAllVars
               PROVE  DmaInv'
    OBVIOUS
  <2>1. CASE Interrupt
    BY <2>1
    DEF Interrupt, Raise, registers, copyVars, DmaInv, JobInv, CopyInv
  <2>2. CASE UNCHANGED copyAllVars
    BY <2>2
    DEF copyAllVars, dmaVars, memVars, registers, copyVars, DmaInv, JobInv, CopyInv, Copied,
        ForwardSafe, Chunk
  <2> QED
    BY <2>1, <2>2, ClientStep, EventStep, BusReadStep, BusWriteStep DEF MemNext, Thread, Done
<1> QED
  BY <1>1, InitDma, PTL DEF MemSpec

\* For every memory, block size and copy: see CopyExact.
THEOREM CopyExactHolds == MemSpec => []CopyExact
<1>1. DmaInv => CopyExact
  BY DEF DmaInv, CopyInv, CopyExact, Copied
<1> QED
  BY <1>1, DmaInvariant, PTL

(***************************************************************************)
(* An accelerator answers the images of its host one by one: the invariant *)
(* follows the current image from FIFO to FIFO.                            *)
(***************************************************************************)

Datum == [image : Int, row : Int]
Picture == [RowIndex -> Datum \cup {NoRow}]

StreamTypes ==
  /\ dataFifo \in [PE -> Seq(Datum)] /\ row \in [PE -> 0 .. Rows]
  /\ inputImg \in [PE -> Picture]
  /\ startFifo \in [PE -> Nat] /\ filter \in [PE -> {"idle", "compute", "result", "latency"}]
  /\ scores \in [PE -> Picture]
  /\ resultFifo \in [PE -> Seq(Picture)]
  /\ answers \in Seq(Picture)
  /\ sent \in Nat

\* The image at work is the one whose answer is read next.
Current == Len(answers)
AllSent == sent = (Current + 1) * Rows /\ dataFifo[p1] = <<>> /\ row[p1] = 0
AtRest == filter[p1] \in {"idle", "latency"}

\* Where that image is: its rows are collected, or a start is under way or
\* taken, or its scores are computed, or the answer lies in the FIFO.
Collecting ==
  /\ startFifo[p1] = 0 /\ AtRest /\ resultFifo[p1] = <<>>
  /\ sent = Current * Rows + row[p1] + Len(dataFifo[p1])
  /\ \A j \in 1 .. Len(dataFifo[p1]) : dataFifo[p1][j] = RowOf(Current, row[p1] + j - 1)
  /\ \A i \in RowIndex : i < row[p1] => inputImg[p1][i] = RowOf(Current, i)
Started ==
  /\ \/ startFifo[p1] = 1 /\ AtRest
     \/ startFifo[p1] = 0 /\ filter[p1] = "compute"
  /\ resultFifo[p1] = <<>> /\ inputImg[p1] = Image(Current)
Computed ==
  /\ startFifo[p1] = 0 /\ filter[p1] = "result"
  /\ resultFifo[p1] = <<>> /\ scores[p1] = Image(Current)
Answered ==
  startFifo[p1] = 0 /\ AtRest /\ resultFifo[p1] = <<Image(Current)>>

StreamInv ==
  /\ StreamTypes
  /\ AnswersMatchImages
  /\ sent <= (Current + 1) * Rows
  /\ Collecting \/ (AllSent /\ (Started \/ Computed \/ Answered))

\* The host has an accelerator to talk to.
LEMMA OnePe == p1 \in PE
BY PEAssumption DEF p1

\* At first the first image is collected, and none of it is there.
LEMMA InitStream == StreamInit => StreamInv
<1> SUFFICES ASSUME StreamInit
             PROVE  StreamInv
  OBVIOUS
<1>1. StreamTypes
  BY RowsAssumption DEF StreamInit, PeInit, StreamTypes, RowIndex, Picture
<1>2. /\ answers = <<>> /\ Len(answers) = 0 /\ sent = 0 /\ row[p1] = 0
      /\ dataFifo[p1] = <<>> /\ Len(dataFifo[p1]) = 0
      /\ startFifo[p1] = 0 /\ filter[p1] = "idle" /\ resultFifo[p1] = <<>>
  BY OnePe DEF StreamInit, PeInit
<1>3. AnswersMatchImages
  BY <1>2 DEF AnswersMatchImages
<1>4. Collecting /\ sent <= (Current + 1) * Rows
  BY <1>2, RowsAssumption DEF Collecting, AtRest, Current, RowIndex
<1> QED
  BY <1>1, <1>3, <1>4 DEF StreamInv

\* Rows behind those of whole images, one of them on its way to its place.
LEMMA RowCount ==
  ASSUME NEW done \in Nat, NEW r \in Nat, NEW l \in Nat, NEW size \in Nat
  PROVE  /\ done + r + l < done + size => r + l \in 0 .. size - 1
         /\ done + r + (l + 1) = done + r + l + 1
         /\ done + (r + 1) + (l - 1) = done + r + l
         /\ done + (r + l) = done + r + l
OBVIOUS

\* The row pushed is the next one of the image that is collected.
LEMMA PushStep ==
  ASSUME StreamInv, Push
  PROVE  StreamInv'
<1> DEFINE fifo == dataFifo[p1]
           new == RowOf(sent \div Rows, sent % Rows)
<1>1. /\ sent < (Current + 1) * Rows
      /\ dataFifo' = [dataFifo EXCEPT ![p1] = Append(@, new)]
      /\ sent' = sent + 1
      /\ UNCHANGED <<row, inputImg, startFifo, filter, scores, resultFifo, answers>>
  BY DEF Push, PushRow, Current
<1>2. /\ fifo \in Seq(Datum) /\ row[p1] \in 0 .. Rows /\ sent \in Nat
      /\ dataFifo \in [PE -> Seq(Datum)] /\ Current \in Nat /\ Rows \in Nat \ {0}
      /\ p1 \in PE
  BY OnePe, RowsAssumption DEF StreamInv, StreamTypes, Current
<1>3. Len(fifo) \in Nat
  BY <1>2
<1>4. Current * Rows \in Nat /\ (Current + 1) * Rows = Current * Rows + Rows
  BY <1>2
<1>5. Collecting /\ row[p1] + Len(fifo) \in 0 .. Rows - 1
  <2>1. Collecting
    BY <1>1, <1>2 DEF StreamInv, AllSent
  <2>2. sent = Current * Rows + row[p1] + Len(fifo)
    BY <2>1 DEF Collecting
  <2>3. row[p1] \in Nat
    BY <1>2
  <2>4. Current * Rows + row[p1] + Len(fifo) < Current * Rows + Rows
    BY <1>1, <1>4, <2>2, Zenon
  <2>5. row[p1] + Len(fifo) \in 0 .. Rows - 1
    BY <1>2, <1>3, <1>4, <2>3, <2>4, RowCount
  <2> QED
    BY <2>1, <2>5
<1>6. new = RowOf(Current, row[p1] + Len(fifo))
  <2>1. sent = Current * Rows + (row[p1] + Len(fifo))
    <3>1. sent = Current * Rows + row[p1] + Len(fifo) /\ row[p1] \in Nat
      BY <1>2, <1>5 DEF Collecting
    <3> QED
      BY <1>2, <1>3, <1>4, <3>1, RowCount
  <2> QED
    BY <1>2, <1>5, <2>1, GroupOf
<1>7. new \in Datum
  BY <1>2, <1>3, <1>6 DEF RowOf, Datum
<1> HIDE DEF new
<1>8. /\ dataFifo'[p1] = Append(fifo, new) /\ dataFifo' \in [PE -> Seq(Datum)]
      /\ Len(dataFifo'[p1]) = Len(fifo) + 1
  BY <1>1, <1>2, <1>7
<1>9. StreamTypes'
  BY <1>1, <1>2, <1>8 DEF StreamInv, StreamTypes
<1>10. Collecting'
  <2>1. ASSUME NEW j \in 1 .. Len(dataFifo'[p1])
        PROVE  dataFifo'[p1][j] = RowOf(Current, row[p1] + j - 1)
    <3>1. CASE j = Len(fifo) + 1
      <4>1. row[p1] + j - 1 = row[p1] + Len(fifo)
        BY <1>2, <1>3, <3>1
      <4> QED
        BY <1>2, <1>6, <1>7, <1>8, <3>1, <4>1
    <3>2. CASE j \in 1 .. Len(fifo)
      BY <1>2, <1>5, <1>7, <1>8, <3>2 DEF Collecting
    <3> QED
      BY <1>3, <1>8, <3>1, <3>2
  <2>2. sent' = Current * Rows + row[p1] + Len(dataFifo'[p1])
    <3>1. sent = Current * Rows + row[p1] + Len(fifo) /\ row[p1] \in Nat
      BY <1>2, <1>5 DEF Collecting
    <3>2. Current * Rows + row[p1] + (Len(fifo) + 1) = Current * Rows + row[p1] + Len(fifo) + 1
      BY <1>2, <1>3, <1>4, <3>1, RowCount
    <3> QED
      BY <1>1, <1>8, <3>1, <3>2
  <2> QED
    BY <1>1, <1>5, <2>1, <2>2 DEF Collecting, AtRest, Current
<1>11. sent' <= (Current' + 1) * Rows
  BY <1>1, <1>2, <1>4 DEF Current
<1> QED
  BY <1>1, <1>9, <1>10, <1>11 DEF StreamInv, AnswersMatchImages

\* The answer read is that of the current image, and the next one begins.
LEMMA AnswerStep ==
  ASSUME StreamInv, Read
  PROVE  StreamInv'
<1>1. /\ resultFifo[p1] # <<>>
      /\ resultFifo' = [resultFifo EXCEPT ![p1] = Tail(@)]
      /\ answers' = Append(answers, Head(resultFifo[p1]))
      /\ UNCHANGED <<dataFifo, row, inputImg, startFifo, filter, scores, sent>>
  BY DEF Read, PopResult
<1>2. AllSent /\ Answered
  BY <1>1 DEF StreamInv, Collecting, Started, Computed
<1>3. /\ Current \in Nat /\ Rows \in Nat \ {0} /\ p1 \in PE
      /\ resultFifo \in [PE -> Seq(Picture)]
      /\ answers \in Seq(Picture)
  BY OnePe, RowsAssumption DEF StreamInv, StreamTypes, Current
<1>4. Image(Current) \in Picture
  BY <1>3 DEF Image, RowOf, Datum, RowIndex, Picture
<1>5. Head(resultFifo[p1]) = Image(Current) /\ Tail(resultFifo[p1]) = <<>>
  BY <1>2 DEF Answered
<1>6. /\ answers' = Append(answers, Image(Current))
      /\ answers' \in Seq(Picture)
      /\ Len(answers') = Len(answers) + 1
  BY <1>1, <1>3, <1>4, <1>5
<1>7. resultFifo' \in [PE -> Seq(Picture)] /\ resultFifo'[p1] = <<>>
  BY <1>1, <1>3, <1>5
<1>8. StreamTypes'
  BY <1>1, <1>6, <1>7 DEF StreamInv, StreamTypes
<1>9. AnswersMatchImages'
  <2> SUFFICES ASSUME NEW k \in 1 .. Len(answers')
               PROVE  answers'[k] = Image(k - 1)
    BY DEF AnswersMatchImages, Image, RowOf
  <2>1. CASE k = Len(answers) + 1
    <3>1. k - 1 = Current
      BY <1>3, <2>1 DEF Current
    <3> QED
      BY <1>3, <1>4, <1>6, <2>1, <3>1
  <2>2. CASE k \in 1 .. Len(answers)
    BY <1>3, <1>4, <1>6, <2>2 DEF StreamInv, AnswersMatchImages
  <2> QED
    BY <1>3, <1>6, <2>1, <2>2 DEF Current
<1>10. /\ sent = (Current + 1) * Rows /\ dataFifo[p1] = <<>> /\ row[p1] = 0
       /\ Len(dataFifo[p1]) = 0 /\ Current' = Current + 1
  BY <1>2, <1>6 DEF AllSent, Current
<1>11. (Current + 1) * Rows \in Nat /\ (Current + 1 + 1) * Rows = (Current + 1) * Rows + Rows
  BY <1>3
<1>12. Collecting' /\ sent' <= (Current' + 1) * Rows
  BY <1>1, <1>2, <1>3, <1>7, <1>10, <1>11 DEF Collecting, Answered, AtRest, RowIndex
<1> QED
  BY <1>8, <1>9, <1>12 DEF StreamInv

\* write_buffer puts every row in its place, and starts a whole image.
LEMMA WriteBufferStep ==
  ASSUME StreamInv, WriteBuffer(p1), UNCHANGED hostVars
  PROVE  StreamInv'
<1> DEFINE fifo == dataFifo[p1]
<1>1. UNCHANGED <<sent, answers>> /\ Current' = Current
  BY DEF hostVars, Current
<1>2. /\ Current \in Nat /\ Rows \in Nat \ {0} /\ p1 \in PE /\ row[p1] \in 0 .. Rows
      /\ dataFifo \in [PE -> Seq(Datum)] /\ fifo \in Seq(Datum) /\ row \in [PE -> 0 .. Rows]
      /\ inputImg \in [PE -> Picture] /\ startFifo \in [PE -> Nat]
      /\ Current * Rows \in Nat
  BY OnePe, RowsAssumption DEF StreamInv, StreamTypes, Current
<1>3. Len(fifo) \in Nat
  BY <1>2
<1>4. CASE CollectRow(p1)
  <2>1. /\ row[p1] < Rows /\ fifo # <<>>
        /\ inputImg' = [inputImg EXCEPT ![p1][row[p1]] = Head(fifo)]
        /\ dataFifo' = [dataFifo EXCEPT ![p1] = Tail(@)]
        /\ row' = [row EXCEPT ![p1] = @ + 1]
        /\ UNCHANGED <<startFifo, filter, scores, resultFifo>>
    BY <1>4 DEF CollectRow
  <2>2. Collecting
    BY <2>1 DEF StreamInv, AllSent
  <2>3. Head(fifo) \in Datum /\ Tail(fifo) \in Seq(Datum) /\ Len(Tail(fifo)) = Len(fifo) - 1
        /\ Len(fifo) >= 1 /\ Head(fifo) = fifo[1]
        /\ \A j \in 1 .. Len(Tail(fifo)) : Tail(fifo)[j] = fifo[j + 1]
    BY <1>2, <2>1
  <2>4. row[p1] \in RowIndex /\ row[p1] + 1 \in 0 .. Rows
    BY <1>2, <2>1 DEF RowIndex
  <2>5. /\ dataFifo' \in [PE -> Seq(Datum)] /\ dataFifo'[p1] = Tail(fifo)
        /\ row' \in [PE -> 0 .. Rows] /\ row'[p1] = row[p1] + 1
    BY <1>2, <2>1, <2>3, <2>4
  <2>6. /\ inputImg' \in [PE -> Picture]
        /\ inputImg'[p1][row[p1]] = Head(fifo)
        /\ \A i \in RowIndex : i # row[p1] => inputImg'[p1][i] = inputImg[p1][i]
    BY <1>2, <2>1, <2>3, <2>4 DEF Picture
  <2>7. StreamTypes'
    BY <1>1, <2>1, <2>5, <2>6 DEF StreamInv, StreamTypes
  <2>8. Head(fifo) = RowOf(Current, row[p1])
    <3>1. 1 \in 1 .. Len(fifo) /\ row[p1] + 1 - 1 = row[p1]
      BY <1>2, <1>3, <2>3
    <3> QED
      BY <2>2, <2>3, <3>1 DEF Collecting
  <2>9. ASSUME NEW i \in RowIndex, i < row'[p1]
        PROVE  inputImg'[p1][i] = RowOf(Current, i)
    <3>1. CASE i = row[p1]
      BY <2>6, <2>8, <3>1
    <3>2. CASE i < row[p1]
      <4>1. i # row[p1]
        BY <1>2, <3>2 DEF RowIndex
      <4> QED
        BY <2>2, <2>6, <3>2, <4>1 DEF Collecting
    <3> QED
      BY <1>2, <2>5, <2>9, <3>1, <3>2 DEF RowIndex
  <2>10. ASSUME NEW j \in 1 .. Len(dataFifo'[p1])
         PROVE  dataFifo'[p1][j] = RowOf(Current, row'[p1] + j - 1)
    <3>1. j + 1 \in 1 .. Len(fifo)
      BY <1>3, <2>3, <2>5
    <3>2. row'[p1] + j - 1 = row[p1] + (j + 1) - 1
      BY <1>2, <2>5
    <3> QED
      BY <2>2, <2>3, <2>5, <3>1, <3>2 DEF Collecting
  <2>11. sent' = Current * Rows + row'[p1] + Len(dataFifo'[p1])
    <3>1. sent = Current * Rows + row[p1] + Len(fifo) /\ row[p1] \in Nat
      BY <1>2, <2>2 DEF Collecting
    <3>2. row'[p1] = row[p1] + 1 /\ Len(dataFifo'[p1]) = Len(fifo) - 1
      BY <2>3, <2>5
    <3>3. Current * Rows + (row[p1] + 1) + (Len(fifo) - 1) = Current * Rows + row[p1] + Len(fifo)
      BY <1>2, <1>3, <3>1, RowCount
    <3> QED
      BY <1>1, <3>1, <3>2, <3>3
  <2>12. Collecting'
    BY <1>1, <2>1, <2>2, <2>9, <2>10, <2>11 DEF Collecting, AtRest
  <2> QED
    BY <1>1, <2>7, <2>12 DEF StreamInv, AnswersMatchImages, Image
<1>5. CASE StartCompute(p1)
  <2>1. /\ row[p1] = Rows
        /\ startFifo' = [startFifo EXCEPT ![p1] = @ + 1]
        /\ row' = [row EXCEPT ![p1] = 0]
        /\ UNCHANGED <<dataFifo, inputImg, filter, scores, resultFifo>>
    BY <1>5 DEF StartCompute
  <2>2. Collecting
    BY <1>2, <2>1 DEF StreamInv, AllSent
  <2>3. /\ sent = (Current + 1) * Rows /\ Len(fifo) = 0
    <3>1. sent = Current * Rows + Rows + Len(fifo) /\ sent <= (Current + 1) * Rows
      BY <2>1, <2>2 DEF Collecting, StreamInv
    <3>2. (Current + 1) * Rows = Current * Rows + Rows
      BY <1>2
    <3>3. Current * Rows + Rows + Len(fifo) <= Current * Rows + Rows
      BY <3>1, <3>2
    <3>4. Len(fifo) = 0 /\ Current * Rows + Rows + 0 = Current * Rows + Rows
      BY <1>2, <1>3, <3>3
    <3> QED
      BY <3>1, <3>2, <3>4
  <2>4. fifo = <<>>
    BY <1>2, <2>3
  <2>5. inputImg[p1] = Image(Current)
    <3>1. \A i \in RowIndex : inputImg[p1][i] = RowOf(Current, i)
      BY <1>2, <2>1, <2>2 DEF Collecting, RowIndex
    <3> QED
      BY <1>2, <3>1 DEF Image, Picture
  <2>6. /\ startFifo' \in [PE -> Nat] /\ startFifo'[p1] = 1
        /\ row' \in [PE -> 0 .. Rows] /\ row'[p1] = 0
    BY <1>2, <2>1, <2>2 DEF Collecting
  <2>7. StreamTypes'
    BY <1>1, <2>1, <2>6 DEF StreamInv, StreamTypes
  <2>8. AllSent' /\ Started'
    BY <1>1, <2>1, <2>2, <2>3, <2>4, <2>5, <2>6
    DEF AllSent, Started, Collecting, AtRest, Image, RowOf
  <2> QED
    BY <1>1, <2>7, <2>8 DEF StreamInv, AnswersMatchImages, Image
<1> QED
  BY <1>4, <1>5 DEF WriteBuffer

\* do_filter computes while input_img holds the whole image.
LEMMA FilterStep ==
  ASSUME StreamInv, DoFilter(p1), UNCHANGED hostVars
  PROVE  StreamInv'
<1>1. /\ UNCHANGED <<sent, answers, dataFifo, row, inputImg>> /\ Current' = Current
  BY DEF DoFilter, ReadStart, Compute, WriteResult, LatencyOver, hostVars, Current
<1>2. /\ p1 \in PE
      /\ startFifo \in [PE -> Nat] /\ filter \in [PE -> {"idle", "compute", "result", "latency"}]
      /\ inputImg \in [PE -> Picture]
      /\ scores \in [PE -> Picture]
      /\ resultFifo \in [PE -> Seq(Picture)]
  BY OnePe DEF StreamInv, StreamTypes
<1>3. CASE ReadStart(p1)
  <2>1. /\ filter[p1] = "idle" /\ startFifo[p1] > 0
        /\ startFifo' = [startFifo EXCEPT ![p1] = @ - 1]
        /\ filter' = [filter EXCEPT ![p1] = "compute"]
        /\ UNCHANGED <<scores, resultFifo>>
    BY <1>3 DEF ReadStart
  <2>2. AllSent /\ Started /\ startFifo[p1] = 1
    BY <2>1 DEF StreamInv, Collecting, Started, Computed, Answered
  <2>3. /\ startFifo' \in [PE -> Nat] /\ startFifo'[p1] = 0
        /\ filter' \in [PE -> {"idle", "compute", "result", "latency"}]
        /\ filter'[p1] = "compute"
    BY <1>2, <2>1, <2>2
  <2> QED
    BY <1>1, <2>1, <2>2, <2>3
    DEF StreamInv, StreamTypes, AnswersMatchImages, Image, RowOf, AllSent, Started
<1>4. CASE Compute(p1)
  <2>1. /\ filter[p1] = "compute"
        /\ scores' = [scores EXCEPT ![p1] = inputImg[p1]]
        /\ filter' = [filter EXCEPT ![p1] = "result"]
        /\ UNCHANGED <<startFifo, resultFifo>>
    BY <1>4 DEF Compute
  <2>2. AllSent /\ Started /\ startFifo[p1] = 0
    BY <2>1 DEF StreamInv, Collecting, Started, Computed, Answered, AtRest
  <2>3. inputImg[p1] \in Picture
    BY <1>2
  <2>4. scores' \in [PE -> Picture] /\ scores'[p1] = inputImg[p1]
    BY <1>2, <2>1, <2>3
  <2>5. /\ filter' \in [PE -> {"idle", "compute", "result", "latency"}]
        /\ filter'[p1] = "result"
    BY <1>2, <2>1
  <2> QED
    BY <1>1, <2>1, <2>2, <2>4, <2>5
    DEF StreamInv, StreamTypes, AnswersMatchImages, Image, RowOf, AllSent, Started, Computed
<1>5. CASE WriteResult(p1)
  <2>1. /\ filter[p1] = "result"
        /\ resultFifo' = [resultFifo EXCEPT ![p1] = Append(@, scores[p1])]
        /\ filter' = [filter EXCEPT ![p1] = "latency"]
        /\ UNCHANGED <<startFifo, scores>>
    BY <1>5 DEF WriteResult
  <2>2. AllSent /\ Computed
    BY <2>1 DEF StreamInv, Collecting, Started, Computed, Answered, AtRest
  <2>3. scores[p1] \in Picture /\ scores[p1] = Image(Current)
    BY <1>2, <2>2 DEF Computed
  <2>4. Append(resultFifo[p1], scores[p1]) \in Seq(Picture)
        /\ Append(resultFifo[p1], scores[p1]) = <<Image(Current)>>
    BY <1>2, <2>2, <2>3 DEF Computed
  <2>5. /\ resultFifo' \in [PE -> Seq(Picture)]
        /\ resultFifo'[p1] = <<Image(Current)>>
        /\ filter' \in [PE -> {"idle", "compute", "result", "latency"}]
        /\ filter'[p1] = "latency"
    BY <1>2, <2>1, <2>4
  <2> QED
    BY <1>1, <2>1, <2>2, <2>5
    DEF StreamInv, StreamTypes, AnswersMatchImages, Image, RowOf, AllSent, Computed, Answered,
        AtRest
<1>6. CASE LatencyOver(p1)
  <2>1. /\ filter[p1] = "latency" /\ filter' = [filter EXCEPT ![p1] = "idle"]
        /\ UNCHANGED <<startFifo, scores, resultFifo>>
    BY <1>6 DEF LatencyOver
  <2>2. /\ filter' \in [PE -> {"idle", "compute", "result", "latency"}]
        /\ filter'[p1] = "idle" /\ AtRest /\ AtRest'
    BY <1>2, <2>1 DEF AtRest
  <2>3. StreamTypes' /\ AnswersMatchImages' /\ sent' <= (Current' + 1) * Rows
    BY <1>1, <2>1, <2>2 DEF StreamInv, StreamTypes, AnswersMatchImages, Image
  <2>4. CASE Collecting
    BY <1>1, <2>1, <2>2, <2>3, <2>4 DEF StreamInv, Collecting, RowOf
  <2>5. CASE AllSent /\ (Started \/ Computed \/ Answered)
    BY <1>1, <2>1, <2>2, <2>3, <2>5
    DEF StreamInv, AllSent, Started, Computed, Answered, AtRest, Image, RowOf
  <2> QED
    BY <2>4, <2>5 DEF StreamInv
<1> QED
  BY <1>3, <1>4, <1>5, <1>6 DEF DoFilter

\* The invariant is inductive.
LEMMA StreamInvariant == StreamSpec => []StreamInv
<1>1. StreamInv /\ [StreamNext]_streamVars => StreamInv'
  <2> SUFFICES ASSUME StreamInv, [StreamNext]_streamVars
               PROVE  StreamInv'
    OBVIOUS
  <2>1. CASE UNCHANGED streamVars
    BY <2>1
    DEF streamVars, peVars, hostVars, StreamInv, StreamTypes, AnswersMatchImages, Image, RowOf,
        Current, Collecting, AllSent, Started, Computed, Answered, AtRest
  <2> QED
    BY <2>1, PushStep, AnswerStep, WriteBufferStep, FilterStep
    DEF StreamNext, Threads, Finished
<1> QED
  BY <1>1, InitStream, PTL DEF StreamSpec

\* For any number of rows and images and FIFOs of any depth: see
\* AnswersMatchImages.
THEOREM AnswersMatchImagesHolds == StreamSpec => []AnswersMatchImages
<1>1. StreamInv => AnswersMatchImages
  BY DEF StreamInv
<1> QED
  BY <1>1, StreamInvariant, PTL

-----------------------------------------------------------------------------
(* The frames an ethernet driver gets                                      *)

\* What RECV_OPERATION puts into memory: a frame and its size.
Slots == {[frame |-> f, size |-> f.size] : f \in Frames}

\* How many of the frames that arrived the thread has read.
read == Len(arrived) - Len(tap)

\* How many of those were for us.
oursRead == Cardinality({i \in Ours : i <= read})

\* The k-th frame for us is f, and its size is z.
IsFrame(k, f, z) == \E j \in Ours : Place(j) = k /\ f = arrived[j] /\ z = arrived[j].size

\* What the host still holds is what arrived last.
TapInv ==
  /\ arrived \in Seq(Frames) /\ tap \in Seq(Frames)
  /\ Len(tap) <= Len(arrived)
  /\ \A k \in 1 .. Len(tap) : tap[k] = arrived[read + k]

\* Of the frames for us among those read, all are delivered but the one that
\* waits, and one waits exactly as long as the driver has an interrupt to claim
\* or an operation to issue.
FrameInv ==
  /\ delivered \in Seq(Slots)
  /\ hasFrame \in BOOLEAN
  /\ oursRead = Len(delivered) + (IF hasFrame THEN 1 ELSE 0)
  /\ \A k \in 1 .. Len(delivered) : IsFrame(k, delivered[k].frame, delivered[k].size)
  /\ hasFrame => IsFrame(Len(delivered) + 1, recvBuf, receiveSize)
  /\ nic = "up" => /\ hasFrame <=> ethIrq \/ driver = "recv"
                   /\ ~(ethIrq /\ driver = "recv")

EthInv == TapInv /\ (~born => FrameInv)

-----------------------------------------------------------------------------

\* The frames for us are among those that arrived.
LEMMA OursArrived ==
  ASSUME TapInv
  PROVE  Ours \subseteq 1 .. Len(arrived) /\ \A i \in Ours : i \in Nat
BY DEF TapInv, Ours

\* Those up to j are finitely many.
LEMMA PlaceType ==
  ASSUME TapInv, NEW j
  PROVE  IsFiniteSet({i \in Ours : i <= j}) /\ Place(j) \in Nat
<1>1. Len(arrived) \in Nat /\ Ours \subseteq 1 .. Len(arrived)
  BY DEF TapInv, Ours
<1>2. IsFiniteSet(1 .. Len(arrived))
  BY <1>1, FS_Interval
<1>3. {i \in Ours : i <= j} \subseteq 1 .. Len(arrived)
  BY <1>1
<1>4. IsFiniteSet({i \in Ours : i <= j})
  BY <1>2, <1>3, FS_Subset
<1> QED
  BY <1>1, <1>4, FS_CardinalityType DEF Place

LEMMA InitEth == EthInit => EthInv
<1> SUFFICES ASSUME EthInit
             PROVE  EthInv
  OBVIOUS
<1>1. /\ tap = <<>> /\ arrived = <<>> /\ delivered = <<>> /\ hasFrame = born
      /\ ethIrq = FALSE /\ driver = "idle" /\ born \in BOOLEAN
  BY DEF EthInit
<1>2. TapInv /\ read = 0
  BY <1>1 DEF TapInv, read
<1>3. oursRead = 0
  <2>1. {i \in Ours : i <= read} = {}
    BY <1>1 DEF Ours
  <2> QED
    BY <2>1, FS_EmptySet DEF oursRead
<1>4. ~born => FrameInv
  BY <1>1, <1>3 DEF FrameInv
<1> QED
  BY <1>2, <1>4 DEF EthInv

\* A frame that arrives changes nothing about those before it.
LEMMA ArriveStep ==
  ASSUME EthInv, NEW f \in Frames, FrameArrives(f)
  PROVE  EthInv'
<1>1. /\ tap' = Append(tap, f) /\ arrived' = Append(arrived, f)
      /\ UNCHANGED <<nic, born, hasFrame, recvBuf, receiveSize, ethIrq, driver, delivered>>
  BY DEF FrameArrives
<1>2. /\ TapInv /\ Len(tap) \in Nat /\ Len(arrived) \in Nat /\ read \in 0 .. Len(arrived)
  BY DEF EthInv, TapInv, read
<1>3. /\ tap' \in Seq(Frames) /\ arrived' \in Seq(Frames)
      /\ Len(tap') = Len(tap) + 1 /\ Len(arrived') = Len(arrived) + 1
      /\ \A k \in 1 .. Len(arrived) : arrived'[k] = arrived[k]
      /\ \A k \in 1 .. Len(tap) : tap'[k] = tap[k]
      /\ tap'[Len(tap) + 1] = f /\ arrived'[Len(arrived) + 1] = f
  BY <1>1, <1>2 DEF TapInv
<1>4. read' = read
  BY <1>2, <1>3 DEF read
<1>5. TapInv'
  <2>1. ASSUME NEW k \in 1 .. Len(tap')
        PROVE  tap'[k] = arrived'[read + k]
    <3>1. CASE k = Len(tap) + 1
      <4>1. read + k = Len(arrived) + 1
        BY <1>2, <3>1 DEF read
      <4> QED
        BY <1>3, <3>1, <4>1
    <3>2. CASE k \in 1 .. Len(tap)
      <4>1. read + k \in 1 .. Len(arrived)
        BY <1>2, <3>2 DEF read
      <4> QED
        BY <1>2, <1>3, <3>2, <4>1 DEF TapInv
    <3> QED
      BY <1>2, <1>3, <3>1, <3>2
  <2> QED
    BY <1>2, <1>3, <1>4, <2>1 DEF TapInv
<1>6. \A j \in 1 .. Len(arrived) : j \in Ours' <=> j \in Ours
  BY <1>2, <1>3 DEF TapInv, Ours, IsPacketForUs
<1>7. \A j \in 0 .. Len(arrived) : {i \in Ours' : i <= j} = {i \in Ours : i <= j}
  <2> SUFFICES ASSUME NEW j \in 0 .. Len(arrived)
               PROVE  {i \in Ours' : i <= j} = {i \in Ours : i <= j}
    OBVIOUS
  <2>1. Ours \subseteq 1 .. Len(arrived) /\ Ours' \subseteq 1 .. Len(arrived) + 1
    BY <1>2, <1>3 DEF TapInv, Ours
  <2>2. ASSUME NEW i \in 1 .. Len(arrived) + 1, i <= j
        PROVE  i \in Ours' <=> i \in Ours
    <3>1. i \in 1 .. Len(arrived)
      BY <1>2, <2>2
    <3> QED
      BY <1>6, <3>1
  <2>3. \A i \in Ours : i \in 1 .. Len(arrived) + 1
    BY <1>2, <2>1
  <2> QED
    BY <2>1, <2>2, <2>3
<1>8. \A k, g, z : IsFrame(k, g, z) => IsFrame(k, g, z)'
  <2> SUFFICES ASSUME NEW k, NEW g, NEW z, NEW j \in Ours,
                      Place(j) = k, g = arrived[j], z = arrived[j].size
               PROVE  \E i \in Ours' : Place(i)' = k /\ g = arrived'[i] /\ z = arrived'[i].size
    BY DEF IsFrame
  <2>1. j \in 1 .. Len(arrived) /\ j \in 0 .. Len(arrived)
    BY <1>2, OursArrived
  <2> QED
    BY <1>3, <1>6, <1>7, <2>1 DEF Place
<1>9. oursRead' = oursRead
  BY <1>2, <1>4, <1>7 DEF oursRead
<1>10. ~born => FrameInv'
  BY <1>1, <1>2, <1>8, <1>9 DEF EthInv, FrameInv
<1> QED
  BY <1>1, <1>5, <1>10 DEF EthInv

\* The thread reads up to the first frame that is for us, and no further.
LEMMA PollStep ==
  ASSUME EthInv, Poll
  PROVE  EthInv'
<1> DEFINE ours == {k \in DOMAIN tap : IsPacketForUs(tap[k])}
           taken == IF ours = {} THEN Len(tap) ELSE Min(ours)
<1>1. /\ nic = "up" /\ ~hasFrame /\ tap # <<>>
      /\ recvBuf' = tap[taken] /\ tap' = SubSeq(tap, taken + 1, Len(tap))
      /\ hasFrame' = (ours # {})
      /\ receiveSize' = IF ours = {} THEN receiveSize ELSE tap[taken].size
      /\ ethIrq' = (ethIrq \/ ours # {})
      /\ UNCHANGED <<nic, born, arrived, driver, delivered>>
  BY DEF Poll
<1>2. /\ TapInv /\ Len(tap) \in Nat /\ Len(arrived) \in Nat /\ read \in 0 .. Len(arrived)
      /\ read + Len(tap) = Len(arrived) /\ ours \subseteq 1 .. Len(tap) /\ Len(tap) > 0
  BY <1>1 DEF EthInv, TapInv, read
<1>3. ours # {} => taken \in ours /\ \A k \in ours : taken <= k
  <2>1. ours \subseteq Nat
    BY <1>2
  <2>2. ours # {} => \E x \in ours : \A y \in ours : x <= y
    BY <2>1, LeastExists
  <2> HIDE DEF ours
  <2> QED
    BY <2>2 DEF Min
<1>4. taken \in 1 .. Len(tap)
  BY <1>2, <1>3
<1>5. \A k \in 1 .. Len(tap) : read + k \in Ours <=> k \in ours
  <2> SUFFICES ASSUME NEW k \in 1 .. Len(tap)
               PROVE  read + k \in Ours <=> k \in ours
    OBVIOUS
  <2>1. read + k \in 1 .. Len(arrived) /\ tap[k] = arrived[read + k]
    BY <1>2 DEF TapInv
  <2> QED
    BY <1>2, <2>1 DEF TapInv, Ours
<1> HIDE DEF ours, taken
<1>6. \A k \in 1 .. taken - 1 : k \notin ours
  BY <1>2, <1>3, <1>4
<1>7. /\ tap' \in Seq(Frames) /\ Len(tap') = Len(tap) - taken
      /\ \A k \in 1 .. Len(tap') : tap'[k] = tap[taken + k]
  BY <1>1, <1>2, <1>4, SubSeqProperties DEF TapInv
<1>8. read' = read + taken
  <2>1. arrived' = arrived /\ Len(tap') \in Nat
    BY <1>1, <1>7
  <2> QED
    BY <1>2, <1>4, <1>7, <2>1 DEF read
<1>9. TapInv'
  <2>1. ASSUME NEW k \in 1 .. Len(tap')
        PROVE  tap'[k] = arrived[read' + k]
    <3>1. taken + k \in 1 .. Len(tap) /\ read + (taken + k) = read' + k
      BY <1>2, <1>4, <1>7, <1>8
    <3> QED
      BY <1>2, <1>7, <3>1 DEF TapInv
  <2> QED
    BY <1>1, <1>2, <1>4, <1>7, <2>1 DEF TapInv
<1>10. /\ Ours' = Ours /\ \A j : Place(j)' = Place(j)
       /\ \A k, g, z : IsFrame(k, g, z)' <=> IsFrame(k, g, z)
  BY <1>1 DEF Ours, Place, IsFrame, IsPacketForUs
<1>11. ASSUME NEW i \in Ours, i > read, i <= read + taken
       PROVE  i = read + taken /\ ours # {}
  <2>1. i \in Nat /\ i - read \in 1 .. taken
    BY <1>2, <1>4, <1>11, OursArrived
  <2>2. i - read \in 1 .. Len(tap) /\ read + (i - read) = i
    BY <1>2, <1>4, <2>1
  <2>3. i - read \in ours
    BY <1>5, <2>2
  <2>4. i - read = taken
    BY <1>4, <1>6, <2>1, <2>3
  <2> QED
    BY <1>2, <2>1, <2>3, <2>4
<1>12. CASE ours = {}
  <2>1. {i \in Ours : i <= read + taken} = {i \in Ours : i <= read}
    <3>1. \A i \in Ours : i \in Nat
      BY <1>2, OursArrived
    <3> QED
      BY <1>2, <1>4, <1>11, <1>12, <3>1
  <2>2. oursRead' = oursRead
    BY <1>8, <1>10, <2>1 DEF oursRead
  <2> QED
    BY <1>1, <1>9, <1>10, <1>12, <2>2 DEF EthInv, FrameInv
<1>13. CASE ours # {}
  <2> DEFINE j == read + taken
             early == {i \in Ours : i <= read}
  <2>1. j \in Ours /\ j \in Nat /\ arrived[j] = tap[taken]
    BY <1>2, <1>3, <1>4, <1>5, <1>13 DEF TapInv
  <2>2. j \notin early /\ {i \in Ours : i <= j} = early \cup {j}
    <3>1. \A i \in Ours : i \in Nat
      BY <1>2, OursArrived
    <3> QED
      BY <1>2, <1>4, <1>11, <2>1, <3>1
  <2>3. IsFiniteSet(early)
    BY <1>2, PlaceType
  <2>4. Place(j) = oursRead + 1
    <3> HIDE DEF j, early
    <3>1. Cardinality(early \cup {j}) = Cardinality(early) + 1
      BY <2>2, <2>3, FS_AddElement
    <3> QED
      BY <2>2, <3>1 DEF Place, oursRead, early
  <2>5. ~born => Place(j) = Len(delivered) + 1
    BY <1>1, <2>4 DEF EthInv, FrameInv
  <2>6. oursRead' = Place(j)
    BY <1>8, <1>10 DEF oursRead, Place
  <2>7. recvBuf' = arrived[j] /\ receiveSize' = arrived[j].size
    BY <1>1, <1>13, <2>1
  <2>8. ~born => IsFrame(Len(delivered) + 1, recvBuf', receiveSize')
    BY <2>1, <2>5, <2>7 DEF IsFrame
  <2> HIDE DEF j, early
  <2> QED
    BY <1>1, <1>9, <1>10, <1>13, <2>5, <2>6, <2>8 DEF EthInv, FrameInv
<1> QED
  BY <1>12, <1>13

\* The driver gets the frame that waits, and only then may the next one come.
LEMMA ReceiveStep ==
  ASSUME EthInv, Receive
  PROVE  EthInv'
<1>1. /\ driver = "recv" /\ nic = "up" /\ driver' = "idle"
      /\ UNCHANGED <<born, tap, arrived, recvBuf, ethIrq>>
  BY DEF Receive
<1>2. /\ Ours' = Ours /\ read' = read /\ \A j : Place(j)' = Place(j)
      /\ \A k, g, z : IsFrame(k, g, z)' <=> IsFrame(k, g, z)
  BY <1>1 DEF Ours, Place, IsFrame, IsPacketForUs, read
<1>3. oursRead' = oursRead
  BY <1>2 DEF oursRead
<1>4. TapInv'
  BY <1>1, <1>2 DEF EthInv, TapInv
<1>5. ASSUME ~born
      PROVE  FrameInv'
  <2>1. FrameInv /\ hasFrame
    BY <1>1, <1>5 DEF EthInv, FrameInv
  <2> DEFINE slot == [frame |-> recvBuf, size |-> receiveSize]
  <2>2. /\ delivered' = Append(delivered, slot)
        /\ hasFrame' = FALSE /\ nic' = nic
    BY <2>1 DEF Receive
  <2>3. IsFrame(Len(delivered) + 1, recvBuf, receiveSize)
    BY <2>1 DEF FrameInv
  <2>4. slot \in Slots
    <3>1. PICK j \in Ours : recvBuf = arrived[j] /\ receiveSize = arrived[j].size
      BY <2>3 DEF IsFrame
    <3>2. arrived[j] \in Frames
      BY DEF EthInv, TapInv, Ours
    <3> QED
      BY <3>1, <3>2 DEF Slots
  <2>5. slot.frame = recvBuf /\ slot.size = receiveSize
    OBVIOUS
  <2> HIDE DEF slot
  <2>6. /\ delivered \in Seq(Slots) /\ delivered' \in Seq(Slots) /\ Len(delivered) \in Nat
        /\ Len(delivered') = Len(delivered) + 1 /\ delivered'[Len(delivered) + 1] = slot
        /\ \A k \in 1 .. Len(delivered) : delivered'[k] = delivered[k]
    BY <2>1, <2>2, <2>4 DEF FrameInv
  <2>7. \A k \in 1 .. Len(delivered') : IsFrame(k, delivered'[k].frame, delivered'[k].size)
    <3> SUFFICES ASSUME NEW k \in 1 .. Len(delivered')
                 PROVE  IsFrame(k, delivered'[k].frame, delivered'[k].size)
      OBVIOUS
    <3>1. k = Len(delivered) + 1 \/ k \in 1 .. Len(delivered)
      BY <2>6
    <3> QED
      BY <2>1, <2>3, <2>5, <2>6, <3>1 DEF FrameInv
  <2>8. oursRead = Len(delivered')
    BY <2>1, <2>6 DEF FrameInv
  <2>9. \A k \in 1 .. Len(delivered') :
          \E j \in Ours' : /\ Place(j)' = k
                          /\ delivered'[k].frame = arrived'[j]
                          /\ delivered'[k].size = arrived'[j].size
    BY <1>1, <1>2, <2>7 DEF IsFrame
  <2>10. nic' = "up" => (hasFrame' <=> ethIrq' \/ driver' = "recv") /\ ~(ethIrq' /\ driver' = "recv")
    BY <1>1, <2>1, <2>2 DEF FrameInv
  <2>11. oursRead' = Len(delivered') + (IF hasFrame' THEN 1 ELSE 0)
    BY <1>3, <2>2, <2>6, <2>8
  <2> QED
    BY <2>2, <2>6, <2>9, <2>10, <2>11 DEF FrameInv, IsFrame
<1> QED
  BY <1>1, <1>4, <1>5 DEF EthInv

LEMMA EthInvariant == EthSpec => []EthInv
<1>1. EthInv /\ [EthNext]_ethVars => EthInv'
  <2> SUFFICES ASSUME EthInv, [EthNext]_ethVars
               PROVE  EthInv'
    OBVIOUS
  <2> DEFINE Quiet == /\ UNCHANGED <<born, tap, arrived, hasFrame, recvBuf, receiveSize,
                                     delivered>>
                      /\ nic' = nic \/ nic' # "up"
                      /\ \/ UNCHANGED <<ethIrq, driver>>
                         \/ ethIrq /\ driver = "idle" /\ ethIrq' = FALSE /\ driver' = "recv"
  <2>1. ASSUME Quiet
        PROVE  EthInv'
    <3>1. /\ Ours' = Ours /\ read' = read /\ \A j : Place(j)' = Place(j)
          /\ \A k, g, z : IsFrame(k, g, z)' <=> IsFrame(k, g, z)
      BY <2>1 DEF Ours, Place, IsFrame, IsPacketForUs, read
    <3>2. oursRead' = oursRead
      BY <3>1 DEF oursRead
    <3> QED
      BY <2>1, <3>1, <3>2 DEF EthInv, TapInv, FrameInv
  <2>2. CASE ClaimFrame
    BY <2>1, <2>2 DEF ClaimFrame
  <2>3. ASSUME NEW s, NEW o, NEW x, Send(s, o, x)
        PROVE  Quiet
    BY <2>3 DEF Send
  <2>4. CASE TouchDisabled \/ Unsupported \/ ReadFails
    BY <2>1, <2>4 DEF TouchDisabled, Unsupported, ReadFails
  <2>5. CASE UNCHANGED ethVars
    BY <2>1, <2>5 DEF ethVars
  <2> HIDE DEF Quiet
  <2> QED
    BY <2>1, <2>2, <2>3, <2>4, <2>5, ArriveStep, PollStep, ReceiveStep DEF EthNext, EthDriver
<1> QED
  BY <1>1, InitEth, PTL DEF EthSpec

\* For any frames and any number of them: see EthInOrder.
THEOREM EthInOrderHolds == EthSpec => []EthInOrder
<1>1. EthInv => EthInOrder
  <2> SUFFICES ASSUME EthInv, ~born
               PROVE  /\ \A k \in DOMAIN delivered : \E j \in Ours :
                           Place(j) = k /\ delivered[k] = [frame |-> arrived[j], size |-> arrived[j].size]
                      /\ driver = "recv" /\ nic = "up" => hasFrame
    BY DEF EthInOrder
  <2>1. FrameInv
    BY DEF EthInv
  <2>2. ASSUME NEW k \in DOMAIN delivered
        PROVE  \E j \in Ours :
                 Place(j) = k /\ delivered[k] = [frame |-> arrived[j], size |-> arrived[j].size]
    <3>1. k \in 1 .. Len(delivered) /\ delivered[k] \in Slots
      BY <2>1 DEF FrameInv
    <3>2. delivered[k] = [frame |-> delivered[k].frame, size |-> delivered[k].size]
      BY <3>1 DEF Slots
    <3>3. IsFrame(k, delivered[k].frame, delivered[k].size)
      BY <2>1, <3>1 DEF FrameInv
    <3> QED
      BY <3>2, <3>3 DEF IsFrame
  <2> QED
    BY <2>1, <2>2 DEF FrameInv
<1> QED
  BY <1>1, EthInvariant, PTL

-----------------------------------------------------------------------------
(* The pixels of a line                                                    *)

\* The error after s steps to the right and k up or down.
ErrorAt(dx, dy, s, k) == dx - 2 * (dy * s) + 2 * (dx * k)
Within(dx, e) == 0 <= e /\ e < 2 * dx

\* g is what the loop computes.
Follows(f, t, g) ==
  LET dx == t[1] - f[1]
      dy == Magnitude(t[2] - f[2])
      ystep == IF f[2] < t[2] THEN 1 ELSE -1
  IN  g = [x \in f[1] .. t[1] |->
             IF x = f[1] THEN [y |-> f[2], error |-> dx]
             ELSE LET e == g[x - 1].error - 2 * dy
                  IN  IF e < 0 THEN [y |-> g[x - 1].y + ystep, error |-> e + 2 * dx]
                      ELSE [y |-> g[x - 1].y, error |-> e]]

LEMMA TrackIs ==
  ASSUME NEW f, NEW t
  PROVE  Track(f, t) = CHOOSE g : Follows(f, t, g)
BY DEF Track, Follows

\* One step of the loop keeps the error within its bounds.
LEMMA ErrorStep ==
  ASSUME NEW dx \in Nat \ {0}, NEW dy \in 0 .. dx, NEW s \in Nat, NEW k \in Nat,
         Within(dx, ErrorAt(dx, dy, s, k))
  PROVE  LET e == ErrorAt(dx, dy, s, k) - 2 * dy
         IN  IF e < 0 THEN ErrorAt(dx, dy, s + 1, k + 1) = e + 2 * dx
                           /\ Within(dx, ErrorAt(dx, dy, s + 1, k + 1))
             ELSE ErrorAt(dx, dy, s + 1, k) = e /\ Within(dx, ErrorAt(dx, dy, s + 1, k))
<1> DEFINE p == dy * s
           q == dx * k
<1>1. /\ dy * (s + 1) = p + dy /\ dx * (k + 1) = q + dx
      /\ p \in Int /\ q \in Int /\ dy \in Int
  OBVIOUS
<1>2. /\ ErrorAt(dx, dy, s, k) = dx - 2 * p + 2 * q
      /\ ErrorAt(dx, dy, s + 1, k) = dx - 2 * (p + dy) + 2 * q
      /\ ErrorAt(dx, dy, s + 1, k + 1) = dx - 2 * (p + dy) + 2 * (q + dx)
  BY <1>1 DEF ErrorAt
<1> HIDE DEF p, q
<1> QED
  BY <1>1, <1>2 DEF Within

\* The bounds determine the number of steps up or down.
LEMMA StepsUnique ==
  ASSUME NEW dx \in Nat \ {0}, NEW dy \in 0 .. dx, NEW s \in Nat, NEW k \in Nat, NEW l \in Nat,
         Within(dx, ErrorAt(dx, dy, s, k)), Within(dx, ErrorAt(dx, dy, s, l))
  PROVE  k = l
<1> DEFINE p == dy * s
           q == dx * k
           r == dx * l
<1>1. p \in Int /\ q \in Int /\ r \in Int
  OBVIOUS
<1>2. k >= l + 1 => q >= r + dx
  OBVIOUS
<1>3. l >= k + 1 => r >= q + dx
  OBVIOUS
<1>4. Within(dx, dx - 2 * p + 2 * q) /\ Within(dx, dx - 2 * p + 2 * r)
  BY DEF ErrorAt
<1> HIDE DEF p, q, r
<1> QED
  BY <1>1, <1>2, <1>3, <1>4 DEF Within

LEMMA StepsExist ==
  ASSUME NEW dx \in Nat \ {0}, NEW dy \in 0 .. dx
  PROVE  \A s \in Nat : \E k \in Nat : Within(dx, ErrorAt(dx, dy, s, k))
<1> DEFINE Q == {s \in Nat : \E k \in Nat : Within(dx, ErrorAt(dx, dy, s, k))}
<1>1. 0 \in Q
  <2>1. ErrorAt(dx, dy, 0, 0) = dx
    BY DEF ErrorAt
  <2> QED
    BY <2>1 DEF Within
<1>2. ASSUME NEW s \in Q
      PROVE  s + 1 \in Q
  <2>1. PICK k \in Nat : Within(dx, ErrorAt(dx, dy, s, k))
    OBVIOUS
  <2>2. Within(dx, ErrorAt(dx, dy, s + 1, k)) \/ Within(dx, ErrorAt(dx, dy, s + 1, k + 1))
    BY <2>1, ErrorStep
  <2> QED
    BY <2>2
<1>3. Q = Nat
  <2> HIDE DEF Q
  <2>1. Q \subseteq Nat
    BY DEF Q
  <2> QED
    BY <1>1, <1>2, <2>1, Inductive
<1> QED
  BY <1>3

\* The loop from f to t computes, at each x, the y that the bounds determine.
OnTrack(f, t, x, k, v) ==
  LET dx == t[1] - f[1]
      dy == Magnitude(t[2] - f[2])
      ystep == IF f[2] < t[2] THEN 1 ELSE -1
  IN  /\ Within(dx, ErrorAt(dx, dy, x - f[1], k))
      /\ v = [y |-> f[2] + ystep * k, error |-> ErrorAt(dx, dy, x - f[1], k)]

\* f and t lie from left to right and are further apart in x than in y.
Flat(f, t) ==
  /\ f \in Int \X Int /\ t \in Int \X Int
  /\ f[1] < t[1] /\ Magnitude(t[2] - f[2]) <= t[1] - f[1]

LEMMA TrackExists ==
  ASSUME NEW f, NEW t, Flat(f, t)
  PROVE  Follows(f, t, Track(f, t))
<1> DEFINE dx == t[1] - f[1]
           dy == Magnitude(t[2] - f[2])
           ystep == IF f[2] < t[2] THEN 1 ELSE -1
           K(s) == CHOOSE k \in Nat : Within(dx, ErrorAt(dx, dy, s, k))
           W == [x \in f[1] .. t[1] |-> [y |-> f[2] + ystep * K(x - f[1]),
                                         error |-> ErrorAt(dx, dy, x - f[1], K(x - f[1]))]]
           Body(x) == IF x = f[1] THEN [y |-> f[2], error |-> dx]
                      ELSE LET e == W[x - 1].error - 2 * dy
                           IN  IF e < 0 THEN [y |-> W[x - 1].y + ystep, error |-> e + 2 * dx]
                               ELSE [y |-> W[x - 1].y, error |-> e]
<1>1. /\ dx \in Nat \ {0} /\ dy \in 0 .. dx /\ ystep \in Int
      /\ f[1] \in Int /\ f[2] \in Int /\ t[1] \in Int
  BY DEF Flat, Magnitude
<1> HIDE DEF dx, dy, ystep
<1>2. \A s \in Nat : K(s) \in Nat /\ Within(dx, ErrorAt(dx, dy, s, K(s)))
  BY <1>1, StepsExist
<1>3. \A s \in Nat, k \in Nat : Within(dx, ErrorAt(dx, dy, s, k)) => K(s) = k
  BY <1>1, <1>2, StepsUnique
<1> HIDE DEF K
<1>4. ASSUME NEW x \in f[1] .. t[1]
      PROVE  W[x] = Body(x)
  <2>1. W[x] = [y |-> f[2] + ystep * K(x - f[1]),
                error |-> ErrorAt(dx, dy, x - f[1], K(x - f[1]))]
    OBVIOUS
  <2>2. CASE x = f[1]
    <3>1. ErrorAt(dx, dy, 0, 0) = dx
      BY <1>1 DEF ErrorAt
    <3>2. K(0) = 0
      BY <1>1, <1>3, <3>1 DEF Within
    <3>3. x - f[1] = 0 /\ f[2] + ystep * 0 = f[2]
      BY <1>1, <2>2
    <3>4. W[x] = [y |-> f[2], error |-> dx]
      BY <2>1, <3>1, <3>2, <3>3
    <3> QED
      BY <2>2, <3>4
  <2>3. CASE x # f[1]
    <3> DEFINE s == x - 1 - f[1]
               k == K(s)
    <3>1. s \in Nat /\ x - f[1] = s + 1 /\ x - 1 \in f[1] .. t[1]
      BY <1>1, <2>3
    <3>2. W[x - 1] = [y |-> f[2] + ystep * k, error |-> ErrorAt(dx, dy, s, k)]
      BY <3>1
    <3>3. k \in Nat /\ Within(dx, ErrorAt(dx, dy, s, k))
      BY <1>2, <3>1
    <3> DEFINE e == ErrorAt(dx, dy, s, k) - 2 * dy
    <3> HIDE DEF s, k
    <3>4. CASE e < 0
      <4>1. /\ ErrorAt(dx, dy, s + 1, k + 1) = e + 2 * dx
            /\ Within(dx, ErrorAt(dx, dy, s + 1, k + 1))
        BY <1>1, <3>1, <3>3, <3>4, ErrorStep
      <4>2. K(s + 1) = k + 1
        BY <1>3, <3>1, <3>3, <4>1
      <4>3. f[2] + ystep * (k + 1) = f[2] + ystep * k + ystep
        BY <1>1, <3>3
      <4>4. W[x] = [y |-> f[2] + ystep * k + ystep, error |-> e + 2 * dx]
        BY <2>1, <3>1, <4>1, <4>2, <4>3
      <4>5. W[x - 1].error - 2 * dy = e /\ W[x - 1].y = f[2] + ystep * k
        BY <3>2
      <4> HIDE DEF W, e
      <4> QED
        BY <2>3, <3>4, <4>4, <4>5
    <3>5. CASE ~(e < 0)
      <4>1. ErrorAt(dx, dy, s + 1, k) = e /\ Within(dx, ErrorAt(dx, dy, s + 1, k))
        BY <1>1, <3>1, <3>3, <3>5, ErrorStep
      <4>2. K(s + 1) = k
        BY <1>3, <3>1, <3>3, <4>1
      <4>3. W[x] = [y |-> f[2] + ystep * k, error |-> e]
        BY <2>1, <3>1, <4>1, <4>2
      <4>4. W[x - 1].error - 2 * dy = e /\ W[x - 1].y = f[2] + ystep * k
        BY <3>2
      <4> HIDE DEF W, e
      <4> QED
        BY <2>3, <3>5, <4>3, <4>4
    <3> QED
      BY <3>4, <3>5
  <2> QED
    BY <2>2, <2>3
<1>5. W = [x \in f[1] .. t[1] |-> Body(x)]
  <2>1. \E S : W = [x \in S |-> W[x]] /\ S = f[1] .. t[1]
    OBVIOUS
  <2> HIDE DEF W, Body
  <2> QED
    BY <1>4, <2>1
<1>6. Follows(f, t, W)
  <2> HIDE DEF W
  <2> QED
    BY <1>5 DEF Follows, dx, dy, ystep
<1> HIDE DEF W
<1> QED
  BY <1>6, TrackIs

LEMMA TrackHolds ==
  ASSUME NEW f, NEW t, Flat(f, t)
  PROVE  \A x \in f[1] .. t[1] : \E k \in Nat : OnTrack(f, t, x, k, Track(f, t)[x])
<1> DEFINE g == Track(f, t)
           dx == t[1] - f[1]
           dy == Magnitude(t[2] - f[2])
           ystep == IF f[2] < t[2] THEN 1 ELSE -1
           On(x) == \E k \in Nat : OnTrack(f, t, x, k, g[x])
           Q == {s \in Nat : s <= dx => On(f[1] + s)}
<1>1. /\ dx \in Nat \ {0} /\ dy \in 0 .. dx /\ ystep \in Int
      /\ f[1] \in Int /\ f[2] \in Int /\ t[1] \in Int
  BY DEF Flat, Magnitude
<1>2. Follows(f, t, g)
  BY TrackExists
<1>3. \A x \in f[1] .. t[1] :
        g[x] = IF x = f[1] THEN [y |-> f[2], error |-> dx]
               ELSE LET e == g[x - 1].error - 2 * dy
                    IN  IF e < 0 THEN [y |-> g[x - 1].y + ystep, error |-> e + 2 * dx]
                        ELSE [y |-> g[x - 1].y, error |-> e]
  <2> HIDE DEF g
  <2> QED
    BY <1>2 DEF Follows
<1>4. \A x, k, v : OnTrack(f, t, x, k, v) <=>
        /\ Within(dx, ErrorAt(dx, dy, x - f[1], k))
        /\ v = [y |-> f[2] + ystep * k, error |-> ErrorAt(dx, dy, x - f[1], k)]
  BY DEF OnTrack
<1> HIDE DEF g, dx, dy, ystep
<1>5. On(f[1])
  <2>1. ErrorAt(dx, dy, 0, 0) = dx /\ f[1] - f[1] = 0 /\ f[2] + ystep * 0 = f[2]
    BY <1>1 DEF ErrorAt
  <2>2. f[1] \in f[1] .. t[1]
    BY <1>1 DEF dx
  <2>3. g[f[1]] = [y |-> f[2] + ystep * 0, error |-> ErrorAt(dx, dy, f[1] - f[1], 0)]
    BY <1>3, <2>1, <2>2
  <2>4. Within(dx, ErrorAt(dx, dy, f[1] - f[1], 0))
    BY <1>1, <2>1 DEF Within
  <2> QED
    BY <1>4, <2>3, <2>4
<1>6. ASSUME NEW s \in Nat, s + 1 <= dx, On(f[1] + s)
      PROVE  On(f[1] + (s + 1))
  <2> DEFINE x == f[1] + (s + 1)
  <2>1. PICK k \in Nat : OnTrack(f, t, f[1] + s, k, g[f[1] + s])
    BY <1>6
  <2>2. /\ x \in f[1] .. t[1] /\ x # f[1] /\ x - 1 = f[1] + s
        /\ x - f[1] = s + 1 /\ f[1] + s - f[1] = s
    BY <1>1, <1>6 DEF dx
  <2>3. /\ Within(dx, ErrorAt(dx, dy, s, k))
        /\ g[x - 1] = [y |-> f[2] + ystep * k, error |-> ErrorAt(dx, dy, s, k)]
    <3> DEFINE w == f[1] + s
    <3>1. w - f[1] = s /\ x - 1 = w
      BY <1>1
    <3>2. /\ Within(dx, ErrorAt(dx, dy, w - f[1], k))
          /\ g[w] = [y |-> f[2] + ystep * k, error |-> ErrorAt(dx, dy, w - f[1], k)]
      BY <1>4, <2>1
    <3> HIDE DEF w, x
    <3> QED
      BY <3>1, <3>2
  <2> DEFINE e == ErrorAt(dx, dy, s, k) - 2 * dy
  <2>4. /\ g[x - 1].error - 2 * dy = e
        /\ g[x - 1].y = f[2] + ystep * k
    BY <2>3
  <2> HIDE DEF x
  <2>5. CASE e < 0
    <3>1. /\ ErrorAt(dx, dy, s + 1, k + 1) = e + 2 * dx
          /\ Within(dx, ErrorAt(dx, dy, s + 1, k + 1))
      BY <1>1, <2>3, <2>5, ErrorStep
    <3>2. f[2] + ystep * (k + 1) = f[2] + ystep * k + ystep
      BY <1>1
    <3> HIDE DEF e
    <3>3. g[x] = [y |-> f[2] + ystep * k + ystep, error |-> e + 2 * dx]
      BY <1>3, <2>2, <2>4, <2>5
    <3>4. OnTrack(f, t, x, k + 1, g[x])
      BY <1>4, <2>2, <3>1, <3>2, <3>3
    <3> QED
      BY <3>4 DEF x
  <2>6. CASE ~(e < 0)
    <3>1. ErrorAt(dx, dy, s + 1, k) = e /\ Within(dx, ErrorAt(dx, dy, s + 1, k))
      BY <1>1, <2>3, <2>6, ErrorStep
    <3> HIDE DEF e
    <3>2. g[x] = [y |-> f[2] + ystep * k, error |-> e]
      BY <1>3, <2>2, <2>4, <2>6
    <3>3. OnTrack(f, t, x, k, g[x])
      BY <1>4, <2>2, <3>1, <3>2
    <3> QED
      BY <3>3 DEF x
  <2> QED
    BY <2>5, <2>6
<1> HIDE DEF On
<1>7. Q = Nat
  <2>1. 0 \in Q
    BY <1>1, <1>5
  <2>2. ASSUME NEW s \in Q
        PROVE  s + 1 \in Q
    BY <1>1, <1>6
  <2>3. Q \subseteq Nat
    OBVIOUS
  <2> HIDE DEF Q
  <2> QED
    BY <2>1, <2>2, <2>3, Inductive
<1>8. ASSUME NEW x \in f[1] .. t[1]
      PROVE  On(x)
  <2>1. x - f[1] \in Nat /\ x - f[1] <= dx /\ f[1] + (x - f[1]) = x
    BY <1>1 DEF dx
  <2>2. x - f[1] \in Q
    BY <1>7, <2>1
  <2> QED
    BY <2>1, <2>2
<1> QED
  BY <1>8 DEF On, g

-----------------------------------------------------------------------------

\* Twice the distance of p from the line through f and t, times its length, and
\* with a sign.
Skew(f, t, p) == 2 * ((t[1] - f[1]) * (p[2] - f[2]) - (t[2] - f[2]) * (p[1] - f[1]))
Longer(f, t) == Greater(Magnitude(t[1] - f[1]), Magnitude(t[2] - f[2]))

\* Within half a pixel of the line and in the box of its end points.
Near(f, t, p) ==
  /\ Magnitude(Skew(f, t, p)) <= Longer(f, t)
  /\ p[1] \in Lesser(f[1], t[1]) .. Greater(f[1], t[1])
  /\ p[2] \in Lesser(f[2], t[2]) .. Greater(f[2], t[2])

LEMMA SkewProducts ==
  ASSUME NEW a \in Int, NEW b \in Int, NEW x \in Int, NEW y \in Int
  PROVE  /\ 2 * ((-a) * (y - b) - (-b) * (x - a)) = -(2 * (a * y - b * x))
         /\ 2 * (b * x - a * y) = -(2 * (a * y - b * x))
OBVIOUS

LEMMA NearSwapped ==
  ASSUME NEW f \in Int \X Int, NEW t \in Int \X Int, NEW p \in Int \X Int, Near(f, t, p)
  PROVE  Near(t, f, p)
<1> DEFINE a == t[1] - f[1]
           b == t[2] - f[2]
           x == p[1] - f[1]
           y == p[2] - f[2]
<1>1. /\ a \in Int /\ b \in Int /\ x \in Int /\ y \in Int
      /\ f[1] \in Int /\ f[2] \in Int /\ t[1] \in Int /\ t[2] \in Int
      /\ f[1] - t[1] = -a /\ f[2] - t[2] = -b
      /\ p[1] - t[1] = x - a /\ p[2] - t[2] = y - b
  OBVIOUS
<1>2. /\ Skew(f, t, p) = 2 * (a * y - b * x)
      /\ Skew(t, f, p) = 2 * ((-a) * (y - b) - (-b) * (x - a))
  BY <1>1 DEF Skew
<1>3. Skew(t, f, p) = -Skew(f, t, p) /\ Skew(f, t, p) \in Int
  BY <1>1, <1>2, SkewProducts
<1>4. Magnitude(Skew(t, f, p)) = Magnitude(Skew(f, t, p)) /\ Longer(t, f) = Longer(f, t)
  <2>1. Magnitude(Skew(t, f, p)) = Magnitude(Skew(f, t, p))
    BY <1>3 DEF Magnitude
  <2>2. Magnitude(-a) = Magnitude(a) /\ Magnitude(-b) = Magnitude(b)
    BY <1>1 DEF Magnitude
  <2> QED
    BY <1>1, <2>1, <2>2 DEF Longer
<1>5. /\ Lesser(t[1], f[1]) = Lesser(f[1], t[1]) /\ Greater(t[1], f[1]) = Greater(f[1], t[1])
      /\ Lesser(t[2], f[2]) = Lesser(f[2], t[2]) /\ Greater(t[2], f[2]) = Greater(f[2], t[2])
  <2>1. \A u, v \in Int : Lesser(u, v) = Lesser(v, u) /\ Greater(u, v) = Greater(v, u)
    BY DEF Lesser, Greater
  <2> QED
    BY <1>1, <2>1
<1> QED
  BY <1>4, <1>5 DEF Near

LEMMA NearTransposed ==
  ASSUME NEW f \in Int \X Int, NEW t \in Int \X Int, NEW p \in Int \X Int,
         Near(Transposed(f), Transposed(t), p)
  PROVE  Near(f, t, Transposed(p))
<1> DEFINE a == t[1] - f[1]
           b == t[2] - f[2]
           y == p[1] - f[2]
           x == p[2] - f[1]
<1>1. /\ a \in Int /\ b \in Int /\ x \in Int /\ y \in Int
      /\ Transposed(f)[1] = f[2] /\ Transposed(f)[2] = f[1]
      /\ Transposed(t)[1] = t[2] /\ Transposed(t)[2] = t[1]
      /\ Transposed(p)[1] = p[2] /\ Transposed(p)[2] = p[1]
  BY DEF Transposed
<1>2. /\ Skew(f, t, Transposed(p)) = 2 * (a * y - b * x)
      /\ Skew(Transposed(f), Transposed(t), p) = 2 * (b * x - a * y)
  BY <1>1 DEF Skew
<1>3. Magnitude(Skew(f, t, Transposed(p))) = Magnitude(Skew(Transposed(f), Transposed(t), p))
  <2> DEFINE d == 2 * (a * y - b * x)
  <2>1. d \in Int /\ 2 * (b * x - a * y) = -d
    BY <1>1, SkewProducts
  <2> HIDE DEF d
  <2>2. Magnitude(-d) = Magnitude(d)
    BY <2>1 DEF Magnitude
  <2> QED
    BY <1>2, <2>1, <2>2 DEF d
<1>4. Longer(Transposed(f), Transposed(t)) = Longer(f, t)
  <2>1. Magnitude(a) \in Int /\ Magnitude(b) \in Int
    BY <1>1 DEF Magnitude
  <2> HIDE DEF a, b
  <2>2. Greater(Magnitude(a), Magnitude(b)) = Greater(Magnitude(b), Magnitude(a))
    BY <2>1 DEF Greater
  <2> QED
    BY <1>1, <2>2 DEF Longer, a, b
<1> QED
  BY <1>1, <1>3, <1>4 DEF Near

\* The error is the distance.
LEMMA ErrorIsDistance ==
  ASSUME NEW dx \in Nat \ {0}, NEW b \in Int, Magnitude(b) <= dx,
         NEW s \in 0 .. dx - 1, NEW k \in Nat,
         Within(dx, ErrorAt(dx, Magnitude(b), s, k))
  PROVE  LET y == (IF 0 < b THEN 1 ELSE -1) * k
         IN  /\ k <= Magnitude(b)
             /\ Magnitude(2 * (dx * y - b * s)) <= dx
<1> DEFINE dy == Magnitude(b)
           p == dy * s
           q == dx * k
<1>1. dy \in 0 .. dx /\ p \in Int /\ q \in Int
  BY DEF Magnitude
<1>2. b = dy \/ b = -dy
  BY DEF Magnitude
<1>3. 0 <= dx - 2 * p + 2 * q /\ dx - 2 * p + 2 * q < 2 * dx
  BY DEF Within, ErrorAt
<1>4. k <= dy
  <2>1. SUFFICES ASSUME k >= dy + 1
                 PROVE  FALSE
    BY <1>1
  <2>2. q >= dx * dy + dx
    <3> HIDE DEF dy
    <3> QED
      BY <1>1, <2>1
  <2>3. p <= dx * dy /\ dx * dy \in Int
    <3> HIDE DEF dy
    <3> QED
      BY <1>1
  <2> HIDE DEF dy, p, q
  <2> QED
    BY <1>1, <1>3, <2>2, <2>3
<1>5. CASE 0 < b
  <2>1. b = dy /\ b * s = p /\ dx * (1 * k) = q
    BY <1>5 DEF Magnitude
  <2> HIDE DEF p, q
  <2>2. Magnitude(2 * (q - p)) <= dx
    BY <1>1, <1>3 DEF Magnitude
  <2> QED
    BY <1>4, <1>5, <2>1, <2>2
<1>6. CASE ~(0 < b)
  <2>1. b = -dy /\ b * s = -p /\ dx * ((-1) * k) = -q
    <3>1. b = -dy
      BY <1>6 DEF Magnitude
    <3> HIDE DEF dy
    <3> QED
      BY <1>1, <3>1
  <2> HIDE DEF p, q
  <2>2. Magnitude(2 * (-q - (-p))) <= dx
    BY <1>1, <1>3 DEF Magnitude
  <2> QED
    BY <1>4, <1>6, <2>1, <2>2
<1> QED
  BY <1>5, <1>6

LEMMA TrackNear ==
  ASSUME NEW f, NEW t, Flat(f, t), NEW x \in f[1] .. t[1] - 1
  PROVE  <<x, Track(f, t)[x].y>> \in Int \X Int /\ Near(f, t, <<x, Track(f, t)[x].y>>)
<1> DEFINE dx == t[1] - f[1]
           b == t[2] - f[2]
           s == x - f[1]
           sign == IF 0 < b THEN 1 ELSE -1
           p == <<x, Track(f, t)[x].y>>
<1>1. /\ dx \in Nat \ {0} /\ b \in Int /\ Magnitude(b) <= dx /\ s \in 0 .. dx - 1
      /\ x \in f[1] .. t[1] /\ x \in Int
      /\ f[1] \in Int /\ f[2] \in Int /\ t[1] \in Int /\ t[2] \in Int
  BY DEF Flat, Magnitude
<1>2. PICK k \in Nat : OnTrack(f, t, x, k, Track(f, t)[x])
  BY <1>1, TrackHolds
<1>3. sign = IF f[2] < t[2] THEN 1 ELSE -1
  BY <1>1
<1>4. Within(dx, ErrorAt(dx, Magnitude(b), s, k)) /\ Track(f, t)[x].y = f[2] + sign * k
  BY <1>2, <1>3 DEF OnTrack
<1>5. k <= Magnitude(b) /\ Magnitude(2 * (dx * (sign * k) - b * s)) <= dx
  <2> HIDE DEF dx, b, s
  <2> QED
    BY <1>1, <1>4, ErrorIsDistance
<1>6. p[1] = x /\ p[2] = f[2] + sign * k /\ p[2] - f[2] = sign * k /\ p[2] \in Int
  BY <1>1, <1>4
<1>7. Magnitude(Skew(f, t, p)) <= dx
  BY <1>5, <1>6 DEF Skew
<1>8. Longer(f, t) = dx
  BY <1>1 DEF Longer, Greater, Magnitude
<1>9. p[2] \in Lesser(f[2], t[2]) .. Greater(f[2], t[2])
  BY <1>1, <1>5, <1>6 DEF Lesser, Greater, Magnitude
<1>10. p[1] \in Lesser(f[1], t[1]) .. Greater(f[1], t[1])
  BY <1>1, <1>6 DEF Lesser, Greater
<1> HIDE DEF p
<1>11. Near(f, t, p)
  BY <1>7, <1>8, <1>9, <1>10 DEF Near
<1> QED
  BY <1>1, <1>6, <1>11 DEF p

-----------------------------------------------------------------------------

\* What LineExact says of the pixels of a line.
Exact(from, to, pixels) ==
  LET dx == to[1] - from[1]
      dy == to[2] - from[2]
  IN  /\ Cardinality(pixels) = IF dx = 0 \/ dy = 0 THEN Longer(from, to) + 1 ELSE Longer(from, to)
      /\ \A p \in pixels : Near(from, to, p)

\* A line along an axis is a box.
LEMMA StraightExact ==
  ASSUME NEW from \in Int \X Int, NEW to \in Int \X Int,
         from[1] = to[1] \/ from[2] = to[2]
  PROVE  Exact(from, to, (Lesser(from[1], to[1]) .. Greater(from[1], to[1]))
                           \X (Lesser(from[2], to[2]) .. Greater(from[2], to[2])))
<1> DEFINE S == Lesser(from[1], to[1]) .. Greater(from[1], to[1])
           T == Lesser(from[2], to[2]) .. Greater(from[2], to[2])
           dx == to[1] - from[1]
           dy == to[2] - from[2]
<1>1. \A u, v \in Int : /\ Lesser(u, v) \in Int /\ Greater(u, v) \in Int
                        /\ Lesser(u, v) <= Greater(u, v)
                        /\ Greater(u, v) - Lesser(u, v) = Magnitude(v - u)
  BY DEF Lesser, Greater, Magnitude
<1>2. /\ from[1] \in Int /\ from[2] \in Int /\ to[1] \in Int /\ to[2] \in Int
      /\ dx \in Int /\ dy \in Int
  OBVIOUS
<1>3. /\ IsFiniteSet(S) /\ Cardinality(S) = Magnitude(dx) + 1
      /\ IsFiniteSet(T) /\ Cardinality(T) = Magnitude(dy) + 1
      /\ S \subseteq Int /\ T \subseteq Int
  <2>1. ASSUME NEW u \in Int, NEW v \in Int
        PROVE  /\ IsFiniteSet(Lesser(u, v) .. Greater(u, v))
               /\ Cardinality(Lesser(u, v) .. Greater(u, v)) = Magnitude(v - u) + 1
               /\ Lesser(u, v) .. Greater(u, v) \subseteq Int
    <3> DEFINE lo == Lesser(u, v)
               hi == Greater(u, v)
    <3>1. lo \in Int /\ hi \in Int /\ lo <= hi /\ hi - lo = Magnitude(v - u)
      BY <1>1
    <3> HIDE DEF lo, hi
    <3>2. IsFiniteSet(lo .. hi) /\ Cardinality(lo .. hi) = IF lo > hi THEN 0 ELSE hi - lo + 1
      BY <3>1, FS_Interval
    <3>3. ~(lo > hi) /\ lo .. hi \subseteq Int
      BY <3>1
    <3> QED
      BY <3>1, <3>2, <3>3 DEF lo, hi
  <2>2. /\ IsFiniteSet(S) /\ Cardinality(S) = Magnitude(dx) + 1 /\ S \subseteq Int
    BY <1>2, <2>1
  <2>3. /\ IsFiniteSet(T) /\ Cardinality(T) = Magnitude(dy) + 1 /\ T \subseteq Int
    BY <1>2, <2>1
  <2> QED
    BY <2>2, <2>3
<1>4. dx = 0 \/ dy = 0
  BY <1>2
<1>5. /\ Magnitude(0) = 0 /\ Magnitude(dx) \in Nat /\ Magnitude(dy) \in Nat
  BY <1>2 DEF Magnitude
<1>6. Cardinality(S \X T) = Longer(from, to) + 1
  <2> HIDE DEF S, T, dx, dy
  <2>1. Cardinality(S \X T) = (Magnitude(dx) + 1) * (Magnitude(dy) + 1)
    BY <1>3, FS_Product
  <2>2. \A i, j \in Nat : i = 0 \/ j = 0 => (i + 1) * (j + 1) = Greater(i, j) + 1
    BY DEF Greater
  <2>3. (Magnitude(dx) + 1) * (Magnitude(dy) + 1) = Greater(Magnitude(dx), Magnitude(dy)) + 1
    BY <1>4, <1>5, <2>2
  <2> QED
    BY <2>1, <2>3 DEF Longer, dx, dy
<1>7. ASSUME NEW p \in S \X T
      PROVE  Near(from, to, p)
  <2>1. /\ p[1] \in S /\ p[2] \in T /\ p[1] \in Int /\ p[2] \in Int
    BY <1>3
  <2>2. /\ dx = 0 => p[1] - from[1] = 0
        /\ dy = 0 => p[2] - from[2] = 0
    BY <1>2, <2>1 DEF Lesser, Greater
  <2>3. Skew(from, to, p) = 0
    <3>1. /\ p[1] - from[1] \in Int /\ p[2] - from[2] \in Int
          /\ Skew(from, to, p) = 2 * (dx * (p[2] - from[2]) - dy * (p[1] - from[1]))
      BY <1>2, <2>1 DEF Skew
    <3> HIDE DEF dx, dy
    <3> QED
      BY <1>2, <1>4, <2>2, <3>1
  <2>4. Longer(from, to) >= 0
    BY <1>5 DEF Longer, Greater
  <2> QED
    BY <1>5, <2>1, <2>3, <2>4 DEF Near
<1> QED
  BY <1>4, <1>6, <1>7 DEF Exact

\* A slanted line has one pixel for each x but the last.
LEMMA TrackCount ==
  ASSUME NEW a \in Int, NEW b \in Int, a < b, NEW h, NEW S,
         \/ \A q : q \in S <=> \E x \in a .. b - 1 : q = <<x, h[x].y>>
         \/ \A q : q \in S <=> \E x \in a .. b - 1 : q = <<h[x].y, x>>
  PROVE  Cardinality(S) = b - a
<1>1. IsFiniteSet(a .. b - 1) /\ Cardinality(a .. b - 1) = b - a
  BY FS_Interval
<1>2. ExistsBijection(a .. b - 1, S)
  <2>1. CASE \A q : q \in S <=> \E x \in a .. b - 1 : q = <<x, h[x].y>>
    <3> DEFINE g == [x \in a .. b - 1 |-> <<x, h[x].y>>]
    <3>1. g \in [a .. b - 1 -> S]
      BY <2>1
    <3>2. \A x, z \in a .. b - 1 : g[x] = g[z] => x = z
      OBVIOUS
    <3>3. \A p \in S : \E x \in a .. b - 1 : g[x] = p
      BY <2>1
    <3> HIDE DEF g
    <3> QED
      BY <3>1, <3>2, <3>3
         DEF ExistsBijection, Bijection, Injection, IsInjective, Surjection
  <2>2. CASE \A q : q \in S <=> \E x \in a .. b - 1 : q = <<h[x].y, x>>
    <3> DEFINE g == [x \in a .. b - 1 |-> <<h[x].y, x>>]
    <3>1. g \in [a .. b - 1 -> S]
      BY <2>2
    <3>2. \A x, z \in a .. b - 1 : g[x] = g[z] => x = z
      OBVIOUS
    <3>3. \A p \in S : \E x \in a .. b - 1 : g[x] = p
      BY <2>2
    <3> HIDE DEF g
    <3> QED
      BY <3>1, <3>2, <3>3
         DEF ExistsBijection, Bijection, Injection, IsInjective, Surjection
  <2> QED
    BY <2>1, <2>2
<1> QED
  BY <1>1, <1>2, FS_Bijection

\* Whichever way a line is turned before the loop, the pixels are its own.
LEMMA LineIsExact ==
  ASSUME NEW from \in Pixels, NEW to \in Pixels
  PROVE  Exact(from, to, LinePixels(from, to))
<1> DEFINE dx == Magnitude(to[1] - from[1])
           dy == Magnitude(to[2] - from[2])
           steep == dy > dx
           a == IF steep THEN Transposed(from) ELSE from
           b == IF steep THEN Transposed(to) ELSE to
           f == IF a[1] > b[1] THEN b ELSE a
           t == IF a[1] > b[1] THEN a ELSE b
           y == Track(f, t)
           plotted == {<<x, y[x].y>> : x \in f[1] .. t[1] - 1}
           pixels == IF steep THEN {Transposed(p) : p \in plotted} ELSE plotted
<1>1. /\ from \in Int \X Int /\ to \in Int \X Int
      /\ dx \in Nat /\ dy \in Nat
      /\ dx = 0 <=> from[1] = to[1]
      /\ dy = 0 <=> from[2] = to[2]
  BY DisplayAssumption DEF Pixels, Coordinate, Magnitude
<1>2. CASE dx = 0 \/ dy = 0
  <2>1. LinePixels(from, to) = (Lesser(from[1], to[1]) .. Greater(from[1], to[1]))
                                 \X (Lesser(from[2], to[2]) .. Greater(from[2], to[2]))
    BY <1>2 DEF LinePixels
  <2> QED
    BY <1>1, <1>2, <2>1, StraightExact
<1>3. CASE ~(dx = 0 \/ dy = 0)
  <2>1. LinePixels(from, to) = pixels
    BY <1>3 DEF LinePixels
  <2>2. /\ a \in Int \X Int /\ b \in Int \X Int /\ a[1] # b[1]
        /\ Magnitude(b[2] - a[2]) <= Magnitude(b[1] - a[1])
        /\ Magnitude(b[1] - a[1]) = Longer(from, to)
    BY <1>1, <1>3 DEF Transposed, Longer, Greater
  <2>3. Flat(f, t) /\ t[1] - f[1] = Longer(from, to)
    <3> HIDE DEF a, b
    <3> QED
      BY <2>2 DEF Flat, Magnitude
  <2> HIDE DEF y
  <2>4. Cardinality(pixels) = Longer(from, to)
    <3>1. f[1] \in Int /\ t[1] \in Int /\ f[1] < t[1]
      BY <2>3 DEF Flat
    <3> HIDE DEF f, t
    <3> DEFINE xs == f[1] .. t[1] - 1
    <3>2. plotted = {<<x, y[x].y>> : x \in xs}
      OBVIOUS
    <3> HIDE DEF xs, plotted
    <3>3. \/ \A q : q \in pixels <=> \E x \in xs : q = <<x, y[x].y>>
          \/ \A q : q \in pixels <=> \E x \in xs : q = <<y[x].y, x>>
      <4>1. CASE ~steep
        BY <3>2, <4>1
      <4>2. CASE steep
        <5>1. pixels = {Transposed(p) : p \in plotted}
          BY <4>2
        <5>2. \A x \in xs : <<x, y[x].y>> \in plotted /\ Transposed(<<x, y[x].y>>) = <<y[x].y, x>>
          BY <3>2 DEF Transposed
        <5>3. \A p \in plotted : \E x \in xs : p = <<x, y[x].y>>
          BY <3>2
        <5>4. ASSUME NEW q \in pixels
              PROVE  \E x \in xs : q = <<y[x].y, x>>
          <6>1. PICK p \in plotted : q = Transposed(p)
            BY <5>1
          <6> QED
            BY <5>2, <5>3, <6>1
        <5>5. ASSUME NEW x \in xs
              PROVE  <<y[x].y, x>> \in pixels
          BY <5>1, <5>2
        <5> HIDE DEF pixels, steep
        <5> QED
          BY <5>4, <5>5
      <4> QED
        BY <4>1, <4>2
    <3> HIDE DEF pixels
    <3> QED
      BY <2>3, <3>1, <3>3, TrackCount DEF xs
  <2>5. \A p \in plotted : p \in Int \X Int /\ Near(f, t, p)
    <3> HIDE DEF f, t
    <3> QED
      BY <2>3, TrackNear DEF y
  <2>6. \A p \in plotted : Near(a, b, p)
    <3> HIDE DEF a, b, plotted
    <3> QED
      BY <2>2, <2>5, NearSwapped
  <2>7. \A p \in pixels : Near(from, to, p)
    <3> HIDE DEF plotted
    <3>1. CASE steep
      BY <1>1, <2>5, <2>6, <3>1, NearTransposed
    <3>2. CASE ~steep
      BY <2>6, <3>2
    <3> QED
      BY <3>1, <3>2
  <2>8. to[1] - from[1] # 0 /\ to[2] - from[2] # 0
    BY <1>1, <1>3
  <2> HIDE DEF pixels
  <2> QED
    BY <2>1, <2>4, <2>7, <2>8 DEF Exact
<1> QED
  BY <1>2, <1>3

\* What was painted last is the line that was drawn last.
DisplayInv ==
  line # <<>> => \E from, to \in Pixels : line = <<from, to>> /\ painted = LinePixels(from, to)

\* For frames of any size and any two pixels: see LineExact.
THEOREM LineExactHolds == DisplaySpec => []LineExact
<1>1. DisplayInit => DisplayInv
  BY DEF DisplayInit, DisplayInv
<1>2. DisplayInv /\ [DisplayNext]_displayVars => DisplayInv'
  <2> SUFFICES ASSUME DisplayInv, [DisplayNext]_displayVars
               PROVE  DisplayInv'
    OBVIOUS
  <2>1. CASE ClearAll \/ ApplyFrame
    BY <2>1 DEF ClearAll, ApplyFrame, DisplayInv
  <2>2. ASSUME NEW type \in Types, NEW c \in Colors, FillFrame(type, c)
        PROVE  DisplayInv'
    BY <2>2 DEF FillFrame, DisplayInv
  <2>3. ASSUME NEW type \in Types, NEW c \in Colors, NEW from \in Pixels, NEW to \in Pixels,
               DrawLine(type, from, to, c)
        PROVE  DisplayInv'
    BY <2>3 DEF DrawLine, DisplayInv
  <2>4. ASSUME NEW f \in {0, 1}, NEW p \in Pixels, NEW c \in Colors, WritePixel(f, p, c)
        PROVE  DisplayInv'
    BY <2>4 DEF WritePixel, DisplayInv
  <2>5. CASE UNCHANGED displayVars
    BY <2>5 DEF displayVars, DisplayInv
  <2> QED
    BY <2>1, <2>2, <2>3, <2>4, <2>5 DEF DisplayNext
<1>3. DisplayInv => LineExact
  <2> SUFFICES ASSUME NEW from \in Pixels, NEW to \in Pixels, line = <<from, to>>,
                      painted = LinePixels(from, to)
               PROVE  LineExact
    BY DEF DisplayInv, LineExact
  <2>1. Exact(from, to, painted) /\ line[1] = from /\ line[2] = to
    BY LineIsExact
  <2> QED
    BY <2>1 DEF LineExact, Exact, Near, Skew, Longer
<1> QED
  BY <1>1, <1>2, <1>3, PTL DEF DisplaySpec
=============================================================================
