# A TLA+ project for lenet-ESL

lenet-ESL is an electronic-system-level design of a LeNet-5 accelerator: the
accelerator in synthesisable SystemC (`hls/`), a RISC-V virtual platform around
four transaction-level copies of it (`vp/`), and the bare-metal program that
four harts run on the platform (`sw/`). Paths and lines below are those of the
repository; `name:line` of a doc comment in a module means the same.

The repository has no test for any interleaving of its four harts, its DMA
thread, its eight accelerator threads and its interrupts. This project states
what should hold of them, and of the devices of the platform and the loop nests of
the synthesised accelerator, and checks it: with TLC on small instances, and with
TLAPS, as far as safety goes, for all values of the constants.

## 1. Inventory

| Component | Code | State | Operations | Interacts with |
|---|---|---|---|---|
| Multi-hart program | `sw/main.cpp`, `sw/bootstrap.S` | `cnt`, `total_error`, `local_error`, the barrier counter, five kinds of semaphores, `acc_completed[]`, the exit counter of `bootstrap.S` | setup by hart 0, inference loop, global sum, barrier, ordered printing, exit | DMA registers (stores), handlers (callback), semaphores (shared memory) |
| Semaphore primitives | `sw/main.cpp:77-114` | one word per semaphore, LR/SC reservations | `sem_init`, `sem_wait`, `sem_post` | used by all of the above |
| Interrupt handling | `sw/irq.c`, `sw/bootstrap.S:17-31,86-131` | `irq_handler_table`, PLIC priorities, pending bits, `mip` | `register_interrupt_handler`, trap, claim, dispatch, complete | called by the PLIC, calls `acc_irq_handler_*` on hart 0 |
| DMA controller | `vp/dma.h` | four registers, `run_event`, block buffer, thread | register writes, `run`, `_perform_memcpy`, `_copy_block`, interrupt 4 | bus master to memory and accelerators |
| Accelerator of the platform | `vp/lenet.h` | 64 lanes of FIFO, `compute_start_fifo`, 10 lanes of results, `input_img` | `blocking_transport`, `write_buffer`, `do_filter`, interrupts 6, 8, 9, 10 | bus slave of the DMA |
| Whole platform | `vp/main.cpp` with all of the above | the union | the union | |
| HLS accelerator | `hls/Lenet.cpp`, `hls/Testbench.cpp` | `input_img`, `buffer_1` .. `buffer_4`, `fc3_out`, two channels | `do_filter`, the layers, `feed_img`, `fetch_result` | three SystemC threads, two FIFOs |
| Timer and tick count | `sw/main.cpp:10-28`, `sw/irq.c:41-72` | `mtime`, `mtimecmp` in two halves each, `num_ticks` | `set_next_timer_interrupt` in main and in the handler, the timer branch of the trap | interrupts hart 0, excludes and is excluded by the external handler |
| Address map and bus | `vp/main.cpp:46-126,242-315` | the options | the two assertions, decoding, the way past the bus (`use_data_dmi`) | routes every access of harts and DMA |
| Flash controller | `vp/flash.h` | block register, one-block write-back buffer, the medium | window reads and writes, write-back, destructor | a file or block device of the host |
| Ethernet device | `vp/ethernet.h`, `vp/ethernet.cpp` | `has_frame`, one frame, sizes | polling thread, `RECV_OPERATION`, `SEND_OPERATION` | tap interface of the host, interrupt 7 |
| Sensors | `vp/sensor.h`, `vp/sensor2.h` | scaler, filter, frame, a pending notification | thread, register writes | one interrupt each |
| Display | `vp/display.cpp`, `vp/display.hpp` | two frames, the active one | clear, fill, apply, `drawLine`, raw writes | a viewer behind shared memory |
| Basic timer, terminal, random source, MRAM | `vp/basic_timer.h`, `vp/terminal.h`, `vp/random_source.h`, `vp/mram.h` | next to none | pure I/O | *not modelled* |
| Weights, image, scripts | `vp/lenet_weight.h`, `hls/filter_def.h`, `sw/image.h`, Makefiles | data | none | of the weights, the sums that bound the arithmetic |

### How one image travels

A hart tests `cnt` (without a lock), takes a number under `lock`, programs the
DMA under `dma_lock` and lets it copy 1024 bytes into its accelerator. There
`write_buffer` collects sixteen rows of 64 bytes in `input_img` and tells
`do_filter` to start; `do_filter` computes, puts ten scores in `o_result` and
raises the accelerator's interrupt. The trap handler, which runs on hart 0
whatever hart waits, calls `acc_irq_handler_<h>`, which sets
`acc_completed[h]`. Hart `h`, which has been spinning on this flag, clears it,
programs the DMA again to fetch the answer, and compares it with `answer[]`.
After the loop, each hart adds its errors to `total_error`, waits at the
barrier, prints when its predecessor has, and increments the exit counter; the
last one stops the simulation.

### What is hard

- *Concurrency.* Four harts, a DMA thread, two threads per accelerator and a
  trap handler that interrupts hart 0 share memory. Harts 1.. start at once and
  reach their first `sem_wait` while hart 0 still registers handlers.
- *Lost events.* `run_event` is seen only while the DMA's thread waits for it;
  `acc_completed` is a flag, so two completions can merge into one; the PLIC's
  pending bit merges two triggers; the handler clears `mip` by hand and
  completes with 1 whatever it claimed.
- *State used after it may have changed.* The DMA reads `src` and `dst` at each
  block; `dma_lock` is released when the registers are written, not when the
  copy is over; `write_buffer` refills the `input_img` that `do_filter` reads;
  `local_buffer` is compared right after the transfer has been *requested*.
- *Blocking.* `blocking_transport` blocks inside the DMA's only thread.
- *Off by one.* `print_sem[hart_id + 1]`, the last block of a copy, the exit
  counter compared after an `amoadd`, the count of the barrier.
- *Buffer reuse* in the synthesised accelerator, where each layer's output
  goes where the input of the layer before was; windows and line buffers of which
  only a part is read anew for each output; halves of a layer at different
  offsets in different buffers.
- *Time in two halves.* `mtime` has 64 bits and a hart 32, and `main` sets the
  first tick with the function that the handler uses.
- *A host that fails.* The flash controller's transfers may end early, and its
  last block is only in a buffer when the simulation crashes.
- *Notifications that overlap.* A sensor's register write cancels and renews a
  notification that the thread, already runnable, renews as well; a frame of the
  Ethernet device waits in the only buffer while others arrive.

`PROJECT.json` lists all of these, one by one, under `hazards`, each with the
properties that would catch it, or the reason that none does yet.

### What makes each component correct

| Component | Correctness |
|---|---|
| Multi-hart program | mutexes exclude; every image number is handed out once; at most `PROCESSORS - 1` images too many; nobody leaves the barrier early; the printed sum is complete; lines in core order; exit only when all have printed |
| Semaphores | the LR/SC loops are an atomic counting semaphore |
| Interrupts | no wake-up lost, no handler called without cause, a claim never returns 0 |
| DMA | a copy copies exactly what was asked, within its range, and every start is answered |
| Accelerator | the k-th answer is that of the k-th image, whole; the input is not overwritten during a computation |
| Platform | a hart compares the answer to its own image; transfers are neither mixed nor lost; completions are not merged; the program ends |
| Timer | the clock neither stops nor ticks early |
| Address map | no access meant for a device goes to another, nor to the RAM but where the assertions do not look |
| Flash | an array of blocks; a crash costs at most the block addressed last; a failing host damages no block but those addressed; no access past the end of the medium |
| Ethernet | what the driver receives is what arrived for it: all of it, in order, whole |
| Sensors | a frame exactly `scaler` milliseconds after the frame, or the change of `scaler`, before it |
| Display | `drawLine` paints the line it was asked for |
| HLS accelerator | every layer reads activations that are still those of the layer before, and the scores come out in order; each output is computed from its own patch with its own weights; the arithmetic agrees with the virtual platform's and does not overflow |

## 2. Modules and plan

```
   Semaphore  <== refines ==  LrScSemaphore  (MCLrSc)
                                   | justifies atomic sem_wait / sem_post
                                   v
   Dma      LenetPE     Irq      Harts
    |          |         | \       |
    |          |         |  Timer  |
    |          |         |    |    |
 DmaCopy   PeStream      |  IrqDevices
    |          |         |         |
    |  +-------+---------+---------+
    +--|-------+---- Platform -----+ == refines ==> InferenceService
    |  |
 Devices (MCDevices) = DmaCopy + PeStream + Flash + Ethernet + Sensors
                       + Display + MemoryMap
                         Flash == refines ==> BlockStore

 HlsAccelerator (MCHlsAccelerator) = HlsLenet + HlsConv + Quantize
                         HlsLenet <-- extended by -- HlsTiling

 Proofs: HartsProofs  LrScProofs  IrqProofs  PeripheralProofs  HlsProofs
         HlsLenetProofs,  PlatformProofs (with HartsProofs),  and the lemmas
         about sums, induction and division they share: FoldLemmas
```

`Dma`, `LenetPE`, `Irq` and `Harts` each model one component as a set of
actions on its own variables. `DmaCopy`, `PeStream` and `IrqDevices` close the
first three with the most general environment that the component's protocol
allows, so that each can be checked on its own. `Platform` instantiates
`Dma`, `LenetPE`, `Irq` and `Harts` and connects them: an action of the platform
that touches two components is the conjunction of an action of each. `Timer`
extends `Irq` with the other branch of the trap handler; `Platform` is without
it, since a tick changes nothing the rest of the program reads.

`Devices` and `HlsAccelerator` put parts that share no state into one
specification: a variable (`subject`, `lens`) says at the start which part is
studied, and the others rest. A behaviour of the whole is a behaviour of one
part, so the composition adds states rather than multiplies them, and a part
can still be checked with a specification of its own (`MemSpec`, `StreamSpec`,
`FlashSpec`, `EthSpec`, `SensorSpec`, `DisplaySpec`, `MapSpec`, `ConvSpec`,
`QuantSpec`), as the proofs do.

Every safety invariant that a passing run checks is also a theorem (section 5).
What remains is to extend the model: the neurons' sums of products in `Quantize`,
which are an input there, and `Timer` as a part of `Platform`.

## 3. How the models correspond to the code

**Harts** has one program counter per hart, whose labels are statements of
`main`, `barrier`, the loop bodies and the tail of `bootstrap.S`. A step makes
at most one access to memory that another hart may touch. So `cur_id = cnt` and
`cnt++` are two steps, `total_error += local_error` is a load and a store
(through `reg`), and so are the test and the store of the barrier's counter; it
is the semaphores, and nothing in the model, that keep them together.
`sem_wait` and `sem_post` are single steps, which `LrScSemaphore` justifies.
Harts other than 0 start at the loop test, as the code lets them. The hardware
is arbitrary: the handler of a registered accelerator may run at any time.
`printSem` has one element more than `print_sem`, the word that the last hart
increments. Semaphores live in `.bss` and so are zero before `sem_init`.

**LrScSemaphore** has one word, `lr.w`, `sc.w` and the registers between them.
The reservation is that of RV32A, outside the repository: a store by anybody
ends it, and `sc.w` may fail without cause, which covers a trap between the
two instructions. The word wraps at `WORD`, `2^32` in the code.

**Dma** is the registers and the thread of `SimpleDMA`. A bus transaction is
two steps, read and write, with the addresses as the registers stand at that
moment. `StartRun` and `LoseRun` are the two fates of a notification. The
operations other than `NOP` and `MEMCPY` end in an assertion (`"aborted"`).

**LenetPE** represents the 64 data FIFOs as one of rows and the 10 result FIFOs
as one of answers: each has one reader and one writer, which treat all lanes
alike in the same order. The layers (`Compute`) are a function of `input_img`,
without state that outlives a computation. An answer is represented by the image it was computed
from, so that an answer to a torn image is told from that to a whole one.
`do_filter` computes, writes its result, raises its interrupt and only then
waits for the latency of the computation; the steps have this order.

**Irq** models `irq.c` and as much of the PLIC as it uses. The PLIC and the trap
logic belong to the RISC-V VP that `vp/main.cpp` links against: they are not in
the repository, are marked external in the map, and follow the RISC-V rules:
an interrupt of priority 0 is never delivered; among those of equal priority the
lowest number is claimed first; a hart is notified again only after completion.

**Timer** splits each access of `mtime` and `mtimecmp` in two, in either order,
since the order is the compiler's. `set_next_timer_interrupt` is run by `main`,
once, and by the trap handler, each with its own copy of what it has read
(`Contexts`). `carried` records that a carry from the low to the high half came
between two loads, or that a tick could hit `main` between its two stores while
the high half changes: both do upset the clock, the code does nothing against
them, and they need 2^32 ticks to happen; `TicksKeepTime` is about all other
schedules and says so. The core-local interruptor is not in the repository: it
compares, and raises cause 7.

**Flash** is `Blockbuffer` and the registers, with `SetPos` as one step that
writes back and loads. A transfer moves `w` or `r` bytes, all of them when the
host does not fail; a failed one leaves `dirty` set and a buffer of two mixed
halves, as `readBlock` and `writeBlock` do. `Destroy` is the destructor,
`PowerLoss` an end without it, `Abort` a failing assertion, and `Construct` the
next simulation on the same medium. `View` is what the program sees; `BlockStore`
says what it may rely on.

**Ethernet** keeps the frames the host holds (`tap`) and what arrived at all
(`arrived`). `Poll` is one round of the thread: it reads frames until one is for
us or the host has no more; one in which the host fails ends the simulation
(`ReadFails`). `has_frame` has no initialiser (`vp/ethernet.h:61`),
so `born` chooses its first value; what is claimed is claimed for `~born`, since
a device that finds it set never polls.

**Sensors** is both classes, which differ in the characters they draw. SystemC's
rule that the earlier of two notifications stands is `Generate`'s, and `cancel`
is what makes `WriteScaler` different (`Renotify`). The interrupt goes out in the
step that fills the frame, and has no state of its own.

**Display** has the commands of `transport` on whole pixels, with the doubled
error of `drawLine` as a recursive function over x (`Track`).

**MemoryMap** counts KiB and wraps at 2^22 of them, as `addr_t` wraps at 2^32
bytes; the ports are in the order of `vp/main.cpp`, and the bus takes the first
that fits. A master is a hart or the DMA: with `use_data_dmi` a hart finds in
`dmi_ranges` (`vp/main.cpp:196-201`) what lies in the RAM and does not ask the bus.
That range is a start and a size, and so does not wrap where `mem_end_addr` does.

**Platform** adds the wiring of `vp/main.cpp` and the program's uses of it: the
addresses of the two transfers, which memory they come from, and `local_buffer`.
The code sends the same picture ten times; the model numbers the pictures
(`Image(k)`), which the software cannot see, so that the properties can tell
a fresh answer from a stale one. A transfer that would run past the end of a
`local_buffer`, onto a hart's stack, sets `wrecked`, after which nothing is
claimed; no behaviour with the simulation's timing reaches it. Addresses are
names here; that the bus decodes them so is `MemoryMap`'s.

**HlsLenet** keeps, of each activation, its layer, its image and its index. A
neuron whose inputs are not exactly the activations of the layer before yields
`Wrong`, so that any overwriting or misplacement shows in the scores. The
window of a convolution is widened to its whole input, which asks more of the
buffers than the code needs. The two halves of FC1 and of FC2, unrolled side by
side, are interleaved arbitrarily. **HlsTiling** replaces the fully connected
layers by their `FC_PE_UNROLL` versions.

**HlsConv** has the three forms of the convolutions that keep inputs in
registers or in other buffers, with the loop counters of the code and an input
represented by its place, so that `PatchExact` compares places, whichever
buffer they are in. The addresses of
the split form are computed as the code computes them, with their different
offsets for writing and reading.

**Quantize** runs a neuron of either program on the same sums: scale, shift,
clamp, maximum and truncation, in each one's own order. A sum of products is an
input, bounded by the largest sum of magnitudes among the weights of the layer's
neurons times 128 (`WeightNorm`, computed from `hls/filter_def.h`; the weights of
`vp/lenet_weight.h` are the same).

## 4. Runs

| Run | Expect | What it shows |
|---|---|---|
| `harts` | pass | For 3 harts, every interleaving of the program with arbitrary hardware: mutual exclusion, unique numbers, the bound on `cnt`, the barrier, the sum, the printing order, the exit. |
| `lrsc` | pass | The LR/SC loops of 3 harts implement `Semaphore` on a word of 4 values, with wrap-around and spurious failures. |
| `devices` | pass | Seven parts of the virtual platform, one per behaviour. DMA: two jobs, for all sources, destinations, lengths and operations, are copied exactly and every start is answered. Accelerator: three images with the code's 16 rows and FIFOs of 16, the host sending the next one as soon as it has the last answer. Flash: implements `BlockStore`. Ethernet: every frame for us, in order, whole. Sensors: punctual. Display: lines exact. Map: every device reachable, but for what RAM takes in the two cases that `DevicesReachable` names. |
| `irq_devices` | pass | Two devices that trigger twice each at any moment, also before registration and during a handler, and a timer that runs next to them: no wake-up lost, no handler without cause, and the clock keeps time. |
| `platform` | pass | Two harts, two accelerators, DMA and interrupts at the simulation's timing: freshness of answers, undisturbed transfers, distinct completions, a clean halt, termination, and the refinement of `InferenceService`. |
| `platform_raw` | pass | What needs no assumption on timing: the registers a hart starts the DMA with are its own, no accelerator interrupts before its handler is in the table. |
| `hls_lenet` | pass | Two images through the synthesised accelerator's buffers; every output of the two convolutions in each of the window, line-buffer and split forms; the arithmetic of a neuron at the sums where it could go wrong. |
| `harts_print_sem` | violation | `print_sem[PROCESSORS]` is posted (finding 1). |
| `platform_stale` | violation | Without the timing, a stale answer is compared (finding 2). |
| `platform_dma_irq` | violation | The DMA's interrupt is never served (finding 3). |
| `hls_tiling` | violation | Wrong scores with `FC_PE_UNROLL` (finding 4). |
| `flash_blocks` | violation | Blocks past the end of a block device are accepted (finding 5). |

### Bounds, and why they suffice

- `harts`: 3 harts give a first, a last and one in between, in the barrier, in
  the print chain and at the exit; two of them can overrun the loop's bound at
  once. With `NumImages = 1`, `cnt` passes its bound by 0, 1 and 2. An answer
  shows 0 or 1 mismatch. What does not depend on these numbers is proved.
- `lrsc`: `WORD = 4` wraps after three posts; the refinement is proved for any.
- `devices`, DMA: 5 bytes of memory and lengths 0 to 5 in blocks of 2 cover no
  block, a short one, a full one, full ones and a short last one; two jobs show
  that nothing is left over. Any memory, block and number of jobs is proved.
- `devices`, accelerator: the code's own sizes; three images, so that an answer
  can be late by one or by two. Any sizes and any number of images are proved.
- `devices`, flash: two blocks of two bytes of two values, on a file, on a block
  device and without a medium. Two bytes are the least with which a transfer
  can end half way; registers, failures, crashes and restarts are not bounded.
  The refinement is proved for any sizes.
- `devices`, Ethernet: three frames of five kinds (ours, for all, our own
  broadcast, somebody else's, an unknown type) let one wait in the buffer, one in
  the host, and one be skipped in between; one frame sent, short or long. Any number
  of frames is proved.
- `devices`, sensors: a scaler of 0 to 5, with 1 to 4 legal; proved for any.
- `devices`, display: a line between any two of 5 by 5 pixels is in each octant,
  with all slopes that small; one command, since `DrawLine` does not depend on
  what was painted before. Frames of any size are proved.
- `devices`, map: five places and six sizes of RAM and four of MRAM, at, below and
  above the limits of the assertions, after the display, and with an end that wraps,
  each with and without `use_data_dmi`; any options are proved.
- `irq_devices`: two devices allow one in the handler and one pending with a lower
  or a higher number; two triggers each allow merging. A half of a time has 3
  values instead of 2^32, a period is 2 instead of 1000, and time ends at 5 (the
  clock starts at 0, or after the first carry): periods cross a carry of the
  low half in every phase, and the traps of the devices delay ticks. Any devices, and
  halves and periods of any size, are proved.
- `platform`: `Rows = 3` with FIFOs of 2 makes the accelerator block the DMA,
  which 16 rows with FIFOs of 16 never do; with 2 images and 2 harts up to three
  are taken. `platform_raw` allows every timing, also transfers that meet a full FIFO
  or run past a `local_buffer`; it asks nothing of the contents of an image, and
  makes do with one row and FIFOs of one. Any numbers of harts, images and rows
  and any depth of the FIFOs are proved.
- `hls_lenet`: sizes of 2 to 8 for layers of 10 to 1176, with uneven halves
  distinct from whole layers; two images show that buffers left full by the
  first do no harm to the second (the testbench feeds only one). The convolutions
  have their real kernel and shapes, with two output channels, the second of which
  finds what the first left. Sums are those at which a shift, a clamp or a byte
  changes, and the largest of each layer. Layers, shapes and sums of any size are
  proved.

`CHECK_DEADLOCK FALSE` appears in `platform_raw` and `platform_stale`: without
the timing, a lost start of the DMA leaves every hart spinning, which is a real
outcome there and not the question of these runs. In `devices` a
failed assertion, refused options and the bounds end a behaviour; in `hls_lenet` the end
of a loop nest does. `CopyExact`, `AllAnswered`, `EthDelivers` and `AllFetched` are
what would notice a part that stops too early. Elsewhere the end of the
program is an action (`Halted`, `Idle`, `Stopped` and the like) and any
other stop is an error.

### Fairness

Safety runs state none. `platform`: weak fairness of each hart, of the DMA's
thread, of each thread of each accelerator, of the PLIC and of the trap handler.
These are SystemC processes, and the simulator's scheduler runs every process
that can run; a hart that spins on a semaphore is one of them and needs no more
than weak fairness, since no property depends on who wins a contended semaphore.
`irq_devices` and `hls_lenet` assume the same of their threads, and of the program
that registers handlers that it goes on when it can. `devices` assumes weak
fairness of one action only, `Serve`: the DMA's thread, the accelerator's threads
with the host that feeds it, the Ethernet device's thread with the driver that
answers its interrupt. Each of their steps is progress towards what is promised,
so that it is enough that some one of them is taken while one is possible; for
the drivers it is an assumption about software outside the repository.

### The timing assumption

Nothing in the program waits for the DMA. That it works in the simulator is due
to time: a transfer of at most 1024 bytes, its start delayed by 10 ns and its
blocks by nothing, ends before the hart that wrote `OP` has executed
`sem_post(&dma_lock)`, as long as the quantum (`vp/main.cpp:136`) does not let
the hart run ahead. `Prompt` states exactly this and nothing else: `dma_lock`
is posted only when the DMA is quiescent. `PromptSpec` has it, `Spec` has not;
the table and the cfg of a run say which is used, and `platform_stale` shows that
`AnswerIsOwn` fails without it.

## 5. Proofs

The theorems hold for all constants that satisfy the assumptions named in the
modules. These say little more than that sizes are natural numbers, most of them not
zero. Each proof has the same shape: an invariant that is inductive where the
property is not (TLC had checked the invariant on a small instance first), one
lemma per action or group of actions, and a last step in temporal logic.

| Theorem | Module | Property |
|---|---|---|
| `TypeCorrect`, `InvariantHolds` | `HartsProofs` | `TypeOK`: in particular `sem_wait` never goes below zero and `j` stays in range; and the inductive invariant `IInv` |
| `MutualExclusionHolds` | `HartsProofs` | `MutualExclusion` of `lock`, `dma_lock` and `barrier_lock` |
| `UniqueIdsHold`, `CntBoundHolds` | `HartsProofs` | `UniqueIds`; `CntBound`: at most `PROCESSORS - 1` images too many |
| `BarrierHolds` | `HartsProofs` | `BarrierSafety`: nobody leaves the barrier before all have arrived and all images are taken |
| `TotalHolds`, `PrintOrderHolds`, `CleanExitHolds` | `HartsProofs` | `TotalComplete`, `PrintOrder`, `CleanExit` |
| `LrScFresh`, `LrScRefinement` | `LrScProofs` | `ReservationFresh`; `LrScSemaphore` implements `Semaphore` |
| `ClaimFinds`, `NoSpurious`, `TicksKeepTimeHolds` | `IrqProofs` | `ClaimFindsInterrupt`, `NoSpuriousCall`, `TicksKeepTime` |
| `RunsTheProgram` | `PlatformProofs` | the platform implements `Harts` |
| `ProgrammedAsUnitHolds`, `HandlerReadyHolds` | `PlatformProofs` | `ProgrammedAsUnit`, `HandlerReady`, whatever the timing |
| `AnswerIsOwnHolds`, `ImageIntactHolds`, `CompletionsDistinctHolds`, `DmaUndisturbedHolds`, `CleanHaltHolds` | `PlatformProofs` | the properties of `platform`, under `Prompt` |
| `ServiceDelivered` | `PlatformProofs` | the safety part of `DeliversService`, under `Prompt` |
| `FlashRefinement` | `PeripheralProofs` | `FlashImplementsStore` |
| `CopyExactHolds`, `AnswersMatchImagesHolds`, `EthInOrderHolds`, `Punctual`, `LineExactHolds`, `DevicesReachableHolds` | `PeripheralProofs` | `CopyExact`, `AnswersMatchImages`, `EthInOrder`, `SensorPunctual`, `LineExact`, `DevicesReachable` |
| `PatchExactHolds`, `HalvesCompleteHolds` | `HlsProofs` | `PatchExact`, `HalvesComplete` |
| `SameActivations`, `ProductsFitHolds` | `HlsProofs` | `SameAsPlatform`, `ProductsFit` |
| `ScoresRightHolds`, `InputsIntactHolds` | `HlsLenetProofs` | `ScoresRight`, `InputsIntact` |

### The program

    IInv == /\ MutexInv /\ IdInv /\ CntInv /\ BarrierInv /\ LoopInv
            /\ ReleaseInv /\ SumInv /\ PrintInv /\ ExitInv

is inductive together with `TypeOK`, for any `PROCESSORS \in Nat \ {0}`, any numbers
of images and mismatches, and arbitrary hardware. Each conjunct is shown to be kept
from those it needs (`NextIdInv`, for example, needs `MutexInv`):

- `MutexInv`. Exclusion alone is not kept by a `sem_wait`: one needs that the
  semaphore is 0 while somebody holds it, and never above 1. The difficulty is
  `sem_init(&lock, 1)`, which sets the word to 1 whatever it was, while other
  harts already wait for it. So, as long as hart 0 has not reached that call
  (`Uninitialised(m)`), the word is 0 and nobody is in the critical section.
  The proof abstracts each step to a *move* of one hart with respect to one
  mutex (`MutexMove`), shows once that a move keeps the invariant
  (`MovePreserves`), and that every step is a move (`StepIsMove`).
- `IdInv`. All numbers handed out lie below `cnt`, except that of a hart between
  its load and its store, which equals `cnt`; by `MutexInv` there is one such
  hart at most.
- `CntInv`. `cnt` plus the number of harts that have passed the loop test and
  not yet stored is at most `NumImages + PROCESSORS - 1`. A hart that passes the
  test sees `cnt < NumImages` and there are at most `PROCESSORS - 1` others.
- `LoopInv`. Whoever is past the loop has seen `cnt >= NumImages`, and `cnt`
  never decreases.
- `BarrierInv`. Until all have arrived, the counter is the number of those that
  have, no one has left and `barrier_sem` is 0; so the hart that finds
  `PROCESSORS - 1` is the last.
- `ReleaseInv`. From then on, the waiting harts and the posts made add up to
  `PROCESSORS - 1` and the posts not yet consumed: nobody is left behind, and
  nothing is left over in `barrier_sem`, which `CleanExit` says.
- `SumInv`. `total_error` is the sum of what has been added; a hart about to store
  it has read what it still is. The sum is the library's `SumFunction`, which adds
  in an order it chooses; that the order does not matter is shown in `FoldLemmas`.
- `PrintInv`. The right to print is in one place: with the hart that has
  printed last, in the next one's `print_sem`, or with the next one itself.
- `ExitInv`. The exit counter is the number of parked harts, each with a ticket
  below it.

### Semaphores and interrupts

`LrScProofs`: a register about to be stored under a valid reservation is fresh, for
any set of harts and any `WORD`, so that the successful `sc.w` is the abstract step
and every other instruction a stutter.

`IrqProofs`: the inductive invariant `IrqInv` has two parts. `Told`: while `meip` is
set, or the handler is about to claim, some enabled interrupt is pending, because
the PLIC notifies once and what it notified of stays pending until it is claimed;
it needs `hartEip` to say that no second notification comes in between.
`Accounted`: the calls for an interrupt, plus one while it is pending, plus one
while it is claimed and not yet dispatched, are at most its triggers.

`ClockInv` is about the timer. What each of the two contexts has read of `mtime` is a
time between the one it must lie past and now, since without a carry (`carried`)
two halves read at different times fit together. While `main` is between its two
stores, the high halves are zero, so that a tick of the trap handler in between
cannot be undone. From these follows, for `n` ticks counted,
`(n + 1) * DELAY <= mtimecmp <= mtime + DELAY`.

### The platform

Whatever the timing, `RawInv` is inductive: the types and `MutexInv` of `Harts`, the
handlers registered in order while nothing moves in the hardware (`RegisterInv`),
and each register of the DMA, once stored by the holder of `dma_lock`, as that
hart stored it (`ProgramInv`). From it, `RunsTheProgram`: each step of the platform
is one of `Harts` with an answer of 0 or 1 mismatch, or a stutter. So all
theorems about the program hold of the platform (`HP!`).

Under `Prompt`, `PromptInv` adds where each image is. At each label, `ImageInvOf(h)`
says how many rows of the image of hart `h` have been sent, collected, and what the
accelerator's FIFOs, `input_img`, its two threads and its interrupt look like
then: an accelerator works for its own hart only, on one image, and has been
emptied when the hart takes the next one. The DMA works for whoever stands before
`sem_post(&dma_lock)` (`DmaInv`), so that the block in its buffer is that hart's next row
or its answer (`TransferInv`). The trap handler is never entered in vain (`TrapInv`).
As all answers are right, all errors are 0 (`ErrorInv`).

`ServiceInv` adds that a hart at work has an image and that a `local_buffer` once
written holds the answer to an image taken. Under the mapping of `Platform`, every
step is then one of `InferenceService` or a stutter.

### The peripherals

- *Flash*, any numbers of blocks and bytes. `BufferInv`: the block in the buffer has
  been addressed, and as long as no transfer has failed it is on the medium, and
  equal to it when the buffer is clean. With it, `WholeAccess` shows what a step
  without a failure finds, from which an access is `Write` or `Read`, the destructor
  is `Close`, an end without it `Crash`; a step with a failure is `Degraded`.
- *DMA*, any memory, block and job. `JobInv`: the registers stay as they are while
  the thread works, and `off + n = len`. `CopyInv`: the first `off` bytes of the
  destination are what the source held at the start, the rest of the memory is
  as it was, and the buffer is the block that comes next. `ForwardSafe` is what makes
  the source of that block untouched: the destination does not begin inside what is
  still to be read, or all of it fits in one block.
- *Accelerator*, any rows, FIFOs and images. `StreamInv`: the image under way is
  being collected, or is complete and then started, computed or answered; the
  answers before it are those of the images before it.
- *Ethernet*, any frames. `TapInv`: the host's queue is the end of what has arrived.
  `FrameInv`: the frames for us among those read are those delivered and the one that
  waits, if any, and one waits exactly as long as the interrupt is pending or an
  operation outstanding.
- *Sensors*, any scalers. `age + due = scaler` is kept because `WriteScaler` and
  `Generate` restart both, and a thread that is runnable with a notification under
  way has had its scaler written in that instant.
- *Display*, any frame. `LineExact` compares `drawLine` with rounding. The doubled
  error after `k` columns is `dx - 2 * dy * s + 2 * dx * k` for `s` rows, and lies
  between 0 and `2 * dx - 1`: this determines `s`. That `Track`, the recursive
  function, has that value is an induction over x; that it exists at all is
  shown with the value as a witness. The octants are reduced to the first by
  exchanging the axes.
- *Address map*, any options. The assertions leave the MRAM below the DMA, and the RAM
  below the CLINT or above the display, where only accelerators are. RAM that does
  not wrap is the same for the bus and past it. What `DevicesReachable` excepts is
  what they do leave (section 6).

### The synthesised accelerator

`PatchExact`, for any kernel, shapes and channels: before a fill, the window holds
the patch of the output to the left, and the lines hold those of the row above, or, at
the first row, the preloaded ones two places too low. `HalvesComplete`: the places
that one channel writes are distinct and do not
touch those of another, in both halves. It assumes what the constants 14 and 1176
of the code mean for its layers (`FitsHalves`: `Kernel <= 5` and
`InChannels * 14 * 14 <= BufferSize`; the code has 5, and 6 * 196 = 1176).

`SameActivations`, for any sums: scaling is monotone, so that it commutes with the
maximum. `ProductsFitHolds` bounds each layer's largest sum times its factor.

`ScoresRight` and `InputsIntact`, for layers of any sizes that fit the buffers, any
numbers of images and scores, and FIFOs of any depth. `LayersInv` says of each layer
that its input is whole and its output complete as far as the loop has come;
`ImgInv` and `ResultInv` say that what is in the two FIFOs is what comes next in the
sequence of all words and all scores.

### Induction, and what is only model-checked

The library's induction theorems take an operator and cannot be applied here;
`FoldLemmas` states induction once as facts about *sets* (a set of numbers with 0
and all successors is `Nat`; a set of subsets of a finite set with the empty one and
with all extensions by one element contains it), from well-foundedness. A proof
by induction then defines the set of those numbers for which its claim holds.
On these rest the sum over the harts and the line's track.

What stays with TLC is liveness, which with fairness and `ENABLED` is outside what
the prover can do: `EveryStartCompletes`, `AllAnswered`, `EthDelivers`, `AllFetched`,
`NoLostInterrupt`, `Termination` and the liveness part of `DeliversService`; and the
five counterexamples of section 6.

## 6. Findings

1. **`sw/main.cpp:303`** posts `print_sem[hart_id + 1]` on every hart; the array
   has `PROCESSORS` elements, so the last hart increments the word after it.
2. **`sw/main.cpp:271`** compares `local_buffer` with nothing that waits for the
   DMA. `README.md:93` says that the result can be read through the DMA at this
   point; the program requests the read and does not wait for its end. The
   simulation's timing hides it (section 4).
3. **The DMA's interrupt** (4) is raised after each transfer, but the program
   sets priorities and handlers for 6, 8, 9 and 10 only; `README.md:82` says that
   the PLIC handles it. It stays pending from the first transfer on.
4. **`FC_PE_UNROLL`** (`hls/Lenet.cpp:926-951,1040-1066`) reads all 400 inputs of
   FC1 from `buffer_1`, whose upper half `Fused_Conv2` leaves in `buffer_3`, and
   stores the first 10 neurons of FC2 only.
5. **`vp/flash.h:117`** stores the size of a block device in bytes where the size
   of a file is stored in blocks (`vp/flash.h:126`). The program reads 512 times
   too many blocks from the size register, and the assertion `"Access Flash out of
   bounds!"` (`vp/flash.h:165`) lets accesses past the end of the medium through;
   they show whatever the buffer held before.

Noticed, and not counted as findings:

- `cnt < 10` is tested without the lock, so that up to `PROCESSORS - 1` images
  past the tenth are classified. The comments say nothing against it; `CntBound`
  says how many.
- The interrupt goes out before the latency of the computation has been spent
  (`vp/lenet.h:69-70`). `devices` shows that data stay right; simulated time
  is in no module.
- UART and first accelerator are both given interrupt 6 (`vp/main.cpp:144,165`), to
  no effect: the UART is not connected to the PLIC (`vp/main.cpp:307-315`).
- The assertion "RAM too big, would overlap memory" (`vp/main.cpp:122-123`) compares
  the start of the RAM with the display's end, although the accelerators' ranges
  follow (`vp/main.cpp:75-87`). RAM that starts there is accepted, and being the
  first port of the bus it takes every access to the accelerators it covers.
- With `use_data_dmi`, RAM that wraps around the address space, accepted since its end
  lies below the CLINT, hides from the harts whatever it covers below the wrap.
- The 16 rows of an image fit exactly in the FIFOs of `sc_fifo`'s default depth,
  so the DMA never blocks on a write; the models do not rely on it.
- `README.md:98` gives a timing model of the DMA that the code does not have.
- A carry of `mtime` between its two loads (`sw/main.cpp:10-13`), or a tick between
  the two stores of `main`'s own call while the high half changes, puts the next
  tick up to 2^32 away.
- `has_frame` has no initialiser (`vp/ethernet.h:61`); if it is found set, no frame
  is ever read. `vp/ethernet.h:97` rebases destinations by `0x80000000`, while the
  memory starts at 0 by default.
- `CONV_BUFF` makes `Fused_Buf_Conv1` read the image from `buffer_1`, while it is
  loaded into `input_img`, and `Fused_Buf_Conv2` write all its 400 outputs to
  `buffer_1`, while FC1 reads the upper half from `buffer_3`. `HlsConv` represents an
  input by its place, whichever buffer holds it.
- `vp/lenet.h:270` stores activations as ints without clamping them from above; where
  one exceeds 127, it differs from the synthesised accelerator's, which keeps
  8 bits (`SameAsPlatform` is about the others), and the bound of `ProductsFit` on
  the layer after no longer covers it.

## 7. Not modelled

- The direct transfer mode of `write_data_to_ACC`, which `_is_using_dma = true`
  never selects, and the printing of results.
- The sums of products themselves; `Conv2` and `FC2` of `hls/Lenet.cpp`,
  which nothing calls, and the layers that are commented out.
- Basic timer, terminal, random source and MRAM: a periodic interrupt, a character
  sink, `rand()` and a mapped file, with next to no state of their own.
- The layout of the display's framebuffer, which is not in the repository, and
  lines between fractions of pixels; the set-up of the tap interface and the dumps
  of frames; accesses of the flash window that span several bytes.
- Build files, scripts and data, but for the sums of weights in `Quantize`.
- Compilers, caches and weak memory: the virtual platform's harts are
  sequentially consistent, and `acc_completed`, which is not `volatile`, is read
  anew in each iteration.
- Simulated time, beyond the milliseconds of a sensor, the ticks of the timer and
  the timing assumption of section 4.
