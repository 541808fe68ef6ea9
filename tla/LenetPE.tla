------------------------------ MODULE LenetPE ------------------------------
(***************************************************************************)
(* The accelerators of vp/lenet.h, one per element of PE: the transport    *)
(* that fills and empties the FIFOs, the thread write_buffer that collects *)
(* an image, and the thread do_filter that computes.                       *)
(*                                                                         *)
(* The 64 lanes of data_fifo and the 10 lanes of o_result are filled and   *)
(* emptied lane by lane in the same order by one writer and one reader     *)
(* each, so one FIFO of whole rows and one of whole answers stand for      *)
(* them.  The five layers are a function of the image they find in         *)
(* input_img: an answer is represented by that image.                      *)
(***************************************************************************)
EXTENDS Integers, Sequences

CONSTANTS PE,          \* the accelerators
          Rows,        \* 64-byte rows of an image (16 in the code)
          FifoDepth,   \* capacity of an sc_fifo (16 in the code)
          NoRow        \* contents of input_img before the first image

ASSUME RowsAssumption == Rows \in Nat \ {0}
ASSUME FifoDepthAssumption == FifoDepth \in Nat \ {0}

VARIABLES dataFifo,     \* rows pushed and not yet collected
          row,          \* rows of the current image collected: i of write_buffer
          inputImg,     \* input_img, row by row
          startFifo,    \* starts in compute_start_fifo
          filter,       \* what do_filter does next
          scores,       \* fc3_out, as the image it was computed from
          resultFifo    \* answers in o_result

peVars == <<dataFifo, row, inputImg, startFifo, filter, scores, resultFifo>>

RowIndex == 0 .. Rows - 1

PeInit ==
  /\ dataFifo = [p \in PE |-> <<>>]
  /\ row = [p \in PE |-> 0]
  /\ inputImg = [p \in PE |-> [i \in RowIndex |-> NoRow]]
  /\ startFifo = [p \in PE |-> 0]
  /\ filter = [p \in PE |-> "idle"]
  /\ scores = [p \in PE |-> [i \in RowIndex |-> NoRow]]
  /\ resultFifo = [p \in PE |-> <<>>]

-----------------------------------------------------------------------------
(* blocking_transport, called by the bus master                            *)

\* TLM_WRITE_COMMAND: 64 bytes go into the lanes, at whatever address.
PushRow(p, data) ==
  /\ Len(dataFifo[p]) < FifoDepth
  /\ dataFifo' = [dataFifo EXCEPT ![p] = Append(@, data)]
  /\ UNCHANGED <<row, inputImg, startFifo, filter, scores, resultFifo>>

\* TLM_READ_COMMAND at the result address: blocks until there is an answer.
PopResult(p) ==
  /\ resultFifo[p] # <<>>
  /\ resultFifo' = [resultFifo EXCEPT ![p] = Tail(@)]
  /\ UNCHANGED <<dataFifo, row, inputImg, startFifo, filter, scores>>

-----------------------------------------------------------------------------
(* write_buffer                                                            *)

CollectRow(p) ==
  /\ row[p] < Rows
  /\ dataFifo[p] # <<>>
  /\ inputImg' = [inputImg EXCEPT ![p][row[p]] = Head(dataFifo[p])]
  /\ dataFifo' = [dataFifo EXCEPT ![p] = Tail(@)]
  /\ row' = [row EXCEPT ![p] = @ + 1]
  /\ UNCHANGED <<startFifo, filter, scores, resultFifo>>

\* Mutant of StartCompute: the start goes out one row early.
StartComputeEarly(p) ==
  /\ row[p] = Rows - 1
  /\ startFifo[p] < FifoDepth
  /\ startFifo' = [startFifo EXCEPT ![p] = @ + 1]
  /\ row' = [row EXCEPT ![p] = 0]
  /\ UNCHANGED <<dataFifo, inputImg, filter, scores, resultFifo>>

\* compute_start_fifo.write(1), and on to the next image at once.
StartCompute(p) ==
  /\ row[p] = Rows
  /\ startFifo[p] < FifoDepth
  /\ startFifo' = [startFifo EXCEPT ![p] = @ + 1]
  /\ row' = [row EXCEPT ![p] = 0]
  /\ UNCHANGED <<dataFifo, inputImg, filter, scores, resultFifo>>

-----------------------------------------------------------------------------
(* do_filter                                                               *)

ReadStart(p) ==
  /\ filter[p] = "idle"
  /\ startFifo[p] > 0
  /\ startFifo' = [startFifo EXCEPT ![p] = @ - 1]
  /\ filter' = [filter EXCEPT ![p] = "compute"]
  /\ UNCHANGED <<dataFifo, row, inputImg, scores, resultFifo>>

\* Conv1 to FC3, in zero simulated time, on what input_img holds now.
Compute(p) ==
  /\ filter[p] = "compute"
  /\ scores' = [scores EXCEPT ![p] = inputImg[p]]
  /\ filter' = [filter EXCEPT ![p] = "result"]
  /\ UNCHANGED <<dataFifo, row, inputImg, startFifo, resultFifo>>

\* write_result blocks while o_result is full; then the interrupt is raised.
WriteResult(p) ==
  /\ filter[p] = "result"
  /\ Len(resultFifo[p]) < FifoDepth
  /\ resultFifo' = [resultFifo EXCEPT ![p] = Append(@, scores[p])]
  /\ filter' = [filter EXCEPT ![p] = "latency"]
  /\ UNCHANGED <<dataFifo, row, inputImg, startFifo, scores>>

\* Mutant of LatencyOver: the wait never ends.
LatencyForever(p) == filter[p] = "latency" /\ UNCHANGED peVars

\* Only now does the time that the computation takes pass.
LatencyOver(p) ==
  /\ filter[p] = "latency"
  /\ filter' = [filter EXCEPT ![p] = "idle"]
  /\ UNCHANGED <<dataFifo, row, inputImg, startFifo, scores, resultFifo>>

WriteBuffer(p) == CollectRow(p) \/ StartCompute(p)
DoFilter(p) == ReadStart(p) \/ Compute(p) \/ WriteResult(p) \/ LatencyOver(p)

\* No image is on its way through accelerator p.
Drained(p) ==
  /\ dataFifo[p] = <<>> /\ row[p] = 0 /\ startFifo[p] = 0
  /\ filter[p] \in {"idle", "latency"} /\ resultFifo[p] = <<>>
=============================================================================
