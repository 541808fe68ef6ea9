------------------------------ MODULE HlsConv ------------------------------
(***************************************************************************)
(* How the convolution and pooling loops of hls/Lenet.cpp get at their     *)
(* inputs.  Besides the plain loops (see HlsLenet) the source has three    *)
(* forms that keep part of the input in registers or in other buffers:     *)
(*   window  a square of Kernel + 1 by Kernel + 1 inputs that moves right  *)
(*           by two (Fused_Buf_Conv1, Fused_Buf_Conv2)                     *)
(*   lines   Kernel + 1 lines of the input that move down by two           *)
(*           (Fused_LineBuf_Conv1, Fused_LineBuf_Conv2)                    *)
(*   split   layer one leaves its upper and lower lines, with an overlap,  *)
(*           in two buffers for the two halves of layer two                *)
(*           (Fused_Conv1_1, _2 and Fused_Conv2_1, _2)                     *)
(* An input is represented by its place; all input channels are treated    *)
(* alike, and one stands for them but in the addresses of `split`.         *)
(***************************************************************************)
EXTENDS Integers

CONSTANTS Kernel,       \* 5
          Shapes,       \* rows and columns of the pooled output: 14x14, 5x5
          OutChannels,  \* output channels explored
          InChannels    \* channels between the layers: 6

ASSUME ConvAssumption ==
  /\ Kernel \in Nat \ {0}
  /\ \A s \in Shapes : s.rows \in Nat \ {0} /\ s.cols \in Nat \ {0}
  /\ OutChannels \in Nat \ {0} /\ InChannels \in Nat \ {0}

Forms == {"window", "lines", "split"}
Side == 0 .. Kernel

VARIABLES form, shape,     \* which loop nest runs, on which layer
          step,            \* what it does next
          m, h, w,         \* its counters: output channel, row and column
          weights,         \* the output channel whose weights are loaded
          window, lines,   \* buffer_conv_act, and line_buffer or line_buffer_2
          halves           \* buffer_2 and buffer_4

convVars == <<form, shape, step, m, h, w, weights, window, lines, halves>>

At(y, x) == <<y, x>>
Nowhere == At(-1, -1)
LineLength == 2 * shape.cols + Kernel - 1
Line(y) == [x \in 0 .. LineLength - 1 |-> At(y, x)]

\* Where the counters of a loop nest begin.
FirstStep(f) == IF f = "split" THEN "write" ELSE "preload"

ConvInit ==
  /\ form \in Forms /\ shape \in Shapes
  /\ step = FirstStep(form)
  /\ m = 0 /\ h = 0 /\ w = 0
  /\ weights = -1
  /\ window = [i \in Side |-> [j \in Side |-> Nowhere]]
  /\ lines = [i \in Side |-> [x \in 0 .. LineLength - 1 |-> Nowhere]]
  /\ halves = [half \in {"upper", "lower"} |-> <<>>]

-----------------------------------------------------------------------------
(* Before the rows of an output channel                                    *)

\* Fused_Buf_Conv: the weights of the channel.
LoadWeights ==
  /\ form = "window" /\ step = "preload"
  /\ weights' = m
  /\ step' = "fill"
  /\ UNCHANGED <<form, shape, m, h, w, window, lines, halves>>

\* Mutant of PreloadLines: the lines go where they belong after the shift.
PreloadLinesUnshifted ==
  /\ form = "lines" /\ step = "preload"
  /\ lines' = [i \in Side |-> IF i <= Kernel - 2 THEN Line(i) ELSE lines[i]]
  /\ weights' = m
  /\ step' = "fill"
  /\ UNCHANGED <<form, shape, m, h, w, window, halves>>

\* Fused_LineBuf_Conv: the first lines, two places too low.
PreloadLines ==
  /\ form = "lines" /\ step = "preload"
  /\ lines' = [i \in Side |-> IF i >= 2 THEN Line(i - 2) ELSE lines[i]]
  /\ weights' = m
  /\ step' = "fill"
  /\ UNCHANGED <<form, shape, m, h, w, window, halves>>

-----------------------------------------------------------------------------
(* Before an output or a row of outputs                                    *)

\* Mutant of FillWindow: the two new columns go one place too far left.
FillWindowShort ==
  /\ form = "window" /\ step = "fill"
  /\ window' = [i \in Side |-> [j \in Side |->
                  IF w > 0 /\ j < Kernel - 1 THEN window[i][j + 1]
                  ELSE At(2 * h + i, 2 * w + j)]]
  /\ step' = "mac"
  /\ UNCHANGED <<form, shape, m, h, w, weights, lines, halves>>

\* In the first column everything is read, then only the two new columns.
FillWindow ==
  /\ form = "window" /\ step = "fill"
  /\ window' = [i \in Side |-> [j \in Side |->
                  IF w > 0 /\ j < Kernel - 1 THEN window[i][j + 2]
                  ELSE At(2 * h + i, 2 * w + j)]]
  /\ step' = "mac"
  /\ UNCHANGED <<form, shape, m, h, w, weights, lines, halves>>

\* All lines move up by two, and the last two are read.
ShiftLines ==
  /\ form = "lines" /\ step = "fill"
  /\ lines' = [i \in Side |->
                 IF i < Kernel - 1 THEN lines[i + 2] ELSE Line(2 * h + i)]
  /\ step' = "mac"
  /\ UNCHANGED <<form, shape, m, h, w, weights, window, halves>>

-----------------------------------------------------------------------------
(* The multiply-accumulate loops of one output, and on to the next         *)

NextColumn ==
  /\ w + 1 < shape.cols
  /\ w' = w + 1 /\ UNCHANGED <<h, m>>
  /\ step' = IF form = "window" THEN "fill" ELSE "mac"

NextRow ==
  /\ w + 1 = shape.cols /\ h + 1 < shape.rows
  /\ w' = 0 /\ h' = h + 1 /\ UNCHANGED m
  /\ step' = "fill"

NextChannel ==
  /\ w + 1 = shape.cols /\ h + 1 = shape.rows /\ m + 1 < OutChannels
  /\ w' = 0 /\ h' = 0 /\ m' = m + 1
  /\ step' = "preload"

LastOutput ==
  /\ w + 1 = shape.cols /\ h + 1 = shape.rows /\ m + 1 = OutChannels
  /\ step' = "done" /\ UNCHANGED <<w, h, m>>

Mac ==
  /\ step = "mac"
  /\ NextColumn \/ NextRow \/ NextChannel \/ LastOutput
  /\ UNCHANGED <<form, shape, weights, window, lines, halves>>

-----------------------------------------------------------------------------
(* Two halves                                                              *)

SplitRow == 3    \* the first output row of layer two's lower half
Upper == 0 .. 9  \* the lines layer one leaves in buffer_2
Lower == 6 .. 13 \* and in buffer_4
Columns == 0 .. 13
BufferSize == 1176

\* Mutant of StoredAt: lines of the lower half are counted from its first.
StoredAtFromFirst(half, c, y, x) ==
  IF half = "upper" THEN c * 10 * 14 + y * 14 + x ELSE c * 8 * 14 + (y - 6) * 14 + x

\* Where layer one puts line y of channel c: the lower half keeps its line
\* numbers, so that its channels begin six lines late.
StoredAt(half, c, y, x) ==
  IF half = "upper" THEN c * 10 * 14 + y * 14 + x ELSE c * 8 * 14 + y * 14 + x

\* Where layer two looks for it.
FoundAt(half, c, y, x) ==
  IF half = "upper" THEN c * 10 * 14 + y * 14 + x ELSE c * 14 * 8 + y * 14 + x

LinesOf(half) == IF half = "upper" THEN Upper ELSE Lower

\* The buffer of a half after channel m has been written to it.
WithChannel(half) ==
  LET new == [p \in LinesOf(half) \X Columns |-> StoredAt(half, m, p[1], p[2])]
      places == {new[p] : p \in DOMAIN new}
      Wrote(a) == CHOOSE p \in DOMAIN new : new[p] = a
  IN  [a \in DOMAIN halves[half] \cup places |->
         IF a \in places THEN <<m, Wrote(a)>> ELSE halves[half][a]]

\* Layer one writes channel m to both halves.
WriteHalves ==
  /\ form = "split" /\ step = "write"
  /\ halves' = [half \in {"upper", "lower"} |-> WithChannel(half)]
  /\ \/ m + 1 < InChannels /\ m' = m + 1 /\ UNCHANGED step
     \/ m + 1 = InChannels /\ m' = 0 /\ step' = "read"
  /\ UNCHANGED <<form, shape, h, w, weights, window, lines>>

\* Layer two computes the rows of both halves of output channel m.
ReadHalves ==
  /\ form = "split" /\ step = "read"
  /\ \/ m + 1 < OutChannels /\ m' = m + 1 /\ UNCHANGED step
     \/ m + 1 = OutChannels /\ step' = "done" /\ UNCHANGED m
  /\ UNCHANGED <<form, shape, h, w, weights, window, lines, halves>>

ConvNext ==
  \/ LoadWeights \/ PreloadLines \/ FillWindow \/ ShiftLines \/ Mac
  \/ WriteHalves \/ ReadHalves

ConvSpec == ConvInit /\ [][ConvNext]_convVars

-----------------------------------------------------------------------------
(* Properties                                                              *)

\* Every output is computed from its own patch of the input, and with the
\* weights of its own channel, although most of the patch was left behind by
\* the output before (hls/Lenet.cpp:337-461 and 704-846).
PatchExact ==
  step = "mac" =>
    /\ weights = m
    /\ \A i, j \in Side :
         At(2 * h + i, 2 * w + j) = IF form = "window" THEN window[i][j] ELSE lines[i][2 * w + j]

\* Each half of layer two finds all the lines it needs, with the addresses it
\* computes, in the buffer it reads (hls/Lenet.cpp:243-335, 560-656).
HalvesComplete ==
  step = "read" =>
    \A half \in {"upper", "lower"}, c \in 0 .. InChannels - 1, x \in Columns :
      \A row \in IF half = "upper" THEN 0 .. SplitRow - 1 ELSE SplitRow .. 4 :
        \A y \in 2 * row .. 2 * row + Kernel :
          LET a == FoundAt(half, c, y, x)
          IN  a < BufferSize /\ a \in DOMAIN halves[half] /\ halves[half][a] = <<c, <<y, x>>>>
=============================================================================
