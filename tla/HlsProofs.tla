------------------------------ MODULE HlsProofs ------------------------------
(***************************************************************************)
(* Theorems about the synthesised accelerator.                             *)
(***************************************************************************)
EXTENDS HlsConv, Quantize, TLAPS

(***************************************************************************)
(* Whatever the kernel, the shapes and the number of output channels, the  *)
(* window and the line-buffer forms feed every output its own patch.       *)
(***************************************************************************)

\* The counters stay in their loops, and where the loop nests can be.
CounterInv ==
  /\ form \in Forms /\ shape \in Shapes
  /\ m \in Nat /\ h \in 0 .. shape.rows - 1 /\ w \in 0 .. shape.cols - 1
  /\ step \in IF form = "split" THEN {"write", "read", "done"}
                                ELSE {"preload", "fill", "mac", "done"}
  /\ step = "preload" => h = 0 /\ w = 0
  /\ step \in {"fill", "mac"} => weights = m

\* Before it is filled, the window shows the patch of the output to the left;
\* afterwards its own.
WindowInv ==
  form = "window" =>
    /\ step = "fill" /\ w > 0 =>
         \A i, j \in Side : window[i][j] = At(2 * h + i, 2 * (w - 1) + j)
    /\ step = "mac" => \A i, j \in Side : window[i][j] = At(2 * h + i, 2 * w + j)

\* Before they are shifted, the lines from the third on are two rows behind.
LinesInv ==
  form = "lines" =>
    /\ step = "fill" => \A i \in Side : i >= 2 => lines[i] = Line(2 * h - 2 + i)
    /\ step = "mac" => \A i \in Side : lines[i] = Line(2 * h + i)

PatchInv == CounterInv /\ WindowInv /\ LinesInv

-----------------------------------------------------------------------------

LEMMA ShapeSizes ==
  ASSUME shape \in Shapes
  PROVE  shape.rows \in Nat \ {0} /\ shape.cols \in Nat \ {0}
BY ConvAssumption

LEMMA InitPatch == ConvInit => PatchInv
<1> SUFFICES ASSUME ConvInit PROVE PatchInv
  OBVIOUS
<1>1. CounterInv
  BY ShapeSizes DEF ConvInit, CounterInv, FirstStep, Forms
<1>2. WindowInv /\ LinesInv
  BY DEF ConvInit, WindowInv, LinesInv, FirstStep
<1> QED
  BY <1>1, <1>2 DEF PatchInv

\* Before the rows of a channel: weights, or the first lines.
LEMMA PreloadStep ==
  ASSUME PatchInv, LoadWeights \/ PreloadLines
  PROVE  PatchInv'
<1> USE DEF LoadWeights, PreloadLines
<1>1. CounterInv'
  BY DEF PatchInv, CounterInv
<1>2. WindowInv'
  BY DEF PatchInv, CounterInv, WindowInv
<1>3. LinesInv'
  <2> SUFFICES ASSUME form = "lines", NEW i \in Side, i >= 2
               PROVE  lines'[i] = Line(2 * h - 2 + i)
    BY DEF PatchInv, CounterInv, LinesInv, Line, LineLength
  <2>1. lines'[i] = Line(i - 2)
    BY DEF PatchInv, CounterInv
  <2>2. i - 2 = 2 * h - 2 + i
    BY DEF PatchInv, CounterInv, Side
  <2> QED
    BY <2>1, <2>2
<1> QED
  BY <1>1, <1>2, <1>3 DEF PatchInv

\* The window moves right: what it keeps is what the new patch shares.
LEMMA FillStep ==
  ASSUME PatchInv, FillWindow
  PROVE  PatchInv'
<1> USE DEF FillWindow
<1>1. CounterInv'
  BY DEF PatchInv, CounterInv
<1>2. ASSUME NEW i \in Side, NEW j \in Side
      PROVE  window'[i][j] = At(2 * h + i, 2 * w + j)
  <2>1. CASE w > 0 /\ j < Kernel - 1
    <3>1. window'[i][j] = window[i][j + 2] /\ j + 2 \in Side
      BY <2>1, ConvAssumption DEF Side
    <3>2. window[i][j + 2] = At(2 * h + i, 2 * (w - 1) + (j + 2))
      BY <2>1, <3>1 DEF PatchInv, WindowInv
    <3>3. w \in Int /\ j \in Int
      BY ShapeSizes DEF PatchInv, CounterInv, Side
    <3>4. 2 * (w - 1) + (j + 2) = 2 * w + j
      BY <3>3
    <3> QED
      BY <3>1, <3>2, <3>4
  <2>2. CASE ~(w > 0 /\ j < Kernel - 1)
    BY <2>2
  <2> QED
    BY <2>1, <2>2
<1>3. WindowInv'
  BY <1>2 DEF WindowInv, At
<1>4. LinesInv'
  BY DEF LinesInv
<1> QED
  BY <1>1, <1>3, <1>4 DEF PatchInv

\* The lines move up: the two last ones are read, the others are kept.
LEMMA ShiftStep ==
  ASSUME PatchInv, ShiftLines
  PROVE  PatchInv'
<1> USE DEF ShiftLines
<1>1. CounterInv'
  BY DEF PatchInv, CounterInv
<1>2. ASSUME NEW i \in Side
      PROVE  lines'[i] = Line(2 * h + i)
  <2>1. CASE i < Kernel - 1
    <3>1. lines'[i] = lines[i + 2] /\ i + 2 \in Side /\ i + 2 >= 2
      BY <2>1, ConvAssumption DEF Side
    <3>2. lines[i + 2] = Line(2 * h - 2 + (i + 2))
      BY <3>1 DEF PatchInv, LinesInv
    <3>3. 2 * h - 2 + (i + 2) = 2 * h + i
      BY ShapeSizes DEF PatchInv, CounterInv, Side
    <3> QED
      BY <3>1, <3>2, <3>3
  <2>2. CASE ~(i < Kernel - 1)
    BY <2>2
  <2> QED
    BY <2>1, <2>2
<1>3. LinesInv'
  BY <1>2 DEF LinesInv, Line, LineLength
<1>4. WindowInv'
  BY DEF WindowInv
<1> QED
  BY <1>1, <1>3, <1>4 DEF PatchInv

\* On to the next column, row or channel.
LEMMA MacStep ==
  ASSUME PatchInv, Mac
  PROVE  PatchInv'
<1> USE DEF Mac, NextColumn, NextRow, NextChannel, LastOutput
<1>1. CounterInv'
  BY ShapeSizes DEF PatchInv, CounterInv, Forms
<1>2. WindowInv'
  <2>1. CASE NextColumn
    BY <2>1, ShapeSizes DEF PatchInv, CounterInv, WindowInv, At
  <2>2. CASE NextRow \/ NextChannel \/ LastOutput
    BY <2>2, ShapeSizes DEF PatchInv, CounterInv, WindowInv
  <2> QED
    BY <2>1, <2>2
<1>3. LinesInv'
  <2> SUFFICES ASSUME form = "lines" PROVE LinesInv'
    BY DEF LinesInv
  <2>1. CASE NextColumn
    BY <2>1 DEF PatchInv, LinesInv, Line, LineLength
  <2>2. CASE NextRow
    <3>1. \A i \in Side : 2 * h' - 2 + i = 2 * h + i
      BY <2>2, ShapeSizes DEF PatchInv, CounterInv, Side
    <3>2. \A i \in Side : lines'[i] = Line(2 * h' - 2 + i)
      BY <3>1 DEF PatchInv, LinesInv
    <3> QED
      BY <2>2, <3>2 DEF LinesInv, Line, LineLength
  <2>3. CASE NextChannel \/ LastOutput
    BY <2>3 DEF LinesInv
  <2> QED
    BY <2>1, <2>2, <2>3
<1> QED
  BY <1>1, <1>2, <1>3 DEF PatchInv

\* The split form touches neither window nor lines.
LEMMA SplitStep ==
  ASSUME PatchInv, WriteHalves \/ ReadHalves \/ UNCHANGED convVars
  PROVE  PatchInv'
<1>1. CASE UNCHANGED convVars
  BY <1>1 DEF PatchInv, CounterInv, WindowInv, LinesInv, Line, LineLength, convVars
<1>2. CASE WriteHalves \/ ReadHalves
  <2>1. /\ form = "split" /\ UNCHANGED <<form, shape, h, w>>
        /\ m' \in Nat /\ step' \in {"write", "read", "done"}
    BY <1>2, ConvAssumption DEF WriteHalves, ReadHalves, PatchInv, CounterInv
  <2>2. CounterInv'
    BY <2>1 DEF PatchInv, CounterInv
  <2>3. WindowInv' /\ LinesInv'
    BY <2>1 DEF WindowInv, LinesInv
  <2> QED
    BY <2>2, <2>3 DEF PatchInv
<1> QED
  BY <1>1, <1>2

LEMMA PatchInvariant == ConvSpec => []PatchInv
<1>1. PatchInv /\ [ConvNext]_convVars => PatchInv'
  BY PreloadStep, FillStep, ShiftStep, MacStep, SplitStep DEF ConvNext
<1> QED
  BY InitPatch, <1>1, PTL DEF ConvSpec

\* Every output of the window and line-buffer forms is computed from its own
\* patch and with the weights of its own channel.
THEOREM PatchExactHolds == ConvSpec => []PatchExact
<1>1. PatchInv => PatchExact
  <2> SUFFICES ASSUME PatchInv, step = "mac"
               PROVE  /\ weights = m
                      /\ \A i, j \in Side :
                           At(2 * h + i, 2 * w + j) =
                             IF form = "window" THEN window[i][j] ELSE lines[i][2 * w + j]
    BY DEF PatchExact
  <2>1. CASE form = "window"
    BY <2>1 DEF PatchInv, CounterInv, WindowInv
  <2>2. CASE form = "lines"
    <3> SUFFICES ASSUME NEW i \in Side, NEW j \in Side
                 PROVE  At(2 * h + i, 2 * w + j) = lines[i][2 * w + j]
      BY <2>2 DEF PatchInv, CounterInv
    <3>1. lines[i] = Line(2 * h + i)
      BY <2>2 DEF PatchInv, LinesInv
    <3>2. 2 * w + j \in 0 .. LineLength - 1
      BY ShapeSizes, ConvAssumption DEF PatchInv, CounterInv, Side, LineLength
    <3> QED
      BY <3>1, <3>2 DEF Line
  <2> QED
    BY <2>1, <2>2 DEF PatchInv, CounterInv, Forms
<1> QED
  BY <1>1, PatchInvariant, PTL

-----------------------------------------------------------------------------
(***************************************************************************)
(* The halves of the split form are complete, provided kernel and channels *)
(* fit the buffers.                                                        *)
(***************************************************************************)

\* The code's kernels and layers fit the halves it was given.
FitsHalves == Kernel <= 5 /\ InChannels * 14 * 14 <= BufferSize

HalfNames == {"upper", "lower"}
Places(half) == LinesOf(half) \X Columns
Place(half, c, p) == StoredAt(half, c, p[1], p[2])

\* Channels of layer one that are in both halves.
Written == IF step = "write" THEN m ELSE InChannels

HalvesInv ==
  form = "split" =>
    /\ step = "write" => m < InChannels
    /\ DOMAIN halves = HalfNames
    /\ \A half \in HalfNames, c \in Nat : c < Written =>
         \A p \in Places(half) :
            /\ Place(half, c, p) \in DOMAIN halves[half]
            /\ halves[half][Place(half, c, p)] = <<c, p>>

\* No two activations have the same place in a half.
LEMMA PlacesApart ==
  ASSUME NEW half \in HalfNames, NEW c \in Nat, NEW d \in Nat,
         NEW p \in Places(half), NEW q \in Places(half), Place(half, c, p) = Place(half, d, q)
  PROVE  c = d /\ p = q
<1>1. PICK y, x : p = <<y, x>> /\ y \in LinesOf(half) /\ x \in Columns
  BY DEF Places
<1>2. PICK z, v : q = <<z, v>> /\ z \in LinesOf(half) /\ v \in Columns
  BY DEF Places
<1>3. StoredAt(half, c, y, x) = StoredAt(half, d, z, v)
  BY <1>1, <1>2 DEF Place
<1>4. CASE half = "upper"
  BY <1>1, <1>2, <1>3, <1>4, SMT DEF StoredAt, LinesOf, Upper, Columns
<1>5. CASE half = "lower"
  BY <1>1, <1>2, <1>3, <1>5, SMT DEF StoredAt, LinesOf, Lower, Columns
<1> QED
  BY <1>4, <1>5 DEF HalfNames

\* Channel m goes to its places and leaves the others alone.
LEMMA ChannelWritten ==
  ASSUME NEW half \in HalfNames, m \in Nat
  PROVE  /\ \A p \in Places(half) :
              /\ Place(half, m, p) \in DOMAIN WithChannel(half)
              /\ WithChannel(half)[Place(half, m, p)] = <<m, p>>
         /\ \A c \in Nat : c # m =>
              \A p \in Places(half) : Place(half, c, p) \in DOMAIN halves[half] =>
                /\ Place(half, c, p) \in DOMAIN WithChannel(half)
                /\ WithChannel(half)[Place(half, c, p)] = halves[half][Place(half, c, p)]
<1> DEFINE new == [p \in Places(half) |-> Place(half, m, p)]
           places == {new[p] : p \in DOMAIN new}
           Wrote(a) == CHOOSE p \in DOMAIN new : new[p] = a
           after == [a \in DOMAIN halves[half] \cup places |->
                       IF a \in places THEN <<m, Wrote(a)>> ELSE halves[half][a]]
<1>1. WithChannel(half) = after
  BY DEF WithChannel, Places, Place
<1>2. ASSUME NEW p \in Places(half)
      PROVE  Place(half, m, p) \in places /\ Wrote(Place(half, m, p)) = p
  <2>1. new[p] = Place(half, m, p) /\ p \in DOMAIN new
    OBVIOUS
  <2>2. \A q \in DOMAIN new : new[q] = Place(half, m, p) => q = p
    BY PlacesApart
  <2> QED
    BY <2>1, <2>2
<1>3. ASSUME NEW c \in Nat, c # m, NEW p \in Places(half)
      PROVE  Place(half, c, p) \notin places
  BY <1>3, PlacesApart
<1> HIDE DEF places, Wrote
<1> QED
  BY <1>1, <1>2, <1>3

LEMMA InitHalves == ConvInit => HalvesInv
<1> SUFFICES ASSUME ConvInit, form = "split" PROVE HalvesInv
  BY DEF HalvesInv
<1>1. step = "write" /\ m = 0 /\ Written = 0
  BY DEF ConvInit, FirstStep, Written
<1>2. m < InChannels
  BY <1>1, ConvAssumption
<1>3. DOMAIN halves = HalfNames
  BY DEF ConvInit, HalfNames
<1>4. ~(\E c \in Nat : c < Written)
  BY <1>1
<1> QED
  BY <1>1, <1>2, <1>3, <1>4 DEF HalvesInv

LEMMA NextHalves ==
  ASSUME PatchInv, HalvesInv, [ConvNext]_convVars
  PROVE  HalvesInv'
<1> USE DEF HalvesInv
<1>1. CASE WriteHalves
  <2>1. /\ form = "split" /\ step = "write" /\ m \in Nat /\ m < InChannels /\ InChannels \in Nat
        /\ form' = form
        /\ halves' = [half \in HalfNames |-> WithChannel(half)]
    BY <1>1, ConvAssumption DEF WriteHalves, PatchInv, CounterInv, HalfNames
  <2>2. /\ Written' = m + 1 /\ Written = m
        /\ step' = "write" => m' < InChannels
    BY <1>1, <2>1 DEF WriteHalves, Written
  <2>3. ASSUME NEW half \in HalfNames, NEW c \in Nat, c < m + 1, NEW p \in Places(half)
        PROVE  /\ Place(half, c, p) \in DOMAIN halves'[half]
               /\ halves'[half][Place(half, c, p)] = <<c, p>>
    <3>1. halves'[half] = WithChannel(half)
      BY <2>1
    <3>2. CASE c = m
      BY <2>1, <3>1, <3>2, ChannelWritten
    <3>3. CASE c # m
      <4>1. c < m
        BY <2>1, <2>3, <3>3
      <4>2. /\ Place(half, c, p) \in DOMAIN halves[half]
            /\ halves[half][Place(half, c, p)] = <<c, p>>
        BY <2>1, <2>2, <4>1
      <4> QED
        BY <2>1, <3>1, <3>3, <4>2, ChannelWritten
    <3> QED
      BY <3>2, <3>3
  <2> QED
    BY <2>1, <2>2, <2>3
<1>2. CASE ReadHalves
  BY <1>2 DEF ReadHalves, Written
<1>3. CASE form # "split" /\ UNCHANGED form
  BY <1>3
<1>4. CASE UNCHANGED convVars
  BY <1>4 DEF convVars, Written
<1>5. LoadWeights \/ PreloadLines \/ FillWindow \/ ShiftLines \/ Mac =>
        form # "split" /\ UNCHANGED form
  BY DEF LoadWeights, PreloadLines, FillWindow, ShiftLines, Mac, PatchInv, CounterInv
<1> QED
  BY <1>1, <1>2, <1>3, <1>4, <1>5 DEF ConvNext

LEMMA HalvesFound ==
  ASSUME FitsHalves, PatchInv, HalvesInv
  PROVE  HalvesComplete
<1> SUFFICES ASSUME step = "read", NEW half \in HalfNames, NEW c \in 0 .. InChannels - 1,
                    NEW x \in Columns,
                    NEW row \in IF half = "upper" THEN 0 .. SplitRow - 1 ELSE SplitRow .. 4,
                    NEW y \in 2 * row .. 2 * row + Kernel
             PROVE  /\ FoundAt(half, c, y, x) < BufferSize
                    /\ FoundAt(half, c, y, x) \in DOMAIN halves[half]
                    /\ halves[half][FoundAt(half, c, y, x)] = <<c, <<y, x>>>>
  BY DEF HalvesComplete, HalfNames
<1>1. form = "split" /\ Written = InChannels
  BY DEF PatchInv, CounterInv, Written
<1>2. /\ c \in Nat /\ c < InChannels /\ InChannels \in Nat /\ InChannels <= 6
      /\ Kernel \in Nat /\ Kernel <= 5 /\ x \in 0 .. 13
  BY ConvAssumption DEF FitsHalves, BufferSize, Columns
<1>3. y \in LinesOf(half)
  BY <1>2 DEF LinesOf, Upper, Lower, SplitRow, HalfNames
<1>4. FoundAt(half, c, y, x) = Place(half, c, <<y, x>>)
  BY <1>2, <1>3 DEF FoundAt, Place, StoredAt
<1>5. FoundAt(half, c, y, x) < BufferSize
  BY <1>2, <1>3, SMT DEF FoundAt, BufferSize, LinesOf, Upper, Lower
<1>6. <<y, x>> \in Places(half)
  BY <1>3 DEF Places
<1> QED
  BY <1>1, <1>2, <1>4, <1>5, <1>6 DEF HalvesInv

\* Each half of layer two finds every input line it needs, whole and of the
\* right channel, where it looks for it.
THEOREM HalvesCompleteHolds ==
  ASSUME FitsHalves
  PROVE  ConvSpec => []HalvesComplete
<1>1. ConvSpec => []HalvesInv
  BY PatchInvariant, InitHalves, NextHalves, PTL DEF ConvSpec
<1> QED
  BY <1>1, PatchInvariant, HalvesFound, PTL

-----------------------------------------------------------------------------
(***************************************************************************)
(* Whatever sums are accumulated within the reach of the weights: scaling  *)
(* after the maximum and before it give the same activation, and no        *)
(* product overflows.                                                      *)
(***************************************************************************)

USE DEF Scaled

\* Maxima start at zero; the platform's is the scaled maximum of the other's.
MaximaAgree ==
  /\ layer \in Scaled
  /\ at \in {"mac", "pool", "store"}
  /\ sum \in Int /\ maxSum \in Nat
  /\ maxAct = Scale(maxSum)

SumsBounded == \A x \in {sum, maxSum} : -LargestSum(layer) <= x /\ x <= LargestSum(layer)

QuantInv == MaximaAgree /\ SumsBounded /\ SameAsPlatform

-----------------------------------------------------------------------------
(* The arithmetic                                                          *)

LEMMA Factors ==
  ASSUME NEW l \in Scaled
  PROVE  /\ Factor[l] \in 1 .. 335
         /\ LargestSum(l) \in Nat /\ LargestSum(l) * Factor[l] <= MaxInt
         /\ LargestSum(l) <= MaxInt \div Factor[l]
         /\ MaxInt \div Factor[l] \in Nat
<1>1. CASE l = "conv1"
  BY <1>1, SMTT(30) DEF Factor, LargestSum, WeightNorm, Conv1Norm, MaxInt
<1>2. CASE l = "conv2"
  BY <1>2, SMTT(30) DEF Factor, LargestSum, WeightNorm, Conv2Norm, MaxInt
<1>3. CASE l = "fc1"
  BY <1>3, SMTT(30) DEF Factor, LargestSum, WeightNorm, FC1Norm, MaxInt
<1>4. CASE l = "fc2"
  BY <1>4, SMTT(30) DEF Factor, LargestSum, WeightNorm, FC2Norm, MaxInt
<1> QED
  BY <1>1, <1>2, <1>3, <1>4

\* Scaling by a positive factor, shifting and clamping is monotonic.
LEMMA ShiftMonotonic ==
  ASSUME NEW x \in Int, NEW y \in Int, x <= y
  PROVE  /\ Shift16(x) \in Int /\ Shift16(x) <= Shift16(y)
         /\ Clamp(Shift16(x)) \in Nat /\ Clamp(Shift16(x)) <= Clamp(Shift16(y))
  BY DEF Shift16, Clamp

LEMMA ScaleMonotonic ==
  ASSUME layer \in Scaled, NEW x \in Int, NEW y \in Int, x <= y
  PROVE  Scale(x) \in Nat /\ Scale(y) \in Nat /\ Scale(x) <= Scale(y)
<1>1. PICK f \in 1 .. 335 : f = Factor[layer]
  BY Factors
<1>2. PICK a \in Int, b \in Int : a = x * f /\ b = y * f
  OBVIOUS
<1>3. a <= b
  BY <1>2, SMTT(30)
<1>4. Scale(x) = Clamp(Shift16(a)) /\ Scale(y) = Clamp(Shift16(b))
  BY <1>1, <1>2 DEF Scale
<1>5. /\ Clamp(Shift16(a)) \in Nat /\ Clamp(Shift16(b)) \in Nat
      /\ Clamp(Shift16(a)) <= Clamp(Shift16(b))
  BY <1>3, ShiftMonotonic
<1> QED
  BY <1>4, <1>5

LEMMA ScaleOfZero ==
  ASSUME layer \in Scaled
  PROVE  Scale(0) = 0
<1>1. PICK f \in 1 .. 335 : f = Factor[layer]
  BY Factors
<1>2. 0 * f = 0
  OBVIOUS
<1> QED
  BY <1>1, <1>2 DEF Scale, Shift16, Clamp

\* The maximum of scaled sums is the scaled maximum of the sums.
LEMMA ScaleOfLarger ==
  ASSUME layer \in Scaled, NEW x \in Int, NEW y \in Int
  PROVE  Larger(Scale(x), Scale(y)) = Scale(Larger(x, y))
<1>1. CASE x < y
  BY <1>1, ScaleMonotonic DEF Larger
<1>2. CASE ~(x < y)
  <2>1. Scale(y) <= Scale(x) /\ Scale(x) \in Nat /\ Scale(y) \in Nat
    BY <1>2, ScaleMonotonic
  <2> QED
    BY <1>2, <2>1 DEF Larger
<1> QED
  BY <1>1, <1>2

-----------------------------------------------------------------------------
(* The invariant                                                           *)

LEMMA InitQuant == QuantInit => QuantInv
  BY ScaleOfZero, Factors
     DEF QuantInit, QuantInv, MaximaAgree, SumsBounded, SameAsPlatform

LEMMA MacKeeps ==
  ASSUME QuantInv, NEW x \in Sums, MultiplyAccumulate(x)
  PROVE  QuantInv'
<1>1. x \in Int
  BY SumsAssumption
<1>2. MaximaAgree' /\ SameAsPlatform'
  BY <1>1 DEF QuantInv, MaximaAgree, SameAsPlatform, MultiplyAccumulate, Scale
<1>3. SumsBounded'
  BY <1>1, Factors DEF QuantInv, MaximaAgree, SumsBounded, MultiplyAccumulate, LargestSum
<1> QED
  BY <1>2, <1>3 DEF QuantInv

LEMMA PoolKeeps ==
  ASSUME QuantInv, Pool
  PROVE  QuantInv'
<1>1. maxAct' = Scale(Larger(maxSum, sum))
  BY ScaleOfLarger DEF QuantInv, MaximaAgree, Pool
<1>2. layer' = layer /\ maxSum' = Larger(maxSum, sum) /\ sum' = sum
  BY DEF Pool
<1>3. maxSum' \in Nat
  BY <1>2 DEF QuantInv, MaximaAgree, Larger
<1>4. MaximaAgree'
  BY <1>1, <1>2, <1>3 DEF QuantInv, MaximaAgree, Scale, Pool
<1>5. SumsBounded'
  BY <1>2 DEF QuantInv, SumsBounded, Larger, LargestSum
<1>6. SameAsPlatform'
  BY DEF QuantInv, SameAsPlatform, Pool
<1> QED
  BY <1>4, <1>5, <1>6 DEF QuantInv

\* Eight bits hold what is between 0 and 127.
LEMMA StoreKeeps ==
  ASSUME QuantInv, Store8
  PROVE  QuantInv'
<1>1. maxAct \in Nat /\ maxAct = Scale(maxSum)
  BY ScaleMonotonic DEF QuantInv, MaximaAgree
<1>2. maxAct <= 127 => Byte(maxAct) = maxAct
  BY <1>1 DEF Byte
<1>3. SameAsPlatform'
  BY <1>1, <1>2 DEF SameAsPlatform, Store8
<1>4. MaximaAgree'
  <2>1. Scale(0)' = 0
    BY ScaleOfZero DEF QuantInv, MaximaAgree, Store8, Scale
  <2> QED
    BY <2>1 DEF QuantInv, MaximaAgree, Store8
<1>5. SumsBounded'
  BY Factors DEF QuantInv, MaximaAgree, SumsBounded, Store8, LargestSum
<1> QED
  BY <1>3, <1>4, <1>5 DEF QuantInv

LEMMA QuantInvariant == QuantSpec => []QuantInv
<1>1. QuantInv /\ UNCHANGED quantVars => QuantInv'
  BY DEF QuantInv, MaximaAgree, SumsBounded, SameAsPlatform, Scale, LargestSum, quantVars
<1>2. QuantInv /\ [QuantNext]_quantVars => QuantInv'
  BY <1>1, MacKeeps, PoolKeeps, StoreKeeps DEF QuantNext
<1> QED
  BY InitQuant, <1>2, PTL DEF QuantSpec

-----------------------------------------------------------------------------

\* The synthesised accelerator and the platform store the same activation
\* whenever it fits 8 bits, for every sequence of sums.
THEOREM SameActivations == QuantSpec => []SameAsPlatform
  BY QuantInvariant, PTL DEF QuantInv

\* No product overflows an int, for every sequence of sums that the weights
\* permit.
THEOREM ProductsFitHolds == QuantSpec => []ProductsFit
<1>1. QuantInv => ProductsFit
  <2> SUFFICES ASSUME QuantInv, NEW x \in {sum, maxSum}
               PROVE  Magnitude(x) <= MaxInt \div Factor[layer]
    BY DEF ProductsFit
  <2>1. Magnitude(x) <= LargestSum(layer) /\ Magnitude(x) \in Nat
    BY Factors DEF QuantInv, MaximaAgree, SumsBounded, Magnitude
  <2>2. /\ LargestSum(layer) <= MaxInt \div Factor[layer]
        /\ LargestSum(layer) \in Nat /\ MaxInt \div Factor[layer] \in Nat
    BY Factors DEF QuantInv, MaximaAgree
  <2> QED
    BY <2>1, <2>2
<1> QED
  BY <1>1, QuantInvariant, PTL
=============================================================================
