------------------------------ MODULE HlsLenet ------------------------------
(***************************************************************************)
(* The synthesised accelerator of hls/Lenet.cpp between the two threads of *)
(* hls/Testbench.cpp.  One thread, do_filter, loads an image, runs the     *)
(* layers and sends the scores; the layers hand their activations over in  *)
(* four SRAM buffers that are used again and again, so that what matters   *)
(* is which activation lies where when it is read.                         *)
(*                                                                         *)
(* An activation is represented by its layer, its image and its index; a   *)
(* neuron whose inputs are not all what they should be yields Wrong.  The  *)
(* window of a convolution is widened to its whole input.  The two halves  *)
(* of FC1 and of FC2 are synthesised to run in parallel, so their neurons  *)
(* come here in any order.                                                 *)
(***************************************************************************)
EXTENDS Integers, Sequences

CONSTANTS Words,      \* 32-bit words of an image (256 in the code)
          ConvOut,    \* activations after the first pooling (1176)
          Half1,      \* half of those after the second pooling (200)
          Half2,      \* half of the neurons of FC1 (60)
          Half3,      \* half of the neurons of FC2 (42)
          Scores,     \* neurons of FC3 (10)
          FifoDepth,  \* depth of the channels img and result
          Images      \* images the testbench feeds (1)

ASSUME SizesAssumption ==
  /\ {Words, ConvOut, Half1, Half2, Half3, Scores, FifoDepth} \subseteq Nat \ {0}
  /\ \A l \in {4 * Words, 2 * Half1, 2 * Half2, 2 * Half3} : l <= ConvOut
ASSUME ImagesAssumption == Images \in Nat

Pixels == 4 * Words
Buffers == 1 .. 4
Lanes == 1 .. 2

VARIABLES img, result,         \* the channels
          inputImg, buf,       \* input_img, buffer_1 .. buffer_4
          fc3Out,
          stage,               \* the loop or layer do_filter is in
          pos,                 \* how far each lane of it has come
          image,               \* images do_filter has finished
          fed, fetched         \* the testbench: words sent, scores received

dataVars == <<inputImg, buf, fc3Out>>
vars == <<img, result, dataVars, stage, pos, image, fed, fetched>>

Act(layer, k, i) == [layer |-> layer, image |-> k, i |-> i]
Wrong == Act("wrong", 0, 0)

Start == [l \in Lanes |-> 0]

Init ==
  /\ img = <<>> /\ result = <<>>
  /\ inputImg = [i \in 0 .. Pixels - 1 |-> Wrong]
  /\ buf = [b \in Buffers |-> [i \in 0 .. ConvOut - 1 |-> Wrong]]
  /\ fc3Out = [i \in 0 .. Scores - 1 |-> Wrong]
  /\ stage = "load" /\ pos = Start
  /\ image = 0
  /\ fed = 0 /\ fetched = <<>>

-----------------------------------------------------------------------------
(* The testbench                                                           *)

\* Mutant of Feed: the last word is forgotten.
FeedShort ==
  /\ fed < Images * Words - 1 /\ Len(img) < FifoDepth
  /\ LET k == fed \div Words
         i == fed % Words
     IN  img' = Append(img, [b \in 0 .. 3 |-> Act("pixel", k, 4 * i + b)])
  /\ fed' = fed + 1
  /\ UNCHANGED <<result, dataVars, stage, pos, image, fetched>>

\* feed_img packs four pixels into a word.
Feed ==
  /\ fed < Images * Words /\ Len(img) < FifoDepth
  /\ LET k == fed \div Words
         i == fed % Words
     IN  img' = Append(img, [b \in 0 .. 3 |-> Act("pixel", k, 4 * i + b)])
  /\ fed' = fed + 1
  /\ UNCHANGED <<result, dataVars, stage, pos, image, fetched>>

Fetch ==
  /\ result # <<>>
  /\ fetched' = Append(fetched, Head(result))
  /\ result' = Tail(result)
  /\ UNCHANGED <<img, dataVars, stage, pos, image, fed>>

-----------------------------------------------------------------------------
(* Reading and writing activations                                         *)

\* An activation that lies in two halves in two buffers.
Split(lo, hi, half) ==
  [w \in 0 .. 2 * half - 1 |-> IF w < half THEN buf[lo][w] ELSE buf[hi][w - half]]

\* Neuron i of a layer, computed from `inputs`, which should be the first `n`
\* activations of the layer before.
Neuron(layer, i, inputs, before, n) ==
  IF \A w \in 0 .. n - 1 : inputs[w] = Act(before, image, w)
  THEN Act(layer, image, i) ELSE Wrong

\* One iteration of the outer loop of a layer, `lane` being one of its loops.
Iterate(layer, lane, count) ==
  /\ stage = layer /\ pos[lane] < count
  /\ pos' = [pos EXCEPT ![lane] = @ + 1]
  /\ UNCHANGED <<stage, image, fed, fetched>>

Put(b, i, v) ==
  /\ buf' = [buf EXCEPT ![b][i] = v]
  /\ UNCHANGED <<img, result, inputImg, fc3Out>>

-----------------------------------------------------------------------------
(* do_filter and its layers                                                *)

\* Mutant of Load: the bytes of a word are taken in the opposite order.
LoadReversed ==
  /\ Iterate("load", 1, Words)
  /\ img # <<>>
  /\ LET i == pos[1]
     IN  inputImg' = [p \in DOMAIN inputImg |->
                        IF p \div 4 = i THEN Head(img)[3 - (p % 4)] ELSE inputImg[p]]
  /\ img' = Tail(img)
  /\ UNCHANGED <<result, buf, fc3Out>>

Load ==
  /\ Iterate("load", 1, Words)
  /\ img # <<>>
  /\ LET i == pos[1]
     IN  inputImg' = [p \in DOMAIN inputImg |->
                        IF p \div 4 = i THEN Head(img)[p % 4] ELSE inputImg[p]]
  /\ img' = Tail(img)
  /\ UNCHANGED <<result, buf, fc3Out>>

Fused_Conv1 ==
  /\ Iterate("conv1", 1, ConvOut)
  /\ Put(2, pos[1], Neuron("conv1", pos[1], inputImg, "pixel", Pixels))

\* The upper half of the channels goes to buffer_3.
Fused_Conv2 ==
  /\ Iterate("conv2", 1, 2 * Half1)
  /\ LET m == pos[1]
         v == Neuron("conv2", m, buf[2], "conv1", ConvOut)
     IN  IF m >= Half1 THEN Put(3, m - Half1, v) ELSE Put(1, m, v)

FC1_1 ==
  /\ Iterate("fc1", 1, Half2)
  /\ Put(2, pos[1],
         Neuron("fc1", pos[1], Split(1, 3, Half1), "conv2", 2 * Half1))

\* Mutant of FC1_2: its output goes where its input lies.
FC1_2InPlace ==
  /\ Iterate("fc1", 2, Half2)
  /\ Put(3, pos[2],
         Neuron("fc1", pos[2] + Half2, Split(1, 3, Half1), "conv2", 2 * Half1))

FC1_2 ==
  /\ Iterate("fc1", 2, Half2)
  /\ Put(4, pos[2],
         Neuron("fc1", pos[2] + Half2, Split(1, 3, Half1), "conv2", 2 * Half1))

FC2_1 ==
  /\ Iterate("fc2", 1, Half3)
  /\ Put(1, pos[1],
         Neuron("fc2", pos[1], Split(2, 4, Half2), "fc1", 2 * Half2))

FC2_2 ==
  /\ Iterate("fc2", 2, Half3)
  /\ Put(3, pos[2],
         Neuron("fc2", pos[2] + Half3, Split(2, 4, Half2), "fc1", 2 * Half2))

FC3 ==
  /\ Iterate("fc3", 1, Scores)
  /\ fc3Out' = [fc3Out EXCEPT ![pos[1]] =
                  Neuron("fc3", pos[1], Split(1, 3, Half3), "fc2", 2 * Half3)]
  /\ UNCHANGED <<img, result, inputImg, buf>>

Output ==
  /\ Iterate("out", 1, Scores)
  /\ Len(result) < FifoDepth
  /\ result' = Append(result, fc3Out[pos[1]])
  /\ UNCHANGED <<img, dataVars>>

\* The calls of do_filter, in order, and how many iterations each lane makes.
Calls == <<"load", "conv1", "conv2", "fc1", "fc2", "fc3", "out">>

Iterations(s) ==
  [l \in Lanes |-> CASE s = "fc1" -> Half2
                     [] s = "fc2" -> Half3
                     [] s = "load" /\ l = 1 -> Words
                     [] s = "conv1" /\ l = 1 -> ConvOut
                     [] s = "conv2" /\ l = 1 -> 2 * Half1
                     [] s \in {"fc3", "out"} /\ l = 1 -> Scores
                     [] OTHER -> 0]

\* A call has ended, the next begins; after the last comes the next image.
Advance(iterations) ==
  /\ pos = iterations
  /\ \E c \in DOMAIN Calls :
       /\ stage = Calls[c]
       /\ stage' = Calls[(c % Len(Calls)) + 1]
       /\ image' = IF c = Len(Calls) THEN image + 1 ELSE image
  /\ pos' = Start
  /\ UNCHANGED <<img, result, dataVars, fed, fetched>>

NextCall == Advance(Iterations(stage))

Finished == Len(fetched) = Images * Scores /\ UNCHANGED vars

DoFilter ==
  \/ Load \/ Fused_Conv1 \/ Fused_Conv2 \/ FC1_1 \/ FC1_2 \/ FC2_1 \/ FC2_2
  \/ FC3 \/ Output \/ NextCall

Next == Feed \/ Fetch \/ DoFilter \/ Finished

\* The three threads are clocked SystemC threads.
Spec ==
  Init /\ [][Next]_vars /\ WF_vars(Feed) /\ WF_vars(Fetch) /\ WF_vars(DoFilter)

-----------------------------------------------------------------------------
(* Properties                                                              *)

\* The scores come out in order, and each is computed from its own image
\* alone, through activations that were all still there when they were read.
ScoresRight ==
  \A n \in 1 .. Len(fetched) :
    fetched[n] = Act("fc3", (n - 1) \div Scores, (n - 1) % Scores)

\* "The double buffer works": while a layer runs, none of its inputs is
\* overwritten, by whatever neuron of whichever half.
InputsIntact ==
  LET Holds(inputs, layer, n) ==
        \A w \in 0 .. n - 1 : inputs[w] = Act(layer, image, w)
  IN  /\ stage = "conv1" => Holds(inputImg, "pixel", Pixels)
      /\ stage = "conv2" => Holds(buf[2], "conv1", ConvOut)
      /\ stage = "fc1" => Holds(Split(1, 3, Half1), "conv2", 2 * Half1)
      /\ stage = "fc2" => Holds(Split(2, 4, Half2), "fc1", 2 * Half2)
      /\ stage = "fc3" => Holds(Split(1, 3, Half3), "fc2", 2 * Half3)
      /\ stage = "out" => Holds(fc3Out, "fc3", Scores)

\* Once the testbench has begun it gets all its scores, however small the
\* channels are (hls/Testbench.cpp:23-70, hls/Lenet.cpp:59-140).
AllFetched == (fed > 0) ~> (Len(fetched) = Images * Scores)
=============================================================================
