--------------------------- MODULE HlsLenetProofs --------------------------
(***************************************************************************)
(* Theorems about the layers of hls/Lenet.cpp: for layers, channels and    *)
(* runs of any size, every layer finds its inputs in the buffers, and the  *)
(* testbench receives the scores of its own images in order.               *)
(*                                                                         *)
(* That a score is right depends on the whole path that leads to it, so    *)
(* the invariant says of each stage which buffers hold what: the channel   *)
(* the words that come next, the input of the running layer all of its     *)
(* activations, and its output those of the iterations made so far.        *)
(***************************************************************************)
EXTENDS HlsLenet, FoldLemmas, SequenceTheorems

\* Word j of all that is fed, and score j of all that is sent.
WordOf(j) == [b \in 0 .. 3 |-> Act("pixel", j \div Words, 4 * (j % Words) + b)]
ScoreOf(j) == Act("fc3", j \div Scores, j % Scores)

\* Words do_filter has taken and scores it has sent.
WordsTaken == image * Words + (IF stage = "load" THEN pos[1] ELSE Words)
ScoresSent == image * Scores + (IF stage = "out" THEN pos[1] ELSE 0)

LenetTypes ==
  /\ image \in Nat /\ fed \in Nat
  /\ stage \in {Calls[c] : c \in 1 .. 7}
  /\ pos \in [Lanes -> Nat] /\ pos[1] <= Iterations(stage)[1]
  /\ DOMAIN buf = Buffers /\ \A b \in Buffers : DOMAIN buf[b] = 0 .. ConvOut - 1
  /\ DOMAIN inputImg = 0 .. Pixels - 1
  /\ DOMAIN fc3Out = 0 .. Scores - 1

ImgInv ==
  /\ img \in Seq({WordOf(j) : j \in Nat})
  /\ WordsTaken + Len(img) = fed
  /\ \A j \in 1 .. Len(img) : img[j] = WordOf(WordsTaken + j - 1)

ResultInv ==
  /\ result \in Seq({ScoreOf(j) : j \in Nat}) /\ fetched \in Seq({ScoreOf(j) : j \in Nat})
  /\ Len(fetched) + Len(result) = ScoresSent
  /\ \A j \in 1 .. Len(result) : result[j] = ScoreOf(Len(fetched) + j - 1)
  /\ \A j \in 1 .. Len(fetched) : fetched[j] = ScoreOf(j - 1)

\* The `count` activations of the present image from `from` on are in `acts`.
Part(acts, name, from, count) ==
  \A i \in 0 .. count - 1 : acts[i] = Act(name, image, from + i)

Whole(acts, name, count) == Part(acts, name, 0, count)

\* While a layer runs, its inputs are whole and its outputs so far are there.
LoadInv ==
  stage = "load" =>
    \A p \in 0 .. Pixels - 1 : p \div 4 < pos[1] => inputImg[p] = Act("pixel", image, p)
Conv1Inv ==
  stage = "conv1" => Whole(inputImg, "pixel", Pixels) /\ Whole(buf[2], "conv1", pos[1])
Conv2Inv ==
  stage = "conv2" =>
    /\ Whole(buf[2], "conv1", ConvOut)
    /\ Whole(Split(1, 3, Half1), "conv2", pos[1])
FC1Inv ==
  stage = "fc1" =>
    /\ Whole(Split(1, 3, Half1), "conv2", 2 * Half1)
    /\ Part(buf[2], "fc1", 0, pos[1]) /\ Part(buf[4], "fc1", Half2, pos[2])
FC2Inv ==
  stage = "fc2" =>
    /\ Whole(Split(2, 4, Half2), "fc1", 2 * Half2)
    /\ Part(buf[1], "fc2", 0, pos[1]) /\ Part(buf[3], "fc2", Half3, pos[2])
FC3Inv ==
  stage = "fc3" => Whole(Split(1, 3, Half3), "fc2", 2 * Half3) /\ Whole(fc3Out, "fc3", pos[1])
OutInv ==
  stage = "out" => Whole(fc3Out, "fc3", Scores)

LayersInv == LoadInv /\ Conv1Inv /\ Conv2Inv /\ FC1Inv /\ FC2Inv /\ FC3Inv /\ OutInv

LenetInv == LenetTypes /\ ImgInv /\ ResultInv /\ LayersInv

-----------------------------------------------------------------------------
(* Arithmetic and bookkeeping                                              *)

\* No buffer is too small for what a layer leaves in it.
LEMMA Sizes ==
  /\ Words \in Nat \ {0} /\ Half1 \in Nat \ {0} /\ Half2 \in Nat \ {0} /\ Half3 \in Nat \ {0}
  /\ ConvOut \in Nat \ {0} /\ Scores \in Nat \ {0} /\ Pixels = 4 * Words
  /\ 2 * Half1 <= ConvOut /\ 2 * Half2 <= ConvOut /\ 2 * Half3 <= ConvOut
BY SizesAssumption DEF Pixels

\* How often each loop of each layer runs.
LEMMA IterationsOf ==
  /\ Iterations("load")[1] = Words /\ Iterations("conv1")[1] = ConvOut
  /\ Iterations("conv2")[1] = 2 * Half1
  /\ Iterations("fc1")[1] = Half2 /\ Iterations("fc1")[2] = Half2
  /\ Iterations("fc2")[1] = Half3 /\ Iterations("fc2")[2] = Half3
  /\ Iterations("fc3")[1] = Scores /\ Iterations("out")[1] = Scores
BY DEF Iterations, Lanes

\* The stages, by name.
LEMMA StageNames ==
  {Calls[c] : c \in 1 .. 7} = {"load", "conv1", "conv2", "fc1", "fc2", "fc3", "out"}
BY DEF Calls

\* A neuron whose inputs are whole is right.
LEMMA NeuronRight ==
  ASSUME NEW name, NEW before, NEW i, NEW acts, NEW n \in Nat, Whole(acts, before, n)
  PROVE  Neuron(name, i, acts, before, n) = Act(name, image, i)
BY DEF Whole, Part, Neuron

\* Writing one activation.
LEMMA PutEffect ==
  ASSUME LenetTypes, NEW b \in Buffers, NEW i \in 0 .. ConvOut - 1, NEW v, Put(b, i, v)
  PROVE  /\ buf'[b][i] = v
         /\ \A c \in Buffers : c # b => buf'[c] = buf[c]
         /\ \A k \in 0 .. ConvOut - 1 : k # i => buf'[b][k] = buf[b][k]
         /\ DOMAIN buf' = Buffers /\ \A c \in Buffers : DOMAIN buf'[c] = 0 .. ConvOut - 1
BY DEF LenetTypes, Put

\* The channels between the threads, when neither end moves.
LEMMA ChannelsKept ==
  ASSUME ImgInv, ResultInv, UNCHANGED <<img, result, fed, fetched>>,
         WordsTaken' = WordsTaken, ScoresSent' = ScoresSent
  PROVE  ImgInv' /\ ResultInv'
BY DEF ImgInv, ResultInv, WordOf, ScoreOf

\* One iteration of a layer.
LEMMA IterateEffect ==
  ASSUME LenetTypes, NEW name \in {Calls[c] : c \in 1 .. 7}, NEW lane \in Lanes,
         Iterate(name, lane, Iterations(name)[lane])
  PROVE  /\ stage = name /\ pos[lane] \in Nat /\ pos[lane] < Iterations(name)[lane]
         /\ pos' \in [Lanes -> Nat] /\ pos'[lane] = pos[lane] + 1
         /\ \A l \in Lanes : l # lane => pos'[l] = pos[l]
         /\ pos'[1] <= Iterations(stage)[1]
         /\ UNCHANGED <<stage, image, fed, fetched>>
<1>1. /\ stage = name /\ pos[lane] < Iterations(name)[lane]
      /\ pos' = [pos EXCEPT ![lane] = @ + 1]
      /\ UNCHANGED <<stage, image, fed, fetched>>
  BY DEF Iterate
<1>2. pos \in [Lanes -> Nat] /\ pos[1] <= Iterations(stage)[1]
  BY DEF LenetTypes
<1>3. /\ pos' \in [Lanes -> Nat] /\ pos'[lane] = pos[lane] + 1 /\ pos[lane] \in Nat
      /\ \A l \in Lanes : l # lane => pos'[l] = pos[l]
  BY <1>1, <1>2
<1>4. Iterations(name)[1] \in Nat /\ 1 \in Lanes
  BY Sizes, IterationsOf, StageNames DEF Lanes
<1>5. pos'[1] <= Iterations(stage)[1]
  BY <1>1, <1>2, <1>3, <1>4
<1> QED
  BY <1>1, <1>3, <1>5

-----------------------------------------------------------------------------
(* The layers                                                              *)

\* What is left to show of a step of a layer.
LEMMA LayerStep ==
  ASSUME LenetInv, NEW name \in {"conv1", "conv2", "fc1", "fc2", "fc3"}, NEW lane \in Lanes,
         Iterate(name, lane, Iterations(name)[lane]), UNCHANGED <<img, result, inputImg>>,
         DOMAIN buf' = Buffers, \A b \in Buffers : DOMAIN buf'[b] = 0 .. ConvOut - 1,
         DOMAIN fc3Out' = 0 .. Scores - 1, LayersInv'
  PROVE  LenetInv'
<1>1. name \in {Calls[c] : c \in 1 .. 7}
  BY StageNames
<1>2. /\ stage = name /\ pos' \in [Lanes -> Nat] /\ pos'[1] <= Iterations(stage)[1]
      /\ UNCHANGED <<stage, image, fed, fetched>>
  BY <1>1, IterateEffect DEF LenetInv
<1>3. LenetTypes'
  BY <1>1, <1>2 DEF LenetInv, LenetTypes, Iterations
<1>4. WordsTaken' = WordsTaken /\ ScoresSent' = ScoresSent
  BY <1>2 DEF WordsTaken, ScoresSent
<1>5. ImgInv' /\ ResultInv'
  BY <1>2, <1>4, ChannelsKept DEF LenetInv
<1> QED
  BY <1>3, <1>5 DEF LenetInv

\* Conv1 fills buffer_2 and reads none of the buffers.
LEMMA Conv1Step ==
  ASSUME LenetInv, Fused_Conv1
  PROVE  LenetInv'
<1> DEFINE i == pos[1]
           v == Neuron("conv1", i, inputImg, "pixel", Pixels)
<1>1. /\ Iterate("conv1", 1, Iterations("conv1")[1]) /\ Put(2, i, v)
      /\ "conv1" \in {Calls[c] : c \in 1 .. 7} /\ 1 \in Lanes
  BY IterationsOf, StageNames DEF Fused_Conv1, Lanes
<1>2. /\ stage = "conv1" /\ i \in Nat /\ i < ConvOut /\ pos'[1] = i + 1
      /\ UNCHANGED <<stage, image>>
  BY <1>1, IterateEffect, IterationsOf DEF LenetInv
<1>3. /\ UNCHANGED <<img, result, inputImg, fc3Out>> /\ 2 \in Buffers
      /\ i \in 0 .. ConvOut - 1
  BY <1>1, <1>2, Sizes DEF Put, Buffers
<1>4. v = Act("conv1", image, i)
  BY <1>2, NeuronRight, Sizes DEF LenetInv, LayersInv, Conv1Inv
<1> HIDE DEF v, i
<1>5. /\ buf'[2][i] = Act("conv1", image, i)
      /\ \A k \in 0 .. ConvOut - 1 : k # i => buf'[2][k] = buf[2][k]
      /\ DOMAIN buf' = Buffers /\ \A c \in Buffers : DOMAIN buf'[c] = 0 .. ConvOut - 1
  BY <1>1, <1>3, <1>4, PutEffect DEF LenetInv
<1>6. Whole(buf[2], "conv1", i) /\ Whole(inputImg, "pixel", Pixels)
  BY <1>2 DEF LenetInv, LayersInv, Conv1Inv, i
<1>7. Whole(buf'[2], "conv1", i + 1)
  BY <1>2, <1>5, <1>6, Sizes DEF Whole, Part
<1>8. Conv1Inv'
  BY <1>2, <1>3, <1>6, <1>7 DEF Conv1Inv, Whole, Part, Act
<1>9. LayersInv'
  BY <1>2, <1>8 DEF LayersInv, LoadInv, Conv2Inv, FC1Inv, FC2Inv, FC3Inv, OutInv
<1>10. DOMAIN fc3Out' = 0 .. Scores - 1
  BY <1>3 DEF LenetInv, LenetTypes
<1> QED
  BY <1>1, <1>3, <1>5, <1>9, <1>10, LayerStep

\* Conv2 reads buffer_2 and leaves one half in buffer_1, the other in buffer_3.
LEMMA Conv2Step ==
  ASSUME LenetInv, Fused_Conv2
  PROVE  LenetInv'
<1> DEFINE i == pos[1]
           v == Neuron("conv2", i, buf[2], "conv1", ConvOut)
           b == IF i >= Half1 THEN 3 ELSE 1
           k == IF i >= Half1 THEN i - Half1 ELSE i
<1>1. /\ Iterate("conv2", 1, Iterations("conv2")[1]) /\ Put(b, k, v)
      /\ "conv2" \in {Calls[c] : c \in 1 .. 7} /\ 1 \in Lanes
  BY IterationsOf, StageNames DEF Fused_Conv2, Lanes
<1>2. /\ stage = "conv2" /\ i \in Nat /\ i < 2 * Half1 /\ pos'[1] = i + 1
      /\ UNCHANGED <<stage, image>>
  BY <1>1, IterateEffect, IterationsOf DEF LenetInv
<1>3. /\ UNCHANGED <<img, result, inputImg, fc3Out>> /\ b \in Buffers /\ b # 2
      /\ k \in 0 .. ConvOut - 1 /\ k \in 0 .. Half1 - 1
  BY <1>1, <1>2, Sizes DEF Put, Buffers
<1>4. v = Act("conv2", image, i)
  BY <1>2, NeuronRight, Sizes DEF LenetInv, LayersInv, Conv2Inv
<1> HIDE DEF v
<1>5. /\ buf'[b][k] = Act("conv2", image, i)
      /\ \A c \in Buffers : c # b => buf'[c] = buf[c]
      /\ \A l \in 0 .. ConvOut - 1 : l # k => buf'[b][l] = buf[b][l]
      /\ DOMAIN buf' = Buffers /\ \A c \in Buffers : DOMAIN buf'[c] = 0 .. ConvOut - 1
  BY <1>1, <1>3, <1>4, PutEffect DEF LenetInv
<1>6. Whole(Split(1, 3, Half1), "conv2", i) /\ Whole(buf[2], "conv1", ConvOut)
  BY <1>2 DEF LenetInv, LayersInv, Conv2Inv
<1>7. ASSUME NEW l \in 0 .. i
      PROVE  Split(1, 3, Half1)'[l] = Act("conv2", image, l)
  <2>1. l \in 0 .. 2 * Half1 - 1
    BY <1>2, Sizes
  <2>2. /\ Split(1, 3, Half1)'[l] = IF l < Half1 THEN buf'[1][l] ELSE buf'[3][l - Half1]
        /\ Split(1, 3, Half1)[l] = IF l < Half1 THEN buf[1][l] ELSE buf[3][l - Half1]
    BY <2>1 DEF Split
  <2>3. CASE l = i
    BY <1>2, <1>5, <2>2, <2>3, Sizes
  <2>4. CASE l < i
    <3>1. Split(1, 3, Half1)[l] = Act("conv2", image, l)
      BY <1>2, <1>6, <2>4 DEF Whole, Part
    <3>2. CASE l < Half1
      <4>1. l \in 0 .. ConvOut - 1 /\ (b = 1 => l # k)
        BY <1>2, <2>1, <2>4, Sizes
      <4>2. buf'[1][l] = buf[1][l]
        BY <1>5, <4>1 DEF Buffers
      <4> QED
        BY <2>2, <3>1, <3>2, <4>2
    <3>3. CASE l >= Half1
      <4>1. l - Half1 \in 0 .. ConvOut - 1 /\ i >= Half1 /\ l - Half1 # i - Half1
        BY <1>2, <2>1, <2>4, <3>3, Sizes
      <4>2. b = 3 /\ k = i - Half1
        BY <4>1
      <4>3. buf'[3][l - Half1] = buf[3][l - Half1]
        BY <1>5, <4>1, <4>2
      <4> QED
        BY <2>1, <2>2, <3>1, <3>3, <4>3, Sizes
    <3> QED
      BY <2>1, <3>2, <3>3, Sizes
  <2> QED
    BY <1>2, <2>3, <2>4
<1>8. buf'[2] = buf[2]
  BY <1>3, <1>5 DEF Buffers
<1>9. Whole(Split(1, 3, Half1), "conv2", pos[1])'
  BY <1>2, <1>7 DEF Whole, Part, Act
<1>10. Conv2Inv'
  BY <1>2, <1>6, <1>8, <1>9 DEF Conv2Inv, Whole, Part, Act
<1>11. LayersInv'
  BY <1>2, <1>10 DEF LayersInv, LoadInv, Conv1Inv, FC1Inv, FC2Inv, FC3Inv, OutInv
<1>12. DOMAIN fc3Out' = 0 .. Scores - 1
  BY <1>3 DEF LenetInv, LenetTypes
<1> QED
  BY <1>1, <1>3, <1>5, <1>11, <1>12, LayerStep

\* One neuron of a layer with two lanes, into a buffer of its lane.
LEMMA LaneStep ==
  ASSUME LenetTypes, NEW name \in {"fc1", "fc2"}, NEW lane \in Lanes, NEW b \in Buffers,
         NEW from \in Nat, NEW v, v = Act(name, image, from + pos[lane]),
         Iterate(name, lane, Iterations(name)[lane]), Put(b, pos[lane], v),
         Part(buf[b], name, from, pos[lane])
  PROVE  /\ Part(buf'[b], name, from, pos'[lane])
         /\ \A c \in Buffers : c # b => buf'[c] = buf[c]
         /\ \A l \in Lanes : l # lane => pos'[l] = pos[l]
         /\ DOMAIN buf' = Buffers /\ \A c \in Buffers : DOMAIN buf'[c] = 0 .. ConvOut - 1
         /\ UNCHANGED <<stage, image, img, result, inputImg, fc3Out>>
<1>1. name \in {Calls[c] : c \in 1 .. 7}
  BY StageNames
<1>2. /\ pos[lane] \in Nat /\ pos[lane] < Iterations(name)[lane] /\ pos'[lane] = pos[lane] + 1
      /\ \A l \in Lanes : l # lane => pos'[l] = pos[l]
      /\ UNCHANGED <<stage, image>>
  BY <1>1, IterateEffect
<1>3. Iterations(name)[lane] \in Nat /\ Iterations(name)[lane] <= ConvOut
  BY Sizes, IterationsOf DEF Lanes
<1>4. pos[lane] \in 0 .. ConvOut - 1
  BY <1>2, <1>3, Sizes
<1>5. /\ buf'[b][pos[lane]] = v
      /\ \A c \in Buffers : c # b => buf'[c] = buf[c]
      /\ \A k \in 0 .. ConvOut - 1 : k # pos[lane] => buf'[b][k] = buf[b][k]
      /\ DOMAIN buf' = Buffers /\ \A c \in Buffers : DOMAIN buf'[c] = 0 .. ConvOut - 1
  BY <1>4, PutEffect
<1>6. Part(buf'[b], name, from, pos'[lane])
  <2> SUFFICES ASSUME NEW i \in 0 .. pos'[lane] - 1
               PROVE  buf'[b][i] = Act(name, image, from + i)
    BY DEF Part
  <2>1. i \in Nat /\ i <= pos[lane]
    BY <1>2
  <2>2. CASE i = pos[lane]
    BY <1>5, <2>2
  <2>3. CASE i < pos[lane]
    <3>1. i \in 0 .. ConvOut - 1 /\ i \in 0 .. pos[lane] - 1 /\ i # pos[lane]
      BY <1>2, <1>4, <2>1, <2>3, Sizes
    <3> QED
      BY <1>5, <3>1 DEF Part
  <2> QED
    BY <1>2, <2>1, <2>2, <2>3
<1> QED
  BY <1>2, <1>5, <1>6 DEF Put

\* FC1 reads buffer_1 and buffer_3; its halves go to buffer_2 and buffer_4.
LEMMA FC1Step ==
  ASSUME LenetInv, FC1_1 \/ FC1_2
  PROVE  LenetInv'
<1> USE DEF FC1Inv, Whole
<1> DEFINE inputs == Split(1, 3, Half1)
<1>1. LenetTypes /\ 1 \in Lanes /\ 2 \in Lanes /\ {1, 2, 3, 4} \subseteq Buffers
  BY DEF LenetInv, Lanes, Buffers
<1>2. /\ stage = "fc1" /\ Part(inputs, "conv2", 0, 2 * Half1)
      /\ Part(buf[2], "fc1", 0, pos[1]) /\ Part(buf[4], "fc1", Half2, pos[2])
      /\ pos[1] \in Nat /\ pos[2] \in Nat
  BY <1>1 DEF FC1_1, FC1_2, Iterate, LenetInv, LayersInv, LenetTypes
<1>3. \A i : Neuron("fc1", i, inputs, "conv2", 2 * Half1) = Act("fc1", image, i)
  BY <1>2, NeuronRight, Sizes
<1>4. Iterations("fc1")[1] = Half2 /\ Iterations("fc1")[2] = Half2 /\ Half2 \in Nat
  BY IterationsOf, Sizes
<1>5. ASSUME NEW lane \in Lanes, Iterate("fc1", lane, Iterations("fc1")[lane]),
             UNCHANGED <<stage, image, img, result, inputImg, fc3Out>>,
             DOMAIN buf' = Buffers, \A c \in Buffers : DOMAIN buf'[c] = 0 .. ConvOut - 1,
             buf'[1] = buf[1], buf'[3] = buf[3],
             Part(buf'[2], "fc1", 0, pos'[1]), Part(buf'[4], "fc1", Half2, pos'[2])
      PROVE  LenetInv'
  <2>1. Part(inputs, "conv2", 0, 2 * Half1)'
    BY <1>2, <1>5 DEF Part, Split, Act
  <2>2. FC1Inv'
    BY <1>5, <2>1 DEF Part, Act
  <2>3. LayersInv'
    BY <1>2, <1>5, <2>2 DEF LayersInv, LoadInv, Conv1Inv, Conv2Inv, FC2Inv, FC3Inv, OutInv
  <2>4. DOMAIN fc3Out' = 0 .. Scores - 1
    BY <1>1, <1>5 DEF LenetTypes
  <2> QED
    BY <1>5, <2>3, <2>4, LayerStep
<1> HIDE DEF inputs
<1>6. CASE FC1_1
  <2>1. Iterate("fc1", 1, Iterations("fc1")[1]) /\ Put(2, pos[1], Act("fc1", image, 0 + pos[1]))
    BY <1>2, <1>3, <1>4, <1>6 DEF FC1_1, inputs
  <2>2. /\ Part(buf'[2], "fc1", 0, pos'[1]) /\ pos'[2] = pos[2]
        /\ \A c \in Buffers : c # 2 => buf'[c] = buf[c]
        /\ DOMAIN buf' = Buffers /\ \A c \in Buffers : DOMAIN buf'[c] = 0 .. ConvOut - 1
        /\ UNCHANGED <<stage, image, img, result, inputImg, fc3Out>>
    BY <1>1, <1>2, <2>1, LaneStep
  <2>3. buf'[1] = buf[1] /\ buf'[3] = buf[3] /\ buf'[4] = buf[4]
    BY <1>1, <2>2
  <2> QED
    BY <1>1, <1>2, <1>5, <2>1, <2>2, <2>3
<1>7. CASE FC1_2
  <2>1. Iterate("fc1", 2, Iterations("fc1")[2])
        /\ Put(4, pos[2], Act("fc1", image, Half2 + pos[2]))
    BY <1>2, <1>3, <1>4, <1>7 DEF FC1_2, inputs
  <2>2. /\ Part(buf'[4], "fc1", Half2, pos'[2]) /\ pos'[1] = pos[1]
        /\ \A c \in Buffers : c # 4 => buf'[c] = buf[c]
        /\ DOMAIN buf' = Buffers /\ \A c \in Buffers : DOMAIN buf'[c] = 0 .. ConvOut - 1
        /\ UNCHANGED <<stage, image, img, result, inputImg, fc3Out>>
    BY <1>1, <1>2, <1>4, <2>1, LaneStep
  <2>3. buf'[1] = buf[1] /\ buf'[3] = buf[3] /\ buf'[2] = buf[2]
    BY <1>1, <2>2
  <2> QED
    BY <1>1, <1>2, <1>5, <2>1, <2>2, <2>3
<1> QED
  BY <1>6, <1>7
\* FC2 reads what FC1 left; its halves go back to buffer_1 and buffer_3.
LEMMA FC2Step ==
  ASSUME LenetInv, FC2_1 \/ FC2_2
  PROVE  LenetInv'
<1> USE DEF FC2Inv, Whole
<1> DEFINE inputs == Split(2, 4, Half2)
<1>1. LenetTypes /\ 1 \in Lanes /\ 2 \in Lanes /\ {1, 2, 3, 4} \subseteq Buffers
  BY DEF LenetInv, Lanes, Buffers
<1>2. /\ stage = "fc2" /\ Part(inputs, "fc1", 0, 2 * Half2)
      /\ Part(buf[1], "fc2", 0, pos[1]) /\ Part(buf[3], "fc2", Half3, pos[2])
      /\ pos[1] \in Nat /\ pos[2] \in Nat
  BY <1>1 DEF FC2_1, FC2_2, Iterate, LenetInv, LayersInv, LenetTypes
<1>3. \A i : Neuron("fc2", i, inputs, "fc1", 2 * Half2) = Act("fc2", image, i)
  BY <1>2, NeuronRight, Sizes
<1>4. Iterations("fc2")[1] = Half3 /\ Iterations("fc2")[2] = Half3 /\ Half3 \in Nat
  BY IterationsOf, Sizes
<1>5. ASSUME NEW lane \in Lanes, Iterate("fc2", lane, Iterations("fc2")[lane]),
             UNCHANGED <<stage, image, img, result, inputImg, fc3Out>>,
             DOMAIN buf' = Buffers, \A c \in Buffers : DOMAIN buf'[c] = 0 .. ConvOut - 1,
             buf'[2] = buf[2], buf'[4] = buf[4],
             Part(buf'[1], "fc2", 0, pos'[1]), Part(buf'[3], "fc2", Half3, pos'[2])
      PROVE  LenetInv'
  <2>1. Part(inputs, "fc1", 0, 2 * Half2)'
    BY <1>2, <1>5 DEF Part, Split, Act
  <2>2. FC2Inv'
    BY <1>5, <2>1 DEF Part, Act
  <2>3. LayersInv'
    BY <1>2, <1>5, <2>2 DEF LayersInv, LoadInv, Conv1Inv, Conv2Inv, FC1Inv, FC3Inv, OutInv
  <2>4. DOMAIN fc3Out' = 0 .. Scores - 1
    BY <1>1, <1>5 DEF LenetTypes
  <2> QED
    BY <1>5, <2>3, <2>4, LayerStep
<1> HIDE DEF inputs
<1>6. CASE FC2_1
  <2>1. Iterate("fc2", 1, Iterations("fc2")[1]) /\ Put(1, pos[1], Act("fc2", image, 0 + pos[1]))
    BY <1>2, <1>3, <1>4, <1>6 DEF FC2_1, inputs
  <2>2. /\ Part(buf'[1], "fc2", 0, pos'[1]) /\ pos'[2] = pos[2]
        /\ \A c \in Buffers : c # 1 => buf'[c] = buf[c]
        /\ DOMAIN buf' = Buffers /\ \A c \in Buffers : DOMAIN buf'[c] = 0 .. ConvOut - 1
        /\ UNCHANGED <<stage, image, img, result, inputImg, fc3Out>>
    BY <1>1, <1>2, <2>1, LaneStep
  <2>3. buf'[2] = buf[2] /\ buf'[4] = buf[4] /\ buf'[3] = buf[3]
    BY <1>1, <2>2
  <2> QED
    BY <1>1, <1>2, <1>5, <2>1, <2>2, <2>3
<1>7. CASE FC2_2
  <2>1. Iterate("fc2", 2, Iterations("fc2")[2])
        /\ Put(3, pos[2], Act("fc2", image, Half3 + pos[2]))
    BY <1>2, <1>3, <1>4, <1>7 DEF FC2_2, inputs
  <2>2. /\ Part(buf'[3], "fc2", Half3, pos'[2]) /\ pos'[1] = pos[1]
        /\ \A c \in Buffers : c # 3 => buf'[c] = buf[c]
        /\ DOMAIN buf' = Buffers /\ \A c \in Buffers : DOMAIN buf'[c] = 0 .. ConvOut - 1
        /\ UNCHANGED <<stage, image, img, result, inputImg, fc3Out>>
    BY <1>1, <1>2, <1>4, <2>1, LaneStep
  <2>3. buf'[2] = buf[2] /\ buf'[4] = buf[4] /\ buf'[1] = buf[1]
    BY <1>1, <2>2
  <2> QED
    BY <1>1, <1>2, <1>5, <2>1, <2>2, <2>3
<1> QED
  BY <1>6, <1>7
\* FC3 reads what FC2 left and fills fc3_out.
LEMMA FC3Step ==
  ASSUME LenetInv, FC3
  PROVE  LenetInv'
<1> DEFINE i == pos[1]
           v == Neuron("fc3", i, Split(1, 3, Half3), "fc2", 2 * Half3)
<1>1. /\ Iterate("fc3", 1, Iterations("fc3")[1]) /\ fc3Out' = [fc3Out EXCEPT ![i] = v]
      /\ UNCHANGED <<img, result, inputImg, buf>>
      /\ "fc3" \in {Calls[c] : c \in 1 .. 7} /\ 1 \in Lanes
  BY IterationsOf, StageNames DEF FC3, Lanes
<1>2. /\ stage = "fc3" /\ i \in Nat /\ i < Scores /\ pos'[1] = i + 1
      /\ UNCHANGED <<stage, image>>
  BY <1>1, IterateEffect, IterationsOf DEF LenetInv
<1>3. Whole(Split(1, 3, Half3), "fc2", 2 * Half3) /\ Whole(fc3Out, "fc3", i)
  BY <1>2 DEF LenetInv, LayersInv, FC3Inv
<1>4. v = Act("fc3", image, i)
  BY <1>3, NeuronRight, Sizes
<1> HIDE DEF v
<1>5. DOMAIN fc3Out = 0 .. Scores - 1 /\ i \in 0 .. Scores - 1
  BY <1>2, Sizes DEF LenetInv, LenetTypes
<1>6. /\ DOMAIN fc3Out' = 0 .. Scores - 1 /\ fc3Out'[i] = v
      /\ \A k \in 0 .. Scores - 1 : k # i => fc3Out'[k] = fc3Out[k]
  BY <1>1, <1>5
<1> HIDE DEF i
<1>7. Whole(fc3Out', "fc3", i + 1)
  BY <1>2, <1>3, <1>4, <1>5, <1>6, Sizes DEF Whole, Part
<1>8. Whole(Split(1, 3, Half3), "fc2", 2 * Half3)'
  BY <1>1, <1>2, <1>3 DEF Whole, Part, Split, Act
<1>9. FC3Inv'
  BY <1>2, <1>7, <1>8 DEF FC3Inv, Whole, Part, Act
<1>10. LayersInv'
  BY <1>2, <1>9 DEF LayersInv, LoadInv, Conv1Inv, Conv2Inv, FC1Inv, FC2Inv, OutInv
<1>11. DOMAIN buf' = Buffers /\ \A b \in Buffers : DOMAIN buf'[b] = 0 .. ConvOut - 1
  BY <1>1 DEF LenetInv, LenetTypes
<1> QED
  BY <1>1, <1>6, <1>10, <1>11, LayerStep

-----------------------------------------------------------------------------
(* The channels and the calls                                              *)

\* The same activation.
LEMMA ActsEqual ==
  ASSUME NEW name, NEW k, NEW i, NEW j, i = j
  PROVE  Act(name, k, i) = Act(name, k, j)
OBVIOUS

\* The word at the head of the channel is the one that comes next.
LEMMA LoadStep ==
  ASSUME LenetInv, Load
  PROVE  LenetInv'
<1> DEFINE i == pos[1]
           word == Head(img)
<1>1. /\ Iterate("load", 1, Iterations("load")[1])
      /\ img # <<>> /\ img' = Tail(img)
      /\ inputImg' = [p \in DOMAIN inputImg |->
                        IF p \div 4 = i THEN word[p % 4] ELSE inputImg[p]]
      /\ UNCHANGED <<result, buf, fc3Out>>
  BY IterationsOf DEF Load
<1>2. /\ stage = "load" /\ i \in Nat /\ i < Words /\ pos'[1] = i + 1
      /\ pos' \in [Lanes -> Nat] /\ pos'[1] <= Iterations(stage)[1]
      /\ UNCHANGED <<stage, image, fed, fetched>>
  <2>1. "load" \in {Calls[c] : c \in 1 .. 7} /\ 1 \in Lanes
    BY StageNames DEF Lanes
  <2> QED
    BY <1>1, <2>1, IterateEffect, IterationsOf DEF LenetInv
<1>3. /\ image \in Nat /\ fed \in Nat /\ image * Words \in Nat
      /\ DOMAIN inputImg = 0 .. Pixels - 1
  BY Sizes DEF LenetInv, LenetTypes
<1>4. WordsTaken = image * Words + i /\ WordsTaken' = WordsTaken + 1 /\ WordsTaken \in Nat
  BY <1>2, <1>3 DEF WordsTaken
<1>5. /\ img \in Seq({WordOf(j) : j \in Nat}) /\ WordsTaken + Len(img) = fed
      /\ \A j \in 1 .. Len(img) : img[j] = WordOf(WordsTaken + j - 1)
  BY DEF LenetInv, ImgInv
<1>6. /\ word = img[1] /\ Len(img) \in Nat /\ Len(img) > 0
      /\ img' \in Seq({WordOf(j) : j \in Nat}) /\ Len(img') = Len(img) - 1
      /\ \A j \in 1 .. Len(img') : img'[j] = img[j + 1]
  BY <1>1, <1>5
<1>7. word = WordOf(WordsTaken)
  <2>1. 1 \in 1 .. Len(img) /\ WordsTaken + 1 - 1 = WordsTaken
    BY <1>4, <1>6
  <2> QED
    BY <1>5, <1>6, <2>1
<1> HIDE DEF word
<1>8. ImgInv'
  <2>1. WordsTaken' + Len(img') = fed'
    <3>1. WordsTaken + Len(img) = fed
      BY <1>5
    <3>2. Len(img) \in Nat /\ Len(img') = Len(img) - 1
      BY <1>6
    <3> QED
      BY <1>2, <1>4, <3>1, <3>2
  <2>2. ASSUME NEW j \in 1 .. Len(img')
        PROVE  img'[j] = WordOf(WordsTaken' + j - 1)
    <3>1. /\ j \in Nat /\ j + 1 \in 1 .. Len(img)
          /\ WordsTaken' + j - 1 = WordsTaken + (j + 1) - 1
      BY <1>4, <1>6
    <3> QED
      BY <1>5, <1>6, <3>1
  <2> QED
    BY <1>6, <2>1, <2>2 DEF ImgInv, WordOf
<1>9. WordsTaken \div Words = image /\ WordsTaken % Words = i
  <2>1. i \in 0 .. Words - 1
    BY <1>2, Sizes
  <2>2. (image * Words + i) \div Words = image /\ (image * Words + i) % Words = i
    BY <1>3, <2>1, GroupOf, Sizes
  <2> QED
    BY <1>4, <2>2
<1>10. ASSUME NEW p \in 0 .. Pixels - 1, p \div 4 < i + 1
       PROVE  inputImg'[p] = Act("pixel", image, p)
  <2>1. p \in Nat /\ p \div 4 \in Nat /\ p % 4 \in 0 .. 3 /\ p = 4 * (p \div 4) + (p % 4)
    BY Sizes
  <2>2. inputImg'[p] = IF p \div 4 = i THEN word[p % 4] ELSE inputImg[p]
    BY <1>1, <1>3
  <2>3. CASE p \div 4 = i
    <3>1. word[p % 4] = Act("pixel", image, 4 * i + (p % 4))
      BY <1>7, <1>9, <2>1 DEF WordOf
    <3> QED
      BY <2>1, <2>2, <2>3, <3>1
  <2>4. CASE p \div 4 # i
    <3>1. p \div 4 < i
      BY <1>2, <1>10, <2>1, <2>4
    <3> QED
      BY <1>2, <2>2, <2>4, <3>1 DEF LenetInv, LayersInv, LoadInv
  <2> QED
    BY <2>3, <2>4
<1> HIDE DEF i
<1>11. LayersInv'
  BY <1>2, <1>10 DEF LayersInv, LoadInv, Conv1Inv, Conv2Inv, FC1Inv, FC2Inv, FC3Inv, OutInv, Act
<1>12. LenetTypes'
  BY <1>1, <1>2 DEF LenetInv, LenetTypes, Iterations
<1>13. ResultInv'
  BY <1>1, <1>2 DEF LenetInv, ResultInv, ScoresSent, ScoreOf
<1> QED
  BY <1>8, <1>11, <1>12, <1>13 DEF LenetInv

\* The score sent is the one that comes next.
LEMMA OutputStep ==
  ASSUME LenetInv, Output
  PROVE  LenetInv'
<1> DEFINE i == pos[1]
<1>1. /\ Iterate("out", 1, Iterations("out")[1])
      /\ result' = Append(result, fc3Out[i]) /\ UNCHANGED <<img, inputImg, buf, fc3Out>>
  BY IterationsOf DEF Output, dataVars
<1>2. /\ stage = "out" /\ i \in Nat /\ i < Scores /\ pos'[1] = i + 1
      /\ pos' \in [Lanes -> Nat] /\ pos'[1] <= Iterations(stage)[1]
      /\ UNCHANGED <<stage, image, fed, fetched>>
  <2>1. "out" \in {Calls[c] : c \in 1 .. 7} /\ 1 \in Lanes
    BY StageNames DEF Lanes
  <2> QED
    BY <1>1, <2>1, IterateEffect, IterationsOf DEF LenetInv
<1>3. image \in Nat /\ image * Scores \in Nat
  BY Sizes DEF LenetInv, LenetTypes
<1>4. ScoresSent = image * Scores + i /\ ScoresSent' = ScoresSent + 1 /\ ScoresSent \in Nat
  BY <1>2, <1>3 DEF ScoresSent
<1>5. /\ result \in Seq({ScoreOf(j) : j \in Nat}) /\ fetched \in Seq({ScoreOf(j) : j \in Nat})
      /\ Len(fetched) + Len(result) = ScoresSent
      /\ \A j \in 1 .. Len(result) : result[j] = ScoreOf(Len(fetched) + j - 1)
  BY DEF LenetInv, ResultInv
<1>6. fc3Out[i] = ScoreOf(ScoresSent)
  <2>1. i \in 0 .. Scores - 1 /\ 0 + i = i
    BY <1>2, Sizes
  <2>2. (image * Scores + i) \div Scores = image /\ (image * Scores + i) % Scores = i
    BY <1>3, <2>1, GroupOf, Sizes
  <2>3. ScoresSent \div Scores = image /\ ScoresSent % Scores = i
    BY <1>4, <2>2
  <2> QED
    BY <1>2, <2>1, <2>3 DEF LenetInv, LayersInv, OutInv, Whole, Part, ScoreOf
<1>7. /\ result' \in Seq({ScoreOf(j) : j \in Nat}) /\ Len(result) \in Nat
      /\ Len(result') = Len(result) + 1 /\ result'[Len(result) + 1] = fc3Out[i]
      /\ \A j \in 1 .. Len(result) : result'[j] = result[j]
  BY <1>1, <1>4, <1>5, <1>6
<1>8. Len(fetched) \in Nat /\ Len(fetched) + Len(result) = ScoresSent
  BY <1>5
<1>9. Len(fetched) + Len(result') = ScoresSent'
  BY <1>4, <1>7, <1>8
<1>10. ASSUME NEW j \in 1 .. Len(result')
       PROVE  result'[j] = ScoreOf(Len(fetched) + j - 1)
  <2>1. CASE j = Len(result) + 1
    <3>1. Len(fetched) + j - 1 = ScoresSent
      BY <1>7, <1>8, <2>1
    <3> QED
      BY <1>6, <1>7, <2>1, <3>1
  <2>2. CASE j # Len(result) + 1
    <3>1. j \in 1 .. Len(result)
      BY <1>7, <2>2
    <3> QED
      BY <1>5, <1>7, <3>1
  <2> QED
    BY <2>1, <2>2
<1>11. ResultInv'
  BY <1>2, <1>5, <1>7, <1>9, <1>10 DEF LenetInv, ResultInv, ScoreOf
<1> HIDE DEF i
<1>12. LayersInv'
  BY <1>1, <1>2 DEF LenetInv, LayersInv, LoadInv, Conv1Inv, Conv2Inv, FC1Inv, FC2Inv, FC3Inv,
     OutInv, Whole, Part, Act
<1>13. LenetTypes'
  BY <1>1, <1>2 DEF LenetInv, LenetTypes, Iterations
<1>14. ImgInv'
  BY <1>1, <1>2 DEF LenetInv, ImgInv, WordsTaken, WordOf
<1> QED
  BY <1>11, <1>12, <1>13, <1>14 DEF LenetInv

\* The word fed is the one that comes next.
LEMMA FeedStep ==
  ASSUME LenetInv, Feed
  PROVE  LenetInv'
<1>1. /\ img' = Append(img, WordOf(fed)) /\ fed' = fed + 1
      /\ UNCHANGED <<result, inputImg, buf, fc3Out, stage, pos, image, fetched>>
  BY DEF Feed, WordOf, dataVars
<1>2. /\ image \in Nat /\ fed \in Nat /\ image * Words \in Nat /\ pos[1] \in Nat
  BY Sizes DEF LenetInv, LenetTypes, Lanes
<1>3. WordsTaken' = WordsTaken /\ WordsTaken \in Nat
  BY <1>1, <1>2, Sizes DEF WordsTaken
<1>4. /\ img \in Seq({WordOf(j) : j \in Nat}) /\ WordsTaken + Len(img) = fed
      /\ \A j \in 1 .. Len(img) : img[j] = WordOf(WordsTaken + j - 1)
  BY DEF LenetInv, ImgInv
<1>5. /\ img' \in Seq({WordOf(j) : j \in Nat}) /\ Len(img) \in Nat
      /\ Len(img') = Len(img) + 1 /\ img'[Len(img) + 1] = WordOf(fed)
      /\ \A j \in 1 .. Len(img) : img'[j] = img[j]
  <2>1. WordOf(fed) \in {WordOf(j) : j \in Nat}
    BY <1>2
  <2> QED
    BY <1>1, <1>4, <2>1
<1>6. ASSUME NEW j \in 1 .. Len(img')
      PROVE  img'[j] = WordOf(WordsTaken + j - 1)
  <2>1. CASE j = Len(img) + 1
    <3>1. WordsTaken + j - 1 = fed
      BY <1>3, <1>4, <1>5, <2>1
    <3> QED
      BY <1>5, <2>1, <3>1
  <2>2. CASE j # Len(img) + 1
    <3>1. j \in 1 .. Len(img)
      BY <1>5, <2>2
    <3> QED
      BY <1>4, <1>5, <3>1
  <2> QED
    BY <2>1, <2>2
<1>7. WordsTaken + Len(img') = fed'
  <2>1. Len(img) \in Nat /\ Len(img') = Len(img) + 1 /\ WordsTaken + Len(img) = fed
    BY <1>4, <1>5
  <2> QED
    BY <1>1, <1>3, <2>1
<1>8. ImgInv'
  BY <1>3, <1>5, <1>6, <1>7 DEF ImgInv, WordOf
<1>9. LenetTypes' /\ ResultInv'
  BY <1>1, <1>2 DEF LenetInv, LenetTypes, Iterations, ResultInv, ScoresSent, ScoreOf
<1>10. LayersInv'
  BY <1>1 DEF LenetInv, LayersInv, LoadInv, Conv1Inv, Conv2Inv, FC1Inv, FC2Inv, FC3Inv,
     OutInv, Whole, Part, Split, Act
<1> QED
  BY <1>8, <1>9, <1>10 DEF LenetInv

\* What the testbench receives is the oldest score on its way.
LEMMA FetchStep ==
  ASSUME LenetInv, Fetch
  PROVE  LenetInv'
<1>1. /\ result # <<>> /\ fetched' = Append(fetched, Head(result)) /\ result' = Tail(result)
      /\ UNCHANGED <<img, inputImg, buf, fc3Out, stage, pos, image, fed>>
  BY DEF Fetch, dataVars
<1>2. /\ result \in Seq({ScoreOf(j) : j \in Nat}) /\ fetched \in Seq({ScoreOf(j) : j \in Nat})
      /\ Len(fetched) + Len(result) = ScoresSent
      /\ \A j \in 1 .. Len(result) : result[j] = ScoreOf(Len(fetched) + j - 1)
      /\ \A j \in 1 .. Len(fetched) : fetched[j] = ScoreOf(j - 1)
  BY DEF LenetInv, ResultInv
<1>3. /\ Len(result) \in Nat /\ Len(result) > 0 /\ Head(result) = result[1]
      /\ Head(result) \in {ScoreOf(j) : j \in Nat}
      /\ result' \in Seq({ScoreOf(j) : j \in Nat}) /\ Len(result') = Len(result) - 1
      /\ \A j \in 1 .. Len(result') : result'[j] = result[j + 1]
  BY <1>1, <1>2
<1>4. Len(fetched) \in Nat
  BY <1>2
<1>5. Head(result) = ScoreOf(Len(fetched))
  <2>1. 1 \in 1 .. Len(result) /\ Len(fetched) + 1 - 1 = Len(fetched)
    BY <1>3, <1>4
  <2> QED
    BY <1>2, <1>3, <2>1
<1>6. /\ fetched' \in Seq({ScoreOf(j) : j \in Nat}) /\ Len(fetched') = Len(fetched) + 1
      /\ fetched'[Len(fetched) + 1] = ScoreOf(Len(fetched))
      /\ \A j \in 1 .. Len(fetched) : fetched'[j] = fetched[j]
  BY <1>1, <1>2, <1>3, <1>5
<1>7. ScoresSent' = ScoresSent
  BY <1>1 DEF ScoresSent
<1>8. Len(fetched') + Len(result') = ScoresSent
  <2>1. Len(fetched) + Len(result) = ScoresSent
    BY <1>2
  <2>2. /\ Len(result) \in Nat /\ Len(result') = Len(result) - 1
        /\ Len(fetched') = Len(fetched) + 1
    BY <1>3, <1>6
  <2> QED
    BY <1>4, <2>1, <2>2
<1>9. ASSUME NEW j \in 1 .. Len(result')
      PROVE  result'[j] = ScoreOf(Len(fetched') + j - 1)
  <2>1. j + 1 \in 1 .. Len(result) /\ Len(fetched') + j - 1 = Len(fetched) + (j + 1) - 1
    BY <1>3, <1>4, <1>6
  <2> QED
    BY <1>2, <1>3, <2>1
<1>10. ASSUME NEW j \in 1 .. Len(fetched')
       PROVE  fetched'[j] = ScoreOf(j - 1)
  <2>1. CASE j = Len(fetched) + 1
    <3>1. j - 1 = Len(fetched)
      BY <1>4, <2>1
    <3> QED
      BY <1>6, <2>1, <3>1
  <2>2. CASE j # Len(fetched) + 1
    <3>1. j \in 1 .. Len(fetched)
      BY <1>4, <1>6, <2>2
    <3> QED
      BY <1>2, <1>6, <3>1
  <2> QED
    BY <2>1, <2>2
<1>11. ResultInv'
  BY <1>3, <1>6, <1>7, <1>8, <1>9, <1>10 DEF ResultInv, ScoreOf
<1>12. LenetTypes' /\ ImgInv'
  BY <1>1 DEF LenetInv, LenetTypes, Iterations, ImgInv, WordsTaken, WordOf
<1>13. LayersInv'
  BY <1>1 DEF LenetInv, LayersInv, LoadInv, Conv1Inv, Conv2Inv, FC1Inv, FC2Inv, FC3Inv,
     OutInv, Whole, Part, Split, Act
<1> QED
  BY <1>11, <1>12, <1>13 DEF LenetInv

\* What follows what.
LEMMA AdvanceStages ==
  ASSUME NextCall
  PROVE  /\ pos = Iterations(stage) /\ pos' = Start
         /\ UNCHANGED <<img, result, inputImg, buf, fc3Out, fed, fetched>>
         /\ \/ stage = "load" /\ stage' = "conv1" /\ image' = image
            \/ stage = "conv1" /\ stage' = "conv2" /\ image' = image
            \/ stage = "conv2" /\ stage' = "fc1" /\ image' = image
            \/ stage = "fc1" /\ stage' = "fc2" /\ image' = image
            \/ stage = "fc2" /\ stage' = "fc3" /\ image' = image
            \/ stage = "fc3" /\ stage' = "out" /\ image' = image
            \/ stage = "out" /\ stage' = "load" /\ image' = image + 1
<1>1. PICK c \in 1 .. 7 : /\ stage = Calls[c] /\ stage' = Calls[(c % 7) + 1]
                          /\ image' = IF c = 7 THEN image + 1 ELSE image
  BY DEF NextCall, Advance, Calls
<1>2. c = 1 \/ c = 2 \/ c = 3 \/ c = 4 \/ c = 5 \/ c = 6 \/ c = 7
  OBVIOUS
<1>3. /\ pos = Iterations(stage) /\ pos' = Start
      /\ UNCHANGED <<img, result, inputImg, buf, fc3Out, fed, fetched>>
  BY DEF NextCall, Advance, dataVars
<1> QED
  BY <1>1, <1>2, <1>3 DEF Calls

\* Two halves lie side by side.
LEMMA HalvesMakeWhole ==
  ASSUME NEW lo \in Buffers, NEW hi \in Buffers, NEW half \in Nat, NEW name,
         Part(buf[lo], name, 0, half), Part(buf[hi], name, half, half)
  PROVE  Whole(Split(lo, hi, half), name, 2 * half)
<1> SUFFICES ASSUME NEW k \in 0 .. 2 * half - 1
             PROVE  Split(lo, hi, half)[k] = Act(name, image, k)
  BY DEF Whole, Part
<1>1. CASE k < half
  <2>1. buf[lo][k] = Act(name, image, 0 + k) /\ 0 + k = k
    BY <1>1 DEF Part
  <2> QED
    BY <1>1, <2>1 DEF Split
<1>2. CASE ~(k < half)
  <2>1. k - half \in 0 .. half - 1 /\ half + (k - half) = k
    BY <1>2
  <2>2. buf[hi][k - half] = Act(name, image, half + (k - half))
    BY <2>1 DEF Part
  <2> QED
    BY <1>2, <2>1, <2>2 DEF Split
<1> QED
  BY <1>1, <1>2

\* When a layer ends its output is whole: the input of the next one.
LEMMA AdvanceStep ==
  ASSUME LenetInv, NextCall
  PROVE  LenetInv'
<1>1. /\ pos = Iterations(stage) /\ pos' \in [Lanes -> Nat] /\ pos'[1] = 0 /\ pos'[2] = 0
      /\ UNCHANGED <<img, result, inputImg, buf, fc3Out, fed, fetched>>
  BY AdvanceStages DEF Start, Lanes
<1>2. image \in Nat /\ image' \in Nat
  BY AdvanceStages DEF LenetInv, LenetTypes
<1>3. stage' \in {"load", "conv1", "conv2", "fc1", "fc2", "fc3", "out"}
  BY AdvanceStages
<1>4. pos'[1] <= Iterations(stage')[1]
  BY <1>1, <1>3, IterationsOf, Sizes
<1>5. LenetTypes'
  BY <1>1, <1>2, <1>3, <1>4, StageNames DEF LenetInv, LenetTypes, Iterations
<1>6. WordsTaken' = WordsTaken
  <2>1. CASE stage = "load"
    <3>1. image' = image /\ stage' # "load" /\ pos[1] = Words
      BY <1>1, <2>1, AdvanceStages, IterationsOf
    <3> QED
      BY <2>1, <3>1 DEF WordsTaken
  <2>2. CASE stage = "out"
    <3>1. image' = image + 1 /\ stage' = "load"
      BY <2>2, AdvanceStages
    <3>2. (image + 1) * Words + 0 = image * Words + Words
      BY <1>2, Sizes
    <3> QED
      BY <1>1, <2>2, <3>1, <3>2 DEF WordsTaken
  <2>3. CASE stage \notin {"load", "out"}
    BY <2>3, AdvanceStages DEF WordsTaken
  <2> QED
    BY <2>1, <2>2, <2>3
<1>7. ScoresSent' = ScoresSent
  <2>1. CASE stage = "out"
    <3>1. image' = image + 1 /\ stage' # "out" /\ pos[1] = Scores
      BY <1>1, <2>1, AdvanceStages, IterationsOf
    <3>2. (image + 1) * Scores + 0 = image * Scores + Scores
      BY <1>2, Sizes
    <3> QED
      BY <2>1, <3>1, <3>2 DEF ScoresSent
  <2>2. CASE stage # "out"
    <3>1. image' = image /\ (stage' = "out" => pos'[1] = 0)
      BY <1>1, <2>2, AdvanceStages
    <3> QED
      BY <2>2, <3>1 DEF ScoresSent
  <2> QED
    BY <2>1, <2>2
<1>8. ImgInv' /\ ResultInv'
  BY <1>1, <1>6, <1>7, ChannelsKept DEF LenetInv
<1>9. LayersInv'
  <2>1. CASE stage = "load"
    <3>1. /\ pos[1] = Words /\ stage' = "conv1" /\ image' = image
      BY <1>1, <2>1, AdvanceStages, IterationsOf
    <3>2. Whole(inputImg, "pixel", Pixels)'
      <4>1. ASSUME NEW p \in 0 .. Pixels - 1
            PROVE  inputImg'[p] = Act("pixel", image', p)
        <5>1. p \div 4 < Words
          BY Sizes
        <5> QED
          BY <1>1, <2>1, <3>1, <5>1 DEF LenetInv, LayersInv, LoadInv, Act
      <4> QED
        BY <4>1 DEF Whole, Part
    <3> QED
      BY <1>1, <3>1, <3>2
      DEF LayersInv, LoadInv, Conv1Inv, Conv2Inv, FC1Inv, FC2Inv, FC3Inv, OutInv, Whole, Part
  <2>2. CASE stage = "conv1"
    <3>1. /\ pos[1] = ConvOut /\ stage' = "conv2" /\ image' = image
      BY <1>1, <2>2, AdvanceStages, IterationsOf
    <3>2. Whole(buf[2], "conv1", ConvOut)
      BY <2>2, <3>1 DEF LenetInv, LayersInv, Conv1Inv
    <3> QED
      BY <1>1, <3>1, <3>2
      DEF LayersInv, LoadInv, Conv1Inv, Conv2Inv, FC1Inv, FC2Inv, FC3Inv, OutInv, Whole, Part, Act
  <2>3. CASE stage = "conv2"
    <3>1. /\ pos[1] = 2 * Half1 /\ stage' = "fc1" /\ image' = image
      BY <1>1, <2>3, AdvanceStages, IterationsOf
    <3>2. Whole(Split(1, 3, Half1), "conv2", 2 * Half1)
      BY <2>3, <3>1 DEF LenetInv, LayersInv, Conv2Inv
    <3>3. Whole(Split(1, 3, Half1), "conv2", 2 * Half1)'
      BY <1>1, <3>1, <3>2 DEF Whole, Part, Act, Split
    <3> QED
      BY <1>1, <3>1, <3>3
      DEF LayersInv, LoadInv, Conv1Inv, Conv2Inv, FC1Inv, FC2Inv, FC3Inv, OutInv, Part
  <2>4. CASE stage = "fc1"
    <3>1. /\ pos[1] = Half2 /\ pos[2] = Half2 /\ stage' = "fc2" /\ image' = image
      BY <1>1, <2>4, AdvanceStages, IterationsOf
    <3>2. Part(buf[2], "fc1", 0, Half2) /\ Part(buf[4], "fc1", Half2, Half2)
      BY <2>4, <3>1 DEF LenetInv, LayersInv, FC1Inv
    <3>3. Whole(Split(2, 4, Half2), "fc1", 2 * Half2)
      BY <3>2, HalvesMakeWhole, Sizes DEF Buffers
    <3>4. Whole(Split(2, 4, Half2), "fc1", 2 * Half2)'
      BY <1>1, <3>1, <3>3 DEF Whole, Part, Act, Split
    <3> QED
      BY <1>1, <3>1, <3>4
      DEF LayersInv, LoadInv, Conv1Inv, Conv2Inv, FC1Inv, FC2Inv, FC3Inv, OutInv, Part
  <2>5. CASE stage = "fc2"
    <3>1. /\ pos[1] = Half3 /\ pos[2] = Half3 /\ stage' = "fc3" /\ image' = image
      BY <1>1, <2>5, AdvanceStages, IterationsOf
    <3>2. Part(buf[1], "fc2", 0, Half3) /\ Part(buf[3], "fc2", Half3, Half3)
      BY <2>5, <3>1 DEF LenetInv, LayersInv, FC2Inv
    <3>3. Whole(Split(1, 3, Half3), "fc2", 2 * Half3)
      BY <3>2, HalvesMakeWhole, Sizes DEF Buffers
    <3>4. Whole(Split(1, 3, Half3), "fc2", 2 * Half3)'
      BY <1>1, <3>1, <3>3 DEF Whole, Part, Act, Split
    <3> QED
      BY <1>1, <3>1, <3>4
      DEF LayersInv, LoadInv, Conv1Inv, Conv2Inv, FC1Inv, FC2Inv, FC3Inv, OutInv, Whole, Part
  <2>6. CASE stage = "fc3"
    <3>1. /\ pos[1] = Scores /\ stage' = "out" /\ image' = image
      BY <1>1, <2>6, AdvanceStages, IterationsOf
    <3>2. Whole(fc3Out, "fc3", Scores)
      BY <2>6, <3>1 DEF LenetInv, LayersInv, FC3Inv
    <3> QED
      BY <1>1, <3>1, <3>2
      DEF LayersInv, LoadInv, Conv1Inv, Conv2Inv, FC1Inv, FC2Inv, FC3Inv, OutInv, Whole, Part, Act
  <2>7. CASE stage = "out"
    <3>1. stage' = "load"
      BY <2>7, AdvanceStages
    <3>2. \A p \in 0 .. Pixels - 1 : ~(p \div 4 < pos'[1])
      BY <1>1, Sizes
    <3> QED
      BY <3>1, <3>2
      DEF LayersInv, LoadInv, Conv1Inv, Conv2Inv, FC1Inv, FC2Inv, FC3Inv, OutInv
  <2> QED
    BY <2>1, <2>2, <2>3, <2>4, <2>5, <2>6, <2>7, StageNames DEF LenetInv, LenetTypes
<1> QED
  BY <1>5, <1>8, <1>9 DEF LenetInv

-----------------------------------------------------------------------------
(* The invariant                                                           *)

\* The invariant is inductive.
LEMMA InitLenet == Init => LenetInv
<1> SUFFICES ASSUME Init
             PROVE  LenetInv
  OBVIOUS
<1>1. image = 0 /\ fed = 0 /\ stage = "load" /\ pos = Start /\ Start[1] = 0
  BY DEF Init, Start, Lanes
<1>2. LenetTypes
  <2>1. pos \in [Lanes -> Nat] /\ pos[1] <= Iterations(stage)[1]
    BY <1>1, IterationsOf, Sizes DEF Start
  <2>2. stage \in {Calls[c] : c \in 1 .. 7}
    BY <1>1, StageNames
  <2>3. /\ DOMAIN buf = Buffers /\ \A b \in Buffers : DOMAIN buf[b] = 0 .. ConvOut - 1
        /\ DOMAIN inputImg = 0 .. Pixels - 1 /\ DOMAIN fc3Out = 0 .. Scores - 1
    BY DEF Init
  <2> QED
    BY <1>1, <2>1, <2>2, <2>3 DEF LenetTypes
<1>3. WordsTaken = 0 /\ ScoresSent = 0
  BY <1>1, Sizes DEF WordsTaken, ScoresSent
<1>4. img = <<>> /\ result = <<>> /\ fetched = <<>>
  BY DEF Init
<1>5. ImgInv
  BY <1>1, <1>3, <1>4, EmptySeq DEF ImgInv
<1>6. ResultInv
  BY <1>3, <1>4, EmptySeq DEF ResultInv
<1>7. LayersInv
  <2>1. \A p \in 0 .. Pixels - 1 : ~(p \div 4 < pos[1])
    BY <1>1, Sizes
  <2> QED
    BY <1>1, <2>1
    DEF LayersInv, LoadInv, Conv1Inv, Conv2Inv, FC1Inv, FC2Inv, FC3Inv, OutInv
<1> QED
  BY <1>2, <1>5, <1>6, <1>7 DEF LenetInv

LEMMA NextLenet == LenetInv /\ [Next]_vars => LenetInv'
<1> SUFFICES ASSUME LenetInv, [Next]_vars
             PROVE  LenetInv'
  OBVIOUS
<1>1. CASE Feed
  BY <1>1, FeedStep
<1>2. CASE Fetch
  BY <1>2, FetchStep
<1>3. CASE Load
  BY <1>3, LoadStep
<1>4. CASE Fused_Conv1
  BY <1>4, Conv1Step
<1>5. CASE Fused_Conv2
  BY <1>5, Conv2Step
<1>6. CASE FC1_1 \/ FC1_2
  BY <1>6, FC1Step
<1>7. CASE FC2_1 \/ FC2_2
  BY <1>7, FC2Step
<1>8. CASE FC3
  BY <1>8, FC3Step
<1>9. CASE Output
  BY <1>9, OutputStep
<1>10. CASE NextCall
  BY <1>10, AdvanceStep
<1>11. CASE UNCHANGED vars
  BY <1>11
  DEF vars, dataVars, LenetInv, LenetTypes, ImgInv, ResultInv, LayersInv, LoadInv, Conv1Inv,
      Conv2Inv, FC1Inv, FC2Inv, FC3Inv, OutInv, WordsTaken, ScoresSent, Whole, Part, Split
<1> QED
  BY <1>1, <1>2, <1>3, <1>4, <1>5, <1>6, <1>7, <1>8, <1>9, <1>10, <1>11
  DEF Next, DoFilter, Finished

LEMMA LenetInvariant == Spec => []LenetInv
BY InitLenet, NextLenet, PTL DEF Spec

\* The scores the testbench receives are the scores of its images, in order,
\* whatever the sizes of the layers, of the channels and of the run.
THEOREM ScoresRightHolds == Spec => []ScoresRight
<1>1. LenetInv => ScoresRight
  <2> SUFFICES ASSUME LenetInv, NEW n \in 1 .. Len(fetched)
               PROVE  fetched[n] = Act("fc3", (n - 1) \div Scores, (n - 1) % Scores)
    BY DEF ScoresRight
  <2> QED
    BY DEF LenetInv, ResultInv, ScoreOf
<1> QED
  BY <1>1, LenetInvariant, PTL

\* No layer overwrites what it still has to read.
THEOREM InputsIntactHolds == Spec => []InputsIntact
<1>1. LenetInv => InputsIntact
  BY DEF LenetInv, LayersInv, Conv1Inv, Conv2Inv, FC1Inv, FC2Inv, FC3Inv, OutInv,
         InputsIntact, Whole, Part
<1> QED
  BY <1>1, LenetInvariant, PTL
=============================================================================
