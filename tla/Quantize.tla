------------------------------ MODULE Quantize -----------------------------
(***************************************************************************)
(* The arithmetic of a neuron: a sum of products is scaled by a factor and *)
(* a shift by 16, and clamped at zero.  hls/Lenet.cpp takes the maximum of *)
(* the pooled sums first, scales once and stores 8 bits; vp/lenet.h scales *)
(* each, stores an int and takes the maximum of those.  Both build on the  *)
(* same weights.                                                           *)
(***************************************************************************)
EXTENDS Integers

CONSTANT Sums   \* sums explored

ASSUME SumsAssumption == Sums \subseteq Int

MaxInt == 2147483647
Scaled == {"conv1", "conv2", "fc1", "fc2"}   \* layers; FC3 does not scale

\* Of each layer: the magnitudes of the weights of its strongest neuron, added
\* up.  vp/lenet_weight.h has the same weights.
Conv1Norm == 798
Conv2Norm == 4057
FC1Norm == 8310
FC2Norm == 2896
WeightNorm == [conv1 |-> Conv1Norm, conv2 |-> Conv2Norm, fc1 |-> FC1Norm, fc2 |-> FC2Norm]

\* The factors, and how many sums are pooled into one activation.
Factor == [conv1 |-> 130, conv2 |-> 89, fc1 |-> 335, fc2 |-> 318]
PoolSize == [conv1 |-> 4, conv2 |-> 4, fc1 |-> 1, fc2 |-> 1]

\* What a sum of products can be: inputs and activations have 8 bits, those of
\* vp/lenet.h as long as the layer before stored what fits.
LargestSum(l) == WeightNorm[l] * 128

VARIABLES layer,
          at,    \* "mac", "pool" or "store"
          sum,       \* p_sum
          taken,     \* sums pooled so far
          maxSum,    \* max_val of hls/Lenet.cpp
          maxAct,    \* max_val of vp/lenet.h
          stored     \* what each of them stores in the end

quantVars == <<layer, at, sum, taken, maxSum, maxAct, stored>>

Shift16(x) == x \div 65536   \* >> of a negative int rounds down, too
Clamp(x) == IF x > 0 THEN x ELSE 0
Byte(x) == ((x + 128) % 256) - 128

Magnitude(x) == IF x < 0 THEN -x ELSE x
Larger(a, b) == IF a < b THEN b ELSE a

QuantInit ==
  /\ layer \in Scaled
  /\ at = "mac" /\ sum = 0
  /\ taken = 0 /\ maxSum = 0 /\ maxAct = 0
  /\ stored = [hls |-> 0, vp |-> 0]

\* Mutant of MultiplyAccumulate: weights of -128 throughout.
MultiplyAccumulateAny(x) ==
  /\ at = "mac"
  /\ sum' = x /\ at' = "pool"
  /\ UNCHANGED <<layer, taken, maxSum, maxAct, stored>>

\* The loops over one patch leave some sum that the weights permit.
MultiplyAccumulate(x) ==
  /\ at = "mac"
  /\ x \in -LargestSum(layer) .. LargestSum(layer)
  /\ sum' = x /\ at' = "pool"
  /\ UNCHANGED <<layer, taken, maxSum, maxAct, stored>>

Scale(x) == Clamp(Shift16(x * Factor[layer]))

\* Mutant of Pool: the sum is cut to 8 bits before it is compared.
PoolBytes ==
  /\ at = "pool"
  /\ maxSum' = Larger(maxSum, Byte(sum))
  /\ maxAct' = Larger(maxAct, Scale(sum))
  /\ taken' = taken + 1
  /\ at' = IF taken' = PoolSize[layer] THEN "store" ELSE "mac"
  /\ UNCHANGED <<layer, sum, stored>>

\* One more sum of the pooling window, in either program; both maxima start
\* at or are clamped to zero.
Pool ==
  /\ at = "pool"
  /\ maxSum' = Larger(maxSum, sum)
  /\ maxAct' = Larger(maxAct, Scale(sum))
  /\ taken' = taken + 1
  /\ at' = IF taken' = PoolSize[layer] THEN "store" ELSE "mac"
  /\ UNCHANGED <<layer, sum, stored>>

Store8 ==
  /\ at = "store"
  /\ stored' = [hls |-> Byte(Scale(maxSum)), vp |-> maxAct]
  /\ at' = "mac" /\ sum' = 0 /\ taken' = 0 /\ maxSum' = 0 /\ maxAct' = 0
  /\ UNCHANGED layer

QuantNext == (\E x \in Sums : MultiplyAccumulate(x)) \/ Pool \/ Store8

QuantSpec == QuantInit /\ [][QuantNext]_quantVars

-----------------------------------------------------------------------------
(* Properties                                                              *)

\* The synthesised accelerator and the virtual platform store the same
\* activation as long as it fits 8 bits: scaling after the maximum is scaling
\* before it, and what differs is only what 8 bits cannot hold
\* (hls/Lenet.cpp:225-236, vp/lenet.h:170-194).
SameAsPlatform == stored.vp <= 127 => stored.hls = stored.vp

\* No product overflows an int, whatever the image, in spite of 400 inputs of
\* 8 bits: with weights of -128 throughout it would (hls/Lenet.cpp:895).
ProductsFit == \A x \in {sum, maxSum} : Magnitude(x) <= MaxInt \div Factor[layer]
=============================================================================
