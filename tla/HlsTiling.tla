------------------------------ MODULE HlsTiling -----------------------------
(***************************************************************************)
(* hls/Lenet.cpp as the configurations BASIC_FC_PE* of                     *)
(* stratus/project.tcl build it, with FC_PE_UNROLL defined: the fully      *)
(* connected layers compute PE_SIZE neurons at a time, and read their      *)
(* inputs from one buffer each.                                            *)
(***************************************************************************)
EXTENDS HlsLenet

CONSTANT PE_SIZE   \* 1, 2, 4, 8 or 16 in the configurations

\* PE_SIZE iterations of a layer at once.
Tile(layer, count) ==
  /\ stage = layer /\ pos[1] < count
  /\ pos' = [pos EXCEPT ![1] = @ + PE_SIZE]
  /\ UNCHANGED <<stage, image, fed, fetched, img, result, inputImg>>

\* What the tile leaves in an array: neurons below `bound` are written.
Tiled(array, bound, layer, inputs, before, n) ==
  [i \in DOMAIN array |->
     IF i \in pos[1] .. pos[1] + PE_SIZE - 1 /\ i < bound
     THEN Neuron(layer, i, inputs, before, n) ELSE array[i]]

FC1_PE ==
  /\ Tile("fc1", 2 * Half2)
  /\ buf' = [buf EXCEPT ![2] =
               Tiled(@, 2 * Half2, "fc1", buf[1], "conv2", 2 * Half1)]
  /\ UNCHANGED fc3Out

\* The bound of the store is that of the next layer.
FC2_PE ==
  /\ Tile("fc2", 2 * Half3)
  /\ buf' = [buf EXCEPT ![1] =
               Tiled(@, Scores, "fc2", buf[2], "fc1", 2 * Half2)]
  /\ UNCHANGED fc3Out

FC3_PE ==
  /\ Tile("fc3", Scores)
  /\ fc3Out' = Tiled(fc3Out, Scores, "fc3", buf[1], "fc2", 2 * Half3)
  /\ UNCHANGED buf

\* Iterations rounded up to whole tiles.
Up(count) == ((count + PE_SIZE - 1) \div PE_SIZE) * PE_SIZE

TiledIterations(s) ==
  CASE s = "fc1" -> [Start EXCEPT ![1] = Up(2 * Half2)]
    [] s = "fc2" -> [Start EXCEPT ![1] = Up(2 * Half3)]
    [] s = "fc3" -> [Start EXCEPT ![1] = Up(Scores)]
    [] OTHER -> Iterations(s)

TiledFilter ==
  \/ Load \/ Fused_Conv1 \/ Fused_Conv2 \/ FC1_PE \/ FC2_PE \/ FC3_PE \/ Output
  \/ Advance(TiledIterations(stage))

TilingNext == Feed \/ Fetch \/ TiledFilter \/ Finished

TilingSpec == Init /\ [][TilingNext]_vars
=============================================================================
