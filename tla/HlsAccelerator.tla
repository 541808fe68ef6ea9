--------------------------- MODULE HlsAccelerator ---------------------------
(***************************************************************************)
(* The synthesised accelerator under three lenses, one of which, `lens`,   *)
(* is looked through in a behaviour: how the layers pass activations       *)
(* through the buffers (HlsLenet), how a convolution gets at its inputs    *)
(* (HlsConv), and what the arithmetic of a neuron yields (Quantize).       *)
(***************************************************************************)
EXTENDS HlsLenet, HlsConv, Quantize

VARIABLE lens

lensVars == <<lens, vars, convVars, quantVars>>

Unless(l, fixed) == lens = l \/ fixed

LensInit ==
  /\ lens \in {"buffers", "inputs", "arithmetic"}
  /\ Init
  /\ ConvInit
  /\ Unless("inputs", form = "window" /\ \A s \in Shapes : s.rows <= shape.rows)
  /\ QuantInit
  /\ Unless("arithmetic", layer = "conv1")

OnlyBuffers == lens = "buffers" /\ UNCHANGED <<lens, convVars, quantVars>>
OnlyInputs == lens = "inputs" /\ UNCHANGED <<lens, vars, quantVars>>
OnlyArithmetic == lens = "arithmetic" /\ UNCHANGED <<lens, vars, convVars>>

LensNext ==
  \/ OnlyBuffers /\ Next
  \/ OnlyInputs /\ ConvNext
  \/ OnlyArithmetic /\ QuantNext

\* The three threads of the first lens are clocked SystemC threads.
LensSpec ==
  /\ LensInit /\ [][LensNext]_lensVars
  /\ WF_lensVars(OnlyBuffers /\ Feed)
  /\ WF_lensVars(OnlyBuffers /\ Fetch)
  /\ WF_lensVars(OnlyBuffers /\ DoFilter)
=============================================================================
