----------------------------- MODULE PeStream ------------------------------
(***************************************************************************)
(* One accelerator between a host that streams images into it and a host   *)
(* that reads answers out of it.  The host keeps to the discipline of the  *)
(* program in sw/main.cpp: it pushes the rows of the next image only after *)
(* it has read the answer to the one before; but it may push them while    *)
(* the accelerator still sits out the latency of that computation.         *)
(***************************************************************************)
EXTENDS LenetPE

CONSTANT Images   \* images the host streams (bounds the model)

ASSUME ImagesAssumption == Images \in Nat
ASSUME PEAssumption == PE # {}

VARIABLES sent,      \* rows pushed so far, over all images
          answers    \* the answers read, in order

hostVars == <<sent, answers>>
streamVars == <<peVars, hostVars>>

p1 == CHOOSE p \in PE : TRUE

\* The row of image k at position i.
RowOf(k, i) == [image |-> k, row |-> i]

StreamInit == PeInit /\ sent = 0 /\ answers = <<>>

Push ==
  /\ sent < Images * Rows
  /\ sent < (Len(answers) + 1) * Rows
  /\ PushRow(p1, RowOf(sent \div Rows, sent % Rows))
  /\ sent' = sent + 1
  /\ UNCHANGED answers

Read ==
  /\ PopResult(p1)
  /\ answers' = Append(answers, Head(resultFifo[p1]))
  /\ UNCHANGED sent

Threads == (WriteBuffer(p1) \/ DoFilter(p1)) /\ UNCHANGED hostVars

Finished == Len(answers) = Images /\ UNCHANGED streamVars

StreamNext == Push \/ Read \/ Threads \/ Finished

StreamSpec ==
  /\ StreamInit /\ [][StreamNext]_streamVars
  /\ WF_streamVars(Push) /\ WF_streamVars(Read)
  /\ WF_streamVars(WriteBuffer(p1) /\ UNCHANGED hostVars)
  /\ WF_streamVars(DoFilter(p1) /\ UNCHANGED hostVars)

-----------------------------------------------------------------------------
(* Properties                                                              *)

Image(k) == [i \in RowIndex |-> RowOf(k, i)]

\* The k-th answer is that of the k-th image, whole: no row of another image
\* reaches input_img between the start of a computation and its end.
AnswersMatchImages == \A k \in 1 .. Len(answers) : answers[k] = Image(k - 1)

\* Every image that was sent whole gets its answer: the FIFOs never block
\* everybody, although the next image may wait behind the latency of this one.
AllAnswered ==
  (Len(answers) < sent \div Rows) ~> (Len(answers) = sent \div Rows)
=============================================================================
