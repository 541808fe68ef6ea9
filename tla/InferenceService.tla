-------------------------- MODULE InferenceService --------------------------
(***************************************************************************)
(* What the machine as a whole promises: the harts share out the images,   *)
(* each image goes to one hart, that hart receives the answer to this      *)
(* image and finds it right, and in the end hart 0 reports that no answer  *)
(* was wrong.  A hart may take an image past the bound while the others    *)
(* take the last ones.                                                     *)
(***************************************************************************)
EXTENDS Integers, FiniteSets

CONSTANTS Hart, NumImages, None

VARIABLES taken,    \* images handed out so far
          working,  \* the image each hart works on, or None
          answer,   \* the image that the answer each hart holds belongs to
          report    \* None, or the number of mismatches that was printed

vars == <<taken, working, answer, report>>

Init ==
  /\ taken = 0
  /\ working = [h \in Hart |-> None]
  /\ answer = [h \in Hart |-> None]
  /\ report = None

Take(h) ==
  /\ report = None /\ working[h] = None
  /\ taken < NumImages + Cardinality(Hart) - 1
  /\ working' = [working EXCEPT ![h] = taken]
  /\ taken' = taken + 1
  /\ UNCHANGED <<answer, report>>

Deliver(h) ==
  /\ working[h] # None /\ answer[h] # working[h]
  /\ answer' = [answer EXCEPT ![h] = working[h]]
  /\ UNCHANGED <<taken, working, report>>

Check(h) ==
  /\ working[h] # None /\ answer[h] = working[h]
  /\ working' = [working EXCEPT ![h] = None]
  /\ UNCHANGED <<taken, answer, report>>

Report ==
  /\ report = None
  /\ taken >= NumImages /\ \A h \in Hart : working[h] = None
  /\ report' = 0
  /\ UNCHANGED <<taken, working, answer>>

Next == Report \/ \E h \in Hart : Take(h) \/ Deliver(h) \/ Check(h)

\* Somebody always makes progress until the report is out.
Spec == Init /\ [][Next]_vars /\ WF_vars(Next)
=============================================================================
