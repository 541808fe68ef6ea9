----------------------------- MODULE Semaphore -----------------------------
(***************************************************************************)
(* What sem_init, sem_wait and sem_post of sw/main.cpp promise: a counter  *)
(* that each completed call changes exactly once, atomically, and that a   *)
(* wait takes only when it is positive.  Harts.tla uses the semaphores at  *)
(* this level.  The counter is a machine word and wraps.                   *)
(***************************************************************************)
EXTENDS Integers

CONSTANTS Hart,   \* the harts
          WORD    \* number of values of a word (2^32 in the code)

VARIABLES value,  \* the counter
          call    \* what each hart is calling: "none", "wait" or "post"

vars == <<value, call>>

Init ==
  /\ value = 0
  /\ call = [h \in Hart |-> "none"]

Call(h, c) ==
  /\ call[h] = "none"
  /\ call' = [call EXCEPT ![h] = c]
  /\ UNCHANGED value

\* The effect of a call, at one instant between its start and its return.
Return(h, c) ==
  /\ call[h] = c
  /\ call' = [call EXCEPT ![h] = "none"]

Wait(h) == Return(h, "wait") /\ value > 0 /\ value' = value - 1
Post(h) == Return(h, "post") /\ value' = (value + 1) % WORD

SetValue(h, count) ==
  call[h] = "none" /\ value' = count /\ UNCHANGED call

Next ==
  \E h \in Hart :
    \/ Call(h, "wait") \/ Call(h, "post")
    \/ Wait(h) \/ Post(h)
    \/ \E count \in 0 .. WORD - 1 : SetValue(h, count)

Spec == Init /\ [][Next]_vars
=============================================================================
