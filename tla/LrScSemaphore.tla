--------------------------- MODULE LrScSemaphore ---------------------------
(***************************************************************************)
(* sem_init, sem_wait and sem_post of sw/main.cpp instruction by           *)
(* instruction: a load-reserved / store-conditional loop over one word.    *)
(* Instructions that use only registers (beqz, addi, bnez) are part of the *)
(* memory access before them.  Every hart may call either function at any  *)
(* moment, and sem_init whenever it is not inside a call.                  *)
(*                                                                         *)
(* The reservation is RV32A's, outside this repository: lr.w registers it, *)
(* a store of anybody else to the word takes it away, and sc.w may fail    *)
(* even with it (a trap of hart 0 between lr.w and sc.w, for example).     *)
(***************************************************************************)
EXTENDS Integers

CONSTANTS Hart, WORD

ASSUME WordSizeAssumption == WORD \in Nat \ {0}

VARIABLES mem,       \* the word *__sem
          pc,        \* the next instruction of each hart
          value,     \* each hart's register %[value]
          reserved   \* the harts whose reservation is still valid

vars == <<mem, pc, value, reserved>>

Init ==
  /\ mem = 0
  /\ pc = [h \in Hart |-> "idle"]
  /\ value = [h \in Hart |-> 0]
  /\ reserved = {}

Goto(h, from, to) ==
  /\ pc[h] = from
  /\ pc' = [pc EXCEPT ![h] = to]

Enter(h, label) == Goto(h, "idle", label) /\ UNCHANGED <<mem, value, reserved>>

\* lr.w; beqz back to lr.w on zero; addi -1
WaitLr(h) ==
  /\ Goto(h, "wait_lr", IF mem = 0 THEN "wait_lr" ELSE "wait_sc")
  /\ value' = [value EXCEPT ![h] = IF mem = 0 THEN 0 ELSE mem - 1]
  /\ reserved' = reserved \cup {h}
  /\ UNCHANGED mem

\* Mutant of PostLr: the word never wraps.
PostLrUnbounded(h) ==
  /\ Goto(h, "post_lr", "post_sc")
  /\ value' = [value EXCEPT ![h] = mem + 1]
  /\ reserved' = reserved \cup {h}
  /\ UNCHANGED mem

\* lr.w; addi 1
PostLr(h) ==
  /\ Goto(h, "post_lr", "post_sc")
  /\ value' = [value EXCEPT ![h] = (mem + 1) % WORD]
  /\ reserved' = reserved \cup {h}
  /\ UNCHANGED mem

\* Mutant of StoreConditional: the reservations of others survive the store.
StoreKeepsReservations(h, from) ==
  /\ h \in reserved
  /\ Goto(h, from, "idle")
  /\ mem' = value[h]
  /\ value' = [value EXCEPT ![h] = 0]
  /\ reserved' = reserved \ {h}

\* Mutant of StoreConditional: a plain store.
StoreAlways(h, from) ==
  /\ Goto(h, from, "idle")
  /\ mem' = value[h]
  /\ value' = [value EXCEPT ![h] = 0]
  /\ reserved' = {}

\* sc.w succeeds only with a valid reservation, and ends everybody's.
StoreConditional(h, from) ==
  /\ h \in reserved
  /\ Goto(h, from, "idle")
  /\ mem' = value[h]
  /\ value' = [value EXCEPT ![h] = 0]
  /\ reserved' = {}

\* sc.w fails, and bnez goes back to lr.w.
ConditionFails(h, from, to) ==
  /\ Goto(h, from, to)
  /\ value' = [value EXCEPT ![h] = 0]
  /\ reserved' = reserved \ {h}
  /\ UNCHANGED mem

\* sem_init is a plain store.
SemInit(h, count) ==
  /\ pc[h] = "idle"
  /\ mem' = count
  /\ reserved' = {}
  /\ UNCHANGED <<pc, value>>

SemWait(h) ==
  \/ Enter(h, "wait_lr")
  \/ WaitLr(h)
  \/ StoreConditional(h, "wait_sc")
  \/ ConditionFails(h, "wait_sc", "wait_lr")

SemPost(h) ==
  \/ Enter(h, "post_lr")
  \/ PostLr(h)
  \/ StoreConditional(h, "post_sc")
  \/ ConditionFails(h, "post_sc", "post_lr")

Next ==
  \E h \in Hart :
    SemWait(h) \/ SemPost(h) \/ \E count \in 0 .. WORD - 1 : SemInit(h, count)

Spec == Init /\ [][Next]_vars

-----------------------------------------------------------------------------
(* Properties                                                              *)

Labels == {"idle", "wait_lr", "wait_sc", "post_lr", "post_sc"}

\* The word of sw/main.cpp:77-114, its reservations and registers keep their types.
TypeOK ==
  /\ mem \in 0 .. WORD - 1
  /\ pc \in [Hart -> Labels]
  /\ value \in [Hart -> 0 .. WORD - 1]
  /\ reserved \subseteq Hart

\* What a hart with a valid reservation is about to store is computed from
\* what the word holds now, however many other harts run the loop.
ReservationFresh ==
  \A h \in reserved :
    /\ pc[h] = "wait_sc" => mem > 0 /\ value[h] = mem - 1
    /\ pc[h] = "post_sc" => value[h] = (mem + 1) % WORD

CallOf(label) ==
  IF label \in {"wait_lr", "wait_sc"} THEN "wait"
  ELSE IF label \in {"post_lr", "post_sc"} THEN "post"
  ELSE "none"

Abstract == INSTANCE Semaphore
              WITH value <- mem, call <- [h \in Hart |-> CallOf(pc[h])]

\* The loops of sem_wait and sem_post implement an atomic counting semaphore:
\* no update is lost, none is applied twice, no wait takes from zero.
ImplementsSemaphore == Abstract!Spec
=============================================================================
