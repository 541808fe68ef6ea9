----------------------------- MODULE LrScProofs -----------------------------
(***************************************************************************)
(* For any set of harts and any word size, the load-reserved /             *)
(* store-conditional loops of sem_wait and sem_post implement the atomic   *)
(* counting semaphore of Semaphore.tla.  The inductive invariant is that a *)
(* register about to be stored under a valid reservation is fresh.         *)
(***************************************************************************)
EXTENDS LrScSemaphore, TLAPS

IInv == TypeOK /\ ReservationFresh

\* No hart holds a reservation at the start.
LEMMA InitIInv == Init => IInv
BY WordSizeAssumption DEF Init, IInv, TypeOK, ReservationFresh, Labels

\* Every instruction keeps the registers of valid reservations fresh.
LEMMA NextIInv == IInv /\ [Next]_vars => IInv'
<1> SUFFICES ASSUME IInv, [Next]_vars PROVE IInv'
  OBVIOUS
<1> USE WordSizeAssumption DEF IInv, TypeOK, ReservationFresh, Labels
<1>1. ASSUME NEW h \in Hart, NEW l \in {"wait_lr", "post_lr"}, Enter(h, l)
      PROVE  IInv'
  BY <1>1 DEF Enter, Goto
<1>2. ASSUME NEW h \in Hart, WaitLr(h) PROVE IInv'
  BY <1>2 DEF WaitLr, Goto
<1>3. ASSUME NEW h \in Hart, PostLr(h) PROVE IInv'
  BY <1>3 DEF PostLr, Goto
<1>4. ASSUME NEW h \in Hart, NEW f \in {"wait_sc", "post_sc"},
             StoreConditional(h, f)
      PROVE  IInv'
  BY <1>4 DEF StoreConditional, Goto
<1>5. ASSUME NEW h \in Hart, NEW f \in Labels, NEW t \in {"wait_lr", "post_lr"},
             ConditionFails(h, f, t)
      PROVE  IInv'
  BY <1>5 DEF ConditionFails, Goto
<1>6. ASSUME NEW h \in Hart, NEW count \in 0 .. WORD - 1, SemInit(h, count)
      PROVE  IInv'
  BY <1>6 DEF SemInit
<1>7. CASE UNCHANGED vars
  BY <1>7 DEF vars
<1> QED
  BY <1>1, <1>2, <1>3, <1>4, <1>5, <1>6, <1>7 DEF Next, SemWait, SemPost

\* A store under a valid reservation always stores what the word holds now,
\* changed by one: no semaphore update is lost between lr.w and sc.w.
THEOREM LrScFresh == Spec => [](TypeOK /\ ReservationFresh)
<1>1. IInv => TypeOK /\ ReservationFresh
  BY DEF IInv
<1> QED
  BY InitIInv, NextIInv, <1>1, PTL DEF Spec

-----------------------------------------------------------------------------
(* Every step of the loops is a step of the abstract semaphore or a        *)
(* stutter.                                                                *)

\* The initial word is the initial value of the abstract semaphore.
LEMMA InitRefines == Init => Abstract!Init
BY DEF Init, Abstract!Init, CallOf

\* Every instruction is one step of the abstract semaphore or none.
LEMMA StepRefines ==
  IInv /\ [Next]_vars => [Abstract!Next]_(Abstract!vars)
<1> SUFFICES ASSUME IInv, [Next]_vars
             PROVE  [Abstract!Next]_(Abstract!vars)
  OBVIOUS
<1> USE WordSizeAssumption
    DEF IInv, TypeOK, Labels, CallOf, Goto, Abstract!vars
<1>1. ASSUME NEW h \in Hart, Enter(h, "wait_lr")
      PROVE  Abstract!Call(h, "wait")
  BY <1>1 DEF Enter, Abstract!Call
<1>2. ASSUME NEW h \in Hart, Enter(h, "post_lr")
      PROVE  Abstract!Call(h, "post")
  BY <1>2 DEF Enter, Abstract!Call
<1>3. ASSUME NEW h \in Hart, WaitLr(h) PROVE UNCHANGED Abstract!vars
  BY <1>3 DEF WaitLr
<1>4. ASSUME NEW h \in Hart, PostLr(h) PROVE UNCHANGED Abstract!vars
  BY <1>4 DEF PostLr
<1>5. ASSUME NEW h \in Hart, StoreConditional(h, "wait_sc")
      PROVE  Abstract!Wait(h)
  BY <1>5 DEF StoreConditional, ReservationFresh, Abstract!Wait, Abstract!Return
<1>6. ASSUME NEW h \in Hart, StoreConditional(h, "post_sc")
      PROVE  Abstract!Post(h)
  BY <1>6 DEF StoreConditional, ReservationFresh, Abstract!Post, Abstract!Return
<1>7. ASSUME NEW h \in Hart, \/ ConditionFails(h, "wait_sc", "wait_lr")
                             \/ ConditionFails(h, "post_sc", "post_lr")
      PROVE  UNCHANGED Abstract!vars
  BY <1>7 DEF ConditionFails
<1>8. ASSUME NEW h \in Hart, NEW count \in 0 .. WORD - 1, SemInit(h, count)
      PROVE  Abstract!SetValue(h, count)
  BY <1>8 DEF SemInit, Abstract!SetValue
<1>9. CASE UNCHANGED vars
  BY <1>9 DEF vars
<1> QED
  BY <1>1, <1>2, <1>3, <1>4, <1>5, <1>6, <1>7, <1>8, <1>9
     DEF Next, SemWait, SemPost, Abstract!Next

\* sem_init, sem_wait and sem_post, compiled to their LR/SC loops, are the
\* atomic operations at which Harts.tla uses them.
THEOREM LrScRefinement == Spec => ImplementsSemaphore
<1>1. Spec => []IInv
  BY InitIInv, NextIInv, PTL DEF Spec
<1> QED
  BY <1>1, InitRefines, StepRefines, PTL
     DEF Spec, ImplementsSemaphore, Abstract!Spec
=============================================================================
