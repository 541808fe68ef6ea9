---------------------------- MODULE HartsProofs ----------------------------
(***************************************************************************)
(* Theorems about Harts.tla for every number of harts and of images: its   *)
(* types, mutual exclusion, unique image numbers, the bound of cnt, the    *)
(* barrier, the sum of the errors, the order of the lines and the end.     *)
(***************************************************************************)
EXTENDS Harts, FoldLemmas

-----------------------------------------------------------------------------
(* Type correctness                                                        *)

\* There is always a hart 0.
LEMMA HartZero == 0 \in Hart
BY ProcessorsAssumption DEF Hart

\* A hart that leaves the barrier goes on to print.
LEMMA LabelSets ==
  /\ AfterBarrier(0) \in Labels
  /\ \A h \in Hart : AfterBarrier(h) \in Labels
BY DEF AfterBarrier, Labels, EndLabels

\* The initial state has the types of TypeOK.
LEMMA InitTypeOK == Init => TypeOK
<1> SUFFICES ASSUME Init PROVE TypeOK
  OBVIOUS
<1>1. pc \in [Hart -> Labels]
  BY DEF Init, Labels, SetupLabels, TakeLabels
<1>2. j \in 0 .. PROCESSORS - 1
  BY ProcessorsAssumption DEF Init
<1>3. printed \in Seq(Hart)
  BY DEF Init
<1> QED
  BY <1>1, <1>2, <1>3 DEF Init, TypeOK

\* Every step of the program keeps the types; one case per action.
LEMMA NextTypeOK == TypeOK /\ [Next]_vars => TypeOK'
<1> SUFFICES ASSUME TypeOK, [Next]_vars PROVE TypeOK'
  OBVIOUS
<1> USE ProcessorsAssumption, MaxMismatchAssumption, HartZero
    DEF TypeOK, Step, imageVars, sumVars, barrierVars, printVars, exitVars
<1>1. ASSUME SetPriority
      PROVE  TypeOK'
  <2>1. UNCHANGED <<sem, printSem, cnt, curId, xfer, reg, localError,
                    totalError, barrierCounter, j, accCompleted,
                    registered, exitCounter, exitTicket, halted, printed,
                    printedTotal>>
    BY <1>1 DEF SetPriority
  <2>2. pc' \in [Hart -> Labels]
    BY <1>1 DEF SetPriority, Labels, SetupLabels
  <2> QED
    BY <2>1, <2>2
<1>2. ASSUME SetHandler
      PROVE  TypeOK'
  <2>1. UNCHANGED <<sem, printSem, cnt, curId, xfer, reg, localError,
                    totalError, barrierCounter, j, accCompleted,
                    exitCounter, exitTicket, halted, printed, printedTotal>>
    BY <1>2 DEF SetHandler
  <2>2. pc' \in [Hart -> Labels]
    BY <1>2 DEF SetHandler, Labels, SetupLabels
  <2>3. registered' \in Nat
    BY <1>2 DEF SetHandler
  <2> QED
    BY <2>1, <2>2, <2>3
<1>3. ASSUME InitSemaphores
      PROVE  TypeOK'
  <2>1. UNCHANGED <<cnt, curId, xfer, reg, localError, totalError,
                    barrierCounter, j, accCompleted, registered,
                    exitCounter, exitTicket, halted, printed, printedTotal>>
    BY <1>3 DEF InitSemaphores, SemInit, Sems, Mutexes
  <2>2. pc' \in [Hart -> Labels]
    <3>1. \E t \in Labels : Step(0, pc[0], t)
      BY <1>3, Zenon DEF InitSemaphores, Labels, SetupLabels, TakeLabels, Step
    <3> QED
      BY <3>1
  <2>3. sem' \in [Sems -> Nat]
    BY <1>3 DEF InitSemaphores, SemInit, Sems, Mutexes
  <2>4. printSem' \in [0 .. PROCESSORS -> Nat]
    <3>1. \/ UNCHANGED printSem
          \/ printSem' = [i \in 0 .. PROCESSORS |->
                            IF i < PROCESSORS THEN 0 ELSE printSem[i]]
      BY <1>3 DEF InitSemaphores
    <3>2. CASE UNCHANGED printSem
      BY <3>2
    <3>3. CASE printSem' = [i \in 0 .. PROCESSORS |->
                             IF i < PROCESSORS THEN 0 ELSE printSem[i]]
      <4> DEFINE v(i) == IF i < PROCESSORS THEN 0 ELSE printSem[i]
      <4>1. \A i \in 0 .. PROCESSORS : v(i) \in Nat
        OBVIOUS
      <4>2. printSem' = [i \in 0 .. PROCESSORS |-> v(i)]
        BY <3>3
      <4> HIDE DEF v
      <4> QED
        BY <4>1, <4>2
    <3> QED
      BY <3>1, <3>2, <3>3
  <2> QED
    BY <2>1, <2>2, <2>3, <2>4
<1>4. ASSUME NEW h \in Hart, NEW f, NEW t \in Labels, Skip(h, f, t)
      PROVE  TypeOK'
  <2>1. UNCHANGED <<sem, printSem, cnt, curId, xfer, reg, localError,
                    totalError, barrierCounter, j, accCompleted,
                    registered, exitCounter, exitTicket, halted, printed,
                    printedTotal>>
    BY <1>4 DEF Skip
  <2>2. pc' \in [Hart -> Labels]
    BY <1>4 DEF Skip
  <2> QED
    BY <2>1, <2>2
<1>5. ASSUME NEW h \in Hart, NEW f, NEW s \in Sems, NEW t \in Labels,
             Acquire(h, f, s, t)
      PROVE  TypeOK'
  <2>1. UNCHANGED <<printSem, cnt, curId, xfer, reg, localError,
                    totalError, barrierCounter, j, accCompleted,
                    registered, exitCounter, exitTicket, halted, printed,
                    printedTotal>>
    BY <1>5 DEF Acquire, SemWait
  <2>2. pc' \in [Hart -> Labels]
    BY <1>5 DEF Acquire, SemWait
  <2>3. sem' \in [Sems -> Nat]
    BY <1>5 DEF Acquire, SemWait
  <2> QED
    BY <2>1, <2>2, <2>3
<1>6. ASSUME NEW h \in Hart, NEW f, NEW s \in Sems, NEW t \in Labels,
             Release(h, f, s, t)
      PROVE  TypeOK'
  <2>1. UNCHANGED <<printSem, cnt, curId, xfer, reg, localError,
                    totalError, barrierCounter, j, accCompleted,
                    registered, exitCounter, exitTicket, halted, printed,
                    printedTotal>>
    BY <1>6 DEF Release, SemPost
  <2>2. pc' \in [Hart -> Labels]
    BY <1>6 DEF Release, SemPost
  <2>3. sem' \in [Sems -> Nat]
    BY <1>6 DEF Release, SemPost
  <2> QED
    BY <2>1, <2>2, <2>3
<1>7. ASSUME NEW h \in Hart, LoadCnt(h)
      PROVE  TypeOK'
  <2>1. UNCHANGED <<sem, printSem, cnt, xfer, reg, localError, totalError,
                    barrierCounter, j, accCompleted, registered,
                    exitCounter, exitTicket, halted, printed, printedTotal>>
    BY <1>7 DEF LoadCnt
  <2>2. pc' \in [Hart -> Labels]
    BY <1>7 DEF LoadCnt, Labels, TakeLabels
  <2>3. curId' \in [Hart -> Nat \cup {NoImage}]
    BY <1>7 DEF LoadCnt
  <2> QED
    BY <2>1, <2>2, <2>3
<1>8. ASSUME NEW h \in Hart, StoreCnt(h)
      PROVE  TypeOK'
  <2>1. UNCHANGED <<sem, printSem, curId, xfer, reg, localError,
                    totalError, barrierCounter, j, accCompleted,
                    registered, exitCounter, exitTicket, halted, printed,
                    printedTotal>>
    BY <1>8 DEF StoreCnt
  <2>2. pc' \in [Hart -> Labels]
    BY <1>8 DEF StoreCnt, Labels, TakeLabels
  <2>3. cnt' \in Nat
    <3>1. curId[h] \in Nat \cup {-1}
      BY DEF NoImage
    <3>2. cnt' = curId[h] + 1
      BY <1>8 DEF StoreCnt
    <3> HIDE DEF TypeOK
    <3> QED
      BY <3>1, <3>2
  <2> QED
    BY <2>1, <2>2, <2>3
<1>9. ASSUME NEW h \in Hart, ClearCompleted(h)
      PROVE  TypeOK'
  <2>1. UNCHANGED <<sem, printSem, cnt, curId, reg, localError, totalError,
                    barrierCounter, j, registered, exitCounter, exitTicket,
                    halted, printed, printedTotal>>
    BY <1>9 DEF ClearCompleted
  <2>2. pc' \in [Hart -> Labels]
    BY <1>9 DEF ClearCompleted, Labels, DmaLabels
  <2>3. accCompleted' \in [Hart -> BOOLEAN]
    BY <1>9 DEF ClearCompleted
  <2>4. xfer' \in [Hart -> {"write", "read"}]
    BY <1>9 DEF ClearCompleted
  <2> QED
    BY <2>1, <2>2, <2>3, <2>4
<1>10. ASSUME NEW h \in Hart, NEW bad \in 0 .. MaxMismatch, Compare(h, bad)
      PROVE  TypeOK'
  <2>1. UNCHANGED <<sem, printSem, cnt, curId, reg, totalError,
                    barrierCounter, j, accCompleted, registered,
                    exitCounter, exitTicket, halted, printed, printedTotal>>
    BY <1>10 DEF Compare
  <2>2. pc' \in [Hart -> Labels]
    BY <1>10 DEF Compare, Labels, TakeLabels
  <2>3. localError' \in [Hart -> Nat]
    BY <1>10 DEF Compare
  <2>4. xfer' \in [Hart -> {"write", "read"}]
    BY <1>10 DEF Compare
  <2> QED
    BY <2>1, <2>2, <2>3, <2>4
<1>11. ASSUME NEW h \in Hart, LoadTotal(h)
      PROVE  TypeOK'
  <2>1. UNCHANGED <<sem, printSem, cnt, curId, xfer, localError,
                    totalError, barrierCounter, j, accCompleted,
                    registered, exitCounter, exitTicket, halted, printed,
                    printedTotal>>
    BY <1>11 DEF LoadTotal
  <2>2. pc' \in [Hart -> Labels]
    BY <1>11 DEF LoadTotal, Labels, SumLabels
  <2>3. reg' \in [Hart -> Nat]
    BY <1>11 DEF LoadTotal
  <2> QED
    BY <2>1, <2>2, <2>3
<1>12. ASSUME NEW h \in Hart, StoreTotal(h)
      PROVE  TypeOK'
  <2>1. UNCHANGED <<sem, printSem, cnt, curId, xfer, localError,
                    barrierCounter, j, accCompleted, registered,
                    exitCounter, exitTicket, halted, printed, printedTotal>>
    BY <1>12 DEF StoreTotal
  <2>2. pc' \in [Hart -> Labels]
    BY <1>12 DEF StoreTotal, Labels, SumLabels
  <2>3. totalError' \in Nat
    BY <1>12 DEF StoreTotal
  <2>4. reg' \in [Hart -> Nat]
    BY <1>12 DEF StoreTotal
  <2> QED
    BY <2>1, <2>2, <2>3, <2>4
<1>13. ASSUME NEW h \in Hart, LoadCounter(h)
      PROVE  TypeOK'
  <2>1. UNCHANGED <<sem, printSem, cnt, curId, xfer, localError,
                    totalError, barrierCounter, j, accCompleted,
                    registered, exitCounter, exitTicket, halted, printed,
                    printedTotal>>
    BY <1>13 DEF LoadCounter
  <2>2. pc' \in [Hart -> Labels]
    BY <1>13 DEF LoadCounter, Labels, ArriveLabels
  <2>3. reg' \in [Hart -> Nat]
    BY <1>13 DEF LoadCounter
  <2> QED
    BY <2>1, <2>2, <2>3
<1>14. ASSUME NEW h \in Hart, StoreCounter(h)
      PROVE  TypeOK'
  <2>1. UNCHANGED <<sem, printSem, cnt, curId, xfer, localError,
                    totalError, j, accCompleted, registered, exitCounter,
                    exitTicket, halted, printed, printedTotal>>
    BY <1>14 DEF StoreCounter
  <2>2. pc' \in [Hart -> Labels]
    BY <1>14 DEF StoreCounter, Labels, LeaveLabels
  <2>3. barrierCounter' \in Nat
    BY <1>14 DEF StoreCounter
  <2>4. reg' \in [Hart -> Nat]
    BY <1>14 DEF StoreCounter
  <2> QED
    BY <2>1, <2>2, <2>3, <2>4
<1>15. ASSUME NEW h \in Hart, BarrierRelease(h)
      PROVE  TypeOK'
  <2>1. UNCHANGED <<printSem, cnt, curId, xfer, reg, localError,
                    totalError, barrierCounter, accCompleted, registered,
                    exitCounter, exitTicket, halted, printed, printedTotal>>
    BY <1>15 DEF BarrierRelease, SemPost, Sems
  <2>2. pc' \in [Hart -> Labels]
    BY <1>15 DEF BarrierRelease, SemPost, Sems, Labels, LeaveLabels
  <2>3. sem' \in [Sems -> Nat]
    BY <1>15 DEF BarrierRelease, SemPost, Sems
  <2>4. j' \in 0 .. PROCESSORS - 1
    BY <1>15 DEF BarrierRelease, SemPost, Sems
  <2> QED
    BY <2>1, <2>2, <2>3, <2>4
<1>16. ASSUME NEW h \in Hart, PrintWait(h)
      PROVE  TypeOK'
  <2>1. UNCHANGED <<sem, cnt, curId, xfer, reg, localError, totalError,
                    barrierCounter, j, accCompleted, registered,
                    exitCounter, exitTicket, halted, printed, printedTotal>>
    <3>1. h \in 0 .. PROCESSORS
      BY DEF Hart
    <3> QED
      BY <1>16, <3>1 DEF PrintWait
  <2>2. pc' \in [Hart -> Labels]
    BY <1>16 DEF PrintWait, Hart, Labels, EndLabels
  <2>3. printSem' \in [0 .. PROCESSORS -> Nat]
    <3>1. h \in 0 .. PROCESSORS
      BY DEF Hart
    <3>2. printSem[h] > 0 /\ printSem' = [printSem EXCEPT ![h] = @ - 1]
      BY <1>16 DEF PrintWait
    <3>3. printSem \in [0 .. PROCESSORS -> Nat]
      OBVIOUS
    <3> HIDE DEF TypeOK
    <3> QED
      BY <3>1, <3>2, <3>3
  <2> QED
    BY <2>1, <2>2, <2>3
<1>17. ASSUME NEW h \in Hart, PrintLine(h)
      PROVE  TypeOK'
  <2>1. UNCHANGED <<sem, printSem, cnt, curId, xfer, reg, localError,
                    totalError, barrierCounter, j, accCompleted,
                    registered, exitCounter, exitTicket, halted>>
    BY <1>17 DEF PrintLine
  <2>2. pc' \in [Hart -> Labels]
    BY <1>17 DEF PrintLine, Labels, EndLabels
  <2>3. printed' \in Seq(Hart)
    BY <1>17 DEF PrintLine
  <2>4. printedTotal' \in Nat
    BY <1>17 DEF PrintLine
  <2> QED
    BY <2>1, <2>2, <2>3, <2>4
<1>18. ASSUME NEW h \in Hart, PrintPost(h)
      PROVE  TypeOK'
  <2>1. UNCHANGED <<sem, cnt, curId, xfer, reg, localError, totalError,
                    barrierCounter, j, accCompleted, registered,
                    exitCounter, exitTicket, halted, printed, printedTotal>>
    <3>1. h + 1 \in 0 .. PROCESSORS
      BY DEF Hart
    <3> QED
      BY <1>18, <3>1 DEF PrintPost
  <2>2. pc' \in [Hart -> Labels]
    BY <1>18 DEF PrintPost, Hart, Labels, EndLabels
  <2>3. printSem' \in [0 .. PROCESSORS -> Nat]
    <3>1. h + 1 \in 0 .. PROCESSORS
      BY DEF Hart
    <3>2. printSem' = [printSem EXCEPT ![h + 1] = @ + 1]
      BY <1>18 DEF PrintPost
    <3>3. printSem \in [0 .. PROCESSORS -> Nat]
      OBVIOUS
    <3> HIDE DEF TypeOK
    <3> QED
      BY <3>1, <3>2, <3>3
  <2> QED
    BY <2>1, <2>2, <2>3
<1>19. ASSUME NEW h \in Hart, CountExit(h)
      PROVE  TypeOK'
  <2>1. UNCHANGED <<sem, printSem, cnt, curId, xfer, reg, localError,
                    totalError, barrierCounter, j, accCompleted,
                    registered, halted, printed, printedTotal>>
    BY <1>19 DEF CountExit
  <2>2. pc' \in [Hart -> Labels]
    BY <1>19 DEF CountExit, Labels, EndLabels
  <2>3. exitTicket' \in [Hart -> Nat]
    BY <1>19 DEF CountExit
  <2>4. exitCounter' \in Nat
    BY <1>19 DEF CountExit
  <2> QED
    BY <2>1, <2>2, <2>3, <2>4
<1>20. ASSUME NEW h \in Hart, SysExit(h)
      PROVE  TypeOK'
  <2>1. UNCHANGED <<pc, sem, printSem, cnt, curId, xfer, reg, localError,
                    totalError, barrierCounter, j, accCompleted,
                    registered, exitCounter, exitTicket, printed,
                    printedTotal>>
    BY <1>20 DEF SysExit
  <2>2. halted' \in BOOLEAN
    BY <1>20 DEF SysExit
  <2> QED
    BY <2>1, <2>2
<1>21. ASSUME NEW h \in Hart, AccIrqHandler(h)
      PROVE  TypeOK'
  <2>1. UNCHANGED <<pc, sem, printSem, cnt, curId, xfer, reg, localError,
                    totalError, barrierCounter, j, registered, exitCounter,
                    exitTicket, halted, printed, printedTotal>>
    BY <1>21 DEF AccIrqHandler
  <2>2. accCompleted' \in [Hart -> BOOLEAN]
    BY <1>21 DEF AccIrqHandler
  <2> QED
    BY <2>1, <2>2
<1>22. CASE UNCHANGED vars
  BY <1>22 DEF vars
<1>23. ASSUME NEW h \in Hart, Infer(h) PROVE TypeOK'
  BY <1>23, <1>4, <1>5, <1>6, <1>7, <1>8, <1>9, <1>10
     DEF Infer, TestCnt, TakeLock, DropLock, TakeDmaLock, WriteSrc, WriteDst,
         WriteLen, WriteOp, DropDmaLock, SeeCompleted, Labels, TakeLabels,
         DmaLabels, AnswerLabels, SumLabels, Sems, Mutexes
<1>24. ASSUME NEW h \in Hart, Sum(h) \/ Barrier(h) PROVE TypeOK'
  BY <1>24, <1>4, <1>5, <1>6, <1>11, <1>12, <1>13, <1>14, <1>15, LabelSets
     DEF Sum, SumLock, SumUnlock, Barrier, BarrierLock, BarrierUnlock,
         BarrierUnlockLast, BarrierWait, BarrierReleased, Labels, SumLabels,
         ArriveLabels, LeaveLabels, Sems, Mutexes
<1> QED
  BY <1>1, <1>2, <1>3, <1>16, <1>17, <1>18, <1>19, <1>20, <1>21, <1>22, <1>23,
     <1>24
     DEF Next, HartStep, Setup, Finish, Halted

\* Every variable keeps the range its C declaration and its use give it; in
\* particular no semaphore and no counter ever goes below zero.
THEOREM TypeCorrect == Spec => []TypeOK
BY InitTypeOK, NextTypeOK, PTL DEF Spec

-----------------------------------------------------------------------------
(* Mutual exclusion                                                        *)
(*                                                                         *)
(* Seen from one mutex m, a step of hart h is quiet, acquires m, releases  *)
(* m or initialises m.                                                     *)

Enters(m, h) == pc[h] \notin Critical(m) /\ pc'[h] \in Critical(m)
Exits(m, h) == pc[h] \in Critical(m) /\ pc'[h] \notin Critical(m)
BecomesReady(m, h) ==
  h = 0 /\ pc[h] \in Uninitialised(m) /\ pc'[h] \notin Uninitialised(m)

MutexMove(m, h) ==
  /\ pc' = [pc EXCEPT ![h] = pc'[h]]
  /\ \/ /\ sem'[m] = sem[m]
        /\ pc'[h] \in Critical(m) <=> pc[h] \in Critical(m)
        /\ pc'[h] \in Uninitialised(m) <=> pc[h] \in Uninitialised(m)
     \/ sem[m] > 0 /\ sem'[m] = sem[m] - 1 /\ Enters(m, h)
          /\ pc'[h] \notin Uninitialised(m)
     \/ sem'[m] = sem[m] + 1 /\ Exits(m, h)
          /\ pc'[h] \notin Uninitialised(m)
     \/ sem'[m] = 1 /\ BecomesReady(m, h) /\ ~Enters(m, h)

\* A move of one hart with respect to a mutex keeps that mutex's invariant.
LEMMA MovePreserves ==
  ASSUME TypeOK, NEW m \in Mutexes, NEW h \in Hart, MutexInvOf(m),
         MutexMove(m, h)
  PROVE  MutexInvOf(m)'
<1> USE HartZero
    DEF TypeOK, MutexInvOf, MutexMove, Enters, Exits, BecomesReady, Sems
<1>1. sem[m] \in {0, 1}
  OBVIOUS
<1>2. \A g \in Hart : g # h => pc'[g] = pc[g]
  OBVIOUS
<1>3. CASE sem'[m] = sem[m] /\ (pc'[h] \in Critical(m) <=> pc[h] \in Critical(m))
             /\ (pc'[h] \in Uninitialised(m) <=> pc[h] \in Uninitialised(m))
  BY <1>1, <1>2, <1>3
<1>4. CASE sem[m] > 0 /\ sem'[m] = sem[m] - 1 /\ Enters(m, h)
             /\ pc'[h] \notin Uninitialised(m)
  <2>1. /\ sem[m] = 1 /\ sem'[m] = 0
        /\ pc[0] \notin Uninitialised(m)
        /\ \A g \in Hart : pc[g] \notin Critical(m)
    BY <1>1, <1>4
  <2>2. pc'[0] \notin Uninitialised(m)
    BY <1>2, <1>4, <2>1
  <2>3. \A g \in Hart : pc'[g] \in Critical(m) => g = h
    BY <1>2, <2>1
  <2> QED
    BY <2>1, <2>2, <2>3
<1>5. CASE sem'[m] = sem[m] + 1 /\ Exits(m, h)
             /\ pc'[h] \notin Uninitialised(m)
  <2>1. sem[m] = 0 /\ sem'[m] = 1 /\ pc[0] \notin Uninitialised(m)
    BY <1>1, <1>5
  <2>2. pc'[0] \notin Uninitialised(m)
    BY <1>2, <1>5, <2>1
  <2>3. \A g \in Hart : pc'[g] \notin Critical(m)
    BY <1>2, <1>5
  <2> QED
    BY <2>1, <2>2, <2>3
<1>6. CASE sem'[m] = 1 /\ BecomesReady(m, h) /\ ~Enters(m, h)
  BY <1>1, <1>2, <1>6
<1> QED
  BY <1>3, <1>4, <1>5, <1>6

\* The labels f and t lie on the same side of m's critical section and of its
\* initialisation.
Same(m, f, t) ==
  /\ f \in Critical(m) <=> t \in Critical(m)
  /\ f \in Uninitialised(m) <=> t \in Uninitialised(m)

LEMMA PlainMove ==
  ASSUME TypeOK, NEW m \in Mutexes, NEW h \in Hart, NEW f, NEW t, Step(h, f, t),
         sem'[m] = sem[m], Same(m, f, t)
  PROVE  MutexMove(m, h)
<1>1. pc \in [Hart -> Labels]
  BY DEF TypeOK
<1> QED
  BY <1>1 DEF Step, Same, MutexMove

\* sem_wait of any semaphore is a move for m: for m itself it enters.
LEMMA AcquireMove ==
  ASSUME TypeOK, NEW m \in Mutexes, NEW h \in Hart, NEW f, NEW t, NEW s \in Sems,
         Acquire(h, f, s, t),
         IF s = m THEN f \notin Critical(m) /\ t \in Critical(m) \ Uninitialised(m)
                  ELSE Same(m, f, t)
  PROVE  MutexMove(m, h)
<1>1. pc \in [Hart -> Labels] /\ sem \in [Sems -> Nat]
  BY DEF TypeOK
<1>2. Step(h, f, t) /\ sem[s] > 0 /\ sem' = [sem EXCEPT ![s] = @ - 1]
  BY DEF Acquire, SemWait
<1>3. CASE s # m
  BY <1>1, <1>2, <1>3, PlainMove
<1>4. CASE s = m
  BY <1>1, <1>2, <1>4 DEF Step, MutexMove, Enters
<1> QED
  BY <1>3, <1>4

\* sem_post of any semaphore is a move for m: for m itself it exits.
LEMMA ReleaseMove ==
  ASSUME TypeOK, NEW m \in Mutexes, NEW h \in Hart, NEW f, NEW t, NEW s \in Sems,
         Release(h, f, s, t),
         IF s = m THEN f \in Critical(m) /\ t \notin Critical(m) \cup Uninitialised(m)
                  ELSE Same(m, f, t)
  PROVE  MutexMove(m, h)
<1>1. pc \in [Hart -> Labels] /\ sem \in [Sems -> Nat]
  BY DEF TypeOK
<1>2. Step(h, f, t) /\ sem' = [sem EXCEPT ![s] = @ + 1]
  BY DEF Release, SemPost
<1>3. CASE s # m
  BY <1>1, <1>2, <1>3, PlainMove
<1>4. CASE s = m
  BY <1>1, <1>2, <1>4 DEF Step, MutexMove, Exits
<1> QED
  BY <1>3, <1>4

\* The initialisations, in the order of main.
LEMMA InitMove ==
  ASSUME TypeOK, InitSemaphores, NEW m \in Mutexes
  PROVE  MutexMove(m, 0)
<1>1. pc \in [Hart -> Labels] /\ sem \in [Sems -> Nat]
  BY DEF TypeOK
<1> USE DEF Critical, Uninitialised, Same
<1>2. ASSUME NEW f, NEW t, NEW s \in Sems, NEW c, Step(0, f, t), SemInit(s, c),
             IF s = m THEN /\ c = 1 /\ f \in Uninitialised(m)
                           /\ t \notin Critical(m) \cup Uninitialised(m)
                      ELSE Same(m, f, t)
      PROVE  MutexMove(m, 0)
  <2>1. CASE s # m
    BY <1>1, <1>2, <2>1, PlainMove, HartZero DEF SemInit, Mutexes, Sems
  <2>2. CASE s = m
    BY <1>1, <1>2, <2>2, HartZero
       DEF SemInit, Step, MutexMove, BecomesReady, Enters
  <2> QED
    BY <2>1, <2>2
<1>3. CASE Step(0, "init_barrier_lock", "init_barrier_sem")
             /\ SemInit("barrier_lock", 1)
  BY <1>2, <1>3 DEF Mutexes, Sems
<1>4. CASE Step(0, "init_barrier_sem", "init_print_sem") /\ SemInit("barrier_sem", 0)
  BY <1>2, <1>4 DEF Mutexes, Sems
<1>5. CASE Step(0, "init_print_sem", "init_lock") /\ UNCHANGED sem
  BY <1>5, PlainMove, HartZero DEF Mutexes
<1>6. CASE Step(0, "init_lock", "init_dma_lock") /\ SemInit("lock", 1)
  BY <1>2, <1>6 DEF Mutexes, Sems
<1>7. CASE Step(0, "init_dma_lock", "init_print_lock") /\ SemInit("dma_lock", 1)
  BY <1>2, <1>7 DEF Mutexes, Sems
<1>8. CASE Step(0, "init_print_lock", "while") /\ SemInit("print_lock", 1)
  BY <1>2, <1>8 DEF Mutexes, Sems
<1> QED
  BY <1>3, <1>4, <1>5, <1>6, <1>7, <1>8, Zenon DEF InitSemaphores

\* Each step of the program is such a move of one hart for every mutex.
LEMMA StepIsMove ==
  ASSUME TypeOK, [Next]_vars, NEW m \in Mutexes
  PROVE  (\E h \in Hart : MutexMove(m, h)) \/ UNCHANGED <<pc, sem>>
<1>1. ASSUME NEW h \in Hart, NEW f, NEW t, Skip(h, f, t), Same(m, f, t)
      PROVE  MutexMove(m, h)
  BY <1>1, PlainMove DEF Skip
<1> USE DEF Critical, Uninitialised, Same, Mutexes, Sems
<1>2. ASSUME Setup
      PROVE  MutexMove(m, 0)
  BY <1>2, HartZero, InitMove, PlainMove DEF Setup, SetPriority, SetHandler
<1>3. ASSUME NEW h \in Hart, Infer(h)
      PROVE  MutexMove(m, h)
  <2>1. CASE TestCnt(h) \/ WriteSrc(h) \/ WriteDst(h) \/ WriteLen(h) \/ WriteOp(h)
               \/ SeeCompleted(h)
    BY <1>1, <2>1 DEF TestCnt, WriteSrc, WriteDst, WriteLen, WriteOp, SeeCompleted
  <2>2. CASE LoadCnt(h) \/ StoreCnt(h)
    BY <2>2, PlainMove DEF LoadCnt, StoreCnt
  <2>3. CASE ClearCompleted(h) \/ \E bad \in 0 .. MaxMismatch : Compare(h, bad)
    BY <2>3, PlainMove DEF ClearCompleted, Compare
  <2>4. CASE TakeLock(h) \/ TakeDmaLock(h)
    BY <2>4, AcquireMove DEF TakeLock, TakeDmaLock
  <2>5. CASE DropLock(h) \/ DropDmaLock(h)
    BY <2>5, ReleaseMove DEF DropLock, DropDmaLock
  <2> QED
    BY <1>3, <2>1, <2>2, <2>3, <2>4, <2>5, Zenon DEF Infer
<1>4. ASSUME NEW h \in Hart, Sum(h)
      PROVE  MutexMove(m, h)
  <2>1. CASE SumLock(h)
    BY <2>1, AcquireMove DEF SumLock
  <2>2. CASE LoadTotal(h) \/ StoreTotal(h)
    BY <2>2, PlainMove DEF LoadTotal, StoreTotal
  <2>3. CASE SumUnlock(h)
    BY <2>3, ReleaseMove DEF SumUnlock
  <2> QED
    BY <1>4, <2>1, <2>2, <2>3 DEF Sum
<1>5. ASSUME NEW h \in Hart, Barrier(h)
      PROVE  MutexMove(m, h)
  <2>1. CASE BarrierLock(h) \/ BarrierWait(h)
    BY <2>1, AcquireMove DEF BarrierLock, BarrierWait, AfterBarrier
  <2>2. CASE LoadCounter(h) \/ StoreCounter(h)
    BY <2>2, PlainMove DEF LoadCounter, StoreCounter
  <2>3. CASE BarrierUnlock(h) \/ BarrierUnlockLast(h)
    BY <2>3, ReleaseMove DEF BarrierUnlock, BarrierUnlockLast
  <2>4. CASE BarrierRelease(h)
    <3>1. sem'[m] = sem[m]
      BY <2>4 DEF BarrierRelease, SemPost, TypeOK
    <3> QED
      BY <2>4, <3>1, PlainMove DEF BarrierRelease
  <2>5. CASE BarrierReleased(h)
    BY <1>1, <2>5 DEF BarrierReleased, AfterBarrier
  <2> QED
    BY <1>5, <2>1, <2>2, <2>3, <2>4, <2>5 DEF Barrier
<1>6. ASSUME NEW h \in Hart, Finish(h)
      PROVE  MutexMove(m, h) \/ UNCHANGED <<pc, sem>>
  BY <1>6, PlainMove DEF Finish, PrintWait, PrintLine, PrintPost, CountExit, SysExit
<1>7. ASSUME NEW h \in Hart, AccIrqHandler(h)
      PROVE  UNCHANGED <<pc, sem>>
  BY <1>7 DEF AccIrqHandler
<1> HIDE DEF Critical, Uninitialised, Same, Mutexes, Sems
<1> QED
  BY <1>2, <1>3, <1>4, <1>5, <1>6, <1>7, HartZero DEF Next, HartStep, Halted, vars

\* Every step of the program keeps the invariant of every mutex.
LEMMA NextMutexInv == TypeOK /\ MutexInv /\ [Next]_vars => MutexInv'
<1> SUFFICES ASSUME TypeOK, MutexInv, [Next]_vars, NEW m \in Mutexes
             PROVE  MutexInvOf(m)'
  BY DEF MutexInv
<1>1. MutexInvOf(m)
  BY DEF MutexInv
<1>2. ASSUME NEW h \in Hart, MutexMove(m, h) PROVE MutexInvOf(m)'
  BY <1>1, <1>2, MovePreserves
<1>3. CASE UNCHANGED <<pc, sem>>
  BY <1>1, <1>3 DEF MutexInvOf
<1> QED
  BY <1>2, <1>3, StepIsMove

\* No hart holds a mutex at the start, and none is initialised.
LEMMA InitMutexInv == Init => MutexInv
BY HartZero DEF Init, MutexInv, MutexInvOf, Uninitialised, Critical, Sems

\* sem_wait and sem_post keep the critical sections of main.cpp apart on any
\* number of harts, whenever hart 0 gets round to initialising the mutexes.
THEOREM MutualExclusionHolds == Spec => []MutualExclusion
<1>1. MutexInv => MutualExclusion
  BY DEF MutexInv, MutexInvOf, MutualExclusion
<1> QED
  BY TypeCorrect, InitMutexInv, NextMutexInv, <1>1, PTL DEF Spec

-----------------------------------------------------------------------------
(* Image numbers                                                           *)
(*                                                                         *)
(* Only three actions touch cnt, cur_id or who is committed to taking an   *)
(* image; every other step is quiet about them.                            *)

CommitLabels == {"wait_lock", "take", "inc"}
PastLoop == SumLabels \cup ArriveLabels \cup LeaveLabels \cup EndLabels

LoopQuiet ==
  /\ UNCHANGED <<cnt, curId>>
  /\ \A g \in Hart :
       /\ pc'[g] \in CommitLabels <=> pc[g] \in CommitLabels
       /\ pc'[g] = "inc" <=> pc[g] = "inc"
       /\ pc'[g] \in PastLoop => pc[g] \in PastLoop

\* A step from f to t that leaves cnt and cur_id alone is quiet about them.
LoopSame(f, t) ==
  /\ f \in CommitLabels <=> t \in CommitLabels
  /\ f = "inc" <=> t = "inc"
  /\ t \in PastLoop => f \in PastLoop

LEMMA LoopPlain ==
  ASSUME TypeOK, NEW h \in Hart, NEW f, NEW t, Step(h, f, t), LoopSame(f, t),
         UNCHANGED <<cnt, curId>>
  PROVE  LoopQuiet
<1>1. pc \in [Hart -> Labels]
  BY DEF TypeOK
<1> QED
  BY <1>1 DEF Step, LoopSame, LoopQuiet

\* Only the loop test, the load and the store of cnt matter to cnt and cur_id.
LEMMA StepLoop ==
  ASSUME TypeOK, [Next]_vars
  PROVE  LoopQuiet \/ \E h \in Hart : TestCnt(h) \/ LoadCnt(h) \/ StoreCnt(h)
<1> USE DEF imageVars, LoopSame, CommitLabels, PastLoop, SumLabels, ArriveLabels,
            LeaveLabels, EndLabels
<1>1. ASSUME Setup
      PROVE  LoopQuiet
  BY <1>1, LoopPlain, HartZero DEF Setup, SetPriority, SetHandler, InitSemaphores
<1>2. ASSUME NEW h \in Hart, Infer(h)
      PROVE  LoopQuiet \/ TestCnt(h) \/ LoadCnt(h) \/ StoreCnt(h)
  <2>1. CASE TakeLock(h) \/ TakeDmaLock(h) \/ DropLock(h) \/ DropDmaLock(h)
    BY <2>1, LoopPlain
       DEF TakeLock, TakeDmaLock, DropLock, DropDmaLock, Acquire, Release
  <2>2. CASE WriteSrc(h) \/ WriteDst(h) \/ WriteLen(h) \/ WriteOp(h) \/ SeeCompleted(h)
    BY <2>2, LoopPlain DEF WriteSrc, WriteDst, WriteLen, WriteOp, SeeCompleted, Skip
  <2>3. CASE ClearCompleted(h) \/ \E bad \in 0 .. MaxMismatch : Compare(h, bad)
    BY <2>3, LoopPlain DEF ClearCompleted, Compare
  <2> QED
    BY <1>2, <2>1, <2>2, <2>3, Zenon DEF Infer
<1>3. ASSUME NEW h \in Hart, Sum(h)
      PROVE  LoopQuiet
  BY <1>3, LoopPlain
     DEF Sum, SumLock, LoadTotal, StoreTotal, SumUnlock, Acquire, Release
<1>4. ASSUME NEW h \in Hart, Barrier(h)
      PROVE  LoopQuiet
  <2>1. CASE BarrierLock(h) \/ LoadCounter(h) \/ StoreCounter(h)
    BY <2>1, LoopPlain DEF BarrierLock, LoadCounter, StoreCounter, Acquire
  <2>2. CASE BarrierUnlock(h) \/ BarrierUnlockLast(h) \/ BarrierWait(h)
    BY <2>2, LoopPlain
       DEF BarrierUnlock, BarrierUnlockLast, BarrierWait, AfterBarrier, Acquire, Release
  <2>3. CASE BarrierRelease(h) \/ BarrierReleased(h)
    BY <2>3, LoopPlain DEF BarrierRelease, BarrierReleased, AfterBarrier, Skip
  <2> QED
    BY <1>4, <2>1, <2>2, <2>3 DEF Barrier
<1>5. ASSUME NEW h \in Hart, Finish(h)
      PROVE  LoopQuiet
  <2>1. CASE SysExit(h)
    BY <2>1 DEF SysExit, LoopQuiet
  <2> QED
    BY <1>5, <2>1, LoopPlain DEF Finish, PrintWait, PrintLine, PrintPost, CountExit
<1>6. ASSUME NEW h \in Hart, AccIrqHandler(h)
      PROVE  LoopQuiet
  BY <1>6 DEF AccIrqHandler, LoopQuiet
<1>7. CASE UNCHANGED vars
  BY <1>7 DEF vars, LoopQuiet
<1> QED
  BY <1>1, <1>2, <1>3, <1>4, <1>5, <1>6, <1>7 DEF Next, HartStep, Halted

\* Every step keeps the image numbers unique and below cnt.
LEMMA NextIdInv == TypeOK /\ MutexInv /\ IdInv /\ [Next]_vars => IdInv'
<1> SUFFICES ASSUME TypeOK, MutexInv, IdInv, [Next]_vars PROVE IdInv'
  OBVIOUS
<1> USE DEF IdInv, UniqueIds
<1>1. CASE LoopQuiet
  BY <1>1 DEF LoopQuiet
<1>2. ASSUME NEW h \in Hart, TestCnt(h) PROVE IdInv'
  BY <1>2 DEF TestCnt, Skip, Step, imageVars, TypeOK
<1>3. ASSUME NEW h \in Hart, LoadCnt(h) PROVE IdInv'
  <2>1. \A g \in Hart : pc[g] # "inc"
    BY <1>3 DEF LoadCnt, Step, MutexInv, MutexInvOf, Mutexes, Critical
  <2>2. /\ \A g \in Hart : g # h => curId'[g] = curId[g] /\ pc'[g] = pc[g]
        /\ pc'[h] = "inc" /\ curId'[h] = cnt /\ cnt' = cnt
    BY <1>3 DEF LoadCnt, Step, TypeOK
  <2>3. cnt \in Int /\ \A g \in Hart : curId[g] \in Int /\ curId[g] < cnt
    BY <2>1 DEF TypeOK, NoImage
  <2>4. \A g \in Hart :
          IF pc'[g] = "inc" THEN curId'[g] = cnt' ELSE curId'[g] < cnt'
    BY <2>1, <2>2, <2>3
  <2>5. \A f, g \in Hart : curId'[f] = curId'[g] => f = g \/ curId'[f] = NoImage
    BY <2>2, <2>3
  <2> QED
    BY <2>4, <2>5
<1>4. ASSUME NEW h \in Hart, StoreCnt(h) PROVE IdInv'
  <2>1. \A g \in Hart : pc[g] = "inc" => g = h
    BY <1>4 DEF StoreCnt, Step, MutexInv, MutexInvOf, Mutexes, Critical
  <2>2. /\ \A g \in Hart : g # h => pc'[g] = pc[g]
        /\ pc[h] = "inc" /\ pc'[h] = "unlock" /\ curId' = curId
        /\ cnt' = curId[h] + 1
    BY <1>4 DEF StoreCnt, Step, TypeOK
  <2>3. cnt \in Int /\ \A g \in Hart : curId[g] \in Int
    BY DEF TypeOK, NoImage
  <2>4. \A g \in Hart : pc'[g] # "inc" /\ curId'[g] < cnt'
    BY <2>1, <2>2, <2>3
  <2> QED
    BY <2>2, <2>4
<1> QED
  BY <1>1, <1>2, <1>3, <1>4, StepLoop

\* No image is taken at the start.
LEMMA InitIdInv == Init => IdInv
BY DEF Init, IdInv, UniqueIds, NoImage

\* cur_id = cnt; cnt++ under lock hands no image number out twice, whatever
\* the number of harts: neither to two harts nor again later.
THEOREM UniqueIdsHold == Spec => []UniqueIds
<1>1. IdInv => UniqueIds
  BY DEF IdInv
<1>2. Spec => []MutexInv
  BY TypeCorrect, InitMutexInv, NextMutexInv, PTL DEF Spec
<1> QED
  BY TypeCorrect, <1>2, InitIdInv, NextIdInv, <1>1, PTL DEF Spec

-----------------------------------------------------------------------------
(* The bound of cnt                                                        *)

\* The harts are finitely many, namely PROCESSORS.
LEMMA HartFinite == IsFiniteSet(Hart) /\ Cardinality(Hart) = PROCESSORS
BY ProcessorsAssumption, FS_Interval DEF Hart

\* What the counting arguments need to know of a set of harts.
LEMMA SubsetOfHart ==
  ASSUME NEW S \in SUBSET Hart
  PROVE  /\ IsFiniteSet(S)
         /\ Cardinality(S) \in 0 .. PROCESSORS
         /\ \A h \in Hart \ S : Cardinality(S \cup {h}) = Cardinality(S) + 1
         /\ \A h \in S : Cardinality(S \ {h}) = Cardinality(S) - 1
<1>1. IsFiniteSet(S) /\ Cardinality(S) <= PROCESSORS
  BY HartFinite, FS_Subset
<1>2. Cardinality(S) \in Nat
  BY <1>1, FS_CardinalityType
<1>3. \A h \in Hart \ S : Cardinality(S \cup {h}) = Cardinality(S) + 1
  BY <1>1, FS_AddElement
<1>4. \A h \in S : Cardinality(S \ {h}) = Cardinality(S) - 1
  BY <1>1, FS_RemoveElement
<1> QED
  BY <1>1, <1>2, <1>3, <1>4, ProcessorsAssumption

\* Every step keeps cnt and the harts that will still increase it in bounds.
LEMMA NextCntInv == TypeOK /\ IdInv /\ CntInv /\ [Next]_vars => CntInv'
<1> SUFFICES ASSUME TypeOK, IdInv, CntInv, [Next]_vars PROVE CntInv'
  OBVIOUS
<1> USE ProcessorsAssumption, NumImagesAssumption DEF CntInv
<1>1. Committed \in SUBSET Hart /\ Committed' \in SUBSET Hart /\ cnt \in Nat
  BY DEF Committed, TypeOK
<1>2. /\ Cardinality(Committed) \in 0 .. PROCESSORS
      /\ Cardinality(Committed') \in 0 .. PROCESSORS
  BY <1>1, SubsetOfHart
<1>3. CASE LoopQuiet
  <2>1. Committed' = Committed /\ cnt' = cnt
    BY <1>3 DEF LoopQuiet, Committed, CommitLabels
  <2> QED
    BY <2>1
<1>4. ASSUME NEW h \in Hart, TestCnt(h) PROVE CntInv'
  <2>1. cnt' = cnt
    BY <1>4 DEF TestCnt, Skip, imageVars
  <2>2. CASE cnt < NumImages
    BY <1>1, <1>2, <2>1, <2>2
  <2>3. CASE ~(cnt < NumImages)
    <3>1. Committed' = Committed
      BY <1>4, <2>3 DEF TestCnt, Skip, Step, Committed, TypeOK
    <3> QED
      BY <2>1, <3>1
  <2> QED
    BY <2>2, <2>3
<1>5. ASSUME NEW h \in Hart, LoadCnt(h) PROVE CntInv'
  <2>1. Committed' = Committed /\ cnt' = cnt
    BY <1>5 DEF LoadCnt, Step, Committed, TypeOK
  <2> QED
    BY <2>1
<1>6. ASSUME NEW h \in Hart, StoreCnt(h) PROVE CntInv'
  <2>1. h \in Committed /\ Committed' = Committed \ {h} /\ cnt' = cnt + 1
    BY <1>6 DEF StoreCnt, Step, Committed, TypeOK, IdInv
  <2>2. Cardinality(Committed') = Cardinality(Committed) - 1
    BY <1>1, <2>1, SubsetOfHart
  <2> QED
    BY <1>1, <1>2, <2>1, <2>2
<1> QED
  BY <1>3, <1>4, <1>5, <1>6, StepLoop

\* At the start cnt is zero and nobody has passed the loop test.
LEMMA InitCntInv == Init => CntInv
<1> SUFFICES ASSUME Init PROVE CntInv
  OBVIOUS
<1>1. Committed = {} /\ cnt = 0
  BY DEF Init, Committed
<1> QED
  BY <1>1, FS_EmptySet, ProcessorsAssumption, NumImagesAssumption DEF CntInv

\* The unlocked loop test lets cnt overshoot its bound by at most one image
\* per other hart.
THEOREM CntBoundHolds == Spec => []CntBound
<1>1. TypeOK /\ CntInv => CntBound
  <2> SUFFICES ASSUME TypeOK, CntInv PROVE CntBound
    OBVIOUS
  <2>1. Cardinality(Committed) \in 0 .. PROCESSORS
    BY SubsetOfHart DEF Committed
  <2> QED
    BY <2>1, ProcessorsAssumption, NumImagesAssumption
       DEF CntInv, CntBound, TypeOK
<1>2. Spec => []MutexInv
  BY TypeCorrect, InitMutexInv, NextMutexInv, PTL DEF Spec
<1>3. Spec => []IdInv
  BY TypeCorrect, <1>2, InitIdInv, NextIdInv, PTL DEF Spec
<1> QED
  BY TypeCorrect, <1>3, InitCntInv, NextCntInv, <1>1, PTL DEF Spec

-----------------------------------------------------------------------------
(* The barrier                                                             *)

\* cnt never falls, so who has left the loop stays right about it.
LEMMA NextLoopInv == TypeOK /\ IdInv /\ LoopInv /\ [Next]_vars => LoopInv'
<1> SUFFICES ASSUME TypeOK, IdInv, LoopInv, [Next]_vars PROVE LoopInv'
  OBVIOUS
<1> USE NumImagesAssumption
<1>1. LoopInv <=> \A h \in Hart : pc[h] \in PastLoop => cnt >= NumImages
  BY DEF LoopInv, PastLoop
<1>2. LoopInv' <=> \A h \in Hart : pc'[h] \in PastLoop => cnt' >= NumImages
  BY DEF LoopInv, PastLoop
<1>3. CASE LoopQuiet
  BY <1>1, <1>2, <1>3 DEF LoopQuiet
<1>4. ASSUME NEW h \in Hart, TestCnt(h) PROVE LoopInv'
  <2>1. /\ cnt' = cnt /\ pc' = [pc EXCEPT ![h] = pc'[h]]
        /\ pc'[h] \in PastLoop => ~(cnt < NumImages)
    BY <1>4 DEF TestCnt, Skip, Step, imageVars, TypeOK, PastLoop, SumLabels,
                ArriveLabels, LeaveLabels, EndLabels
  <2>2. cnt \in Nat /\ \A g \in Hart : g # h => pc'[g] = pc[g]
    BY <2>1 DEF TypeOK
  <2> QED
    BY <1>1, <1>2, <2>1, <2>2
<1>5. ASSUME NEW h \in Hart, LoadCnt(h) \/ StoreCnt(h) PROVE LoopInv'
  <2>1. /\ cnt' = cnt \/ cnt' = cnt + 1
        /\ pc' = [pc EXCEPT ![h] = pc'[h]] /\ pc'[h] \notin PastLoop
    BY <1>5 DEF LoadCnt, StoreCnt, Step, TypeOK, IdInv, PastLoop, SumLabels,
                ArriveLabels, LeaveLabels, EndLabels
  <2>2. cnt \in Nat /\ \A g \in Hart : g # h => pc'[g] = pc[g]
    BY <2>1 DEF TypeOK
  <2> QED
    BY <1>1, <1>2, <2>1, <2>2
<1> QED
  BY <1>3, <1>4, <1>5, StepLoop

\* At the start nobody has left the loop.
LEMMA InitLoopInv == Init => LoopInv
BY DEF Init, LoopInv, SumLabels, ArriveLabels, LeaveLabels, EndLabels

\* What most steps leave of the barrier's state.
BarrierQuiet ==
  /\ UNCHANGED <<barrierCounter, j>>
  /\ \/ sem'["barrier_sem"] = sem["barrier_sem"]
     \/ sem'["barrier_sem"] = 0 /\ ~Arrived(0)
  /\ \A g \in Hart :
       /\ Arrived(g)' <=> Arrived(g)
       /\ pc'[g] \in {"bar_unlock", "bar_wait"} <=> pc[g] \in {"bar_unlock", "bar_wait"}
       /\ Left(g)' => Left(g)
       /\ pc'[g] \in {"bar_unlock_last", "bar_release"} => pc'[g] = pc[g]
       /\ pc'[g] = "bar_set" => pc[g] = "bar_set" /\ reg'[g] = reg[g]

\* A step from f to t that leaves the counter and barrier_sem alone is quiet.
BarrierSame(f, t) ==
  /\ f \in LeaveLabels \cup EndLabels <=> t \in LeaveLabels \cup EndLabels
  /\ f \in {"bar_unlock", "bar_wait"} <=> t \in {"bar_unlock", "bar_wait"}
  /\ t \in EndLabels => f \in EndLabels
  /\ t \notin {"bar_unlock_last", "bar_release", "bar_set"}

LEMMA BarrierPlain ==
  ASSUME TypeOK, NEW h \in Hart, NEW f, NEW t, Step(h, f, t), BarrierSame(f, t),
         UNCHANGED <<barrierCounter, j>>,
         \/ sem'["barrier_sem"] = sem["barrier_sem"]
         \/ sem'["barrier_sem"] = 0 /\ ~Arrived(0),
         \A g \in Hart \ {h} : reg'[g] = reg[g]
  PROVE  BarrierQuiet
<1>1. pc \in [Hart -> Labels]
  BY DEF TypeOK
<1> QED
  BY <1>1 DEF Step, BarrierSame, BarrierQuiet, Arrived, Left

\* Only the steps of barrier() matter to the barrier's state.
LEMMA StepBarrier ==
  ASSUME TypeOK, [Next]_vars
  PROVE  BarrierQuiet \/ \E h \in Hart : Barrier(h)
<1> USE DEF barrierVars, BarrierSame, LeaveLabels, EndLabels
<1>1. ASSUME NEW s \in Sems, s # "barrier_sem",
             SemWait(s) \/ SemPost(s) \/ \E c \in Nat : SemInit(s, c)
      PROVE  sem'["barrier_sem"] = sem["barrier_sem"]
  BY <1>1 DEF SemWait, SemPost, SemInit, TypeOK, Sems
<1>2. "lock" \in Sems /\ "dma_lock" \in Sems
  BY DEF Sems, Mutexes
<1>3. ASSUME Setup
      PROVE  BarrierQuiet
  <2>1. CASE SetPriority \/ SetHandler
    BY <2>1, BarrierPlain, HartZero DEF SetPriority, SetHandler
  <2>2. CASE InitSemaphores
    <3>1. sem'["barrier_sem"] \in {0, sem["barrier_sem"]}
      BY <2>2 DEF InitSemaphores, SemInit, TypeOK, Sems, Mutexes
    <3>2. ~Arrived(0)
      BY <2>2 DEF InitSemaphores, Step, Arrived
    <3> QED
      BY <2>2, <3>1, <3>2, BarrierPlain, HartZero DEF InitSemaphores
  <2> QED
    BY <1>3, <2>1, <2>2 DEF Setup
<1>4. ASSUME NEW h \in Hart, Infer(h)
      PROVE  BarrierQuiet
  <2>1. CASE TakeLock(h) \/ TakeDmaLock(h) \/ DropLock(h) \/ DropDmaLock(h)
    BY <1>1, <1>2, <2>1, BarrierPlain
       DEF TakeLock, TakeDmaLock, DropLock, DropDmaLock, Acquire, Release
  <2>2. CASE TestCnt(h) \/ WriteSrc(h) \/ WriteDst(h) \/ WriteLen(h) \/ WriteOp(h)
               \/ SeeCompleted(h)
    BY <2>2, BarrierPlain
       DEF TestCnt, WriteSrc, WriteDst, WriteLen, WriteOp, SeeCompleted, Skip
  <2>3. CASE LoadCnt(h) \/ StoreCnt(h) \/ ClearCompleted(h)
               \/ \E bad \in 0 .. MaxMismatch : Compare(h, bad)
    BY <2>3, BarrierPlain DEF LoadCnt, StoreCnt, ClearCompleted, Compare
  <2> QED
    BY <1>4, <2>1, <2>2, <2>3, Zenon DEF Infer
<1>5. ASSUME NEW h \in Hart, Sum(h)
      PROVE  BarrierQuiet
  <2>1. CASE SumLock(h) \/ SumUnlock(h)
    BY <1>1, <1>2, <2>1, BarrierPlain DEF SumLock, SumUnlock, Acquire, Release
  <2>2. CASE LoadTotal(h) \/ StoreTotal(h)
    BY <2>2, BarrierPlain DEF LoadTotal, StoreTotal, TypeOK
  <2> QED
    BY <1>5, <2>1, <2>2 DEF Sum
<1>6. ASSUME NEW h \in Hart, Finish(h)
      PROVE  BarrierQuiet
  <2>1. CASE SysExit(h)
    BY <2>1 DEF SysExit, BarrierQuiet, Arrived, Left
  <2> QED
    BY <1>6, <2>1, BarrierPlain DEF Finish, PrintWait, PrintLine, PrintPost, CountExit
<1>7. ASSUME NEW h \in Hart, AccIrqHandler(h)
      PROVE  BarrierQuiet
  BY <1>7 DEF AccIrqHandler, BarrierQuiet, Arrived, Left
<1>8. CASE UNCHANGED vars
  BY <1>8 DEF vars, BarrierQuiet, Arrived, Left
<1> QED
  BY <1>3, <1>4, <1>5, <1>6, <1>7, <1>8 DEF Next, HartStep, Halted

\* Once everybody has arrived nobody comes back.
LEMMA ArrivedStays ==
  ASSUME TypeOK, [Next]_vars, NEW g \in Hart, Arrived(g)
  PROVE  Arrived(g)'
<1>1. CASE BarrierQuiet
  BY <1>1 DEF BarrierQuiet
<1>2. ASSUME NEW h \in Hart, Barrier(h) PROVE Arrived(g)'
  BY <1>2 DEF Barrier, BarrierLock, LoadCounter, StoreCounter, BarrierUnlock,
              BarrierUnlockLast, BarrierWait, BarrierRelease, BarrierReleased,
              AfterBarrier, Acquire, Release, Skip, Step, Arrived, TypeOK,
              LeaveLabels, EndLabels
<1> QED
  BY <1>1, <1>2, StepBarrier

\* Every step keeps the barrier's counter equal to the arrivals.
LEMMA NextBarrierInv ==
  TypeOK /\ MutexInv /\ BarrierInv /\ [Next]_vars => BarrierInv'
<1> SUFFICES ASSUME TypeOK, MutexInv, BarrierInv, [Next]_vars PROVE BarrierInv'
  OBVIOUS
<1> USE ProcessorsAssumption
<1> DEFINE Fresh == \A h \in Hart : pc[h] = "bar_set" => reg[h] = barrierCounter
           A == {h \in Hart : Arrived(h)}
           Gathering ==
             /\ \A h \in Hart :
                  ~Left(h) /\ pc[h] \notin {"bar_unlock_last", "bar_release"}
             /\ barrierCounter = Cardinality(A)
             /\ sem["barrier_sem"] = 0
           Complete == \A h \in Hart : Arrived(h)
<1>1. Fresh /\ (Complete \/ Gathering)
  BY DEF BarrierInv
<1>2. SUFFICES Fresh' /\ (Complete' \/ Gathering')
  BY DEF BarrierInv
<1>3. Complete => Complete'
  BY ArrivedStays
<1>4. CASE BarrierQuiet
  <2>1. Fresh'
    BY <1>1, <1>4 DEF BarrierQuiet
  <2>2. A' = A
    BY <1>4 DEF BarrierQuiet
  <2>3. Gathering => Gathering'
    BY <1>4, <2>2 DEF BarrierQuiet
  <2> QED
    BY <1>1, <1>3, <2>1, <2>3
<1>5. ASSUME NEW h \in Hart, BarrierLock(h) \/ BarrierUnlock(h)
      PROVE  BarrierQuiet
  <2>1. sem'["barrier_sem"] = sem["barrier_sem"]
    BY <1>5 DEF BarrierLock, BarrierUnlock, Acquire, Release, SemWait, SemPost,
                TypeOK, Sems, Mutexes
  <2> QED
    BY <1>5, <2>1, BarrierPlain
       DEF BarrierLock, BarrierUnlock, Acquire, Release, BarrierSame, LeaveLabels,
           EndLabels, barrierVars
<1>6. ASSUME NEW h \in Hart, LoadCounter(h)
      PROVE  Fresh' /\ (Complete' \/ Gathering')
  <2>1. /\ pc[h] = "bar_test" /\ pc' = [pc EXCEPT ![h] = "bar_set"]
        /\ reg' = [reg EXCEPT ![h] = barrierCounter]
        /\ barrierCounter' = barrierCounter /\ sem' = sem
    BY <1>6 DEF LoadCounter, Step, barrierVars
  <2>2. Fresh'
    BY <1>1, <2>1 DEF TypeOK
  <2>3. A' = A
    BY <2>1 DEF Arrived, LeaveLabels, EndLabels, TypeOK
  <2>4. Gathering => Gathering'
    BY <2>1, <2>3 DEF Left, EndLabels, TypeOK
  <2> QED
    BY <1>1, <1>3, <2>2, <2>4
<1>7. ASSUME NEW h \in Hart, StoreCounter(h)
      PROVE  Fresh' /\ (Complete' \/ Gathering')
  <2> DEFINE last == barrierCounter = PROCESSORS - 1
             to == IF last THEN "bar_unlock_last" ELSE "bar_unlock"
  <2>1. /\ pc[h] = "bar_set" /\ pc' = [pc EXCEPT ![h] = to]
        /\ barrierCounter' = IF last THEN 0 ELSE barrierCounter + 1
        /\ sem' = sem
    BY <1>1, <1>7 DEF StoreCounter, Step
  <2>2. \A g \in Hart : pc[g] = "bar_set" => g = h
    BY <2>1 DEF MutexInv, MutexInvOf, Mutexes, Critical
  <2>3. Fresh'
    BY <2>1, <2>2 DEF TypeOK
  <2>4. h \in Hart \ A /\ A' = A \cup {h}
    BY <2>1 DEF Arrived, LeaveLabels, EndLabels, TypeOK
  <2>5. ~Complete
    BY <2>4
  <2>6. Gathering
    BY <1>1, <2>5
  <2>7. A \in SUBSET Hart /\ A' \in SUBSET Hart
    OBVIOUS
  <2>8. Cardinality(A') = Cardinality(A) + 1
    BY <2>4, <2>7, SubsetOfHart
  <2>9. CASE last
    <3>1. Cardinality(A') = Cardinality(Hart)
      BY <2>6, <2>8, <2>9, HartFinite
    <3>2. A' = Hart
      BY <3>1, <2>7, HartFinite, FS_Subset
    <3> QED
      BY <2>3, <3>2
  <2>10. CASE ~last
    <3>1. barrierCounter' = Cardinality(A')
      BY <2>1, <2>6, <2>8, <2>10
    <3>2. Gathering'
      BY <2>1, <2>6, <2>10, <3>1 DEF Left, EndLabels, TypeOK
    <3> QED
      BY <2>3, <3>2
  <2> QED
    BY <2>9, <2>10
<1>8. ASSUME NEW h \in Hart,
             \/ BarrierUnlockLast(h) \/ BarrierWait(h)
             \/ BarrierRelease(h) \/ BarrierReleased(h)
      PROVE  Fresh' /\ (Complete' \/ Gathering')
  <2>1. \/ pc[h] \in {"bar_unlock_last", "bar_release"}
        \/ sem["barrier_sem"] # 0
    BY <1>8 DEF BarrierUnlockLast, BarrierWait, BarrierRelease,
                BarrierReleased, Acquire, Release, Skip, Step, SemWait
  <2>2. Complete
    BY <1>1, <2>1
  <2>3. Fresh'
    BY <1>1, <1>8 DEF BarrierUnlockLast, BarrierWait, BarrierRelease,
                BarrierReleased, AfterBarrier, Acquire, Release, Skip, Step,
                barrierVars, TypeOK
  <2> QED
    BY <1>3, <2>2, <2>3
<1> HIDE DEF Fresh, Gathering, Complete
<1> QED
  BY <1>4, <1>5, <1>6, <1>7, <1>8, StepBarrier DEF Barrier

\* At the start nobody has arrived and the counter is zero.
LEMMA InitBarrierInv == Init => BarrierInv
<1> SUFFICES ASSUME Init PROVE BarrierInv
  OBVIOUS
<1>1. /\ {h \in Hart : Arrived(h)} = {}
      /\ \A h \in Hart : ~Left(h) /\ pc[h] \notin
             {"bar_unlock_last", "bar_release", "bar_set"}
  BY DEF Init, Arrived, Left, LeaveLabels, EndLabels
<1> QED
  BY <1>1, FS_EmptySet DEF Init, BarrierInv, Sems

\* The barrier of main.cpp is one for every number of harts: nobody leaves it
\* before everybody has arrived, and then no image is left to take.
THEOREM BarrierHolds == Spec => []BarrierSafety
<1>1. BarrierInv /\ LoopInv => BarrierSafety
  BY DEF BarrierInv, LoopInv, BarrierSafety, Left
<1>2. Spec => []MutexInv
  BY TypeCorrect, InitMutexInv, NextMutexInv, PTL DEF Spec
<1>3. Spec => []IdInv
  BY TypeCorrect, <1>2, InitIdInv, NextIdInv, PTL DEF Spec
<1>4. Spec => []LoopInv
  BY TypeCorrect, <1>3, InitLoopInv, NextLoopInv, PTL DEF Spec
<1>5. Spec => []BarrierInv
  BY TypeCorrect, <1>2, InitBarrierInv, NextBarrierInv, PTL DEF Spec
<1> QED
  BY <1>1, <1>4, <1>5, PTL

\* Every step keeps the posts of barrier_sem and the harts still to leave even.
LEMMA NextReleaseInv ==
  TypeOK /\ BarrierInv /\ ReleaseInv /\ [Next]_vars => ReleaseInv'
<1> SUFFICES ASSUME TypeOK, BarrierInv, ReleaseInv, [Next]_vars PROVE ReleaseInv'
  OBVIOUS
<1> DEFINE A == {h \in Hart : Arrived(h)}
           Complete == \A h \in Hart : Arrived(h)
           s == sem["barrier_sem"]
<1>1. /\ Complete => barrierCounter = 0 /\ Cardinality(Waiters) + j = PROCESSORS - 1 + s
      /\ ~Complete => j = 0
  BY DEF ReleaseInv
<1>2. Complete => Complete'
  BY ArrivedStays
<1>3. /\ s \in Nat /\ j \in Nat /\ PROCESSORS \in Nat
      /\ Waiters \in SUBSET Hart /\ Cardinality(Waiters) \in Nat
  BY ProcessorsAssumption, HartFinite, FS_Subset, FS_CardinalityType
     DEF TypeOK, Sems, Waiters
<1>4. CASE BarrierQuiet
  <2>1. Complete' <=> Complete
    BY <1>4 DEF BarrierQuiet
  <2>2. barrierCounter' = barrierCounter /\ j' = j /\ (Complete => s' = s)
    BY <1>4, HartZero DEF BarrierQuiet
  <2>3. Waiters' = Waiters
    BY <1>4 DEF BarrierQuiet, Waiters
  <2> QED
    BY <1>1, <2>1, <2>2, <2>3 DEF ReleaseInv
<1>5. ASSUME NEW h \in Hart, StoreCounter(h)
      PROVE  ReleaseInv'
  <2>1. /\ pc[h] = "bar_set" /\ j' = j /\ s' = s
        /\ pc' = [pc EXCEPT ![h] = IF reg[h] = PROCESSORS - 1 THEN "bar_unlock_last"
                                                               ELSE "bar_unlock"]
        /\ barrierCounter' = IF reg[h] = PROCESSORS - 1 THEN 0 ELSE reg[h] + 1
    BY <1>5 DEF StoreCounter, Step
  <2>2. h \in Hart \ A /\ A' = A \cup {h}
    BY <2>1 DEF Arrived, LeaveLabels, EndLabels, TypeOK
  <2>3. /\ ~Complete /\ j = 0 /\ s = 0 /\ barrierCounter = Cardinality(A)
        /\ reg[h] = barrierCounter
        /\ \A g \in Hart : ~Left(g) /\ pc[g] \notin {"bar_unlock_last", "bar_release"}
    BY <1>1, <2>1, <2>2 DEF BarrierInv
  <2>4. Cardinality(A') = Cardinality(A) + 1 /\ Cardinality(A) \in Nat
    BY <2>2, SubsetOfHart, HartFinite, FS_Subset, FS_CardinalityType
  <2>5. CASE reg[h] = PROCESSORS - 1
    <3>1. Waiters' = A
      BY <2>1, <2>2, <2>3, <2>5 DEF Waiters, Arrived, Left, LeaveLabels, EndLabels, TypeOK
    <3> QED
      BY <1>3, <2>1, <2>3, <2>5, <3>1 DEF ReleaseInv
  <2>6. CASE reg[h] # PROCESSORS - 1
    <3>1. Complete' => Cardinality(A') = PROCESSORS
      <4>1. Complete' => A' = Hart
        OBVIOUS
      <4> QED
        BY <4>1, HartFinite
    <3> QED
      BY <1>3, <2>1, <2>3, <2>4, <2>6, <3>1 DEF ReleaseInv
  <2> QED
    BY <2>5, <2>6
<1>6. ASSUME NEW h \in Hart, BarrierWait(h)
      PROVE  ReleaseInv'
  <2>1. /\ pc[h] = "bar_wait" /\ pc' = [pc EXCEPT ![h] = AfterBarrier(h)]
        /\ s > 0 /\ sem' = [sem EXCEPT !["barrier_sem"] = @ - 1]
        /\ barrierCounter' = barrierCounter /\ j' = j
    BY <1>6 DEF BarrierWait, Acquire, SemWait, Step, barrierVars
  <2>2. Complete
    BY <2>1 DEF BarrierInv
  <2>3. s' = s - 1
    BY <2>1 DEF TypeOK, Sems
  <2>4. h \in Waiters /\ Waiters' = Waiters \ {h}
    BY <2>1 DEF Waiters, AfterBarrier, TypeOK
  <2>5. Cardinality(Waiters') = Cardinality(Waiters) - 1
    BY <1>3, <2>4, HartFinite, FS_Subset, FS_RemoveElement
  <2> QED
    BY <1>1, <1>2, <1>3, <2>1, <2>2, <2>3, <2>5 DEF ReleaseInv
<1>7. ASSUME NEW h \in Hart, BarrierRelease(h)
      PROVE  ReleaseInv'
  <2>1. /\ pc[h] = "bar_release" /\ pc' = [pc EXCEPT ![h] = "bar_release"]
        /\ sem' = [sem EXCEPT !["barrier_sem"] = @ + 1]
        /\ barrierCounter' = barrierCounter /\ j' = j + 1
    BY <1>7 DEF BarrierRelease, SemPost, Step
  <2>2. Complete
    BY <2>1 DEF BarrierInv
  <2>3. s' = s + 1
    BY <2>1 DEF TypeOK, Sems
  <2>4. Waiters' = Waiters
    BY <2>1 DEF Waiters, TypeOK
  <2> QED
    BY <1>1, <1>2, <1>3, <2>1, <2>2, <2>3, <2>4 DEF ReleaseInv
<1>8. ASSUME NEW h \in Hart,
             \/ BarrierLock(h) \/ LoadCounter(h) \/ BarrierUnlock(h)
             \/ BarrierUnlockLast(h) \/ BarrierReleased(h)
      PROVE  ReleaseInv'
  <2>1. s' = s
    BY <1>8 DEF BarrierLock, LoadCounter, BarrierUnlock, BarrierUnlockLast,
         BarrierReleased, Acquire, Release, Skip, SemWait, SemPost, TypeOK, Sems, Mutexes
  <2>2. barrierCounter' = barrierCounter /\ j' = j
    BY <1>8 DEF BarrierLock, LoadCounter, BarrierUnlock, BarrierUnlockLast,
         BarrierReleased, Acquire, Release, Skip, barrierVars
  <2>3. \E f, t : /\ Step(h, f, t)
                  /\ f \in LeaveLabels \cup EndLabels <=> t \in LeaveLabels \cup EndLabels
                  /\ f \in {"bar_unlock", "bar_wait"} <=> t \in {"bar_unlock", "bar_wait"}
    BY <1>8 DEF BarrierLock, LoadCounter, BarrierUnlock, BarrierUnlockLast,
         BarrierReleased, AfterBarrier, Acquire, Release, Skip, LeaveLabels, EndLabels
  <2>4. (Complete' <=> Complete) /\ Waiters' = Waiters
    BY <2>3 DEF Step, Arrived, Waiters, TypeOK
  <2> QED
    BY <1>1, <2>1, <2>2, <2>4 DEF ReleaseInv
<1> QED
  BY <1>4, <1>5, <1>6, <1>7, <1>8, StepBarrier DEF Barrier

\* At the start nobody has arrived, and nothing has been released.
LEMMA InitReleaseInv == Init => ReleaseInv
BY HartZero DEF Init, ReleaseInv, Arrived, LeaveLabels, EndLabels

-----------------------------------------------------------------------------
(* Printing and the end                                                    *)
(*                                                                         *)
(* Apart from Finish, a step only brings a hart to "print_wait" or hart 0  *)
(* to "print".                                                             *)

EndQuiet ==
  /\ UNCHANGED <<printed, exitCounter, exitTicket, halted>>
  /\ \A g \in Hart :
       /\ printSem'[g] \in {0, printSem[g]}
       /\ Printed(g)' <=> Printed(g)
       /\ pc'[g] = "print_post" <=> pc[g] = "print_post"
       /\ pc'[g] = "park" <=> pc[g] = "park"
       /\ pc'[g] = "print" => pc[g] = "print" \/ (g = 0 /\ ~Printed(g))

EndSame(h, f, t) ==
  /\ {f, t} \cap {"print_post", "exit", "park"} = {}
  /\ t = "print" => h = 0

LEMMA EndPlain ==
  ASSUME TypeOK, NEW h \in Hart, NEW f, NEW t, Step(h, f, t), EndSame(h, f, t),
         UNCHANGED <<printed, exitCounter, exitTicket, halted>>,
         \A g \in Hart : printSem'[g] \in {0, printSem[g]}
  PROVE  EndQuiet
<1>1. pc \in [Hart -> Labels]
  BY DEF TypeOK
<1> QED
  BY <1>1 DEF Step, EndSame, EndQuiet, Printed

\* Only the steps of Finish matter to what is printed and counted.
LEMMA StepEnd ==
  ASSUME TypeOK, [Next]_vars
  PROVE  EndQuiet \/ \E h \in Hart : Finish(h)
<1> USE DEF EndSame, exitVars, printVars
<1>1. ASSUME Setup
      PROVE  EndQuiet
  <2>1. CASE SetPriority \/ SetHandler
    BY <2>1, EndPlain, HartZero DEF SetPriority, SetHandler
  <2>2. CASE InitSemaphores
    <3>1. \A g \in Hart : printSem'[g] \in {0, printSem[g]}
      BY <2>2, ProcessorsAssumption DEF InitSemaphores, Hart
    <3> QED
      BY <2>2, <3>1, EndPlain, HartZero DEF InitSemaphores
  <2> QED
    BY <1>1, <2>1, <2>2 DEF Setup
<1>2. ASSUME NEW h \in Hart, Infer(h)
      PROVE  EndQuiet
  <2>1. CASE TakeLock(h) \/ TakeDmaLock(h) \/ DropLock(h) \/ DropDmaLock(h)
    BY <2>1, EndPlain
       DEF TakeLock, TakeDmaLock, DropLock, DropDmaLock, Acquire, Release
  <2>2. CASE TestCnt(h) \/ WriteSrc(h) \/ WriteDst(h) \/ WriteLen(h) \/ WriteOp(h)
               \/ SeeCompleted(h)
    BY <2>2, EndPlain
       DEF TestCnt, WriteSrc, WriteDst, WriteLen, WriteOp, SeeCompleted, Skip
  <2>3. CASE LoadCnt(h) \/ StoreCnt(h) \/ ClearCompleted(h)
               \/ \E bad \in 0 .. MaxMismatch : Compare(h, bad)
    BY <2>3, EndPlain DEF LoadCnt, StoreCnt, ClearCompleted, Compare
  <2> QED
    BY <1>2, <2>1, <2>2, <2>3, Zenon DEF Infer
<1>3. ASSUME NEW h \in Hart, Sum(h)
      PROVE  EndQuiet
  BY <1>3, EndPlain
     DEF Sum, SumLock, LoadTotal, StoreTotal, SumUnlock, Acquire, Release
<1>4. ASSUME NEW h \in Hart, Barrier(h)
      PROVE  EndQuiet
  <2>1. CASE BarrierLock(h) \/ LoadCounter(h) \/ StoreCounter(h)
    BY <2>1, EndPlain DEF BarrierLock, LoadCounter, StoreCounter, Acquire
  <2>2. CASE BarrierUnlock(h) \/ BarrierUnlockLast(h) \/ BarrierWait(h)
    BY <2>2, EndPlain
       DEF BarrierUnlock, BarrierUnlockLast, BarrierWait, AfterBarrier, Acquire, Release
  <2>3. CASE BarrierRelease(h) \/ BarrierReleased(h)
    BY <2>3, EndPlain DEF BarrierRelease, BarrierReleased, AfterBarrier, Skip
  <2> QED
    BY <1>4, <2>1, <2>2, <2>3 DEF Barrier
<1>5. ASSUME NEW h \in Hart, AccIrqHandler(h)
      PROVE  EndQuiet
  BY <1>5 DEF AccIrqHandler, EndQuiet, Printed
<1>6. CASE UNCHANGED vars
  BY <1>6 DEF vars, EndQuiet, Printed
<1> QED
  BY <1>1, <1>2, <1>3, <1>4, <1>5, <1>6 DEF Next, HartStep, Halted

\* What the steps of Finish do to the variables they touch.
LEMMA FinishSteps ==
  ASSUME TypeOK, NEW h \in Hart, Finish(h)
  PROVE  \/ /\ pc[h] = "print_wait" /\ pc' = [pc EXCEPT ![h] = "print"]
            /\ printSem[h] > 0 /\ printSem' = [printSem EXCEPT ![h] = @ - 1]
            /\ UNCHANGED <<printed, exitCounter, exitTicket, halted>>
         \/ /\ pc[h] = "print" /\ pc' = [pc EXCEPT ![h] = "print_post"]
            /\ printed' = Append(printed, h)
            /\ UNCHANGED <<printSem, exitCounter, exitTicket, halted>>
         \/ /\ pc[h] = "print_post" /\ pc' = [pc EXCEPT ![h] = "exit"]
            /\ printSem' = [printSem EXCEPT ![h + 1] = @ + 1]
            /\ UNCHANGED <<printed, exitCounter, exitTicket, halted>>
         \/ /\ pc[h] = "exit" /\ pc' = [pc EXCEPT ![h] = "park"] /\ ~halted
            /\ exitTicket' = [exitTicket EXCEPT ![h] = exitCounter]
            /\ exitCounter' = exitCounter + 1
            /\ UNCHANGED <<printed, printSem, halted>>
         \/ /\ pc[h] = "park" /\ exitTicket[h] >= PROCESSORS - 1
            /\ UNCHANGED <<pc, printed, printSem, exitCounter, exitTicket>>
BY DEF Finish, PrintWait, PrintLine, PrintPost, CountExit, SysExit, Step, printVars,
       exitVars

\* Every step keeps the permission to print in one place.
LEMMA NextPrintInv == TypeOK /\ PrintInv /\ [Next]_vars => PrintInv'
<1> SUFFICES ASSUME TypeOK, PrintInv, [Next]_vars PROVE PrintInv'
  OBVIOUS
<1> USE ProcessorsAssumption
<1>1. /\ pc \in [Hart -> Labels] /\ printSem \in [0 .. PROCESSORS -> Nat]
      /\ printed \in Seq(Hart) /\ Len(printed) \in Nat
  BY DEF TypeOK
<1>2. CASE EndQuiet
  <2>1. printed' = printed
    BY <1>2 DEF EndQuiet
  <2>2. ASSUME NEW g \in Hart
        PROVE  /\ Printed(g)' <=> g < Len(printed)
               /\ pc'[g] = "print_post" => g = Len(printed) - 1
    BY <1>2 DEF EndQuiet, PrintInv
  <2>3. ASSUME NEW g \in Hart
        PROVE  HasTurn(g) => HasTurn(g)'
    BY <1>2, <2>1 DEF EndQuiet, HasTurn, Hart
  <2>4. ASSUME NEW g \in Hart, pc'[g] = "print"
        PROVE  HasTurn(g)'
    <3>1. CASE pc[g] = "print"
      BY <2>3, <3>1 DEF PrintInv
    <3>2. CASE g = 0 /\ ~Printed(g)
      <4>1. Len(printed) = 0
        BY <1>1, <3>2 DEF PrintInv
      <4> QED
        BY <2>1, <3>2, <4>1 DEF HasTurn
    <3> QED
      BY <1>2, <2>4, <3>1, <3>2 DEF EndQuiet
  <2>5. ASSUME NEW g \in Hart, printSem'[g] # 0
        PROVE  printSem'[g] = 1 /\ 0 < g /\ HasTurn(g)' /\ pc'[g] # "print"
    <3>1. printSem'[g] = printSem[g] /\ printSem[g] # 0
      BY <1>2, <2>5 DEF EndQuiet
    <3>2. printSem[g] = 1 /\ 0 < g /\ HasTurn(g) /\ pc[g] # "print"
      BY <3>1 DEF PrintInv
    <3> QED
      BY <1>2, <2>3, <3>1, <3>2 DEF EndQuiet
  <2> QED
    BY <2>1, <2>2, <2>4, <2>5 DEF PrintInv, PrintOrder
<1>3. ASSUME NEW h \in Hart, Finish(h)
      PROVE  PrintInv'
  <2>0. h \in 0 .. PROCESSORS - 1 /\ h \in 0 .. PROCESSORS /\ h + 1 \in 0 .. PROCESSORS
    BY DEF Hart
  <2>1. CASE /\ pc[h] = "print_wait" /\ pc' = [pc EXCEPT ![h] = "print"]
             /\ printSem[h] > 0 /\ printSem' = [printSem EXCEPT ![h] = @ - 1]
             /\ UNCHANGED printed
    <3>1. printSem[h] = 1 /\ 0 < h /\ HasTurn(h)
      BY <1>1, <2>0, <2>1 DEF PrintInv
    <3>2. printSem'[h] = 0
      BY <1>1, <2>0, <2>1, <3>1
    <3>3. \A g \in Hart : g # h => printSem'[g] = printSem[g] /\ pc'[g] = pc[g]
      BY <1>1, <2>1 DEF Hart
    <3>4. pc'[h] = "print"
      BY <1>1, <2>1
    <3>5. \A g \in Hart : HasTurn(g) => HasTurn(g)'
      BY <2>1, <3>3, <3>4 DEF HasTurn, Hart
    <3> QED
      BY <2>1, <3>1, <3>2, <3>3, <3>4, <3>5 DEF PrintInv, PrintOrder, Printed
  <2>2. CASE /\ pc[h] = "print" /\ pc' = [pc EXCEPT ![h] = "print_post"]
             /\ printed' = Append(printed, h)
             /\ UNCHANGED printSem
    <3>1. h = Len(printed) /\ HasTurn(h)
      BY <2>2 DEF PrintInv, HasTurn
    <3>2. /\ Len(printed') = Len(printed) + 1
          /\ \A i \in 1 .. Len(printed) : printed'[i] = printed[i]
          /\ printed'[Len(printed) + 1] = h
      BY <1>1, <2>2
    <3>3. PrintOrder'
      <4>1. \A i \in 1 .. Len(printed) : printed[i] = i - 1
        BY DEF PrintInv, PrintOrder
      <4>2. ASSUME NEW i \in 1 .. Len(printed) + 1
            PROVE  printed'[i] = i - 1
        <5>1. Len(printed) \in Nat
          BY <1>1
        <5>2. i \in 1 .. Len(printed) \/ i = Len(printed) + 1
          BY <5>1
        <5> QED
          BY <1>1, <3>1, <3>2, <4>1, <5>2
      <4> QED
        BY <3>2, <4>2 DEF PrintOrder
    <3>4. \A g \in Hart : g # h => pc'[g] = pc[g]
      BY <1>1, <2>2
    <3>5. pc'[h] = "print_post"
      BY <1>1, <2>2
    <3>6. ASSUME NEW g \in Hart
          PROVE  /\ Printed(g)' <=> g < Len(printed')
                 /\ pc'[g] = "print_post" => g = Len(printed') - 1
      <4>1. g \in Int /\ h \in Int
        BY DEF Hart
      <4>2. CASE g = h
        BY <1>1, <3>1, <3>2, <3>5, <4>1, <4>2 DEF Printed
      <4>3. CASE g # h
        <5>1. h > 0 => pc[h - 1] # "print_post"
          BY <3>1 DEF HasTurn
        <5>2. Printed(g) <=> g < Len(printed)
          BY DEF PrintInv
        <5>3. pc[g] = "print_post" => g = h - 1 /\ h > 0
          BY <1>1, <3>1, <4>1 DEF PrintInv, Hart
        <5> QED
          BY <1>1, <3>1, <3>2, <3>4, <4>1, <4>3, <5>1, <5>2, <5>3 DEF Printed
      <4> QED
        BY <4>2, <4>3
    <3>7. ASSUME NEW g \in Hart
          PROVE  pc'[g] # "print" /\ printSem'[g] = 0
      <4>1. HasTurn(g) => g = h
        BY <3>1 DEF HasTurn
      <4>2. pc[h] = "print" /\ printSem' = printSem
        BY <2>2
      <4> QED
        BY <3>4, <3>5, <4>1, <4>2 DEF PrintInv
    <3>8. Len(printed') <= PROCESSORS
      BY <2>0, <3>1, <3>2
    <3> QED
      BY <3>3, <3>6, <3>7, <3>8 DEF PrintInv
  <2>3. CASE /\ pc[h] = "print_post" /\ pc' = [pc EXCEPT ![h] = "exit"]
             /\ printSem' = [printSem EXCEPT ![h + 1] = @ + 1]
             /\ UNCHANGED printed
    <3>1. h = Len(printed) - 1
      BY <2>3 DEF PrintInv
    <3>2. pc'[h] = "exit" /\ \A g \in Hart : g # h => pc'[g] = pc[g]
      BY <1>1, <2>3
    <3>3. \A g \in Hart : ~HasTurn(g)
      <4> SUFFICES ASSUME NEW g \in Hart, HasTurn(g) PROVE FALSE
        OBVIOUS
      <4>1. g = h + 1 /\ g > 0 /\ g - 1 = h
        BY <1>1, <2>0, <3>1 DEF HasTurn
      <4> QED
        BY <2>3, <4>1 DEF HasTurn
    <3>4. \A g \in Hart : pc[g] # "print" /\ printSem[g] = 0
      BY <3>3 DEF PrintInv
    <3>5. ASSUME NEW g \in Hart, printSem'[g] # 0
          PROVE  printSem'[g] = 1 /\ 0 < g /\ HasTurn(g)'
      <4>1. g = h + 1 /\ printSem'[g] = 1
        BY <1>1, <2>0, <2>3, <3>4, <3>5 DEF Hart
      <4>2. g = Len(printed) /\ 0 < g /\ g - 1 = h
        BY <1>1, <2>0, <3>1, <4>1
      <4> QED
        BY <2>3, <3>2, <4>1, <4>2 DEF HasTurn
    <3> QED
      BY <2>3, <3>2, <3>4, <3>5 DEF PrintInv, PrintOrder, Printed
  <2>4. CASE /\ pc[h] = "exit" /\ pc' = [pc EXCEPT ![h] = "park"]
             /\ UNCHANGED <<printed, printSem>>
    <3>1. pc'[h] = "park" /\ \A g \in Hart : g # h => pc'[g] = pc[g]
      BY <1>1, <2>4
    <3>2. \A g \in Hart : HasTurn(g) => HasTurn(g)'
      BY <2>4, <3>1 DEF HasTurn, Hart
    <3> QED
      BY <2>4, <3>1, <3>2 DEF PrintInv, PrintOrder, Printed
  <2>5. CASE UNCHANGED <<pc, printed, printSem>>
    BY <2>5 DEF PrintInv, PrintOrder, Printed, HasTurn
  <2> QED
    BY <1>3, <2>1, <2>2, <2>3, <2>4, <2>5, FinishSteps
<1> QED
  BY <1>2, <1>3, StepEnd

\* At the start nothing is printed and no permission to print is given.
LEMMA InitPrintInv == Init => PrintInv
BY ProcessorsAssumption
   DEF Init, PrintInv, PrintOrder, Printed, Hart

\* Each hart that has printed has counted itself at most once before it parks.
LEMMA NextExitInv == TypeOK /\ ExitInv /\ [Next]_vars => ExitInv'
<1> SUFFICES ASSUME TypeOK, ExitInv, [Next]_vars PROVE ExitInv'
  OBVIOUS
<1>1. /\ pc \in [Hart -> Labels] /\ exitTicket \in [Hart -> Nat]
      /\ exitCounter \in Nat
  BY DEF TypeOK
<1>2. CASE EndQuiet \/ UNCHANGED <<pc, exitCounter, exitTicket, halted>>
  <2>1. Parked' = Parked
    BY <1>2 DEF EndQuiet, Parked
  <2> QED
    BY <1>2, <2>1 DEF EndQuiet, ExitInv
<1>3. ASSUME NEW h \in Hart, Finish(h)
      PROVE  ExitInv'
  <2>1. CASE \E t : /\ pc[h] # "park" /\ pc' = [pc EXCEPT ![h] = t] /\ t # "park"
                    /\ UNCHANGED <<exitCounter, exitTicket, halted>>
    <3>1. Parked' = Parked
      BY <1>1, <2>1 DEF Parked
    <3> QED
      BY <2>1, <3>1 DEF ExitInv
  <2>2. CASE /\ pc[h] = "exit" /\ pc' = [pc EXCEPT ![h] = "park"] /\ ~halted
             /\ exitTicket' = [exitTicket EXCEPT ![h] = exitCounter]
             /\ exitCounter' = exitCounter + 1 /\ UNCHANGED halted
    <3>1. h \notin Parked /\ Parked' = Parked \cup {h}
      BY <1>1, <2>2 DEF Parked
    <3>2. Cardinality(Parked') = Cardinality(Parked) + 1
      BY <3>1, HartFinite, FS_Subset, FS_AddElement DEF Parked
    <3>3. \A g \in Parked' : exitTicket'[g] < exitCounter'
      <4> SUFFICES ASSUME NEW g \in Parked' PROVE exitTicket'[g] < exitCounter'
        OBVIOUS
      <4>1. CASE g = h
        BY <1>1, <2>2, <4>1
      <4>2. CASE g # h
        <5>1. g \in Parked /\ g \in Hart
          BY <3>1, <4>2 DEF Parked
        <5>2. exitTicket[g] < exitCounter
          BY <5>1 DEF ExitInv
        <5> QED
          BY <1>1, <2>2, <4>2, <5>1, <5>2
      <4> QED
        BY <4>1, <4>2
    <3> QED
      BY <2>2, <3>2, <3>3 DEF ExitInv
  <2>3. CASE /\ pc[h] = "park" /\ exitTicket[h] >= PROCESSORS - 1
             /\ UNCHANGED <<pc, exitCounter, exitTicket>>
    <3>1. exitTicket[h] < exitCounter
      BY <2>3 DEF ExitInv, Parked
    <3>2. Parked' = Parked
      BY <2>3 DEF Parked
    <3>3. Cardinality(Parked) \in 0 .. PROCESSORS
      BY SubsetOfHart DEF Parked
    <3>4. exitCounter = PROCESSORS
      BY <1>1, <2>3, <3>1, <3>3, ProcessorsAssumption DEF ExitInv
    <3> QED
      BY <2>3, <3>2, <3>4 DEF ExitInv
  <2> QED
    BY <1>3, <2>1, <2>2, <2>3, FinishSteps
<1> QED
  BY <1>2, <1>3, StepEnd

\* At the start nobody is parked.
LEMMA InitExitInv == Init => ExitInv
<1> SUFFICES ASSUME Init PROVE ExitInv
  OBVIOUS
<1>1. Parked = {}
  BY DEF Init, Parked
<1> QED
  BY <1>1, FS_EmptySet DEF Init, ExitInv

-----------------------------------------------------------------------------
(* The sum                                                                 *)

SummedLabels == {"sum_unlock"} \cup ArriveLabels \cup LeaveLabels \cup EndLabels

\* A step that neither loads nor stores total_error, nor prints.
SumQuiet ==
  /\ UNCHANGED <<totalError, printed, printedTotal>>
  /\ \A g \in Hart :
       /\ Summed(g)' <=> Summed(g)
       /\ Summed(g) => localError'[g] = localError[g]
       /\ pc'[g] = "sum_store" => pc[g] = "sum_store" /\ reg'[g] = reg[g]

SumSame(f, t) == (f \in SummedLabels <=> t \in SummedLabels) /\ t # "sum_store"

LEMMA SumPlain ==
  ASSUME TypeOK, NEW h \in Hart, NEW f, NEW t, Step(h, f, t), SumSame(f, t),
         UNCHANGED <<totalError, printed, printedTotal>>,
         \A g \in Hart \ {h} : reg'[g] = reg[g] /\ localError'[g] = localError[g],
         f \in SummedLabels => localError' = localError
  PROVE  SumQuiet
<1>1. pc \in [Hart -> Labels]
  BY DEF TypeOK
<1> QED
  BY <1>1 DEF Step, SumSame, SumQuiet, Summed, SummedLabels

\* Only these three steps matter to the sum.
LEMMA StepSum ==
  ASSUME TypeOK, [Next]_vars
  PROVE  SumQuiet \/ \E h \in Hart : LoadTotal(h) \/ StoreTotal(h) \/ PrintLine(h)
<1> USE DEF SumSame, SummedLabels, ArriveLabels, LeaveLabels, EndLabels, sumVars,
            printVars
<1>1. reg \in [Hart -> Nat] /\ localError \in [Hart -> Nat]
  BY DEF TypeOK
<1>2. ASSUME Setup
      PROVE  SumQuiet
  BY <1>2, SumPlain, HartZero DEF Setup, SetPriority, SetHandler, InitSemaphores
<1>3. ASSUME NEW h \in Hart, Infer(h)
      PROVE  SumQuiet
  <2>1. CASE TakeLock(h) \/ TakeDmaLock(h) \/ DropLock(h) \/ DropDmaLock(h)
    BY <2>1, SumPlain
       DEF TakeLock, TakeDmaLock, DropLock, DropDmaLock, Acquire, Release
  <2>2. CASE TestCnt(h) \/ WriteSrc(h) \/ WriteDst(h) \/ WriteLen(h) \/ WriteOp(h)
               \/ SeeCompleted(h)
    BY <2>2, SumPlain
       DEF TestCnt, WriteSrc, WriteDst, WriteLen, WriteOp, SeeCompleted, Skip
  <2>3. CASE LoadCnt(h) \/ StoreCnt(h) \/ ClearCompleted(h)
    BY <2>3, SumPlain DEF LoadCnt, StoreCnt, ClearCompleted
  <2>4. ASSUME NEW bad \in 0 .. MaxMismatch, Compare(h, bad)
        PROVE  SumQuiet
    <3>1. \A g \in Hart \ {h} : reg'[g] = reg[g] /\ localError'[g] = localError[g]
      BY <1>1, <2>4 DEF Compare
    <3> QED
      BY <2>4, <3>1, SumPlain DEF Compare
  <2> QED
    BY <1>3, <2>1, <2>2, <2>3, <2>4, Zenon DEF Infer
<1>4. ASSUME NEW h \in Hart, Sum(h)
      PROVE  SumQuiet \/ LoadTotal(h) \/ StoreTotal(h)
  BY <1>4, SumPlain DEF Sum, SumLock, SumUnlock, Acquire, Release
<1>5. ASSUME NEW h \in Hart, Barrier(h)
      PROVE  SumQuiet
  <2>1. CASE LoadCounter(h) \/ StoreCounter(h)
    <3>1. \A g \in Hart \ {h} : reg'[g] = reg[g]
      BY <1>1, <2>1 DEF LoadCounter, StoreCounter
    <3> QED
      BY <2>1, <3>1, SumPlain DEF LoadCounter, StoreCounter
  <2>2. CASE BarrierLock(h) \/ BarrierUnlock(h) \/ BarrierUnlockLast(h) \/ BarrierWait(h)
    BY <2>2, SumPlain DEF BarrierLock, BarrierUnlock, BarrierUnlockLast, BarrierWait,
         AfterBarrier, Acquire, Release
  <2>3. CASE BarrierRelease(h) \/ BarrierReleased(h)
    BY <2>3, SumPlain DEF BarrierRelease, BarrierReleased, AfterBarrier, Skip
  <2> QED
    BY <1>5, <2>1, <2>2, <2>3 DEF Barrier
<1>6. ASSUME NEW h \in Hart, Finish(h)
      PROVE  SumQuiet \/ PrintLine(h)
  <2>1. CASE PrintWait(h) \/ PrintPost(h) \/ CountExit(h)
    BY <2>1, SumPlain DEF PrintWait, PrintPost, CountExit
  <2>2. CASE SysExit(h)
    BY <2>2 DEF SysExit, SumQuiet, Summed
  <2> QED
    BY <1>6, <2>1, <2>2 DEF Finish
<1>7. ASSUME NEW h \in Hart, AccIrqHandler(h)
      PROVE  SumQuiet
  BY <1>7 DEF AccIrqHandler, SumQuiet, Summed
<1>8. CASE UNCHANGED vars
  BY <1>8 DEF vars, SumQuiet, Summed
<1> QED
  BY <1>2, <1>3, <1>4, <1>5, <1>6, <1>7, <1>8 DEF Next, HartStep, Halted

\* Once a line is printed, everybody has arrived at the barrier.
LEMMA PrintedAfterBarrier ==
  ASSUME TypeOK, BarrierInv, PrintInv, printed # <<>>
  PROVE  \A h \in Hart : Arrived(h)
<1>1. 0 < Len(printed)
  BY DEF TypeOK
<1>2. Printed(0)
  BY <1>1, HartZero DEF PrintInv
<1> QED
  BY <1>2, HartZero DEF BarrierInv, Left, Printed, EndLabels

\* No update of total_error is lost.
LEMMA NextSumInv ==
  TypeOK /\ MutexInv /\ BarrierInv /\ PrintInv /\ SumInv /\ [Next]_vars => SumInv'
<1> SUFFICES ASSUME TypeOK, MutexInv, BarrierInv, PrintInv, SumInv, [Next]_vars
             PROVE  SumInv'
  OBVIOUS
<1>1. /\ pc \in [Hart -> Labels] /\ reg \in [Hart -> Nat]
      /\ localError \in [Hart -> Nat] /\ printed \in Seq(Hart)
  BY DEF TypeOK
<1>2. CASE SumQuiet
  <2>1. Added' = Added
    BY <1>2 DEF SumQuiet, Added
  <2> QED
    BY <1>2, <2>1 DEF SumQuiet, SumInv
<1>3. ASSUME NEW h \in Hart, LoadTotal(h)
      PROVE  SumInv'
  <2>1. /\ pc' = [pc EXCEPT ![h] = "sum_store"] /\ pc[h] = "sum_load"
        /\ reg' = [reg EXCEPT ![h] = totalError]
        /\ UNCHANGED <<localError, totalError, printed, printedTotal>>
    BY <1>3 DEF LoadTotal, Step, sumVars, printVars
  <2>2. \A g \in Hart : Summed(g)' <=> Summed(g)
    BY <1>1, <2>1 DEF Summed, ArriveLabels, LeaveLabels, EndLabels
  <2>3. Added' = Added
    BY <2>1, <2>2 DEF Added
  <2>4. \A g \in Hart : pc'[g] = "sum_store" => reg'[g] = totalError
    BY <1>1, <2>1 DEF SumInv
  <2> QED
    BY <2>1, <2>3, <2>4 DEF SumInv
<1>4. ASSUME NEW h \in Hart, StoreTotal(h)
      PROVE  SumInv'
  <2>1. /\ pc' = [pc EXCEPT ![h] = "sum_unlock"] /\ pc[h] = "sum_store"
        /\ totalError' = reg[h] + localError[h]
        /\ reg' = [reg EXCEPT ![h] = 0]
        /\ UNCHANGED <<localError, printed, printedTotal>>
    BY <1>4 DEF StoreTotal, Step, printVars
  <2>2. reg[h] = totalError
    BY <2>1 DEF SumInv
  <2>3. \A g \in Hart \ {h} : pc'[g] = pc[g] /\ pc[g] # "sum_store"
    <3> SUFFICES ASSUME NEW g \in Hart \ {h} PROVE pc'[g] = pc[g] /\ pc[g] # "sum_store"
      OBVIOUS
    <3>1. "sum_store" \in Critical("lock") /\ "lock" \in Mutexes
      BY DEF Critical, Mutexes
    <3> QED
      BY <1>1, <2>1, <3>1 DEF MutexInv, MutexInvOf
  <2>4. Added \in [Hart -> Nat] /\ Added' \in [Hart -> Nat]
    BY <1>1, <2>1 DEF Added
  <2>5. /\ Added[h] = 0 /\ Added'[h] = localError[h]
        /\ \A g \in Hart \ {h} : Added'[g] = Added[g]
    <3>1. ~Summed(h) /\ Summed(h)'
      BY <1>1, <2>1 DEF Summed, ArriveLabels, LeaveLabels, EndLabels
    <3>2. \A g \in Hart \ {h} : Summed(g)' <=> Summed(g)
      BY <2>3 DEF Summed
    <3> QED
      BY <2>1, <3>1, <3>2 DEF Added
  <2>6. localError[h] \in Nat
    BY <1>1
  <2>7. SumFunction(Added) \in Nat /\ SumFunction(Added') = SumFunction(Added) + localError[h]
    <3> DEFINE f == Added
               k == Added'
    <3>1. f \in [Hart -> Nat] /\ k \in [Hart -> Nat]
      BY <2>4
    <3>2. k[h] = f[h] + localError[h] /\ \A g \in Hart \ {h} : k[g] = f[g]
      BY <2>5, <2>6
    <3> HIDE DEF f, k
    <3>3. SumFunction(f) \in Nat /\ SumFunction(k) = SumFunction(f) + localError[h]
      BY <2>6, <3>1, <3>2, HartFinite, SumOfUpdate
    <3> QED
      BY <3>3 DEF f, k
  <2>8. totalError' = SumFunction(Added')
    BY <2>1, <2>2, <2>7 DEF SumInv
  <2>9. printed = <<>>
    BY <2>1, PrintedAfterBarrier DEF Arrived, LeaveLabels, EndLabels
  <2>10. \A g \in Hart : pc'[g] # "sum_store"
    BY <1>1, <2>1, <2>3
  <2> QED
    BY <2>1, <2>8, <2>9, <2>10 DEF SumInv
<1>5. ASSUME NEW h \in Hart, PrintLine(h)
      PROVE  SumInv'
  <2>1. /\ pc' = [pc EXCEPT ![h] = "print_post"] /\ pc[h] = "print"
        /\ printedTotal' = IF h = 0 THEN totalError ELSE printedTotal
        /\ UNCHANGED <<localError, totalError, reg>>
    BY <1>5 DEF PrintLine, Step, sumVars
  <2>2. h = Len(printed)
    BY <2>1 DEF PrintInv, HasTurn
  <2>3. printedTotal' = totalError
    BY <1>1, <2>1, <2>2 DEF SumInv
  <2>4. \A g \in Hart : Summed(g)' <=> Summed(g)
    BY <1>1, <2>1 DEF Summed, ArriveLabels, LeaveLabels, EndLabels
  <2>5. Added' = Added
    BY <2>1, <2>4 DEF Added
  <2>6. \A g \in Hart : pc'[g] = "sum_store" => reg'[g] = totalError
    BY <1>1, <2>1 DEF SumInv
  <2> QED
    BY <2>1, <2>3, <2>5, <2>6 DEF SumInv
<1> QED
  BY <1>2, <1>3, <1>4, <1>5, StepSum

\* At the start nobody has added anything.
LEMMA InitSumInv == Init => SumInv
<1> SUFFICES ASSUME Init PROVE SumInv
  OBVIOUS
<1>1. \A h \in Hart : ~Summed(h) /\ pc[h] # "sum_store"
  BY DEF Init, Summed, ArriveLabels, LeaveLabels, EndLabels
<1>2. Added \in [Hart -> Nat] /\ \A h \in Hart : Added[h] = 0
  BY <1>1 DEF Added
<1>3. SumFunction(Added) = 0
  <2> DEFINE z == Added
  <2>1. z \in [Hart -> Nat] /\ \A h \in Hart : z[h] = 0
    BY <1>2
  <2> HIDE DEF z
  <2>2. SumFunction(z) = 0
    BY <2>1, HartFinite, SumOfZeros
  <2> QED
    BY <2>2 DEF z
<1> QED
  BY <1>1, <1>3 DEF Init, SumInv

-----------------------------------------------------------------------------
(* The whole invariant                                                     *)

\* IInv is inductive together with the types.
LEMMA InitIInv == Init => TypeOK /\ IInv
BY InitTypeOK, InitMutexInv, InitIdInv, InitCntInv, InitBarrierInv, InitLoopInv,
   InitReleaseInv, InitSumInv, InitPrintInv, InitExitInv DEF IInv

LEMMA NextIInv == TypeOK /\ IInv /\ [Next]_vars => TypeOK' /\ IInv'
BY NextTypeOK, NextMutexInv, NextIdInv, NextCntInv, NextBarrierInv, NextLoopInv,
   NextReleaseInv, NextSumInv, NextPrintInv, NextExitInv DEF IInv

\* A hart about to store cnt has room for its image.
LEMMA RoomForOne ==
  ASSUME TypeOK, IInv, NEW h \in Hart, pc[h] = "inc"
  PROVE  cnt < NumImages + PROCESSORS - 1
<1>1. Committed \ {h} \in SUBSET Hart /\ h \notin Committed \ {h}
  BY DEF Committed
<1>2. (Committed \ {h}) \cup {h} = Committed
  BY DEF Committed
<1>3. Cardinality(Committed) = Cardinality(Committed \ {h}) + 1
  BY <1>1, <1>2, SubsetOfHart
<1>4. Cardinality(Committed \ {h}) \in Nat
  BY <1>1, SubsetOfHart
<1>5. cnt \in Nat /\ cnt + Cardinality(Committed) <= NumImages + PROCESSORS - 1
  BY DEF TypeOK, IInv, CntInv
<1> QED
  BY <1>3, <1>4, <1>5, ProcessorsAssumption, NumImagesAssumption

LEMMA TotalFromInv == TypeOK /\ IInv => TotalComplete
<1> SUFFICES ASSUME TypeOK, IInv, printed # <<>>
             PROVE  printedTotal = SumFunction(localError)
  BY DEF TotalComplete
<1>1. \A h \in Hart : Arrived(h)
  BY PrintedAfterBarrier DEF IInv
<1>2. \A h \in Hart : Summed(h)
  BY <1>1 DEF Arrived, Summed
<1>3. Added = localError
  BY <1>2 DEF Added, TypeOK
<1> QED
  BY <1>3 DEF IInv, SumInv

\* Without errors it is zero.
LEMMA NoErrorsNoTotal ==
  ASSUME TypeOK, IInv, printed # <<>>, \A h \in Hart : localError[h] = 0
  PROVE  printedTotal = 0
<1>1. printedTotal = SumFunction(localError)
  BY TotalFromInv DEF TotalComplete
<1>2. localError \in [Hart -> Nat]
  BY DEF TypeOK
<1> QED
  BY <1>1, <1>2, HartFinite, SumOfZeros

LEMMA CleanExitFromInv == TypeOK /\ IInv => CleanExit
<1> SUFFICES ASSUME TypeOK, IInv, halted
             PROVE  /\ Len(printed) = PROCESSORS
                    /\ \A h \in Hart : pc[h] = "park"
                    /\ barrierCounter = 0 /\ sem["barrier_sem"] = 0
                    /\ \A m \in Mutexes : sem[m] = 1
                    /\ \A h \in Hart : printSem[h] = 0
  BY DEF CleanExit
<1>1. Cardinality(Parked) = Cardinality(Hart)
  BY HartFinite DEF IInv, ExitInv
<1>2. Parked = Hart
  BY <1>1, HartFinite, FS_Subset DEF Parked
<1>3. \A h \in Hart : pc[h] = "park"
  BY <1>2 DEF Parked
<1>4. Len(printed) = PROCESSORS
  <2>1. PROCESSORS - 1 \in Hart /\ Len(printed) \in Nat
    BY ProcessorsAssumption DEF Hart, TypeOK
  <2>2. Printed(PROCESSORS - 1)
    BY <1>3, <2>1 DEF Printed
  <2>3. PROCESSORS - 1 < Len(printed) /\ Len(printed) <= PROCESSORS
    BY <2>1, <2>2 DEF IInv, PrintInv
  <2> QED
    BY <2>1, <2>3, ProcessorsAssumption
<1>5. barrierCounter = 0 /\ sem["barrier_sem"] = 0
  <2>1. \A h \in Hart : Arrived(h)
    BY <1>3 DEF Arrived, EndLabels
  <2>2. Waiters = {}
    BY <1>3 DEF Waiters
  <2>3. sem["barrier_sem"] \in Nat /\ j \in 0 .. PROCESSORS - 1
    BY DEF TypeOK, Sems
  <2>4. barrierCounter = 0 /\ 0 + j = PROCESSORS - 1 + sem["barrier_sem"]
    BY <2>1, <2>2, FS_EmptySet DEF IInv, ReleaseInv
  <2> QED
    BY <2>3, <2>4, ProcessorsAssumption
<1>6. \A m \in Mutexes : sem[m] = 1
  BY <1>3, HartZero DEF IInv, MutexInv, MutexInvOf, Critical, Uninitialised
<1>7. \A h \in Hart : printSem[h] = 0
  BY <1>4, ProcessorsAssumption DEF IInv, PrintInv, HasTurn, Hart
<1> QED
  BY <1>3, <1>4, <1>5, <1>6, <1>7

\* The invariant of Harts.tla holds in every reachable state.
THEOREM InvariantHolds == Spec => [](TypeOK /\ IInv)
BY InitIInv, NextIInv, PTL DEF Spec

\* The lines come in core order, each once: print_sem hands the permission on
\* from one hart to the next (sw/main.cpp, "Allow next Core to print").
THEOREM PrintOrderHolds == Spec => []PrintOrder
<1>1. IInv => PrintOrder
  BY DEF IInv, PrintInv
<1> QED
  BY InvariantHolds, <1>1, PTL

\* The total hart 0 prints is the sum of every hart's local error: no update of
\* total_error is lost and none is still to come.
THEOREM TotalHolds == Spec => []TotalComplete
BY InvariantHolds, TotalFromInv, PTL

\* SYS_EXIT comes only when every hart has printed and counted itself, with all
\* mutexes free and no post of a semaphore unused.
THEOREM CleanExitHolds == Spec => []CleanExit
BY InvariantHolds, CleanExitFromInv, PTL
=============================================================================
