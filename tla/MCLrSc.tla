------------------------------- MODULE MCLrSc -------------------------------
(* Three harts calling sem_init, sem_wait and sem_post on one word.        *)
EXTENDS LrScSemaphore, TLC

CONSTANTS h1, h2, h3

MCHart == {h1, h2, h3}
HartSymmetry == Permutations(MCHart)
=============================================================================
