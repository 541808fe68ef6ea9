----------------------------- MODULE BlockStore ----------------------------
(***************************************************************************)
(* What the flash controller promises to the program behind its registers: *)
(* an array of blocks.  Everything written to a block is on the medium as  *)
(* soon as another block is addressed or the simulation ends in order; a   *)
(* crash takes back at most what was written to the block addressed last.  *)
(* Once a transfer has failed the contents of the blocks addressed so far  *)
(* are no longer warranted; those of all the others still are.             *)
(***************************************************************************)
EXTENDS Integers

CONSTANTS Blocks, Pos, Data

VARIABLES store,     \* the blocks as the program sees them
          stable,    \* the blocks as a crash would leave them
          last,      \* the block addressed last
          reply,     \* what the last read returned
          touched,   \* blocks addressed so far
          failed,    \* a transfer has failed
          power      \* "on", "off" after an orderly end, "lost" or "aborted"

storeVars == <<store, stable, last, reply, touched, failed, power>>

StoreInit ==
  /\ stable = store /\ last = 0
  /\ touched = {} /\ failed = FALSE /\ power = "on"

\* Addressing another block makes the writes to the one before permanent.
Address(b) ==
  /\ last' = b
  /\ stable' = IF b = last THEN stable ELSE store
  /\ touched' = touched \cup {b}

Write(b, i, v) ==
  /\ Address(b)
  /\ store' = [store EXCEPT ![b][i] = v]
  /\ UNCHANGED <<reply, failed, power>>

Read(b, i) ==
  /\ Address(b)
  /\ reply' = store[b][i]
  /\ UNCHANGED <<store, failed, power>>

\* An orderly end makes everything permanent; a crash shows what was.
Close ==
  /\ power' = "off"
  /\ stable' = store /\ UNCHANGED <<store, last, reply, touched, failed>>

Crash ==
  /\ power' \in {"lost", "aborted"}
  /\ store' = stable /\ UNCHANGED <<stable, last, reply, touched, failed>>

Reset ==
  /\ power \in {"off", "lost"} /\ power' = "on"
  /\ store = stable /\ last' = 0
  /\ UNCHANGED <<store, stable, reply, touched, failed>>

\* A step with a failed transfer, and every step after one.
Degraded ==
  /\ failed' = TRUE
  /\ touched \subseteq touched'
  /\ \A b \in Blocks \ touched' : store'[b] = store[b] /\ stable'[b] = stable[b]

InService ==
  /\ power = "on"
  /\ \/ \E i \in Pos, v \in Data : Write(last', i, v)
     \/ \E i \in Pos : Read(last', i)
     \/ Close
     \/ Crash

StoreNext ==
  \/ ~failed /\ failed' = FALSE /\ last' \in Blocks /\ (InService \/ Reset)
  \/ Degraded

StoreSpec == StoreInit /\ [][StoreNext]_storeVars
=============================================================================
