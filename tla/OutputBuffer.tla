----------------------------- MODULE OutputBuffer -----------------------------
(***************************************************************************)
(* What XPointDriver.h asks of a driver that batches its writes: nodes are *)
(* set in a buffer, and commitPhysicalUpdates() shows the whole buffer at  *)
(* once.  No output ever shows anything else, except that a reset of the   *)
(* microcontroller empties the buffer and leaves the outputs undetermined  *)
(* until the next commit.                                                  *)
(***************************************************************************)
CONSTANT Node

VARIABLES
  buffer,  \* node -> what the driver was told
  output   \* node -> what the hardware shows

vars == <<buffer, output>>

AllOff == [n \in Node |-> FALSE]

Init == buffer = AllOff /\ output \in [Node -> BOOLEAN]

SetNode(n, state) ==
  /\ buffer' = [buffer EXCEPT ![n] = state]
  /\ output' = output

Commit ==
  /\ output' = buffer
  /\ buffer' = buffer

Reset ==
  /\ buffer' = AllOff
  /\ output' \in [Node -> BOOLEAN]

Next ==
  \/ \E n \in Node, state \in BOOLEAN : SetNode(n, state)
  \/ Commit
  \/ Reset

Spec == Init /\ [][Next]_vars
===============================================================================
