------------------------------ MODULE Crosspoint ------------------------------
(***************************************************************************)
(* What an XPoint matrix promises, with no drivers, pulses or time: it     *)
(* arbitrates the columns of the matrix.  A node is occupied from the      *)
(* moment a request for it is granted until the moment its row may no      *)
(* longer be on the column.  Rules may be added at any time and only a     *)
(* reset drops them; a node that a rule in force excludes is not granted.  *)
(***************************************************************************)
CONSTANTS Row, Col

VARIABLES
  occupied,  \* nodes granted and not yet vacated
  ilock,     \* pairs of rows that may not share a column
  excl       \* columns that take one row at a time

vars == <<occupied, ilock, excl>>

Rivals(n) ==
  {m \in occupied : /\ m[2] = n[2]
                    /\ m[1] # n[1]
                    /\ \/ <<n[1], m[1]>> \in ilock
                       \/ n[2] \in excl}

Init == occupied = {} /\ ilock = {} /\ excl = {}

Grant(n) ==
  /\ n \notin occupied
  /\ Rivals(n) = {}
  /\ occupied' = occupied \cup {n}
  /\ UNCHANGED <<ilock, excl>>

Vacate ==
  /\ occupied' \subseteq occupied
  /\ UNCHANGED <<ilock, excl>>

AddRule ==
  /\ \/ \E a, b \in Row : ilock' = ilock \cup {<<a, b>>, <<b, a>>} /\ excl' = excl
     \/ \E c \in Col : excl' = excl \cup {c} /\ ilock' = ilock
  /\ UNCHANGED occupied

Reset == occupied' = {} /\ ilock' = {} /\ excl' = {}

Next == Vacate \/ AddRule \/ Reset \/ \E n \in Row \X Col : Grant(n)

Spec == Init /\ [][Next]_vars
===============================================================================
