-------------------------------- MODULE XPoint --------------------------------
(***************************************************************************)
(* What every XPoint matrix has, whatever its relays: the three sections   *)
(* of the bit pool, the driver pointer, the interlock rules and the        *)
(* operations that configure them.  LatchingXPoint and NonLatchingXPoint   *)
(* extend this module with the two branches the code selects by _type, a   *)
(* member that is written by the constructor only.                         *)
(*                                                                         *)
(* A section of the pool is the set of the coordinates whose bit is set.   *)
(* A call with a row or a column outside the matrix returns before it      *)
(* reads or writes anything, so the operations are quantified over the     *)
(* nodes of the matrix alone.                                              *)
(***************************************************************************)
EXTENDS Integers, FiniteSets

CONSTANTS
  ROWS,      \* _rows, fixed by the constructor
  COLS,      \* _cols
  Headless,  \* TRUE: requests may come before setDriver() and begin()
  LockArgs,  \* the row pairs the application passes to lockRows()
  ExclArgs   \* the columns the application passes to exclusiveInput()

Row  == 0 .. ROWS - 1
Col  == 0 .. COLS - 1
Node == Row \X Col

ASSUME MatrixAssumption ==
  /\ ROWS \in 0 .. 255
  /\ COLS \in 0 .. 255
  /\ Headless \in BOOLEAN
  /\ LockArgs \subseteq Row \X Row
  /\ ExclArgs \subseteq Col

VARIABLES
  connected,  \* the state section: nodes recorded as connected
  ilock,      \* the ilock section: pairs of rows, both orders of each lock
  excl,       \* the excl section: exclusive columns
  attached    \* _drv # nullptr

matrixVars == <<connected, ilock, excl, attached>>
-------------------------------------------------------------------------------
(***************************************************************************)
(* The constructor: _pool.clear() zeroes the three sections, and there is  *)
(* no driver yet.  Unless the application is Headless, setDriver() and     *)
(* begin() follow before anything else.                                    *)
(***************************************************************************)
MatrixInit ==
  /\ connected = {}
  /\ ilock     = {}
  /\ excl      = {}
  /\ attached  = ~Headless

(***************************************************************************)
(* The microcontroller resets and the constructor runs again.              *)
(***************************************************************************)
MatrixReset ==
  /\ connected' = {}
  /\ ilock' = {}
  /\ excl' = {}
  /\ attached' = ~Headless

MatrixTypeOK ==
  /\ connected \subseteq Node
  /\ ilock \subseteq Row \X Row
  /\ excl \subseteq Col
  /\ attached \in BOOLEAN

(***************************************************************************)
(* The order in which clearAll() visits the nodes.                         *)
(***************************************************************************)
Before(m, n) ==
  \/ m[1] < n[1]
  \/ m[1] = n[1] /\ m[2] < n[2]

(***************************************************************************)
(* The two loops at the head of connect() and of setLevel() with a level   *)
(* above 0: another row that is busy in this column forbids the node if    *)
(* the rows are locked together or the column is exclusive.  busy is the   *)
(* set of nodes that are connected or have a coil pulse pending.  A row    *)
(* locked with itself forbids nothing.                                     *)
(***************************************************************************)
OtherBusyRows(n, busy) == {r \in Row \ {n[1]} : <<r, n[2]>> \in busy}

ForbiddenByLock(n, busy) ==
  \E r \in OtherBusyRows(n, busy) : <<n[1], r>> \in ilock

Forbidden(n, busy) ==
  \/ \E r \in OtherBusyRows(n, busy) : <<n[1], r>> \in ilock
  \/ n[2] \in excl /\ OtherBusyRows(n, busy) # {}

(***************************************************************************)
(* Configuration.  lockRows() and exclusiveInput() look at no connection:  *)
(* they may be called while the rows they lock already share a column.     *)
(***************************************************************************)
OneBasedLockRows(a, b) ==
  /\ ilock' = ilock \cup {<<a + 1, b + 1>>, <<b + 1, a + 1>>}
  /\ UNCHANGED <<connected, excl, attached>>

OneWayLockRows(a, b) ==
  /\ ilock' = ilock \cup {<<a, b>>}
  /\ UNCHANGED <<connected, excl, attached>>

LockRows(a, b) ==
  /\ ilock' = ilock \cup {<<a, b>>, <<b, a>>}
  /\ UNCHANGED <<connected, excl, attached>>

ExclusiveInput(c) ==
  /\ excl' = excl \cup {c}
  /\ UNCHANGED <<connected, ilock, attached>>

(***************************************************************************)
(* setDriver() with a driver.  Detaching a driver, or attaching another,   *)
(* is outside the documented use ("must be called before begin()").        *)
(***************************************************************************)
SetDriver ==
  /\ attached' = TRUE
  /\ UNCHANGED <<connected, ilock, excl>>

Configure ==
  \/ \E p \in LockArgs : LockRows(p[1], p[2])
  \/ \E c \in ExclArgs : ExclusiveInput(c)
  \/ SetDriver
-------------------------------------------------------------------------------
(***************************************************************************)
(* What the requests may do to the three sections, drivers and relays      *)
(* left out: connect() and a level above 0 record a node that no rule      *)
(* forbids, disconnect() and level 0 forget it, clearAll() forgets all.    *)
(***************************************************************************)
Record(n) ==
  /\ ~Forbidden(n, connected)
  /\ connected' = connected \cup {n}
  /\ UNCHANGED <<ilock, excl, attached>>

Forget(S) ==
  /\ connected' = connected \ S
  /\ UNCHANGED <<ilock, excl, attached>>

RecordNext ==
  \/ \E n \in Node : Record(n) \/ Forget({n})
  \/ Forget(connected)
  \/ Configure
  \/ MatrixReset

RecordSpec == MatrixInit /\ [][RecordNext]_matrixVars
-------------------------------------------------------------------------------
(***************************************************************************)
(* Rows a and b exclude each other in column c.                            *)
(***************************************************************************)
Exclude(a, b, c) ==
  /\ a # b
  /\ \/ <<a, b>> \in ilock
     \/ <<b, a>> \in ilock
     \/ c \in excl
===============================================================================
