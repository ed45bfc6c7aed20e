-------------------------- MODULE NonLatchingXPoint ---------------------------
(***************************************************************************)
(* The RE_NON_LATCHING branch of XPoint with each kind of driver that the  *)
(* library has for it.  A node is connected for as long as its output is   *)
(* energised.                                                              *)
(*                                                                         *)
(* A driver keeps a shadow of its outputs and writes it when it commits;   *)
(* the Arduino's own pins show their port register at once, which is the   *)
(* shadow then.  The kinds differ in what begin() does to the outputs, and *)
(* in whether a level is more than on and off.                             *)
(***************************************************************************)
EXTENDS XPoint

CONSTANT FULL  \* the level of setNodeHardware(true), 0xFFFF

ASSUME LevelAssumption == FULL \in Nat \ {0}

Level == 0 .. FULL

Driver == {"expander",  \* MCP23017, 74HC595: begin() writes the shadow
           "dimmer",    \* TLC59711: keeps levels, begin() sends nothing
           "pins",      \* ArduinoDirectGPIODriver: begin() drives LOW
           "recorder"}  \* the host builds' arrays: begin() does nothing

VARIABLES
  driver,     \* the kind of the driver; never changes
  shadow,     \* the driver's buffer: node -> level
  out,        \* what the outputs drive: node -> level
  committed,  \* history: a request has made the driver commit
  undriven    \* history: nodes that no driver has driven since they were
              \* recorded, or that a begin() has switched off since

vars == <<matrixVars, driver, shadow, out, committed, undriven>>
-------------------------------------------------------------------------------
(***************************************************************************)
(* A chip keeps its outputs while the microcontroller resets, until an     *)
(* expander's begin() writes the zeroed shadow or a dimmer first commits.  *)
(* The microcontroller's own pins float until begin() makes them outputs,  *)
(* the arrays of the host build start at zero.  Unless the application is  *)
(* Headless, begin() has been called when the first request comes.         *)
(***************************************************************************)
AllOff == [n \in Node |-> 0]

PoweredUp(held) ==
  IF driver = "recorder" \/ (~Headless /\ driver # "dimmer") THEN {AllOff}
  ELSE IF driver = "pins" THEN [Node -> {0, FULL}] ELSE held

Init ==
  /\ MatrixInit
  /\ driver \in Driver
  /\ shadow = AllOff
  /\ out \in PoweredUp([Node -> {0, FULL}])
  /\ committed = FALSE
  /\ undriven = {}

(***************************************************************************)
(* setNodeHardware(n, on) or setNodeLevel(n, level) for every n of S,      *)
(* followed by commitPhysicalUpdates(), if there is a driver.              *)
(***************************************************************************)
Drive(S, level) ==
  IF attached
  THEN /\ shadow' = [n \in Node |-> IF n \in S THEN level ELSE shadow[n]]
       /\ out' = shadow'
       /\ committed' = TRUE
       /\ undriven' = undriven \ S
  ELSE /\ undriven' = undriven \cup S
       /\ UNCHANGED <<shadow, out, committed>>

(***************************************************************************)
(* The default setNodeLevel() turns a level into on or off.                *)
(***************************************************************************)
Driven(level) == IF driver = "dimmer" \/ level = 0 THEN level ELSE FULL

(***************************************************************************)
(* connect() answers true without touching the output if the node is       *)
(* already recorded; the interlock rules are looked at first.              *)
(***************************************************************************)
Connect(n) ==
  /\ ~Forbidden(n, connected)
  /\ n \notin connected
  /\ connected' = connected \cup {n}
  /\ Drive({n}, FULL)
  /\ UNCHANGED <<ilock, excl, attached, driver>>

Disconnect(n) ==
  /\ n \in connected
  /\ connected' = connected \ {n}
  /\ Drive({n}, 0)
  /\ UNCHANGED <<ilock, excl, attached, driver>>

(***************************************************************************)
(* setLevel() records and drives the node whatever was recorded before; a  *)
(* level of 0 bypasses the rules.                                          *)
(***************************************************************************)
UncheckedLevel(n, level) ==
  /\ connected' = IF level > 0 THEN connected \cup {n} ELSE connected \ {n}
  /\ Drive({n}, Driven(level))
  /\ UNCHANGED <<ilock, excl, attached, driver>>

SetLevel(n, level) ==
  /\ level > 0 => ~Forbidden(n, connected)
  /\ connected' = IF level > 0 THEN connected \cup {n} ELSE connected \ {n}
  /\ Drive({n}, Driven(level))
  /\ UNCHANGED <<ilock, excl, attached, driver>>

ClearAll ==
  /\ connected' = {}
  /\ Drive(connected, 0)
  /\ UNCHANGED <<ilock, excl, attached, driver>>

(***************************************************************************)
(* setDriver() with begin() right after it, which may be called again.     *)
(* An expander writes its shadow, which is zero until there is a driver,   *)
(* whatever the matrix has recorded meanwhile; a dimmer starts its bus and *)
(* an array does nothing; the pins are driven LOW whatever is recorded.    *)
(***************************************************************************)
SilentBegin == SetDriver /\ UNCHANGED <<driver, shadow, out, committed, undriven>>

Begin ==
  /\ SetDriver
  /\ shadow' = IF driver = "pins" THEN AllOff ELSE shadow
  /\ out' = IF driver \in {"expander", "pins"} THEN shadow' ELSE out
  /\ undriven' = IF driver = "pins" THEN undriven \cup connected ELSE undriven
  /\ UNCHANGED <<driver, committed>>

(***************************************************************************)
(* The microcontroller resets: matrix and driver are constructed again.    *)
(***************************************************************************)
Reset ==
  /\ MatrixReset
  /\ shadow' = AllOff
  /\ out' \in PoweredUp({out})
  /\ committed' = FALSE
  /\ undriven' = {}
  /\ UNCHANGED driver

AddLock ==
  /\ \E p \in LockArgs : LockRows(p[1], p[2])
  /\ UNCHANGED <<driver, shadow, out, committed, undriven>>

AddExclusive ==
  /\ \E c \in ExclArgs : ExclusiveInput(c)
  /\ UNCHANGED <<driver, shadow, out, committed, undriven>>

Next ==
  \/ \E n \in Node : Connect(n) \/ Disconnect(n)
  \/ \E n \in Node, level \in Level : SetLevel(n, level)
  \/ ClearAll
  \/ Begin
  \/ AddLock
  \/ AddExclusive
  \/ Reset

Spec == Init /\ [][Next]_vars
-------------------------------------------------------------------------------
TypeOK ==
  /\ MatrixTypeOK
  /\ driver \in Driver
  /\ shadow \in [Node -> Level]
  /\ out \in [Node -> Level]
  /\ committed \in BOOLEAN
  /\ undriven \subseteq Node

(***************************************************************************)
(* Once a driver is begun, or a dimmer has committed, an output is         *)
(* energised exactly when the matrix says so, whatever the outputs were    *)
(* before and also after a reset; only a node whose connect() met no       *)
(* driver, or that a begin() has switched off, may be recorded and off.    *)
(***************************************************************************)
OutputFollowsRecord ==
  attached /\ (driver = "dimmer" => committed) =>
    \A n \in Node : /\ out[n] > 0 => n \in connected
                    /\ n \in connected \ undriven => out[n] > 0

Short(m, n) ==
  /\ m[2] = n[2]
  /\ Exclude(m[1], n[1], m[2])
  /\ out[m] > 0
  /\ out[n] > 0

(***************************************************************************)
(* No step energises a second row of a column against the rules in force,  *)
(* at whatever level, also not the first commit over what the outputs were *)
(* before.                                                                 *)
(***************************************************************************)
NoNewShort ==
  [][\A m, n \in Node :
       (m[2] = n[2] /\ Exclude(m[1], n[1], m[2]) /\ ~Short(m, n)) => ~Short(m, n)']_vars

(***************************************************************************)
(* The matrix arbitrates its columns as Crosspoint does, a node being      *)
(* occupied while it is recorded.                                          *)
(***************************************************************************)
Arbiter == INSTANCE Crosspoint WITH occupied <- connected

Arbitrates == Arbiter!Spec
===============================================================================
