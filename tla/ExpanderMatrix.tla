---------------------------- MODULE ExpanderMatrix -----------------------------
(***************************************************************************)
(* The composition of the MCP23017Matrix example: a non-latching matrix    *)
(* over one of the expanders of MuxedExpanders.  A request changes the     *)
(* record at once and the pins two register writes later; between the two  *)
(* the microcontroller may reset, which clears the record and leaves the   *)
(* pins.  The other expanders belong to other matrices on the same bus.    *)
(*                                                                         *)
(* The mapper of the example gives each row a port and each column a pin.  *)
(***************************************************************************)
EXTENDS XPoint, MuxedExpanders

CONSTANT Expander  \* the chip of the matrix

ASSUME ExpanderAssumption ==
  /\ Expander \in Chip
  /\ ROWS <= 2 /\ COLS <= 8
  /\ Col \subseteq Pin
  /\ ~Headless

busVars == <<shadow, begun, lastSel, todo, selected, regs, misled, lost>>
allVars == <<matrixVars, busVars>>
-------------------------------------------------------------------------------
(***************************************************************************)
(* The example's mapper and the driver's choice of a port and a pin.       *)
(***************************************************************************)
mapper(n) == n[1] * 8 + n[2]

PortOf(n) == IF mapper(n) < 8 THEN "A" ELSE "B"

PinOf(n) == IF mapper(n) < 8 THEN mapper(n) ELSE mapper(n) - 8

SetNode(n, on) == SetNodeHardware(Expander, PortOf(n), PinOf(n), on)

(***************************************************************************)
(* The requests, each with the writes that its setNodeHardware() leaves to *)
(* be made; commitPhysicalUpdates() adds nothing.                          *)
(***************************************************************************)
Connect(n) == n \notin connected /\ Record(n) /\ SetNode(n, TRUE)

Disconnect(n) == n \in connected /\ Forget({n}) /\ SetNode(n, FALSE)

SetLevel(n, level) ==
  IF level > 0 THEN Record(n) /\ SetNode(n, TRUE) ELSE Forget({n}) /\ SetNode(n, FALSE)

(***************************************************************************)
(* clearAll() commits once for every node that was connected, in the order *)
(* in which its loops meet them.                                           *)
(***************************************************************************)
Visits(order) ==
  /\ \A i, j \in DOMAIN order : i < j => Before(order[i], order[j])
  /\ \A n \in connected : \E i \in DOMAIN order : order[i] = n

Cleared(order, i) ==
  [p \in Port |->
     {pin \in shadow[Expander][p] :
        \A j \in 1 .. i : ~(PortOf(order[j]) = p /\ PinOf(order[j]) = pin)}]

ClearWrites(order, len) ==
  [k \in 1 .. 2 * len |-> Commit(Expander, Cleared(order, (k + 1) \div 2))[2 - (k % 2)]]

ClearAll ==
  \E len \in 0 .. ROWS * COLS : \E order \in [1 .. len -> connected] :
    /\ todo = <<>>
    /\ Expander \in begun
    /\ Visits(order)
    /\ Forget(connected)
    /\ shadow' = [shadow EXCEPT ![Expander] = Cleared(order, len)]
    /\ todo' = ClearWrites(order, len)
    /\ UNCHANGED <<begun, lastSel, selected, regs, misled, lost>>

Request ==
  \/ \E n \in Node : Connect(n) \/ Disconnect(n)
  \/ \E n \in Node, level \in 0 .. 1 : SetLevel(n, level)
  \/ ClearAll

(***************************************************************************)
(* begin() of any driver or adapter, a request to another matrix, and a    *)
(* transaction of the call in progress.                                    *)
(***************************************************************************)
OtherStep ==
  /\ \/ \E c \in Chip : Begin(c)
     \/ \E c \in Chip \ {Expander}, p \in Port, pin \in Pin, state \in BOOLEAN :
          SetNodeHardware(c, p, pin, state)
     \/ \E m \in Mux : InterfaceBegin(m)
     \/ Bus
  /\ UNCHANGED matrixVars

Rules == todo = <<>> /\ Configure /\ UNCHANGED busVars

ComposedInit == Init /\ MatrixInit

ComposedNext == Request \/ OtherStep \/ Rules \/ (Reset /\ MatrixReset)

(***************************************************************************)
(* A call blocks the only thread until its transactions are made: it runs  *)
(* to its end unless the microcontroller resets.                           *)
(***************************************************************************)
ComposedSpec ==
  ComposedInit /\ [][ComposedNext]_allVars /\ WF_allVars(Bus /\ UNCHANGED matrixVars)
-------------------------------------------------------------------------------
Energised(n) ==
  PinOf(n) \in regs[Expander][<<"OLAT", PortOf(n)>>]
                \cap regs[Expander][<<"IODIR", PortOf(n)>>]

(***************************************************************************)
(* The port of a node lacks a write, or took another chip's.               *)
(***************************************************************************)
Unsure(n) ==
  {<<Expander, <<"OLAT", PortOf(n)>>>>, <<Expander, <<"IODIR", PortOf(n)>>>>} \cap lost # {}

(***************************************************************************)
(* Between calls the pins of an expander that was begun are what the       *)
(* matrix has recorded, whatever calls of this and of the other matrices a *)
(* reset cut short before, but for the ports that a lost byte concerned.   *)
(***************************************************************************)
PinsFollowRecord ==
  todo = <<>> /\ Expander \in begun =>
    \A n \in Node : Unsure(n) \/ (Energised(n) <=> n \in connected)

Short(m, n) ==
  /\ m[2] = n[2]
  /\ Exclude(m[1], n[1], m[2])
  /\ Energised(m)
  /\ Energised(n)

(***************************************************************************)
(* No register write, not even the first of a commit that changes both     *)
(* ports or one over what a reset left, energises a second row of a column *)
(* against the rules in force, unless a byte was lost on the port of one.  *)
(***************************************************************************)
NoNewShort ==
  [][\A m, n \in Node :
       (m[2] = n[2] /\ Exclude(m[1], n[1], m[2]) /\ ~Short(m, n))
         => \/ ~Short(m, n)'
            \/ \E k \in {m, n} : Unsure(k) \/ Unsure(k)']_allVars
===============================================================================
