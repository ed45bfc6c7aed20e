-------------------------- MODULE ShiftRegisterChain --------------------------
(***************************************************************************)
(* ArduinoShiftRegisterDriver and the daisy-chained 74HC595 registers that *)
(* it drives by three pins.  A commit takes the latch line low, clocks the *)
(* buffer out bit by bit, and takes the latch line high: the chain copies  *)
(* its shift stages to its outputs on that edge and on no other.           *)
(*                                                                         *)
(* The microcontroller may reset between any two bits.  The chain keeps    *)
(* its stages, and while the three pins float it may see any edges.        *)
(***************************************************************************)
EXTENDS Integers

CONSTANTS
  ROWS, COLS,  \* the matrix that the mapper is written for
  NOUT,        \* _nOut, the outputs the driver was told of
  BYTE         \* bits of a byte, outputs of a register: 8

NBYTES == (NOUT + BYTE - 1) \div BYTE
NBITS  == NBYTES * BYTE

ASSUME ChainAssumption ==
  /\ ROWS \in 0 .. 255
  /\ COLS \in 0 .. 255
  /\ NOUT \in Nat
  /\ BYTE \in Nat \ {0}

VARIABLES
  buf,     \* _buf: bit b of byte i is at i * BYTE + b
  clocked, \* bits clocked out by the commit in progress; -1: none is
  pins,    \* pinMode of the three lines: "input" from the reset to begin()
  latch,   \* the level of the latch line
  stage,   \* the shift stages of the chain, the data pin feeds stage 0
  outputs  \* the output latches of the chain

vars == <<buf, clocked, pins, latch, stage, outputs>>
-------------------------------------------------------------------------------
Bit == 0 .. NBITS - 1

Zeros == [i \in Bit |-> FALSE]

Init ==
  /\ buf = Zeros
  /\ clocked = -1
  /\ pins = "input"
  /\ latch \in {"low", "high"}
  /\ stage \in [Bit -> BOOLEAN]
  /\ outputs \in [Bit -> BOOLEAN]

(***************************************************************************)
(* The mapper of the ShiftRegister example, HC595Helper::rowMajorIndex().  *)
(* A node past the last output is ignored.  A write past the buffer would  *)
(* make it grow.                                                           *)
(***************************************************************************)
RowMajorIndex(n) == n[1] * COLS + n[2]

AllNodes == (0 .. ROWS - 1) \X (0 .. COLS - 1)

Node == {n \in AllNodes : RowMajorIndex(n) < NOUT}

UncheckedSet(n, state) ==
  /\ clocked = -1
  /\ buf' = [i \in DOMAIN buf \cup {RowMajorIndex(n)} |->
               IF i = RowMajorIndex(n) THEN state ELSE buf[i]]
  /\ UNCHANGED <<clocked, pins, latch, stage, outputs>>

SetNodeHardware(n, state) ==
  /\ n \in Node
  /\ clocked = -1
  /\ buf' = [i \in DOMAIN buf \cup {RowMajorIndex(n)} |->
               IF i = RowMajorIndex(n) THEN state ELSE buf[i]]
  /\ UNCHANGED <<clocked, pins, latch, stage, outputs>>

(***************************************************************************)
(* commitPhysicalUpdates(): the latch line goes low, ...                   *)
(***************************************************************************)
LatchLow ==
  /\ pins = "output"
  /\ clocked = -1
  /\ clocked' = 0
  /\ latch' = "low"
  /\ UNCHANGED <<buf, pins, stage, outputs>>

(***************************************************************************)
(* ... every bit is put on the data line between a low and a high clock,   *)
(* last byte first and highest bit first, ...                              *)
(***************************************************************************)
LowestFirst(k) == (NBYTES - 1 - (k \div BYTE)) * BYTE + (k % BYTE)

KthBit(k) == (NBYTES - 1 - (k \div BYTE)) * BYTE + (BYTE - 1 - (k % BYTE))

LatchEachBit ==
  /\ clocked \in Bit
  /\ stage' = [j \in Bit |-> IF j = 0 THEN buf[KthBit(clocked)] ELSE stage[j - 1]]
  /\ outputs' = stage'
  /\ clocked' = clocked + 1
  /\ UNCHANGED <<buf, pins, latch>>

ClockBit ==
  /\ clocked \in Bit
  /\ stage' = [j \in Bit |-> IF j = 0 THEN buf[KthBit(clocked)] ELSE stage[j - 1]]
  /\ clocked' = clocked + 1
  /\ UNCHANGED <<buf, pins, latch, outputs>>

(***************************************************************************)
(* ... and the latch line goes high.                                       *)
(***************************************************************************)
LatchHigh ==
  /\ clocked = NBITS
  /\ clocked' = -1
  /\ latch' = "high"
  /\ outputs' = IF latch = "low" THEN stage ELSE outputs
  /\ UNCHANGED <<buf, pins, stage>>

(***************************************************************************)
(* begin(): the pins become outputs, all low, and a commit follows.        *)
(***************************************************************************)
Begin ==
  /\ clocked = -1
  /\ pins' = "output"
  /\ latch' = "low"
  /\ clocked' = 0
  /\ UNCHANGED <<buf, stage, outputs>>

(***************************************************************************)
(* The reset.  Edges on the floating clock line shift anything into the    *)
(* stages, an edge on the floating latch line shows them.                  *)
(***************************************************************************)
Reset ==
  /\ buf' = Zeros
  /\ clocked' = -1
  /\ pins' = "input"
  /\ latch' \in {"low", "high"}
  /\ stage' \in [Bit -> BOOLEAN]
  /\ outputs' \in {outputs, stage'}

Next ==
  \/ \E n \in AllNodes, state \in BOOLEAN : SetNodeHardware(n, state)
  \/ Begin
  \/ LatchLow
  \/ ClockBit
  \/ LatchHigh
  \/ Reset

Spec == Init /\ [][Next]_vars
-------------------------------------------------------------------------------
(***************************************************************************)
(* No write goes past the buffer: it never grows.                          *)
(***************************************************************************)
TypeOK ==
  /\ buf \in [Bit -> BOOLEAN]
  /\ clocked \in -1 .. NBITS
  /\ pins \in {"input", "output"}
  /\ latch \in {"low", "high"}
  /\ stage \in [Bit -> BOOLEAN]
  /\ outputs \in [Bit -> BOOLEAN]

(***************************************************************************)
(* Whatever the chain held, after k clocks its first k stages hold the     *)
(* last k bits of the buffer, each as far from its place as there are      *)
(* clocks to come, and the latch line is low.                              *)
(***************************************************************************)
ShiftedSoFar ==
  clocked # -1 =>
    /\ latch = "low"
    /\ \A j \in 0 .. clocked - 1 : stage[j] = buf[NBITS - clocked + j]

(***************************************************************************)
(* The outputs change all at once, to what the driver was told of every    *)
(* node, and show nothing of the shifting; only a reset disturbs them.     *)
(***************************************************************************)
OfNodes(bits) == [n \in Node |-> bits[RowMajorIndex(n)]]

Buffer ==
  INSTANCE OutputBuffer WITH buffer <- OfNodes(buf), output <- OfNodes(outputs)

ShowsBuffer == Buffer!Spec
===============================================================================
