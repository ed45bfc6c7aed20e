---------------------------- MODULE TLC59711Chain -----------------------------
(***************************************************************************)
(* TLC59711Driver and the daisy chain of chips that it drives.  The driver *)
(* keeps a level for each channel; a commit assembles one packet, a block  *)
(* per chip, and shifts it out.  The first block sent ends up in the chip  *)
(* that is farthest away.  The loop over the chips counts down in an       *)
(* int8_t.                                                                 *)
(***************************************************************************)
EXTENDS Integers

CONSTANTS
  N_CHIPS,    \* _nChips, a uint8_t
  INT8_HALF,  \* 128: an int8_t holds -INT8_HALF .. INT8_HALF - 1
  PER_CHIP,   \* 12 channels a chip
  FULL        \* 0xFFFF

ASSUME ChainAssumption ==
  /\ INT8_HALF \in Nat \ {0}
  /\ N_CHIPS \in 0 .. 2 * INT8_HALF - 1
  /\ PER_CHIP \in Nat \ {0}
  /\ FULL \in Nat

Chip    == 0 .. N_CHIPS - 1
Channel == 0 .. N_CHIPS * PER_CHIP - 1
Level   == 0 .. FULL

VARIABLES
  pwms,   \* _pwms: channel -> level
  pkt,    \* _pkt: block of the packet, in the order sent -> its contents
  lit,    \* what the chips output: channel -> level
  asked   \* history: the levels at the last commit

vars == <<pwms, pkt, lit, asked>>
-------------------------------------------------------------------------------
(***************************************************************************)
(* (int8_t)_nChips - 1, stored in an int8_t.                               *)
(***************************************************************************)
Int8(x) == ((x + INT8_HALF) % (2 * INT8_HALF)) - INT8_HALF

LastChip == Int8(Int8(N_CHIPS) - 1)

(***************************************************************************)
(* A block: the control word, zero in a packet never assembled, and the    *)
(* levels of a chip, highest channel first.                                *)
(***************************************************************************)
Zeros == [control |-> FALSE, gs |-> [i \in 0 .. PER_CHIP - 1 |-> 0]]

LowestFirst(chip) ==
  [control |-> TRUE,
   gs |-> [i \in 0 .. PER_CHIP - 1 |-> pwms[chip * PER_CHIP + i]]]

BlockOf(chip) ==
  [control |-> TRUE,
   gs |-> [i \in 0 .. PER_CHIP - 1 |-> pwms[chip * PER_CHIP + (PER_CHIP - 1 - i)]]]

(***************************************************************************)
(* The loop: from LastChip down to 0, one block after the other; it leaves *)
(* the blocks it does not reach as they were.                              *)
(***************************************************************************)
Assembled ==
  [b \in Chip |-> IF b <= LastChip THEN BlockOf(LastChip - b) ELSE pkt[b]]

(***************************************************************************)
(* The chain is a shift register: the block sent first has moved on to the *)
(* last chip when the transfer ends.  A chip takes the levels of a block   *)
(* that starts with the control word.                                      *)
(***************************************************************************)
Latched(p) ==
  [ch \in Channel |->
     LET block == p[N_CHIPS - 1 - (ch \div PER_CHIP)]
     IN IF block.control THEN block.gs[PER_CHIP - 1 - (ch % PER_CHIP)] ELSE lit[ch]]
-------------------------------------------------------------------------------
OneChannelMore == [ch \in 0 .. N_CHIPS * PER_CHIP |-> 0]

Dark == [ch \in Channel |-> 0]

Init ==
  /\ pwms = Dark
  /\ pkt = [b \in Chip |-> Zeros]
  /\ lit = Dark
  /\ asked = Dark

(***************************************************************************)
(* setNodeHardware(), setNodeLevel() and setPWM(); a channel that the      *)
(* mapper places outside the chain is ignored.                             *)
(***************************************************************************)
SetPWM(ch, level) ==
  /\ pwms' = [pwms EXCEPT ![ch] = level]
  /\ UNCHANGED <<pkt, lit, asked>>

CommitPhysicalUpdates ==
  /\ pkt' = Assembled
  /\ lit' = Latched(pkt')
  /\ asked' = pwms
  /\ UNCHANGED pwms

(***************************************************************************)
(* The microcontroller resets.  begin() starts the bus and sends nothing,  *)
(* so the chips keep what they output until the next commit.               *)
(***************************************************************************)
Reset ==
  /\ pwms' = Dark
  /\ pkt' = [b \in Chip |-> Zeros]
  /\ UNCHANGED <<lit, asked>>

Next ==
  \/ \E ch \in Channel, level \in Level : SetPWM(ch, level)
  \/ CommitPhysicalUpdates
  \/ Reset

Spec == Init /\ [][Next]_vars
-------------------------------------------------------------------------------
TypeOK ==
  /\ pwms \in [Channel -> Level]
  /\ pkt \in [Chip -> [control : BOOLEAN, gs : [0 .. PER_CHIP - 1 -> Level]]]
  /\ lit \in [Channel -> Level]
  /\ asked \in [Channel -> Level]

(***************************************************************************)
(* Every channel of every chip shows the level that it had at the last     *)
(* commit: no channel is swapped, shifted or left behind by the packet     *)
(* ("mapper channel 0 always maps to the first physical chip").            *)
(***************************************************************************)
ChainShowsLevels == lit = asked
===============================================================================
