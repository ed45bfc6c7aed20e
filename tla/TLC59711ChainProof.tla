-------------------------- MODULE TLC59711ChainProof ---------------------------
(***************************************************************************)
(* A chain of at most INT8_HALF (128) chips of any number of channels      *)
(* shows the levels of the last commit; the run chain_too_long shows that  *)
(* a longer one does not.                                                  *)
(***************************************************************************)
EXTENDS TLC59711Chain, TLAPS

(***************************************************************************)
(* The casts cancel out: the loop starts at the last chip, also when       *)
(* (int8_t)_nChips is negative.                                            *)
(***************************************************************************)
LEMMA Int8Small ==
  ASSUME NEW x \in -INT8_HALF .. INT8_HALF - 1
  PROVE  Int8(x) = x
BY ChainAssumption DEF Int8

(* With at most INT8_HALF chips the loop starts at the last one. *)
LEMMA LoopStartsAtLast ==
  ASSUME N_CHIPS <= INT8_HALF
  PROVE  LastChip = N_CHIPS - 1
BY ChainAssumption DEF Int8, LastChip

(***************************************************************************)
(* Channel ch is channel ch % PER_CHIP of chip ch \div PER_CHIP.           *)
(***************************************************************************)
LEMMA ChannelPlace ==
  ASSUME NEW ch \in Channel
  PROVE  /\ ch \div PER_CHIP \in Chip
         /\ ch % PER_CHIP \in 0 .. PER_CHIP - 1
         /\ ((ch \div PER_CHIP) * PER_CHIP) + (ch % PER_CHIP) = ch
<1> DEFINE q == ch \div PER_CHIP
<1> DEFINE r == ch % PER_CHIP
<1>1. ch \in Nat /\ ch < N_CHIPS * PER_CHIP /\ N_CHIPS \in Nat /\ PER_CHIP \in Nat \ {0}
  BY ChainAssumption DEF Channel
<1>2. q \in Int /\ r \in 0 .. PER_CHIP - 1 /\ ch = PER_CHIP * q + r
  BY <1>1
<1>3. PER_CHIP * q = q * PER_CHIP
  BY <1>1, <1>2
<1> HIDE DEF q, r
<1>4. q >= 0
  <2> SUFFICES ASSUME q <= -1 PROVE FALSE
    BY <1>2
  <2>1. PER_CHIP * q <= PER_CHIP * (-1)
    BY <1>1, <1>2
  <2> QED
    BY <1>1, <1>2, <2>1
<1>5. q < N_CHIPS
  <2> SUFFICES ASSUME q >= N_CHIPS PROVE FALSE
    BY <1>1, <1>2
  <2>1. PER_CHIP * q >= PER_CHIP * N_CHIPS
    BY <1>1, <1>2
  <2> QED
    BY <1>1, <1>2, <2>1
<1> QED
  BY <1>1, <1>2, <1>3, <1>4, <1>5 DEF q, r, Chip

-------------------------------------------------------------------------------
(* A block holds the levels of its chip, highest channel first. *)
LEMMA LevelsType ==
  ASSUME TypeOK, NEW chip \in Chip
  PROVE  /\ BlockOf(chip).control
         /\ \A i \in 0 .. PER_CHIP - 1 :
              BlockOf(chip).gs[PER_CHIP - 1 - i] = pwms[(chip * PER_CHIP) + i]
<1> SUFFICES ASSUME NEW i \in 0 .. PER_CHIP - 1
             PROVE  BlockOf(chip).gs[PER_CHIP - 1 - i] = pwms[(chip * PER_CHIP) + i]
  BY DEF BlockOf
<1>1. PER_CHIP - 1 - i \in 0 .. PER_CHIP - 1 /\ PER_CHIP - 1 - (PER_CHIP - 1 - i) = i
  BY ChainAssumption
<1> QED
  BY <1>1 DEF BlockOf

(***************************************************************************)
(* One commit brings the level of every channel to its chip.               *)
(***************************************************************************)
LEMMA CommitShows ==
  ASSUME N_CHIPS <= INT8_HALF, TypeOK, CommitPhysicalUpdates
  PROVE  lit' = pwms
<1>1. \A b \in Chip : pkt'[b] = BlockOf(N_CHIPS - 1 - b)
  <2>1. pkt' = [b \in Chip |-> IF b <= LastChip THEN BlockOf(LastChip - b) ELSE pkt[b]]
    BY DEF CommitPhysicalUpdates, Assembled
  <2>2. LastChip = N_CHIPS - 1
    BY LoopStartsAtLast
  <2> QED
    BY <2>1, <2>2, ChainAssumption DEF Chip
<1>2. lit' = [ch \in Channel |->
         LET block == pkt'[N_CHIPS - 1 - (ch \div PER_CHIP)]
         IN IF block.control THEN block.gs[PER_CHIP - 1 - (ch % PER_CHIP)] ELSE lit[ch]]
  BY DEF CommitPhysicalUpdates, Latched
<1>3. ASSUME NEW ch \in Channel PROVE lit'[ch] = pwms[ch]
  <2> DEFINE q == ch \div PER_CHIP
  <2> DEFINE r == ch % PER_CHIP
  <2>1. q \in Chip /\ r \in 0 .. PER_CHIP - 1 /\ (q * PER_CHIP) + r = ch
    BY ChannelPlace
  <2>2. lit'[ch] = IF pkt'[N_CHIPS - 1 - q].control
                   THEN pkt'[N_CHIPS - 1 - q].gs[PER_CHIP - 1 - r] ELSE lit[ch]
    BY <1>2
  <2> HIDE DEF q, r
  <2>3. N_CHIPS - 1 - q \in Chip /\ N_CHIPS - 1 - (N_CHIPS - 1 - q) = q
    BY <2>1, ChainAssumption DEF Chip
  <2>4. pkt'[N_CHIPS - 1 - q] = BlockOf(q)
    BY <1>1, <2>3
  <2> QED
    BY <2>1, <2>2, <2>4, LevelsType
<1> QED
  BY <1>2, <1>3 DEF TypeOK

-------------------------------------------------------------------------------
(***************************************************************************)
(* Type correctness, for a chain of any length.                            *)
(***************************************************************************)
Block == [control : BOOLEAN, gs : [0 .. PER_CHIP - 1 -> Level]]

(* With more, the loop still starts inside the chain or not at all. *)
LEMMA LoopInChain == LastChip <= N_CHIPS - 1 /\ LastChip \in Int
BY ChainAssumption DEF Int8, LastChip

(* The place of a channel in its chip is a channel of the chain. *)
LEMMA InChannel ==
  ASSUME NEW chip \in Chip, NEW i \in 0 .. PER_CHIP - 1
  PROVE  (chip * PER_CHIP) + i \in Channel
<1>1. chip \in Nat /\ chip <= N_CHIPS - 1 /\ N_CHIPS \in Nat /\ PER_CHIP \in Nat \ {0}
  BY ChainAssumption DEF Chip
<1>2. chip * PER_CHIP <= (N_CHIPS - 1) * PER_CHIP /\ chip * PER_CHIP >= 0
  BY <1>1
<1>3. (N_CHIPS - 1) * PER_CHIP = (N_CHIPS * PER_CHIP) - PER_CHIP
  BY <1>1
<1> QED
  BY <1>1, <1>2, <1>3 DEF Channel

(* A block that the loop assembles is well formed. *)
LEMMA BlockType ==
  ASSUME TypeOK, NEW chip \in Chip
  PROVE  BlockOf(chip) \in Block
<1>1. \A i \in 0 .. PER_CHIP - 1 : pwms[(chip * PER_CHIP) + (PER_CHIP - 1 - i)] \in Level
  BY InChannel, ChainAssumption DEF TypeOK
<1> QED
  BY <1>1 DEF BlockOf, Block

(* commitPhysicalUpdates() keeps the types. *)
LEMMA CommitType ==
  ASSUME TypeOK, CommitPhysicalUpdates
  PROVE  TypeOK'
<1>1. pkt' = [b \in Chip |-> IF b <= LastChip THEN BlockOf(LastChip - b) ELSE pkt[b]]
  BY DEF CommitPhysicalUpdates, Assembled
<1>2. ASSUME NEW b \in Chip PROVE pkt'[b] \in Block
  <2>1. CASE b <= LastChip
    <3>1. LastChip - b \in Chip
      BY <2>1, LoopInChain, ChainAssumption DEF Chip
    <3> QED
      BY <1>1, <2>1, <3>1, BlockType
  <2>2. CASE ~(b <= LastChip)
    BY <1>1, <2>2 DEF TypeOK, Block
  <2> QED
    BY <2>1, <2>2
<1>3. pkt' \in [Chip -> Block]
  BY <1>1, <1>2
<1>4. lit' = [ch \in Channel |->
         LET block == pkt'[N_CHIPS - 1 - (ch \div PER_CHIP)]
         IN IF block.control THEN block.gs[PER_CHIP - 1 - (ch % PER_CHIP)] ELSE lit[ch]]
  BY DEF CommitPhysicalUpdates, Latched
<1>5. ASSUME NEW ch \in Channel PROVE lit'[ch] \in Level
  <2> DEFINE q == ch \div PER_CHIP
  <2> DEFINE r == ch % PER_CHIP
  <2>1. q \in Chip /\ r \in 0 .. PER_CHIP - 1
    BY ChannelPlace
  <2>2. lit'[ch] = IF pkt'[N_CHIPS - 1 - q].control
                   THEN pkt'[N_CHIPS - 1 - q].gs[PER_CHIP - 1 - r] ELSE lit[ch]
    BY <1>4
  <2> HIDE DEF q, r
  <2>3. N_CHIPS - 1 - q \in Chip /\ PER_CHIP - 1 - r \in 0 .. PER_CHIP - 1
    BY <2>1, ChainAssumption DEF Chip
  <2>4. pkt'[N_CHIPS - 1 - q] \in Block
    BY <1>3, <2>3
  <2>5. pkt'[N_CHIPS - 1 - q].gs[PER_CHIP - 1 - r] \in Level
    BY <2>3, <2>4 DEF Block
  <2> QED
    BY <2>2, <2>5 DEF TypeOK
<1> QED
  BY <1>3, <1>4, <1>5 DEF TypeOK, CommitPhysicalUpdates, Block

(* The constructor establishes the types. *)
LEMMA InitType == Init => TypeOK
BY ChainAssumption DEF Init, TypeOK, Dark, Zeros, Level

(* Every step keeps the types. *)
LEMMA NextType == TypeOK /\ [Next]_vars => TypeOK'
<1> SUFFICES ASSUME TypeOK, [Next]_vars PROVE TypeOK'
  OBVIOUS
<1>1. ASSUME NEW ch \in Channel, NEW level \in Level, SetPWM(ch, level) PROVE TypeOK'
  BY <1>1 DEF SetPWM, TypeOK
<1>2. CASE CommitPhysicalUpdates
  BY <1>2, CommitType
<1>3. CASE Reset
  BY <1>3, ChainAssumption DEF Reset, TypeOK, Dark, Zeros, Level
<1>4. CASE UNCHANGED vars
  BY <1>4 DEF vars, TypeOK
<1> QED
  BY <1>1, <1>2, <1>3, <1>4 DEF Next

-------------------------------------------------------------------------------
(***************************************************************************)
(* Every channel of a chain of at most INT8_HALF chips shows the level of  *)
(* the last commit, also after a reset of the microcontroller.             *)
(***************************************************************************)
THEOREM ShortChainShows ==
  ASSUME N_CHIPS <= INT8_HALF
  PROVE  Spec => []ChainShowsLevels
<1>1. Init => TypeOK /\ ChainShowsLevels
  BY InitType DEF Init, ChainShowsLevels
<1>2. ASSUME TypeOK, ChainShowsLevels, [Next]_vars PROVE ChainShowsLevels'
  <2>1. CASE CommitPhysicalUpdates
    BY <1>2, <2>1, CommitShows DEF CommitPhysicalUpdates, ChainShowsLevels
  <2>2. CASE UNCHANGED <<lit, asked>>
    BY <1>2, <2>2 DEF ChainShowsLevels
  <2> QED
    BY <1>2, <2>1, <2>2 DEF Next, SetPWM, Reset, vars
<1> QED
  BY <1>1, <1>2, NextType, PTL DEF Spec

(***************************************************************************)
(* Type correctness.                                                       *)
(***************************************************************************)
THEOREM ChainTyping == Spec => []TypeOK
BY InitType, NextType, PTL DEF Spec
===============================================================================
