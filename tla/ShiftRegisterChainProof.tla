----------------------- MODULE ShiftRegisterChainProof ------------------------
(***************************************************************************)
(* A chain of any length shows the buffer and nothing else.  The inductive *)
(* invariant is ShiftedSoFar: with as many clocks as the chain has bits,   *)
(* it says that every stage holds its own bit when the latch line rises.   *)
(***************************************************************************)
EXTENDS ShiftRegisterChain, TLAPS

(***************************************************************************)
(* Division and remainder.                                                 *)
(***************************************************************************)
LEMMA Divided ==
  ASSUME NEW n \in Nat, NEW w \in Nat \ {0}
  PROVE  /\ n \div w \in Nat
         /\ n % w \in 0 .. w - 1
         /\ n = w * (n \div w) + (n % w)
BY SMT

(***************************************************************************)
(* Different nodes have different outputs.                                 *)
(***************************************************************************)
LEMMA RowMajorUnique ==
  ASSUME NEW q \in Nat, NEW i \in Nat, NEW j \in 0 .. q - 1,
         NEW k \in Nat, NEW l \in 0 .. q - 1, i * q + j = k * q + l
  PROVE  i = k /\ j = l
<1>1. i * q \in Nat /\ k * q \in Nat
  BY SMT
<1>2. ASSUME i < k PROVE FALSE
  <2>1. (k - i - 1) * q \in Nat
    BY <1>2
  <2>2. (k - i - 1) * q = k * q - i * q - q
    BY SMT
  <2> QED
    BY <1>1, <2>1, <2>2
<1>3. ASSUME k < i PROVE FALSE
  <2>1. (i - k - 1) * q \in Nat
    BY <1>3
  <2>2. (i - k - 1) * q = i * q - k * q - q
    BY SMT
  <2> QED
    BY <1>1, <2>1, <2>2
<1>4. i = k
  BY <1>2, <1>3
<1> QED
  BY <1>1, <1>4

(***************************************************************************)
(* The buffer has a bit for every output, and the k-th bit clocked out is  *)
(* the k-th from its end.                                                  *)
(***************************************************************************)
LEMMA Bytes == NBYTES \in Nat /\ NBITS \in Nat /\ NOUT <= NBITS
<1> DEFINE t == NOUT + BYTE - 1
<1>1. BYTE \in Nat \ {0} /\ t \in Nat /\ NOUT \in Nat
  BY ChainAssumption
<1> HIDE DEF t
<1>2. t \div BYTE \in Nat /\ t % BYTE \in 0 .. BYTE - 1 /\ t = BYTE * (t \div BYTE) + (t % BYTE)
  BY <1>1, Divided
<1>3. NBYTES = t \div BYTE
  BY DEF NBYTES, t
<1>4. NBITS = BYTE * (t \div BYTE) /\ NBITS \in Nat
  BY <1>1, <1>2, <1>3 DEF NBITS
<1>5. NOUT = t - BYTE + 1
  BY <1>1 DEF t
<1> QED
  BY <1>1, <1>2, <1>3, <1>4, <1>5

LEMMA FromTheEnd ==
  ASSUME NEW k \in Bit
  PROVE  KthBit(k) = NBITS - 1 - k
<1>1. BYTE \in Nat \ {0} /\ NBYTES \in Nat /\ NBITS = NBYTES * BYTE /\ k \in Nat
  BY ChainAssumption, Bytes DEF Bit, NBITS
<1>2. k \div BYTE \in Nat /\ k % BYTE \in 0 .. BYTE - 1 /\ k = BYTE * (k \div BYTE) + (k % BYTE)
  BY <1>1, Divided
<1> DEFINE q == k \div BYTE
           r == k % BYTE
<1> HIDE DEF q, r
<1>3. q \in Nat /\ r \in Nat /\ k = BYTE * q + r
  BY <1>2 DEF q, r
<1>4. (NBYTES - 1 - q) * BYTE = NBYTES * BYTE - BYTE - BYTE * q
  BY <1>1, <1>3
<1>5. BYTE * q \in Nat
  BY <1>1, <1>3
<1>6. (NBYTES - 1 - q) * BYTE + (BYTE - 1 - r) = NBITS - 1 - k
  BY <1>1, <1>3, <1>4, <1>5, Bytes
<1> QED
  BY <1>6 DEF KthBit, q, r

(***************************************************************************)
(* Every node has an output of its own.                                    *)
(***************************************************************************)
LEMMA OwnOutput ==
  /\ \A n \in Node : RowMajorIndex(n) \in Bit
  /\ \A m, n \in Node : RowMajorIndex(m) = RowMajorIndex(n) => m = n
<1>1. ASSUME NEW n \in Node
      PROVE  /\ n[1] \in Nat /\ n[2] \in 0 .. COLS - 1 /\ n = <<n[1], n[2]>>
             /\ n[1] * COLS \in Nat /\ RowMajorIndex(n) < NOUT /\ COLS \in Nat
  BY ChainAssumption DEF Node, AllNodes
<1>2. \A n \in Node : RowMajorIndex(n) \in Bit
  BY <1>1, Bytes, ChainAssumption DEF RowMajorIndex, Bit
<1>3. ASSUME NEW m \in Node, NEW n \in Node, RowMajorIndex(m) = RowMajorIndex(n) PROVE m = n
  <2>1. m[1] * COLS + m[2] = n[1] * COLS + n[2]
    BY <1>3 DEF RowMajorIndex
  <2>2. m[1] = n[1] /\ m[2] = n[2]
    BY <1>1, <2>1, RowMajorUnique
  <2> QED
    BY <1>1, <2>2
<1> QED
  BY <1>2, <1>3
-------------------------------------------------------------------------------
(***************************************************************************)
(* Type correctness of the driver and its chain.                           *)
(***************************************************************************)
THEOREM ShiftTyping == Spec => []TypeOK
<1>1. Init => TypeOK
  BY Bytes DEF Init, TypeOK, Zeros
<1>2. TypeOK /\ [Next]_vars => TypeOK'
  <2> SUFFICES ASSUME TypeOK, [Next]_vars PROVE TypeOK'
    OBVIOUS
  <2> USE Bytes DEF TypeOK
  <2>1. ASSUME NEW n \in Node, NEW state \in BOOLEAN, SetNodeHardware(n, state) PROVE TypeOK'
    BY <2>1, OwnOutput DEF SetNodeHardware
  <2>2. CASE Begin
    BY <2>2 DEF Begin
  <2>3. CASE LatchLow
    BY <2>3 DEF LatchLow
  <2>4. CASE ClockBit
    <3>1. KthBit(clocked) \in Bit
      BY <2>4, FromTheEnd DEF ClockBit, Bit
    <3> QED
      BY <2>4, <3>1 DEF ClockBit, Bit
  <2>5. CASE LatchHigh
    BY <2>5 DEF LatchHigh
  <2>6. CASE Reset
    BY <2>6 DEF Reset, Zeros
  <2>7. CASE UNCHANGED vars
    BY <2>7 DEF vars
  <2> QED
    BY <2>1, <2>2, <2>3, <2>4, <2>5, <2>6, <2>7 DEF Next, SetNodeHardware
<1> QED
  BY <1>1, <1>2, PTL DEF Spec

(***************************************************************************)
(* What the first stages hold while a commit is in progress.               *)
(***************************************************************************)
THEOREM BitsInPlace == Spec => []ShiftedSoFar
<1>1. Init => ShiftedSoFar
  BY DEF Init, ShiftedSoFar
<1>2. TypeOK /\ ShiftedSoFar /\ [Next]_vars => ShiftedSoFar'
  <2> SUFFICES ASSUME TypeOK, ShiftedSoFar, [Next]_vars PROVE ShiftedSoFar'
    OBVIOUS
  <2> USE DEF ShiftedSoFar
  <2>1. ASSUME NEW n \in Node, NEW state \in BOOLEAN, SetNodeHardware(n, state)
        PROVE  ShiftedSoFar'
    BY <2>1 DEF SetNodeHardware
  <2>2. CASE Begin
    BY <2>2 DEF Begin
  <2>3. CASE LatchLow
    BY <2>3 DEF LatchLow
  <2>4. CASE ClockBit
    <3>1. /\ clocked \in Nat /\ clocked < NBITS /\ clocked' = clocked + 1
          /\ latch' = "low" /\ buf' = buf
      BY <2>4, Bytes DEF ClockBit, Bit
    <3>2. KthBit(clocked) = NBITS - (clocked + 1)
      BY <2>4, <3>1, FromTheEnd, Bytes DEF ClockBit
    <3>3. ASSUME NEW j \in 0 .. clocked
          PROVE  stage'[j] = buf[NBITS - (clocked + 1) + j]
      <4>1. stage'[j] = IF j = 0 THEN buf[KthBit(clocked)] ELSE stage[j - 1]
        BY <2>4, <3>1, Bytes DEF ClockBit, Bit
      <4>2. CASE j = 0
        BY <3>1, <3>2, <4>1, <4>2, Bytes
      <4>3. CASE j # 0
        <5>1. j - 1 \in 0 .. clocked - 1 /\ NBITS - clocked + (j - 1) = NBITS - (clocked + 1) + j
          BY <3>1, <4>3, Bytes
        <5>2. stage[j - 1] = buf[NBITS - clocked + (j - 1)]
          BY <3>1, <5>1
        <5> QED
          BY <4>1, <4>3, <5>1, <5>2
      <4> QED
        BY <4>2, <4>3
    <3> QED
      BY <3>1, <3>3
  <2>5. CASE LatchHigh
    BY <2>5 DEF LatchHigh
  <2>6. CASE Reset
    BY <2>6 DEF Reset
  <2>7. CASE UNCHANGED vars
    BY <2>7 DEF vars
  <2> QED
    BY <2>1, <2>2, <2>3, <2>4, <2>5, <2>6, <2>7 DEF Next, SetNodeHardware
<1> QED
  BY <1>1, <1>2, ShiftTyping, PTL DEF Spec

(***************************************************************************)
(* The driver with its chain implements the batched output buffer, for any *)
(* matrix, number of outputs and order of calls and resets.                *)
(***************************************************************************)
THEOREM ChainShowsBuffer == Spec => ShowsBuffer
<1>1. Init => Buffer!Init
  BY OwnOutput DEF Init, Buffer!Init, Buffer!AllOff, OfNodes, Zeros
<1>2. TypeOK /\ ShiftedSoFar /\ [Next]_vars => [Buffer!Next]_(Buffer!vars)
  <2> SUFFICES ASSUME TypeOK, ShiftedSoFar, [Next]_vars PROVE [Buffer!Next]_(Buffer!vars)
    OBVIOUS
  <2>u. buf' = buf /\ outputs' = outputs => UNCHANGED Buffer!vars
    BY DEF Buffer!vars, OfNodes
  <2>1. ASSUME NEW n \in Node, NEW state \in BOOLEAN, SetNodeHardware(n, state)
        PROVE  Buffer!Next
    <3>1. OfNodes(outputs)' = OfNodes(outputs)
      BY <2>1 DEF SetNodeHardware, OfNodes
    <3>2. OfNodes(buf)' = [OfNodes(buf) EXCEPT ![n] = state]
      <4>1. buf' = [i \in Bit |-> IF i = RowMajorIndex(n) THEN state ELSE buf[i]]
        <5>1. DOMAIN buf \cup {RowMajorIndex(n)} = Bit
          BY OwnOutput DEF TypeOK
        <5> QED
          BY <2>1, <5>1 DEF SetNodeHardware
      <4>2. \A m \in Node :
              buf'[RowMajorIndex(m)] = IF m = n THEN state ELSE buf[RowMajorIndex(m)]
        BY <4>1, OwnOutput
      <4> QED
        BY <4>2 DEF OfNodes
    <3>3. Buffer!SetNode(n, state)
      BY <3>1, <3>2 DEF Buffer!SetNode
    <3> QED
      BY <3>3 DEF Buffer!Next
  <2>2. CASE Begin
    BY <2>2, <2>u DEF Begin
  <2>3. CASE LatchLow
    BY <2>3, <2>u DEF LatchLow
  <2>4. CASE ClockBit
    BY <2>4, <2>u DEF ClockBit
  <2>5. CASE LatchHigh
    <3>1. outputs' = stage /\ buf' = buf
      BY <2>5, Bytes DEF LatchHigh, ShiftedSoFar
    <3>2. \A j \in Bit : stage[j] = buf[j]
      BY <2>5, Bytes DEF LatchHigh, ShiftedSoFar, Bit
    <3>3. OfNodes(outputs)' = OfNodes(buf) /\ OfNodes(buf)' = OfNodes(buf)
      BY <3>1, <3>2, OwnOutput DEF OfNodes
    <3> QED
      BY <3>3 DEF Buffer!Next, Buffer!Commit
  <2>6. CASE Reset
    <3>1. OfNodes(buf)' = [n \in Node |-> FALSE]
      BY <2>6, OwnOutput DEF Reset, OfNodes, Zeros
    <3>2. outputs' \in [Bit -> BOOLEAN]
      BY <2>6 DEF Reset, TypeOK
    <3>3. OfNodes(outputs)' \in [Node -> BOOLEAN]
      BY <3>2, OwnOutput DEF OfNodes
    <3> QED
      BY <3>1, <3>3 DEF Buffer!Next, Buffer!Reset, Buffer!AllOff
  <2>7. CASE UNCHANGED vars
    BY <2>7, <2>u DEF vars
  <2> QED
    BY <2>1, <2>2, <2>3, <2>4, <2>5, <2>6, <2>7 DEF Next, SetNodeHardware
<1> QED
  BY <1>1, <1>2, ShiftTyping, BitsInPlace, PTL DEF Spec, ShowsBuffer, Buffer!Spec
===============================================================================
