-------------------------- MODULE ExpanderMatrixProof ---------------------------
(***************************************************************************)
(* Theorems about the composition of a matrix with its expander, for any   *)
(* number of expanders and muxes on the bus.                               *)
(*                                                                         *)
(* Every step but clearAll() is one of MuxedExpanders (BusStep), so that   *)
(* what MuxedExpandersProof shows of the registers carries over once       *)
(* clearAll() is shown to preserve its invariants.  The second half is     *)
(* about the record: that the shadow of the matrix's chip is the record,   *)
(* and in what order a call may raise the pins.                            *)
(***************************************************************************)
EXTENDS ExpanderMatrix, MuxedExpandersProof

(* The pins that the mapper returns, one for each node. *)
LEMMA Mapped ==
  /\ \A n \in Node : PortOf(n) \in Port /\ PinOf(n) \in Pin
  /\ \A m, n \in Node : PortOf(m) = PortOf(n) /\ PinOf(m) = PinOf(n) => m = n
  /\ \A n \in Node : n = <<n[1], n[2]>> /\ n[1] \in Row /\ n[2] \in Col
<1>1. ROWS \in Nat /\ COLS \in Nat /\ ROWS <= 2 /\ COLS <= 8 /\ Col \subseteq Pin
  BY MatrixAssumption, ExpanderAssumption
<1>2. \A n \in Node : /\ n = <<n[1], n[2]>> /\ n[1] \in Row /\ n[2] \in Col
                      /\ n[1] \in 0 .. 1 /\ n[2] \in 0 .. 7
  BY <1>1 DEF Node, Row, Col
<1>3. \A n \in Node : /\ PortOf(n) = (IF n[1] = 0 THEN "A" ELSE "B")
                      /\ PinOf(n) = n[2]
  BY <1>2 DEF PortOf, PinOf, mapper
<1>4. \A n \in Node : PortOf(n) \in Port /\ PinOf(n) \in Pin
  BY <1>1, <1>2, <1>3 DEF Port
<1>5. ASSUME NEW m \in Node, NEW n \in Node, PortOf(m) = PortOf(n), PinOf(m) = PinOf(n)
      PROVE  m = n
  <2>1. m[1] = n[1] /\ m[2] = n[2]
    BY <1>2, <1>3, <1>5
  <2> QED
    BY <1>2, <2>1
<1> QED
  BY <1>2, <1>4, <1>5

-------------------------------------------------------------------------------
(* The shadows that clearAll() goes through. *)
LEMMA ClearedShadow ==
  ASSUME TypeOK, NEW order, NEW i \in Nat
  PROVE  Cleared(order, i) \in [Port -> SUBSET Pin]
BY ExpanderAssumption DEF TypeOK, Cleared

(* A register write and its parts. *)
LEMMA OneWrite ==
  ASSUME NEW c \in Chip, NEW r \in Reg, NEW v \in SUBSET Pin
  PROVE  /\ WriteTo(c, r, v) \in RegWrite
         /\ WriteTo(c, r, v).to = c
         /\ WriteTo(c, r, v).reg = r
         /\ WriteTo(c, r, v).val = v
BY DEF WriteTo, RegWrite

(* clearAll() writes two latches a node, each from the shadow of that moment. *)
LEMMA Clearing ==
  ASSUME TypeOK, NEW order, NEW len \in Nat
  PROVE  /\ ClearWrites(order, len) \in Seq(RegWrite)
         /\ Len(ClearWrites(order, len)) = 2 * len
         /\ \A k \in 1 .. 2 * len :
              /\ ClearWrites(order, len)[k].to = Expander
              /\ ClearWrites(order, len)[k].reg = <<"OLAT", IF k % 2 = 1 THEN "A" ELSE "B">>
              /\ ClearWrites(order, len)[k].val
                   = Cleared(order, (k + 1) \div 2)[IF k % 2 = 1 THEN "A" ELSE "B"]
<1> DEFINE W == ClearWrites(order, len)
           Turn(k) == Commit(Expander, Cleared(order, (k + 1) \div 2))
           P(k) == IF k % 2 = 1 THEN "A" ELSE "B"
<1>1. \A k \in 1 .. 2 * len : /\ (k + 1) \div 2 \in Nat
                              /\ k % 2 = 1 \/ k % 2 = 0
  OBVIOUS
<1>2. W = [k \in 1 .. 2 * len |-> Turn(k)[2 - (k % 2)]]
  BY DEF ClearWrites
<1> HIDE DEF W
<1>3. ASSUME NEW k \in 1 .. 2 * len
      PROVE  W[k] = WriteTo(Expander, <<"OLAT", P(k)>>, Cleared(order, (k + 1) \div 2)[P(k)])
  <2>1. Cleared(order, (k + 1) \div 2) \in [Port -> SUBSET Pin]
    BY <1>1, ClearedShadow
  <2>2. /\ Turn(k)[1] = WriteTo(Expander, <<"OLAT", "A">>, Cleared(order, (k + 1) \div 2)["A"])
        /\ Turn(k)[2] = WriteTo(Expander, <<"OLAT", "B">>, Cleared(order, (k + 1) \div 2)["B"])
    BY <2>1, CommitWrites, ExpanderAssumption
  <2>3. W[k] = Turn(k)[2 - (k % 2)]
    BY <1>2
  <2>4. CASE k % 2 = 1
    <3>1. 2 - (k % 2) = 1
      BY <2>4
    <3> QED
      BY <2>2, <2>3, <2>4, <3>1
  <2>5. CASE k % 2 = 0
    <3>1. 2 - (k % 2) = 2
      BY <2>5
    <3> QED
      BY <2>2, <2>3, <2>5, <3>1
  <2> QED
    BY <1>1, <2>4, <2>5
<1>4. ASSUME NEW k \in 1 .. 2 * len
      PROVE  /\ W[k] \in RegWrite
             /\ W[k].to = Expander
             /\ W[k].reg = <<"OLAT", P(k)>>
             /\ W[k].val = Cleared(order, (k + 1) \div 2)[P(k)]
  <2>1. Cleared(order, (k + 1) \div 2) \in [Port -> SUBSET Pin]
    BY <1>1, ClearedShadow
  <2>2. P(k) \in Port /\ <<"OLAT", P(k)>> \in Reg
    BY DEF Port, Reg
  <2>3. Cleared(order, (k + 1) \div 2)[P(k)] \in SUBSET Pin
    BY <2>1, <2>2
  <2> HIDE DEF P
  <2> QED
    BY <1>3, <2>2, <2>3, OneWrite, ExpanderAssumption
<1>5. W \in Seq(RegWrite) /\ Len(W) = 2 * len
  <2>1. W \in [1 .. 2 * len -> RegWrite]
    BY <1>2, <1>4
  <2> QED
    BY <2>1
<1> QED
  BY <1>4, <1>5 DEF W

(***************************************************************************)
(* Every step but clearAll() is a step of the expanders or leaves them.    *)
(***************************************************************************)
LEMMA BusStep ==
  ASSUME [ComposedNext]_allVars
  PROVE  [Next]_vars \/ ClearAll
<1>1. ASSUME NEW n \in Node, NEW on \in BOOLEAN, SetNode(n, on) PROVE Next
  BY <1>1, Mapped, ExpanderAssumption DEF SetNode, Next, Call
<1>2. CASE Request
  <2>1. TRUE \in BOOLEAN /\ FALSE \in BOOLEAN
    OBVIOUS
  <2> QED
    BY <1>1, <1>2, <2>1 DEF Request, Connect, Disconnect, SetLevel
<1>3. CASE OtherStep
  BY <1>3 DEF OtherStep, Next, Call
<1>4. CASE Rules
  BY <1>4 DEF Rules, busVars, vars
<1>5. CASE Reset /\ MatrixReset
  BY <1>5 DEF Next
<1>6. CASE UNCHANGED allVars
  BY <1>6 DEF allVars, busVars, vars
<1> QED
  BY <1>2, <1>3, <1>4, <1>5, <1>6 DEF ComposedNext

(* The effect of clearAll(), with the order of its visits. *)
LEMMA ClearAllEffect ==
  ASSUME TypeOK, ClearAll
  PROVE  \E len \in Nat, order \in Seq(connected) :
           /\ Visits(order) /\ DOMAIN order = 1 .. len
           /\ todo = <<>> /\ Expander \in begun
           /\ connected' = {} /\ UNCHANGED <<ilock, excl, attached>>
           /\ shadow' = [shadow EXCEPT ![Expander] = Cleared(order, len)]
           /\ todo' = ClearWrites(order, len)
           /\ UNCHANGED <<begun, lastSel, selected, regs, misled, lost>>
<1>1. PICK len \in 0 .. ROWS * COLS : \E order \in [1 .. len -> connected] :
        /\ todo = <<>>
        /\ Expander \in begun
        /\ Visits(order)
        /\ Forget(connected)
        /\ shadow' = [shadow EXCEPT ![Expander] = Cleared(order, len)]
        /\ todo' = ClearWrites(order, len)
        /\ UNCHANGED <<begun, lastSel, selected, regs, misled, lost>>
  BY DEF ClearAll
<1>2. PICK order \in [1 .. len -> connected] :
        /\ todo = <<>>
        /\ Expander \in begun
        /\ Visits(order)
        /\ Forget(connected)
        /\ shadow' = [shadow EXCEPT ![Expander] = Cleared(order, len)]
        /\ todo' = ClearWrites(order, len)
        /\ UNCHANGED <<begun, lastSel, selected, regs, misled, lost>>
  BY <1>1
<1>3. len \in Nat
  OBVIOUS
<1>4. connected' = {} /\ UNCHANGED <<ilock, excl, attached>>
  BY <1>2 DEF Forget
<1>5. DOMAIN order = 1 .. len
  OBVIOUS
<1>6. order \in Seq(connected)
  BY <1>3
<1> QED
  BY <1>2, <1>3, <1>4, <1>5, <1>6

(* clearAll() keeps the types and the truth of the cache. *)
LEMMA ClearAllSInv ==
  ASSUME SInv, ClearAll
  PROVE  SInv'
<1> USE DEF SInv
<1>1. PICK len \in Nat, order \in Seq(connected) :
        /\ shadow' = [shadow EXCEPT ![Expander] = Cleared(order, len)]
        /\ todo' = ClearWrites(order, len)
        /\ UNCHANGED <<begun, lastSel, selected, regs, misled, lost>>
  BY ClearAllEffect
<1>2. shadow' \in [Chip -> [Port -> SUBSET Pin]]
  BY <1>1, ClearedShadow DEF TypeOK
<1>3. todo' \in Seq(RegWrite)
  BY <1>1, Clearing
<1> QED
  BY <1>1, <1>2, <1>3 DEF TypeOK, CacheIsTrue

(***************************************************************************)
(* clearAll() preserves the invariant of the registers: its last pair of   *)
(* writes brings the final shadow, and every other write has one for the   *)
(* same latch two places behind it.                                        *)
(***************************************************************************)
LEMMA ClearAllMInv ==
  ASSUME MInv, ClearAll
  PROVE  MInv'
<1> USE DEF MInv
<1>1. PICK len \in Nat, order \in Seq(connected) :
        /\ todo = <<>> /\ Expander \in begun
        /\ shadow' = [shadow EXCEPT ![Expander] = Cleared(order, len)]
        /\ todo' = ClearWrites(order, len)
        /\ UNCHANGED <<begun, lastSel, selected, regs, misled, lost>>
  BY ClearAllEffect
<1> DEFINE P(k) == IF k % 2 = 1 THEN "A" ELSE "B"
<1>2. /\ Len(todo') = 2 * len
      /\ \A k \in 1 .. 2 * len :
           /\ todo'[k].to = Expander
           /\ todo'[k].reg = <<"OLAT", P(k)>>
           /\ todo'[k].val = Cleared(order, (k + 1) \div 2)[P(k)]
  BY <1>1, Clearing
<1>3. /\ shadow'[Expander] = Cleared(order, len)
      /\ \A c \in Chip : c # Expander => shadow'[c] = shadow[c]
  BY <1>1, ExpanderAssumption DEF TypeOK
<1>4. TypeOK' /\ CacheIsTrue'
  BY ClearAllSInv DEF SInv
<1>5. WritesAreWanted'
  <2> SUFFICES ASSUME NEW k \in 1 .. 2 * len
               PROVE  /\ todo'[k].to \in begun'
                      /\ \/ Right(todo[k].to, todo[k].reg, todo[k].val)'
                         \/ \E j \in k + 1 .. 2 * len :
                              todo'[j].to = todo'[k].to /\ todo'[j].reg = todo'[k].reg
    BY <1>2 DEF WritesAreWanted
  <2>1. todo'[k].to \in begun'
    BY <1>1, <1>2
  <2>2. CASE k > 2 * len - 2
    <3>1. (k + 1) \div 2 = len
      BY <2>2
    <3>2. todo'[k].val = shadow'[Expander][P(k)]
      BY <1>2, <1>3, <3>1
    <3> HIDE DEF P
    <3> QED
      BY <1>2, <2>1, <3>2 DEF Right
  <2>3. CASE k <= 2 * len - 2
    <3>1. k + 2 \in k + 1 .. 2 * len /\ (k + 2) % 2 = k % 2 /\ k + 2 \in 1 .. 2 * len
      BY <2>3
    <3>2. todo'[k + 2].to = todo'[k].to /\ todo'[k + 2].reg = todo'[k].reg
      BY <1>2, <3>1
    <3> QED
      BY <2>1, <3>1, <3>2
  <2> QED
    BY <2>2, <2>3
<1>6. ASSUME NEW r \in Reg, r[1] = "OLAT", len > 0 PROVE Coming(Expander, r)'
  <2>1. r = <<"OLAT", "A">> \/ r = <<"OLAT", "B">>
    BY <1>6 DEF Reg, Port
  <2>2. 1 \in 1 .. 2 * len /\ 2 \in 1 .. 2 * len /\ 1 % 2 = 1 /\ 2 % 2 = 0
    BY <1>6
  <2>3. /\ todo'[1].to = Expander /\ todo'[1].reg = <<"OLAT", "A">>
        /\ todo'[2].to = Expander /\ todo'[2].reg = <<"OLAT", "B">>
    BY <1>2, <2>2
  <2> QED
    BY <1>2, <2>1, <2>2, <2>3 DEF Coming
<1>7. ASSUME len = 0 PROVE \A p \in Port : shadow'[Expander][p] = shadow[Expander][p]
  BY <1>3, <1>7, ExpanderAssumption DEF Cleared, TypeOK
<1>8. \A d \in Chip, r \in Reg : ~Coming(d, r)
  BY <1>1 DEF Coming
<1>9. RegistersSettle'
  <2> SUFFICES ASSUME NEW d \in begun, NEW r \in Reg
               PROVE  (<<d, r>> \in lost \/ Right(d, r, regs[d][r]) \/ Coming(d, r))'
    BY <1>1 DEF RegistersSettle
  <2>1. d \in Chip /\ r[2] \in Port
    BY DEF TypeOK, Reg
  <2>2. <<d, r>> \in lost \/ Right(d, r, regs[d][r])
    BY <1>8, <2>1 DEF RegistersSettle
  <2>3. CASE d = Expander /\ r[1] = "OLAT" /\ len > 0
    BY <1>6, <2>3
  <2>4. CASE ~(d = Expander /\ r[1] = "OLAT" /\ len > 0)
    <3>1. r[1] = "OLAT" => shadow'[d][r[2]] = shadow[d][r[2]]
      BY <1>3, <1>7, <2>1, <2>4
    <3> QED
      BY <1>1, <2>2, <3>1 DEF Right
  <2> QED
    BY <2>3, <2>4
<1> QED
  BY <1>4, <1>5, <1>9

-------------------------------------------------------------------------------
(***************************************************************************)
(* Type correctness, the cache, the registers and the targets of writes    *)
(* under the composed specification.                                       *)
(***************************************************************************)
LEMMA ComposedInitMInv == ComposedInit => MInv /\ SInv
BY InitMInv, InitSInv DEF ComposedInit

LEMMA ComposedSInv == SInv /\ [ComposedNext]_allVars => SInv'
BY BusStep, StepSInv, ClearAllSInv

LEMMA ComposedMInv ==
  ASSUME Apart
  PROVE  MInv /\ [ComposedNext]_allVars => MInv'
BY BusStep, NextMInv, ClearAllMInv

(***************************************************************************)
(* Type correctness of drivers, cache, muxes and expanders while a matrix  *)
(* drives one of them.                                                     *)
(***************************************************************************)
THEOREM ComposedTyping == ComposedSpec => []TypeOK
<1>1. SInv => TypeOK
  BY DEF SInv
<1> QED
  BY <1>1, ComposedInitMInv, ComposedSInv, PTL DEF ComposedSpec

(***************************************************************************)
(* The cache stays true.                                                   *)
(***************************************************************************)
THEOREM ComposedCache == ComposedSpec => []CacheIsTrue
<1>1. SInv => CacheIsTrue
  BY DEF SInv
<1> QED
  BY <1>1, ComposedInitMInv, ComposedSInv, PTL DEF ComposedSpec

(***************************************************************************)
(* Between calls, clearAll() with its many commits among them, the         *)
(* registers of every chip that was begun are what its driver believes.    *)
(***************************************************************************)
THEOREM ComposedLatches ==
  ASSUME Apart
  PROVE  ComposedSpec => []LatchesFollowShadows
BY ComposedInitMInv, ComposedMInv, MInvLatches, PTL DEF ComposedSpec

(***************************************************************************)
(* A register write of the matrix or of another driver changes its own     *)
(* chip.                                                                   *)
(***************************************************************************)
THEOREM ComposedTarget ==
  ASSUME Apart
  PROVE  ComposedSpec => OnlyTheTarget
<1>1. ASSUME SInv, [ComposedNext]_allVars
      PROVE  [\A c \in Chip : regs'[c] # regs[c] =>
                /\ todo # <<>>
                /\ c = Target \/ (Target[1] \in misled /\ c[1] = Target[1]
                                                        /\ c[3] = Target[3])]_vars
  <2>1. CASE [Next]_vars
    BY <1>1, <2>1, StepReachesTarget
  <2>2. CASE ClearAll
    BY <1>1, <2>2, ClearAllEffect DEF SInv
  <2> QED
    BY <1>1, <2>1, <2>2, BusStep
<1> QED
  BY <1>1, ComposedInitMInv, ComposedSInv, PTL DEF ComposedSpec, OnlyTheTarget

-------------------------------------------------------------------------------
(***************************************************************************)
(* The record and the pins.  High is the latch of a node's pin, Rising     *)
(* says that a write of the call in progress sets it.                      *)
(***************************************************************************)
High(n) == PinOf(n) \in regs[Expander][<<"OLAT", PortOf(n)>>]

Rising(n) ==
  \E i \in 1 .. Len(todo) :
    /\ todo[i].to = Expander
    /\ todo[i].reg = <<"OLAT", PortOf(n)>>
    /\ PinOf(n) \in todo[i].val

LatchLost(n) == <<Expander, <<"OLAT", PortOf(n)>>>> \in lost

SymmetricLocks == \A a, b \in Row : <<a, b>> \in ilock => <<b, a>> \in ilock

RecordIsShadow ==
  \A n \in Node : PinOf(n) \in shadow[Expander][PortOf(n)] <=> n \in connected

BegunFirst == connected # {} => Expander \in begun

(***************************************************************************)
(* The directions are set before a latch is.                               *)
(***************************************************************************)
DirectionsFirst ==
  /\ \A p \in Port :
       \/ {<<Expander, <<"OLAT", p>>>>, <<Expander, <<"IODIR", p>>>>} \cap lost # {}
       \/ regs[Expander][<<"OLAT", p>>] \subseteq regs[Expander][<<"IODIR", p>>]
  /\ \A i, j \in 1 .. Len(todo) :
       /\ todo[i].to = Expander /\ todo[i].reg[1] = "OLAT"
       /\ todo[j].to = Expander /\ todo[j].reg[1] = "IODIR"
       => j < i
  /\ \A i \in 1 .. Len(todo) :
       todo[i].to = Expander /\ todo[i].reg[1] = "IODIR" => todo[i].val = Pin

(***************************************************************************)
(* Within a call a pin may go high and later low, never the reverse.       *)
(***************************************************************************)
OnlyFalling ==
  \A i, j \in 1 .. Len(todo) :
    i < j /\ todo[i].to = todo[j].to /\ todo[i].reg = todo[j].reg
      => todo[j].val \subseteq todo[i].val

(***************************************************************************)
(* A pin that is about to go high finds the pins that its rules exclude    *)
(* low, and staying so, but for ports that a lost byte concerned.          *)
(***************************************************************************)
Excluded(m, n) == m[2] = n[2] /\ Exclude(m[1], n[1], m[2])

RisesAlone ==
  \A m, n \in Node :
    Excluded(m, n) /\ Rising(n)
      => \/ High(n) \/ LatchLost(n)
         \/ ~Rising(m) /\ (~High(m) \/ LatchLost(m))

EInv ==
  /\ MInv
  /\ MatrixTypeOK
  /\ SymmetricLocks
  /\ RecordIsShadow
  /\ BegunFirst
  /\ DirectionsFirst
  /\ OnlyFalling
  /\ RisesAlone

(* The constructors and the power-on of the chips establish it. *)
LEMMA InitEInv == ComposedInit => EInv
<1> SUFFICES ASSUME ComposedInit PROVE EInv
  OBVIOUS
<1>1. Init /\ MatrixInit /\ MInv
  BY ComposedInitMInv DEF ComposedInit
<1>2. /\ connected = {} /\ ilock = {} /\ excl = {} /\ attached \in BOOLEAN
      /\ todo = <<>>
      /\ \A p \in Port : shadow[Expander][p] = {}
      /\ \A r \in Reg : regs[Expander][r] = {}
  BY <1>1, ExpanderAssumption, MatrixAssumption DEF Init, MatrixInit, Off
<1>3. MatrixTypeOK /\ SymmetricLocks /\ BegunFirst
  BY <1>2 DEF MatrixTypeOK, SymmetricLocks, BegunFirst
<1>4. RecordIsShadow
  BY <1>2, Mapped DEF RecordIsShadow
<1>5. DirectionsFirst /\ OnlyFalling /\ RisesAlone
  <2>1. \A p \in Port : <<"OLAT", p>> \in Reg
    BY DEF Reg
  <2> QED
    BY <1>2, <2>1 DEF DirectionsFirst, OnlyFalling, RisesAlone, Rising
<1> QED
  BY <1>1, <1>3, <1>4, <1>5 DEF EInv

(* Between calls a pin of an expander that was begun is high if recorded. *)
LEMMA IdlePins ==
  ASSUME EInv, todo = <<>>, Expander \in begun
  PROVE  \A n \in Node : LatchLost(n) \/ (High(n) <=> n \in connected)
<1>1. LatchesFollowShadows
  BY MInvLatches DEF EInv
<1> QED
  BY <1>1, Mapped DEF EInv, LatchesFollowShadows, RecordIsShadow, High, LatchLost

(* A pin is energised if its latch is high: it is an output by then. *)
LEMMA EnergisedIsHigh ==
  ASSUME DirectionsFirst, NEW n \in Node, ~Unsure(n)
  PROVE  Energised(n) <=> High(n)
BY Mapped DEF DirectionsFirst, Energised, High, Unsure

-------------------------------------------------------------------------------
(***************************************************************************)
(* A call that commits once: its writes go to one chip, each to a register *)
(* of its own, directions before latches, with the values that are to      *)
(* stay.                                                                   *)
(***************************************************************************)
CommitsOnce(c) ==
  /\ todo = <<>>
  /\ UNCHANGED <<regs, misled, lost>>
  /\ \A i \in 1 .. Len(todo') :
       /\ todo'[i].to = c
       /\ todo'[i].reg \in Reg
       /\ Right(c, todo[i].reg, todo[i].val)'
  /\ \A i, j \in 1 .. Len(todo') : todo'[i].reg = todo'[j].reg => i = j
  /\ \A i, j \in 1 .. Len(todo') :
       todo'[i].reg[1] = "OLAT" /\ todo'[j].reg[1] = "IODIR" => j < i

(* The registers that the driver writes. *)
LEMMA Registers ==
  /\ <<"IODIR", "A">> \in Reg /\ <<"IODIR", "B">> \in Reg
  /\ <<"OLAT", "A">> \in Reg /\ <<"OLAT", "B">> \in Reg
BY DEF Reg, Port

(* begin() commits once. *)
LEMMA BeginCommitsOnce ==
  ASSUME TypeOK, NEW c \in Chip, Begin(c)
  PROVE  CommitsOnce(c)
<1>1. shadow[c] \in [Port -> SUBSET Pin] /\ shadow' = shadow
  BY DEF TypeOK, Begin
<1>2. /\ Len(todo') = 4
      /\ todo'[1] = WriteTo(c, <<"IODIR", "A">>, Pin)
      /\ todo'[2] = WriteTo(c, <<"IODIR", "B">>, Pin)
      /\ todo'[3] = WriteTo(c, <<"OLAT", "A">>, shadow[c]["A"])
      /\ todo'[4] = WriteTo(c, <<"OLAT", "B">>, shadow[c]["B"])
  BY <1>1, BeginWrites DEF Begin
<1>3. \A i \in 1 .. 4 : i = 1 \/ i = 2 \/ i = 3 \/ i = 4
  OBVIOUS
<1>4. /\ todo'[1].to = c /\ todo'[1].reg = <<"IODIR", "A">> /\ todo'[1].val = Pin
      /\ todo'[2].to = c /\ todo'[2].reg = <<"IODIR", "B">> /\ todo'[2].val = Pin
  BY ONLY <1>2 DEF WriteTo
<1>5. /\ todo'[3].to = c /\ todo'[3].reg = <<"OLAT", "A">> /\ todo'[3].val = shadow'[c]["A"]
      /\ todo'[4].to = c /\ todo'[4].reg = <<"OLAT", "B">> /\ todo'[4].val = shadow'[c]["B"]
  BY ONLY <1>1, <1>2 DEF WriteTo
<1>6. \A i \in 1 .. 4 : /\ todo'[i].to = c
                        /\ todo'[i].reg \in Reg
                        /\ Right(c, todo[i].reg, todo[i].val)'
  <2>1. \A i \in 1 .. 2 : Right(c, todo[i].reg, todo[i].val)'
    BY <1>4 DEF Right
  <2>2. \A i \in 3 .. 4 : Right(c, todo[i].reg, todo[i].val)'
    BY <1>5 DEF Right
  <2>3. \A i \in 1 .. 4 : i \in 1 .. 2 \/ i \in 3 .. 4
    OBVIOUS
  <2>4. \A i \in 1 .. 4 : todo'[i].to = c /\ todo'[i].reg \in Reg
    BY <1>3, <1>4, <1>5, Registers
  <2> QED
    BY <2>1, <2>2, <2>3, <2>4
<1>7. \A i, j \in 1 .. 4 : todo'[i].reg = todo'[j].reg => i = j
  BY <1>3, <1>4, <1>5
<1>8. \A i, j \in 1 .. 4 : todo'[i].reg[1] = "OLAT" /\ todo'[j].reg[1] = "IODIR" => j < i
  <2>1. \A i \in 1 .. 4 : todo'[i].reg[1] = IF i <= 2 THEN "IODIR" ELSE "OLAT"
    BY <1>3, <1>4, <1>5
  <2> QED
    BY <2>1
<1>9. todo = <<>> /\ UNCHANGED <<regs, misled, lost>> /\ Len(todo') = 4
  BY <1>2 DEF Begin
<1> QED
  BY <1>6, <1>7, <1>8, <1>9 DEF CommitsOnce

(* setNodeHardware() commits once. *)
LEMMA SetNodeCommitsOnce ==
  ASSUME TypeOK, NEW c \in Chip, NEW p \in Port, NEW pin \in Pin, NEW state \in BOOLEAN,
         SetNodeHardware(c, p, pin, state)
  PROVE  CommitsOnce(c)
<1>1. shadow'[c] \in [Port -> SUBSET Pin]
  BY DEF TypeOK, SetNodeHardware
<1>2. /\ Len(todo') = 2
      /\ todo'[1] = WriteTo(c, <<"OLAT", "A">>, shadow'[c]["A"])
      /\ todo'[2] = WriteTo(c, <<"OLAT", "B">>, shadow'[c]["B"])
  BY <1>1, CommitWrites DEF SetNodeHardware
<1>3. \A i \in 1 .. 2 : i = 1 \/ i = 2
  OBVIOUS
<1>4. /\ todo'[1].to = c /\ todo'[1].reg = <<"OLAT", "A">> /\ todo'[1].val = shadow'[c]["A"]
      /\ todo'[2].to = c /\ todo'[2].reg = <<"OLAT", "B">> /\ todo'[2].val = shadow'[c]["B"]
  BY ONLY <1>2 DEF WriteTo
<1>5. \A i \in 1 .. 2 : /\ todo'[i].to = c
                        /\ todo'[i].reg \in Reg
                        /\ Right(c, todo[i].reg, todo[i].val)'
  <2>1. \A i \in 1 .. 2 : Right(c, todo[i].reg, todo[i].val)'
    BY <1>3, <1>4 DEF Right
  <2> QED
    BY <1>3, <1>4, <2>1, Registers
<1>6. \A i, j \in 1 .. 2 : todo'[i].reg = todo'[j].reg => i = j
  BY <1>3, <1>4
<1>7. \A i \in 1 .. 2 : todo'[i].reg[1] = "OLAT"
  BY <1>3, <1>4
<1>8. todo = <<>> /\ UNCHANGED <<regs, misled, lost>> /\ Len(todo') = 2
  BY <1>2 DEF SetNodeHardware
<1> QED
  BY <1>5, <1>6, <1>7, <1>8 DEF CommitsOnce

(***************************************************************************)
(* Such a call keeps the orders of writes, and its writes raise the pins   *)
(* that are recorded.                                                      *)
(***************************************************************************)
LEMMA OnceInOrder ==
  ASSUME EInv, NEW c \in Chip, CommitsOnce(c)
  PROVE  DirectionsFirst' /\ OnlyFalling'
<1>1. \A i \in 1 .. Len(todo') : todo'[i].reg[1] = "IODIR" => todo'[i].val = Pin
  BY DEF CommitsOnce, Right
<1>2. DirectionsFirst'
  BY <1>1 DEF EInv, DirectionsFirst, CommitsOnce
<1>3. \A i, j \in 1 .. Len(todo') : i < j => todo'[i].reg # todo'[j].reg
  BY DEF CommitsOnce
<1>4. OnlyFalling'
  BY <1>3 DEF OnlyFalling
<1> QED
  BY <1>2, <1>4

LEMMA OnceRises ==
  ASSUME RecordIsShadow', NEW c \in Chip, CommitsOnce(c), NEW n \in Node, Rising(n)'
  PROVE  c = Expander /\ n \in connected'
<1>1. PICK i \in 1 .. Len(todo') :
        /\ todo'[i].to = Expander
        /\ todo'[i].reg = <<"OLAT", PortOf(n)>>
        /\ PinOf(n) \in todo'[i].val
  BY DEF Rising, PortOf, PinOf, mapper
<1>2. c = Expander /\ todo'[i].val = shadow'[Expander][PortOf(n)]
  BY <1>1 DEF CommitsOnce, Right
<1> QED
  BY <1>1, <1>2 DEF RecordIsShadow, PortOf, PinOf, mapper

(***************************************************************************)
(* A call that commits once raises a pin alone if the nodes it newly       *)
(* records are excluded with none that is recorded.                        *)
(***************************************************************************)
LEMMA OnceAlone ==
  ASSUME EInv, RecordIsShadow', UNCHANGED <<ilock, excl>>, NEW c \in Chip, CommitsOnce(c),
         connected' \ connected # {} => Expander \in begun,
         \A m, n \in Node : n \in connected' \ connected /\ Excluded(m, n)
                              => m \notin connected \cup connected'
  PROVE  RisesAlone'
<1> SUFFICES ASSUME NEW m \in Node, NEW n \in Node, Excluded(m, n), Rising(n)'
             PROVE  \/ High(n)' \/ LatchLost(n)'
                    \/ ~Rising(m)' /\ (~High(m)' \/ LatchLost(m)')
  BY DEF RisesAlone, Excluded, Exclude
<1>1. n \in connected'
  BY OnceRises
<1>2. todo = <<>> /\ regs' = regs /\ lost' = lost
  BY DEF CommitsOnce
<1>3. Expander \in begun
  BY <1>1 DEF EInv, BegunFirst
<1>4. /\ LatchLost(n)' \/ (High(n)' <=> n \in connected)
      /\ LatchLost(m)' \/ (High(m)' <=> m \in connected)
  BY <1>2, <1>3, IdlePins DEF High, LatchLost, PortOf, PinOf, mapper
<1>5. CASE n \notin connected
  <2>1. m \notin connected /\ m \notin connected'
    BY <1>1, <1>5
  <2>2. ~Rising(m)'
    BY <2>1, OnceRises
  <2> QED
    BY <1>4, <2>1, <2>2
<1> QED
  BY <1>4, <1>5

(***************************************************************************)
(* Every action preserves EInv.  First what connect() and setLevel() do to *)
(* record a node and switch it on.                                         *)
(***************************************************************************)
LEMMA SwitchOnEInv ==
  ASSUME EInv, MInv', NEW n \in Node, Record(n), SetNode(n, TRUE)
  PROVE  EInv'
<1> USE DEF EInv
<1>1. /\ n = <<n[1], n[2]>> /\ n[1] \in Row /\ n[2] \in Col
      /\ PortOf(n) \in Port /\ PinOf(n) \in Pin
      /\ Expander \in Chip /\ TRUE \in BOOLEAN
  BY Mapped, ExpanderAssumption
<1>2. /\ Expander \in begun /\ begun' = begun
      /\ shadow' = [shadow EXCEPT ![Expander][PortOf(n)] = @ \cup {PinOf(n)}]
      /\ UNCHANGED <<misled, lost>>
  BY DEF SetNode, SetNodeHardware
<1>3. /\ connected' = connected \cup {n}
      /\ UNCHANGED <<ilock, excl, attached>>
      /\ ~Forbidden(n, connected)
  BY DEF Record
<1>4. CommitsOnce(Expander)
  BY <1>1, SetNodeCommitsOnce DEF SetNode, MInv
<1>5. RecordIsShadow'
  <2> SUFFICES ASSUME NEW k \in Node
               PROVE  PinOf(k) \in shadow'[Expander][PortOf(k)] <=> k \in connected'
    BY DEF RecordIsShadow, PortOf, PinOf, mapper
  <2>1. PinOf(k) \in shadow[Expander][PortOf(k)] <=> k \in connected
    BY DEF RecordIsShadow
  <2>2. shadow'[Expander][PortOf(k)]
          = IF PortOf(k) = PortOf(n) THEN shadow[Expander][PortOf(k)] \cup {PinOf(n)}
                                     ELSE shadow[Expander][PortOf(k)]
    BY <1>1, <1>2, Mapped DEF MInv, TypeOK
  <2> QED
    BY <1>3, <2>1, <2>2, Mapped
<1>6. \A m, k \in Node : k \in connected' \ connected /\ Excluded(m, k)
                           => m \notin connected \cup connected'
  <2> SUFFICES ASSUME NEW m \in Node, Excluded(m, n), m \in connected
               PROVE  FALSE
    BY <1>3 DEF Excluded, Exclude
  <2>1. m[1] \in Row /\ m[1] # n[1] /\ m = <<m[1], n[2]>>
    BY Mapped DEF Excluded, Exclude
  <2>2. m[1] \in OtherBusyRows(n, connected)
    BY <2>1 DEF OtherBusyRows
  <2>3. <<n[1], m[1]>> \in ilock \/ n[2] \in excl
    BY <1>1, <2>1 DEF Excluded, Exclude, SymmetricLocks
  <2> QED
    BY <1>3, <2>2, <2>3 DEF Forbidden
<1>7. RisesAlone'
  BY <1>1, <1>2, <1>3, <1>4, <1>5, <1>6, OnceAlone
<1>8. DirectionsFirst' /\ OnlyFalling'
  BY <1>1, <1>4, OnceInOrder
<1>9. MatrixTypeOK' /\ SymmetricLocks' /\ BegunFirst'
  BY <1>2, <1>3 DEF MatrixTypeOK, SymmetricLocks, BegunFirst
<1> QED
  BY <1>5, <1>7, <1>8, <1>9

(* disconnect() and level 0 forget a node and switch it off. *)
LEMMA SwitchOffEInv ==
  ASSUME EInv, MInv', NEW n \in Node, Forget({n}), SetNode(n, FALSE)
  PROVE  EInv'
<1> USE DEF EInv
<1>1. PortOf(n) \in Port /\ PinOf(n) \in Pin /\ Expander \in Chip /\ FALSE \in BOOLEAN
  BY Mapped, ExpanderAssumption
<1>2. /\ Expander \in begun /\ begun' = begun
      /\ shadow' = [shadow EXCEPT ![Expander][PortOf(n)] = @ \ {PinOf(n)}]
      /\ UNCHANGED <<misled, lost>>
  BY DEF SetNode, SetNodeHardware
<1>3. /\ connected' = connected \ {n}
      /\ UNCHANGED <<ilock, excl, attached>>
  BY DEF Forget
<1>4. CommitsOnce(Expander)
  BY <1>1, SetNodeCommitsOnce DEF SetNode, MInv
<1>5. RecordIsShadow'
  <2> SUFFICES ASSUME NEW k \in Node
               PROVE  PinOf(k) \in shadow'[Expander][PortOf(k)] <=> k \in connected'
    BY DEF RecordIsShadow, PortOf, PinOf, mapper
  <2>1. PinOf(k) \in shadow[Expander][PortOf(k)] <=> k \in connected
    BY DEF RecordIsShadow
  <2>2. shadow'[Expander][PortOf(k)]
          = IF PortOf(k) = PortOf(n) THEN shadow[Expander][PortOf(k)] \ {PinOf(n)}
                                     ELSE shadow[Expander][PortOf(k)]
    BY <1>1, <1>2, Mapped DEF MInv, TypeOK
  <2> QED
    BY <1>3, <2>1, <2>2, Mapped
<1>6. connected' \ connected = {}
  BY <1>3
<1>7. RisesAlone'
  BY <1>1, <1>3, <1>4, <1>5, <1>6, OnceAlone
<1>8. DirectionsFirst' /\ OnlyFalling'
  BY <1>1, <1>4, OnceInOrder
<1>9. MatrixTypeOK' /\ SymmetricLocks' /\ BegunFirst'
  BY <1>2, <1>3 DEF MatrixTypeOK, SymmetricLocks, BegunFirst
<1> QED
  BY <1>5, <1>7, <1>8, <1>9

(* begin() of a driver, and the requests to other matrices. *)
LEMMA OtherCallEInv ==
  ASSUME EInv, MInv', UNCHANGED matrixVars, NEW c \in Chip,
         CommitsOnce(c), begun \subseteq begun',
         \A p \in Port : shadow'[Expander][p] = shadow[Expander][p]
  PROVE  EInv'
<1> USE DEF EInv
<1>1. UNCHANGED <<connected, ilock, excl, attached>>
  BY DEF matrixVars
<1>2. RecordIsShadow'
  <2> SUFFICES ASSUME NEW k \in Node
               PROVE  PinOf(k) \in shadow'[Expander][PortOf(k)] <=> k \in connected'
    BY DEF RecordIsShadow, PortOf, PinOf, mapper
  <2> QED
    BY <1>1, Mapped DEF RecordIsShadow
<1>3. RisesAlone'
  BY <1>1, <1>2, OnceAlone
<1>4. DirectionsFirst' /\ OnlyFalling'
  BY OnceInOrder
<1>5. MatrixTypeOK' /\ SymmetricLocks' /\ BegunFirst'
  BY <1>1 DEF MatrixTypeOK, SymmetricLocks, BegunFirst, CommitsOnce
<1> QED
  BY <1>2, <1>3, <1>4, <1>5

(***************************************************************************)
(* clearAll(): the pins that its earlier commits still set are high from   *)
(* before, and each commit has fewer of them.                              *)
(***************************************************************************)
LEMMA ClearAllEInv ==
  ASSUME EInv, MInv', ClearAll
  PROVE  EInv'
<1> USE DEF EInv
<1>1. PICK len \in Nat, order \in Seq(connected) :
        /\ Visits(order) /\ DOMAIN order = 1 .. len
        /\ todo = <<>> /\ Expander \in begun
        /\ connected' = {} /\ UNCHANGED <<ilock, excl, attached>>
        /\ shadow' = [shadow EXCEPT ![Expander] = Cleared(order, len)]
        /\ todo' = ClearWrites(order, len)
        /\ UNCHANGED <<begun, lastSel, selected, regs, misled, lost>>
  BY ClearAllEffect DEF MInv
<1> DEFINE P(k) == IF k % 2 = 1 THEN "A" ELSE "B"
<1>2. /\ Len(todo') = 2 * len
      /\ \A k \in 1 .. 2 * len :
           /\ todo'[k].to = Expander
           /\ todo'[k].reg = <<"OLAT", P(k)>>
           /\ todo'[k].val = Cleared(order, (k + 1) \div 2)[P(k)]
  BY <1>1, Clearing DEF MInv
<1>3. \A k : P(k) \in Port
  BY DEF Port
<1> HIDE DEF P
<1>4. \A p \in Port, i, j \in Nat :
        i <= j => /\ Cleared(order, j)[p] \subseteq Cleared(order, i)[p]
                  /\ Cleared(order, i)[p] \subseteq shadow[Expander][p]
  BY DEF Cleared
<1>5. RecordIsShadow'
  <2> SUFFICES ASSUME NEW n \in Node, PinOf(n) \in shadow'[Expander][PortOf(n)]
               PROVE  FALSE
    BY <1>1 DEF RecordIsShadow, PortOf, PinOf, mapper
  <2>1. PinOf(n) \in Cleared(order, len)[PortOf(n)] /\ PortOf(n) \in Port
    BY <1>1, ExpanderAssumption, Mapped DEF MInv, TypeOK
  <2>2. n \in connected
    BY <1>4, <2>1 DEF RecordIsShadow
  <2>3. \E i \in 1 .. len : order[i] = n
    BY <1>1, <2>2 DEF Visits
  <2> QED
    BY <2>1, <2>3 DEF Cleared
<1>6. OnlyFalling'
  <2> SUFFICES ASSUME NEW i \in 1 .. 2 * len, NEW j \in 1 .. 2 * len,
                      i < j, todo'[i].reg = todo'[j].reg
               PROVE  todo'[j].val \subseteq todo'[i].val
    BY <1>2 DEF OnlyFalling
  <2>1. /\ (i + 1) \div 2 \in Nat /\ (j + 1) \div 2 \in Nat
        /\ (i + 1) \div 2 <= (j + 1) \div 2
    OBVIOUS
  <2>2. P(i) = P(j) /\ P(j) \in Port
    BY <1>2, <1>3
  <2>3. Cleared(order, (j + 1) \div 2)[P(j)] \subseteq Cleared(order, (i + 1) \div 2)[P(j)]
    BY <1>4, <2>1, <2>2
  <2>4. /\ todo'[i].val = Cleared(order, (i + 1) \div 2)[P(i)]
        /\ todo'[j].val = Cleared(order, (j + 1) \div 2)[P(j)]
    BY <1>2
  <2> QED
    BY <2>2, <2>3, <2>4
<1>7. DirectionsFirst'
  BY <1>1, <1>2 DEF DirectionsFirst
<1>8. RisesAlone'
  <2> SUFFICES ASSUME NEW n \in Node, Rising(n)'
               PROVE  High(n)' \/ LatchLost(n)'
    BY DEF RisesAlone
  <2>1. PICK k \in 1 .. 2 * len :
          /\ todo'[k].reg = <<"OLAT", PortOf(n)>>
          /\ PinOf(n) \in todo'[k].val
    BY <1>2 DEF Rising, PortOf, PinOf, mapper
  <2>2. P(k) = PortOf(n) /\ PortOf(n) \in Port /\ (k + 1) \div 2 \in Nat
    BY <1>2, <2>1, Mapped
  <2>3. PinOf(n) \in Cleared(order, (k + 1) \div 2)[PortOf(n)]
    BY <1>2, <2>1, <2>2
  <2>4. PinOf(n) \in shadow[Expander][PortOf(n)]
    BY <1>4, <2>2, <2>3
  <2>5. High(n) \/ LatchLost(n)
    BY <1>1, <2>4, IdlePins DEF RecordIsShadow
  <2> QED
    BY <1>1, <2>5 DEF High, LatchLost, PortOf, PinOf, mapper
<1>9. MatrixTypeOK' /\ SymmetricLocks' /\ BegunFirst'
  BY <1>1 DEF MatrixTypeOK, SymmetricLocks, BegunFirst
<1> QED
  BY <1>5, <1>6, <1>7, <1>8, <1>9

(* A pin goes high by a write that sets it, unless that is not sure. *)
LEMMA RaisedByWrite ==
  ASSUME Apart, EInv, Write, NEW n \in Node, ~High(n) \/ LatchLost(n),
         High(n)', ~LatchLost(n)'
  PROVE  Rising(n)
<1>1. <<"OLAT", PortOf(n)>> \in Reg /\ Expander \in Chip
  BY Mapped, ExpanderAssumption DEF Reg
<1>2. /\ PinOf(n) \in regs'[Expander][<<"OLAT", PortOf(n)>>]
      /\ <<Expander, <<"OLAT", PortOf(n)>>>> \notin lost'
  BY DEF High, LatchLost, PortOf, PinOf, mapper
<1>3. \/ PinOf(n) \notin regs[Expander][<<"OLAT", PortOf(n)>>]
      \/ <<Expander, <<"OLAT", PortOf(n)>>>> \in lost
  BY DEF High, LatchLost
<1>4. /\ 1 \in 1 .. Len(todo)
      /\ \A c \in Chip, r \in Reg :
           \/ <<c, r>> \in lost'
           \/ /\ regs'[c][r] = IF c = todo[1].to /\ r = todo[1].reg
                               THEN todo[1].val ELSE regs[c][r]
              /\ <<c, r>> \in lost => c = todo[1].to /\ r = todo[1].reg
  BY WriteEffect DEF EInv, MInv
<1>5. /\ todo[1].to = Expander /\ todo[1].reg = <<"OLAT", PortOf(n)>>
      /\ PinOf(n) \in todo[1].val
  BY <1>1, <1>2, <1>3, <1>4
<1> QED
  BY <1>4, <1>5 DEF Rising

(***************************************************************************)
(* A register write: what it raises was rising, and no excluded pin was.   *)
(***************************************************************************)
LEMMA WriteEInv ==
  ASSUME Apart, EInv, MInv', Write, UNCHANGED matrixVars
  PROVE  EInv'
<1> USE DEF EInv
<1>1. /\ 1 \in 1 .. Len(todo)
      /\ Len(todo') = Len(todo) - 1 /\ Len(todo) \in Nat
      /\ \A i \in 1 .. Len(todo') : todo'[i] = todo[i + 1]
      /\ UNCHANGED <<shadow, begun, lastSel, selected, misled>>
  BY WriteEffect DEF MInv
<1>2. \A c \in Chip, r \in Reg :
        \/ <<c, r>> \in lost'
        \/ /\ regs'[c][r] = IF c = todo[1].to /\ r = todo[1].reg
                            THEN todo[1].val ELSE regs[c][r]
           /\ <<c, r>> \in lost => c = todo[1].to /\ r = todo[1].reg
  BY WriteEffect DEF MInv
<1>3. UNCHANGED <<connected, ilock, excl, attached>>
  BY DEF matrixVars
<1>4. \A i \in 1 .. Len(todo') : i + 1 \in 1 .. Len(todo) /\ todo'[i] = todo[i + 1]
  BY <1>1
<1>5. MatrixTypeOK' /\ SymmetricLocks' /\ BegunFirst'
  BY <1>1, <1>3 DEF MatrixTypeOK, SymmetricLocks, BegunFirst
<1>6. RecordIsShadow'
  BY <1>1, <1>3 DEF RecordIsShadow, PortOf, PinOf, mapper
<1>7. OnlyFalling'
  <2> SUFFICES ASSUME NEW i \in 1 .. Len(todo'), NEW j \in 1 .. Len(todo'), i < j,
                      todo'[i].to = todo'[j].to, todo'[i].reg = todo'[j].reg
               PROVE  todo'[j].val \subseteq todo'[i].val
    BY DEF OnlyFalling
  <2> QED
    BY <1>4 DEF OnlyFalling
<1>8. DirectionsFirst'
  <2>1. ASSUME NEW p \in Port,
               <<Expander, <<"OLAT", p>>>> \notin lost', <<Expander, <<"IODIR", p>>>> \notin lost'
        PROVE  regs'[Expander][<<"OLAT", p>>] \subseteq regs'[Expander][<<"IODIR", p>>]
    <3>1. <<"OLAT", p>> \in Reg /\ <<"IODIR", p>> \in Reg /\ Expander \in Chip
      BY ExpanderAssumption DEF Reg
    <3>2. CASE todo[1].to = Expander /\ todo[1].reg = <<"OLAT", p>>
      <4>1. Expander \in begun
        BY <1>1, <3>2 DEF MInv, WritesAreWanted
      <4>2. ~Coming(Expander, <<"IODIR", p>>)
        BY <1>1, <3>2 DEF DirectionsFirst, Coming
      <4>3. /\ regs'[Expander][<<"IODIR", p>>] = regs[Expander][<<"IODIR", p>>]
            /\ <<Expander, <<"IODIR", p>>>> \notin lost
        BY <1>2, <2>1, <3>1, <3>2
      <4>4. regs[Expander][<<"IODIR", p>>] = Pin
        BY <3>1, <4>1, <4>2, <4>3 DEF MInv, RegistersSettle, Right
      <4> QED
        BY <3>1, <4>3, <4>4 DEF MInv, TypeOK
    <3>3. CASE todo[1].to = Expander /\ todo[1].reg = <<"IODIR", p>>
      <4>1. todo[1].val = Pin
        BY <1>1, <3>3 DEF DirectionsFirst
      <4>2. regs'[Expander][<<"IODIR", p>>] = Pin
        BY <1>2, <2>1, <3>1, <3>3, <4>1
      <4> QED
        BY <3>1, <4>2 DEF MInv, TypeOK
    <3>4. CASE ~(todo[1].to = Expander /\ todo[1].reg \in {<<"OLAT", p>>, <<"IODIR", p>>})
      <4>1. /\ regs'[Expander][<<"OLAT", p>>] = regs[Expander][<<"OLAT", p>>]
            /\ regs'[Expander][<<"IODIR", p>>] = regs[Expander][<<"IODIR", p>>]
            /\ <<Expander, <<"OLAT", p>>>> \notin lost /\ <<Expander, <<"IODIR", p>>>> \notin lost
        BY <1>2, <2>1, <3>1, <3>4
      <4> QED
        BY <4>1 DEF DirectionsFirst
    <3> QED
      BY <3>2, <3>3, <3>4
  <2>2. ASSUME NEW i \in 1 .. Len(todo'), NEW j \in 1 .. Len(todo'),
               todo'[i].to = Expander, todo'[i].reg[1] = "OLAT",
               todo'[j].to = Expander, todo'[j].reg[1] = "IODIR"
        PROVE  j < i
    <3>1. j + 1 < i + 1
      BY <1>4, <2>2 DEF DirectionsFirst
    <3> QED
      BY <3>1
  <2>3. ASSUME NEW i \in 1 .. Len(todo'), todo'[i].to = Expander, todo'[i].reg[1] = "IODIR"
        PROVE  todo'[i].val = Pin
    BY <1>4, <2>3 DEF DirectionsFirst
  <2> QED
    BY <2>1, <2>2, <2>3 DEF DirectionsFirst
<1>9. ASSUME NEW n \in Node, Rising(n)' PROVE Rising(n)
  <2>1. PICK i \in 1 .. Len(todo') :
          /\ todo'[i].to = Expander
          /\ todo'[i].reg = <<"OLAT", PortOf(n)>>
          /\ PinOf(n) \in todo'[i].val
    BY <1>9 DEF Rising, PortOf, PinOf, mapper
  <2> QED
    BY <1>4, <2>1 DEF Rising
<1>10. ASSUME NEW n \in Node, High(n) \/ LatchLost(n), Rising(n)', ~LatchLost(n)'
      PROVE  High(n)'
  <2>1. PICK i \in 1 .. Len(todo') :
          /\ todo'[i].to = Expander
          /\ todo'[i].reg = <<"OLAT", PortOf(n)>>
          /\ PinOf(n) \in todo'[i].val
    BY <1>10 DEF Rising, PortOf, PinOf, mapper
  <2>2. <<"OLAT", PortOf(n)>> \in Reg /\ Expander \in Chip
    BY Mapped, ExpanderAssumption DEF Reg
  <2>3. <<Expander, <<"OLAT", PortOf(n)>>>> \notin lost'
    BY <1>10 DEF LatchLost, PortOf, PinOf, mapper
  <2>4. CASE todo[1].to = Expander /\ todo[1].reg = <<"OLAT", PortOf(n)>>
    <3>1. PinOf(n) \in todo[i + 1].val /\ i + 1 \in 1 .. Len(todo) /\ 1 < i + 1
          /\ todo[i + 1].to = todo[1].to /\ todo[i + 1].reg = todo[1].reg
      BY <1>4, <2>1, <2>4
    <3>2. PinOf(n) \in todo[1].val
      BY <1>1, <3>1 DEF OnlyFalling
    <3>3. PinOf(n) \in regs'[Expander][<<"OLAT", PortOf(n)>>]
      BY <1>2, <2>2, <2>3, <2>4, <3>2
    <3> QED
      BY <3>3 DEF High, PortOf, PinOf, mapper
  <2>5. CASE ~(todo[1].to = Expander /\ todo[1].reg = <<"OLAT", PortOf(n)>>)
    <3>1. /\ regs'[Expander][<<"OLAT", PortOf(n)>>] = regs[Expander][<<"OLAT", PortOf(n)>>]
          /\ <<Expander, <<"OLAT", PortOf(n)>>>> \notin lost
      BY <1>2, <2>2, <2>3, <2>5
    <3>2. PinOf(n) \in regs'[Expander][<<"OLAT", PortOf(n)>>]
      BY <1>10, <3>1 DEF High, LatchLost
    <3> QED
      BY <3>2 DEF High, PortOf, PinOf, mapper
  <2> QED
    BY <2>4, <2>5
<1>11. RisesAlone'
  <2> SUFFICES ASSUME NEW m \in Node, NEW n \in Node, Excluded(m, n), Rising(n)',
                      ~High(n)', ~LatchLost(n)'
               PROVE  ~Rising(m)' /\ (~High(m)' \/ LatchLost(m)')
    BY <1>3 DEF RisesAlone, Excluded, Exclude
  <2>1. ~(High(n) \/ LatchLost(n))
    BY <1>10
  <2>2. ~Rising(m) /\ (~High(m) \/ LatchLost(m))
    BY <1>9, <2>1 DEF RisesAlone
  <2>3. ~Rising(m)'
    BY <1>9, <2>2
  <2>4. ~High(m)' \/ LatchLost(m)'
    BY <2>2, RaisedByWrite
  <2> QED
    BY <2>3, <2>4
<1> QED
  BY <1>5, <1>6, <1>7, <1>8, <1>11

(* Steps that touch neither the record, the writes nor the chips. *)
LEMMA QuietEInv ==
  ASSUME EInv, MInv',
         UNCHANGED <<connected, ilock, excl, attached>>,
         UNCHANGED <<shadow, begun, todo, regs, lost>>
  PROVE  EInv'
<1>1. MatrixTypeOK' /\ SymmetricLocks' /\ BegunFirst'
  BY DEF EInv, MatrixTypeOK, SymmetricLocks, BegunFirst
<1>2. RecordIsShadow' /\ DirectionsFirst' /\ OnlyFalling'
  BY DEF EInv, RecordIsShadow, DirectionsFirst, OnlyFalling, PortOf, PinOf, mapper
<1>3. ASSUME NEW n \in Node
      PROVE  /\ Rising(n)' <=> Rising(n)
             /\ High(n)' <=> High(n)
             /\ LatchLost(n)' <=> LatchLost(n)
  BY DEF Rising, High, LatchLost, PortOf, PinOf, mapper
<1>4. RisesAlone'
  BY <1>3 DEF EInv, RisesAlone, Excluded, Exclude
<1> QED
  BY <1>1, <1>2, <1>4 DEF EInv

(* Rules are added between calls. *)
LEMMA RulesEInv ==
  ASSUME EInv, MInv', Rules
  PROVE  EInv'
<1> USE DEF EInv
<1>1. todo = <<>> /\ Configure /\ UNCHANGED busVars
  BY DEF Rules
<1>2. UNCHANGED <<shadow, begun, todo, regs, misled, lost>>
  BY <1>1 DEF busVars
<1>3. /\ connected' = connected
      /\ ilock' \subseteq Row \X Row /\ excl' \subseteq Col /\ attached' \in BOOLEAN
      /\ \A a, b \in Row : <<a, b>> \in ilock' => <<b, a>> \in ilock'
  <2>1. ASSUME NEW p \in LockArgs, LockRows(p[1], p[2]) PROVE <1>3!:
    BY <2>1, MatrixAssumption DEF LockRows, MatrixTypeOK, SymmetricLocks
  <2>2. ASSUME NEW c \in ExclArgs, ExclusiveInput(c) PROVE <1>3!:
    BY <2>2, MatrixAssumption DEF ExclusiveInput, MatrixTypeOK, SymmetricLocks
  <2>3. CASE SetDriver
    BY <2>3 DEF SetDriver, MatrixTypeOK, SymmetricLocks
  <2> QED
    BY <1>1, <2>1, <2>2, <2>3 DEF Configure
<1>4. MatrixTypeOK' /\ SymmetricLocks' /\ BegunFirst'
  BY <1>2, <1>3 DEF MatrixTypeOK, SymmetricLocks, BegunFirst
<1>5. RecordIsShadow' /\ DirectionsFirst' /\ OnlyFalling'
  BY <1>2, <1>3
  DEF RecordIsShadow, DirectionsFirst, OnlyFalling, PortOf, PinOf, mapper
<1>6. \A n \in Node : ~Rising(n)'
  BY <1>1, <1>2 DEF Rising
<1>7. RisesAlone'
  BY <1>6 DEF RisesAlone
<1> QED
  BY <1>4, <1>5, <1>7

(* A reset empties the record and the shadows, and no call is in progress. *)
LEMMA ResetEInv ==
  ASSUME EInv, MInv', Reset, MatrixReset
  PROVE  EInv'
<1> USE DEF EInv
<1>1. /\ connected' = {} /\ ilock' = {} /\ excl' = {} /\ attached' \in BOOLEAN
      /\ todo' = <<>> /\ shadow' = Off
      /\ UNCHANGED <<regs, misled, lost>>
  BY MatrixAssumption DEF Reset, MatrixReset
<1>2. \A p \in Port : shadow'[Expander][p] = {}
  BY <1>1, ExpanderAssumption DEF Off
<1>3. MatrixTypeOK' /\ SymmetricLocks' /\ BegunFirst'
  BY <1>1 DEF MatrixTypeOK, SymmetricLocks, BegunFirst
<1>4. RecordIsShadow'
  <2> SUFFICES ASSUME NEW k \in Node
               PROVE  PinOf(k) \in shadow'[Expander][PortOf(k)] <=> k \in connected'
    BY DEF RecordIsShadow, PortOf, PinOf, mapper
  <2> QED
    BY <1>1, <1>2, Mapped
<1>5. DirectionsFirst' /\ OnlyFalling'
  BY <1>1 DEF DirectionsFirst, OnlyFalling
<1>6. \A n \in Node : ~Rising(n)'
  BY <1>1 DEF Rising
<1>7. RisesAlone'
  BY <1>6 DEF RisesAlone
<1> QED
  BY <1>3, <1>4, <1>5, <1>7

(* Every step of the composition preserves EInv. *)
LEMMA StepEInv ==
  ASSUME Apart
  PROVE  EInv /\ [ComposedNext]_allVars => EInv'
<1> SUFFICES ASSUME EInv, [ComposedNext]_allVars PROVE EInv'
  OBVIOUS
<1>1. MInv' /\ MInv /\ TypeOK
  BY ComposedMInv DEF EInv, MInv
<1>2. CASE Request
  <2>1. ASSUME NEW n \in Node, Connect(n) PROVE EInv'
    BY <1>1, <2>1, SwitchOnEInv DEF Connect
  <2>2. ASSUME NEW n \in Node, Disconnect(n) PROVE EInv'
    BY <1>1, <2>2, SwitchOffEInv DEF Disconnect
  <2>3. ASSUME NEW n \in Node, NEW level \in 0 .. 1, SetLevel(n, level) PROVE EInv'
    BY <1>1, <2>3, SwitchOnEInv, SwitchOffEInv DEF SetLevel
  <2>4. CASE ClearAll
    BY <1>1, <2>4, ClearAllEInv
  <2> QED
    BY <1>2, <2>1, <2>2, <2>3, <2>4 DEF Request
<1>3. CASE OtherStep
  <2>1. ASSUME NEW c \in Chip, Begin(c), UNCHANGED matrixVars PROVE EInv'
    <3>1. CommitsOnce(c) /\ begun \subseteq begun' /\ shadow' = shadow
      BY <1>1, <2>1, BeginCommitsOnce DEF Begin
    <3> QED
      BY <1>1, <2>1, <3>1, OtherCallEInv
  <2>2. ASSUME NEW c \in Chip \ {Expander}, NEW p \in Port, NEW pin \in Pin,
               NEW state \in BOOLEAN, SetNodeHardware(c, p, pin, state), UNCHANGED matrixVars
        PROVE  EInv'
    <3>1. CommitsOnce(c) /\ begun' = begun
      BY <1>1, <2>2, SetNodeCommitsOnce DEF SetNodeHardware
    <3>2. \A q \in Port : shadow'[Expander][q] = shadow[Expander][q]
      BY <1>1, <2>2, ExpanderAssumption DEF SetNodeHardware, TypeOK
    <3> QED
      BY <1>1, <2>2, <3>1, <3>2, OtherCallEInv
  <2>3. ASSUME NEW m \in Mux, InterfaceBegin(m), UNCHANGED matrixVars PROVE EInv'
    BY <1>1, <2>3, QuietEInv DEF InterfaceBegin, matrixVars
  <2>4. CASE Select /\ UNCHANGED matrixVars
    BY <1>1, <2>4, QuietEInv DEF Select, SelectByte, matrixVars
  <2>5. CASE Write /\ UNCHANGED matrixVars
    BY <1>1, <2>5, WriteEInv
  <2> QED
    BY <1>3, <2>1, <2>2, <2>3, <2>4, <2>5 DEF OtherStep, Bus
<1>4. CASE Rules
  BY <1>1, <1>4, RulesEInv
<1>5. CASE Reset /\ MatrixReset
  BY <1>1, <1>5, ResetEInv
<1>6. CASE UNCHANGED allVars
  BY <1>1, <1>6, QuietEInv DEF allVars, matrixVars, busVars
<1> QED
  BY <1>2, <1>3, <1>4, <1>5, <1>6 DEF ComposedNext

-------------------------------------------------------------------------------
(***************************************************************************)
(* Between calls the pins of the matrix's expander are its record, for     *)
(* each of the nodes on the two ports, whatever calls, resets and requests *)
(* to other matrices came before, but for ports that a lost byte concerned *)
(* until a later write makes them good.                                    *)
(***************************************************************************)
THEOREM PinsRight ==
  ASSUME Apart
  PROVE  ComposedSpec => []PinsFollowRecord
<1>1. EInv => PinsFollowRecord
  <2> SUFFICES ASSUME EInv, todo = <<>>, Expander \in begun, NEW n \in Node, ~Unsure(n)
               PROVE  Energised(n) <=> n \in connected
    BY DEF PinsFollowRecord
  <2>1. Energised(n) <=> High(n)
    BY EnergisedIsHigh DEF EInv
  <2>2. ~LatchLost(n)
    BY DEF LatchLost, Unsure
  <2> QED
    BY <2>1, <2>2, IdlePins
<1> QED
  BY <1>1, InitEInv, StepEInv, PTL DEF ComposedSpec

(***************************************************************************)
(* No register write, which sets the eight pins of a port at once,         *)
(* energises a second row of a column against the rules in force.          *)
(***************************************************************************)
THEOREM PinsKeptApart ==
  ASSUME Apart
  PROVE  ComposedSpec => NoNewShort
<1>1. ASSUME EInv, EInv', [ComposedNext]_allVars
      PROVE  [\A m, n \in Node :
                (m[2] = n[2] /\ Exclude(m[1], n[1], m[2]) /\ ~Short(m, n))
                   => \/ ~Short(m, n)'
                      \/ \E k \in {m, n} : Unsure(k) \/ Unsure(k)']_allVars
  <2> SUFFICES ASSUME NEW m \in Node, NEW n \in Node, Excluded(m, n), ~Short(m, n),
                      Short(m, n)',
                      ~Unsure(m), ~Unsure(n), ~Unsure(m)', ~Unsure(n)'
               PROVE  FALSE
    BY DEF Excluded
  <2>1. DirectionsFirst /\ DirectionsFirst'
    BY <1>1 DEF EInv
  <2>2. ~(High(m) /\ High(n))
    BY <2>1, EnergisedIsHigh DEF Short, Excluded
  <2>3. High(m)' /\ High(n)'
    <3>1. Energised(m)' /\ Energised(n)'
      BY DEF Short
    <3> QED
      BY <3>1 DEF High, Energised, PortOf, PinOf, mapper
  <2>4. Excluded(n, m)
    BY DEF Excluded, Exclude
  <2>5. CASE regs' = regs
    BY <2>2, <2>3, <2>5 DEF High, PortOf, PinOf, mapper
  <2>6. CASE Write
    <3>1. ~LatchLost(m) /\ ~LatchLost(n)
      BY DEF LatchLost, Unsure
    <3>2. ~LatchLost(m)' /\ ~LatchLost(n)'
      BY DEF LatchLost, Unsure, PortOf, PinOf, mapper
    <3>3. (~High(m) => Rising(m)) /\ (~High(n) => Rising(n))
      BY <1>1, <2>3, <2>6, <3>2, RaisedByWrite
    <3> QED
      BY <1>1, <2>2, <2>4, <3>1, <3>3 DEF EInv, RisesAlone
  <2>7. regs' = regs \/ Write
    <3>1. [Next]_vars \/ ClearAll
      BY <1>1, BusStep
    <3>2. CASE [Next]_vars
      BY <3>2 DEF Next, Call, Bus, Begin, SetNodeHardware, InterfaceBegin, Select,
                  SelectByte, Reset, vars
    <3>3. CASE ClearAll
      BY <1>1, <3>3, ClearAllEffect DEF EInv, MInv
    <3> QED
      BY <3>1, <3>2, <3>3
  <2> QED
    BY <2>5, <2>6, <2>7
<1> QED
  BY <1>1, InitEInv, StepEInv, PTL DEF ComposedSpec, NoNewShort
===============================================================================
