-------------------------- MODULE PooledXPointProof ---------------------------
(***************************************************************************)
(* The three sections of the pool neither overlap nor leave it, for every  *)
(* matrix: PooledXPoint implements the sections of XPoint.                 *)
(*                                                                         *)
(* The arithmetic is in the first lemmas: row-major indexes are unique     *)
(* (RowMajorUnique), an index is determined by its word and its bit        *)
(* (OneBit), every index of the pool is in the array (InArray), and every  *)
(* element of a section has an index of its own (Indexes, Apart).  GetSet  *)
(* sums them up; the rest is about sets.                                   *)
(***************************************************************************)
EXTENDS PooledXPoint, TLAPS

(***************************************************************************)
(* Division and remainder.                                                 *)
(***************************************************************************)
LEMMA Divided ==
  ASSUME NEW n \in Nat, NEW w \in Nat \ {0}
  PROVE  /\ n \div w \in Nat
         /\ n % w \in 0 .. w - 1
         /\ n = w * (n \div w) + (n % w)
BY SMT

(***************************************************************************)
(* A product of smaller factors: the last element of a section of p rows   *)
(* of q bits comes before the end of the section.                          *)
(***************************************************************************)
LEMMA RowMajor ==
  ASSUME NEW p \in Nat, NEW q \in Nat, NEW i \in 0 .. p - 1, NEW j \in 0 .. q - 1
  PROVE  i * q + j \in 0 .. p * q - 1
<1>1. i * q \in Nat /\ p * q \in Nat
  BY SMT
<1>2. (p - 1 - i) * q \in Nat
  BY SMT
<1>3. (p - 1 - i) * q = p * q - q - i * q
  BY SMT
<1> QED
  BY <1>1, <1>2, <1>3

(***************************************************************************)
(* Different elements of a section are at different indexes.               *)
(***************************************************************************)
LEMMA RowMajorUnique ==
  ASSUME NEW q \in Nat, NEW i \in Nat, NEW j \in 0 .. q - 1,
         NEW k \in Nat, NEW l \in 0 .. q - 1, i * q + j = k * q + l
  PROVE  i = k /\ j = l
<1>1. i * q \in Nat /\ k * q \in Nat
  BY SMT
<1>2. ASSUME i < k PROVE FALSE
  <2>1. (k - i - 1) * q \in Nat
    BY <1>2
  <2>2. (k - i - 1) * q = k * q - i * q - q
    BY SMT
  <2> QED
    BY <1>1, <2>1, <2>2
<1>3. ASSUME k < i PROVE FALSE
  <2>1. (i - k - 1) * q \in Nat
    BY <1>3
  <2>2. (i - k - 1) * q = i * q - k * q - q
    BY SMT
  <2> QED
    BY <1>1, <2>1, <2>2
<1>4. i = k
  BY <1>2, <1>3
<1> QED
  BY <1>1, <1>4

(***************************************************************************)
(* Different indexes are different bits.                                   *)
(***************************************************************************)
LEMMA OneBit ==
  ASSUME NEW n \in Nat, NEW m \in Nat, n \div W = m \div W, n % W = m % W
  PROVE  n = m
BY Divided, PoolAssumption

LEMMA Products ==
  ROWS * COLS \in Nat /\ ROWS * ROWS \in Nat /\ ROWS \in Nat /\ COLS \in Nat /\ PoolBits \in Nat
BY PoolAssumption DEF PoolBits

(***************************************************************************)
(* wordsFor() reserves a word for every bit of the pool.                   *)
(***************************************************************************)
LEMMA InArray ==
  ASSUME NEW n \in 0 .. PoolBits - 1
  PROVE  n \div W \in Word /\ n % W \in Bit
<1> DEFINE t == PoolBits + W - 1
           q == t \div W
<1>1. W \in Nat \ {0} /\ COUNT_RANGE \in Nat \ {0} /\ t \in Nat /\ t < W * COUNT_RANGE
  BY Products, PoolAssumption
<1>2. q \in Nat /\ t % W \in 0 .. W - 1 /\ t = W * q + (t % W)
  BY <1>1, Divided
<1> HIDE DEF q, t
<1>0. n \in Nat
  BY Products
<1>3. n \div W \in Nat /\ n % W \in 0 .. W - 1 /\ n = W * (n \div W) + (n % W)
  BY <1>0, <1>1, Divided
<1>4. q < COUNT_RANGE
  <2>1. SUFFICES ASSUME q >= COUNT_RANGE PROVE FALSE
    BY <1>1, <1>2
  <2>2. W * (q - COUNT_RANGE) \in Nat /\ W * (q - COUNT_RANGE) = W * q - W * COUNT_RANGE
    BY <1>1, <1>2, <2>1
  <2>3. W * q \in Nat /\ W * COUNT_RANGE \in Nat
    BY <1>1, <1>2
  <2> QED
    BY <1>1, <1>2, <2>2, <2>3
<1>5. q % COUNT_RANGE = q
  BY <1>1, <1>2, <1>4
<1>6. n \div W < q
  <2>1. SUFFICES ASSUME q <= n \div W PROVE FALSE
    BY <1>2, <1>3
  <2>2. W * (n \div W - q) \in Nat /\ W * (n \div W - q) = W * (n \div W) - W * q
    BY <1>1, <1>2, <1>3, <2>1
  <2>3. n <= t - W
    BY <1>1, Products DEF t
  <2>4. W * q \in Nat /\ W * (n \div W) \in Nat
    BY <1>1, <1>2, <1>3
  <2> QED
    BY <1>1, <1>2, <1>3, <2>2, <2>3, <2>4
<1> QED
  BY <1>2, <1>3, <1>5, <1>6 DEF Word, Bit, WordsFor, q, t
-------------------------------------------------------------------------------
(***************************************************************************)
(* The three ranges of indexes, one after the other, and no two elements   *)
(* of a section with one index.                                            *)
(***************************************************************************)
LEMMA Indexes ==
  /\ \A n \in Node : StateBit(n) \in 0 .. IlockOff - 1
  /\ \A a, b \in Row : IlockBit(a, b) \in IlockOff .. ExclOff - 1
  /\ \A c \in Col : ExclBit(c) \in ExclOff .. PoolBits - 1
  /\ IlockOff \in 0 .. ExclOff
  /\ ExclOff \in 0 .. PoolBits
<1>1. ASSUME NEW n \in Node PROVE StateBit(n) \in 0 .. IlockOff - 1
  <2>1. n[1] \in 0 .. ROWS - 1 /\ n[2] \in 0 .. COLS - 1
    BY DEF Node, Row, Col
  <2>2. n[1] * COLS + n[2] \in 0 .. ROWS * COLS - 1
    BY <2>1, RowMajor, Products
  <2> QED
    BY <2>2 DEF StateBit, IlockOff
<1>2. ASSUME NEW a \in Row, NEW b \in Row PROVE IlockBit(a, b) \in IlockOff .. ExclOff - 1
  <2>1. a * ROWS + b \in 0 .. ROWS * ROWS - 1
    BY RowMajor, Products DEF Row
  <2>2. a * ROWS \in Nat /\ a \in Nat /\ b \in Nat
    BY Products DEF Row
  <2> QED
    BY <2>1, <2>2, Products DEF IlockBit, IlockOff, ExclOff
<1>3. \A c \in Col : ExclBit(c) \in ExclOff .. PoolBits - 1
  BY Products DEF ExclBit, ExclOff, PoolBits, Col
<1> QED
  BY <1>1, <1>2, <1>3, Products DEF IlockOff, ExclOff, PoolBits

LEMMA Apart ==
  /\ \A m, n \in Node : StateBit(m) = StateBit(n) => m = n
  /\ \A a, b, c, d \in Row : IlockBit(a, b) = IlockBit(c, d) => a = c /\ b = d
  /\ \A c, d \in Col : ExclBit(c) = ExclBit(d) => c = d
<1>1. ASSUME NEW m \in Node, NEW n \in Node, StateBit(m) = StateBit(n) PROVE m = n
  <2>1. /\ m[1] \in Nat /\ m[2] \in 0 .. COLS - 1 /\ m = <<m[1], m[2]>>
        /\ n[1] \in Nat /\ n[2] \in 0 .. COLS - 1 /\ n = <<n[1], n[2]>>
    BY Products DEF Node, Row, Col
  <2>2. m[1] * COLS + m[2] = n[1] * COLS + n[2]
    BY <1>1 DEF StateBit
  <2>3. m[1] = n[1] /\ m[2] = n[2]
    BY <2>1, <2>2, RowMajorUnique, Products
  <2> QED
    BY <2>1, <2>3
<1>2. ASSUME NEW a \in Row, NEW b \in Row, NEW c \in Row, NEW d \in Row,
             IlockBit(a, b) = IlockBit(c, d)
      PROVE  a = c /\ b = d
  <2>1. /\ a \in Nat /\ c \in Nat /\ b \in 0 .. ROWS - 1 /\ d \in 0 .. ROWS - 1
        /\ a * ROWS \in Nat /\ c * ROWS \in Nat
    BY Products DEF Row
  <2>2. a * ROWS + b = c * ROWS + d
    BY <1>2, <2>1, Products DEF IlockBit, IlockOff
  <2> QED
    BY <2>1, <2>2, RowMajorUnique, Products
<1>3. \A c, d \in Col : ExclBit(c) = ExclBit(d) => c = d
  BY Products DEF ExclBit, ExclOff, Col
<1> QED
  BY <1>1, <1>2, <1>3

(***************************************************************************)
(* set() changes the bits it is for and no other bit of the pool, and      *)
(* writes to no word outside of it.                                        *)
(***************************************************************************)
At(ws, n) == ws[n \div W][n % W]

Index == 0 .. PoolBits - 1

LEMMA GetSetAll ==
  ASSUME NEW ws \in Pool, NEW N \in SUBSET Index, NEW v \in BOOLEAN
  PROVE  /\ SetAll(ws, N, v) \in Pool
         /\ \A m \in Index : At(SetAll(ws, N, v), m) = IF m \in N THEN v ELSE At(ws, m)
<1>1. DOMAIN ws = Word /\ \A i \in Word : \A b \in Bit : ws[i][b] \in BOOLEAN
  BY DEF Pool
<1>2. Word \cup {n \div W : n \in N} = Word
  BY InArray DEF Index
<1>3. SetAll(ws, N, v) = [i \in Word |->
        [b \in Bit |-> IF i * W + b \in N THEN v ELSE i \in Word /\ ws[i][b]]]
  BY <1>1, <1>2, Zenon DEF SetAll
<1>4. SetAll(ws, N, v) \in Pool
  BY <1>1, <1>3 DEF Pool
<1>5. ASSUME NEW m \in Index PROVE At(SetAll(ws, N, v), m) = IF m \in N THEN v ELSE At(ws, m)
  <2>1. m \div W \in Word /\ m % W \in Bit
    BY InArray DEF Index
  <2>2. (m \div W) * W + (m % W) = m
    <3>1. m \in Nat /\ W \in Nat \ {0}
      BY PoolAssumption, Products DEF Index
    <3>2. m \div W \in Nat /\ m % W \in 0 .. W - 1 /\ m = W * (m \div W) + (m % W)
      BY <3>1, Divided
    <3> QED
      BY <3>1, <3>2
  <2>3. SetAll(ws, N, v)[m \div W][m % W]
          = IF (m \div W) * W + (m % W) \in N THEN v
            ELSE m \div W \in Word /\ ws[m \div W][m % W]
    <3>1. \A i \in Word : \A b \in Bit :
            SetAll(ws, N, v)[i][b] = IF i * W + b \in N THEN v ELSE i \in Word /\ ws[i][b]
      BY <1>3
    <3> QED
      BY <2>1, <3>1, Zenon
  <2>4. (m \div W \in Word /\ ws[m \div W][m % W]) = ws[m \div W][m % W]
    BY <1>1, <2>1, Zenon
  <2> QED
    BY <2>2, <2>3, <2>4, Zenon DEF At
<1> QED
  BY <1>4, <1>5

(* The same for a single bit. *)
LEMMA GetSet ==
  ASSUME NEW ws \in Pool, NEW n \in Index, NEW v \in BOOLEAN
  PROVE  /\ Set(ws, n, v) \in Pool
         /\ \A m \in Index : At(Set(ws, n, v), m) = IF m = n THEN v ELSE At(ws, m)
BY GetSetAll, {n} \in SUBSET Index DEF Set

LEMMA Sectioned ==
  /\ \A n \in Node : StateBit(n) \in Index
  /\ \A a, b \in Row : IlockBit(a, b) \in Index
  /\ \A c \in Col : ExclBit(c) \in Index
  /\ \A n \in Node, a, b \in Row : StateBit(n) # IlockBit(a, b)
  /\ \A n \in Node, c \in Col : StateBit(n) # ExclBit(c)
  /\ \A a, b \in Row, c \in Col : IlockBit(a, b) # ExclBit(c)
<1>1. IlockOff \in Nat /\ ExclOff \in Nat
  BY Products DEF IlockOff, ExclOff
<1> QED
  BY <1>1, Indexes, Products DEF Index
-------------------------------------------------------------------------------
(***************************************************************************)
(* The sections, read from an array.                                       *)
(***************************************************************************)
StateOf(ws) == {n \in Node : At(ws, StateBit(n))}
IlockOf(ws) == {p \in Row \X Row : At(ws, IlockBit(p[1], p[2]))}
ExclOf(ws)  == {c \in Col : At(ws, ExclBit(c))}

(***************************************************************************)
(* A set() on a bit of one section changes that element of that section.   *)
(***************************************************************************)
LEMMA SetState ==
  ASSUME NEW ws \in Pool, NEW n \in Node, NEW v \in BOOLEAN
  PROVE  LET new == Set(ws, StateBit(n), v) IN
         /\ new \in Pool
         /\ StateOf(new) = IF v THEN StateOf(ws) \cup {n} ELSE StateOf(ws) \ {n}
         /\ IlockOf(new) = IlockOf(ws)
         /\ ExclOf(new) = ExclOf(ws)
<1> DEFINE new == Set(ws, StateBit(n), v)
<1>1. new \in Pool /\ \A m \in Index : At(new, m) = IF m = StateBit(n) THEN v ELSE At(ws, m)
  BY GetSet, Sectioned
<1> HIDE DEF new
<1>2. StateOf(new) = IF v THEN StateOf(ws) \cup {n} ELSE StateOf(ws) \ {n}
  BY <1>1, Sectioned, Apart DEF StateOf
<1>3. IlockOf(new) = IlockOf(ws)
  BY <1>1, Sectioned DEF IlockOf
<1>4. ExclOf(new) = ExclOf(ws)
  BY <1>1, Sectioned DEF ExclOf
<1> QED
  BY <1>1, <1>2, <1>3, <1>4 DEF new

LEMMA SetIlock ==
  ASSUME NEW ws \in Pool, NEW a \in Row, NEW b \in Row
  PROVE  LET new == Set(ws, IlockBit(a, b), TRUE) IN
         /\ new \in Pool
         /\ StateOf(new) = StateOf(ws)
         /\ IlockOf(new) = IlockOf(ws) \cup {<<a, b>>}
         /\ ExclOf(new) = ExclOf(ws)
<1> DEFINE new == Set(ws, IlockBit(a, b), TRUE)
<1>1. new \in Pool /\ \A m \in Index : At(new, m) = IF m = IlockBit(a, b) THEN TRUE ELSE At(ws, m)
  BY GetSet, Sectioned
<1> HIDE DEF new
<1>2. StateOf(new) = StateOf(ws)
  BY <1>1, Sectioned DEF StateOf
<1>3. IlockOf(new) = IlockOf(ws) \cup {<<a, b>>}
  <2>1. \A p \in Row \X Row : p[1] \in Row /\ p[2] \in Row /\ p = <<p[1], p[2]>>
    OBVIOUS
  <2>2. \A p \in Row \X Row : IlockBit(p[1], p[2]) \in Index
    BY <2>1, Sectioned
  <2>3. \A p \in Row \X Row : IlockBit(p[1], p[2]) = IlockBit(a, b) <=> p = <<a, b>>
    BY <2>1, Apart
  <2>4. \A p \in Row \X Row :
          At(new, IlockBit(p[1], p[2])) <=> (At(ws, IlockBit(p[1], p[2])) \/ p = <<a, b>>)
    BY <1>1, <2>2, <2>3, Zenon
  <2>5. <<a, b>> \in Row \X Row
    OBVIOUS
  <2> QED
    BY <2>4, <2>5, Zenon DEF IlockOf
<1>4. ExclOf(new) = ExclOf(ws)
  BY <1>1, Sectioned DEF ExclOf
<1> QED
  BY <1>1, <1>2, <1>3, <1>4 DEF new

LEMMA SetExcl ==
  ASSUME NEW ws \in Pool, NEW c \in Col
  PROVE  LET new == Set(ws, ExclBit(c), TRUE) IN
         /\ new \in Pool
         /\ StateOf(new) = StateOf(ws)
         /\ IlockOf(new) = IlockOf(ws)
         /\ ExclOf(new) = ExclOf(ws) \cup {c}
<1> DEFINE new == Set(ws, ExclBit(c), TRUE)
<1>1. new \in Pool /\ \A m \in Index : At(new, m) = IF m = ExclBit(c) THEN TRUE ELSE At(ws, m)
  BY GetSet, Sectioned
<1> HIDE DEF new
<1>2. StateOf(new) = StateOf(ws)
  BY <1>1, Sectioned DEF StateOf
<1>3. IlockOf(new) = IlockOf(ws)
  BY <1>1, Sectioned DEF IlockOf
<1>4. ExclOf(new) = ExclOf(ws) \cup {c}
  BY <1>1, Sectioned, Apart DEF ExclOf
<1> QED
  BY <1>1, <1>2, <1>3, <1>4 DEF new

(***************************************************************************)
(* A cleared array has empty sections, and the loop of clearAll() empties  *)
(* the state section and leaves the rules alone.                           *)
(***************************************************************************)
LEMMA ZeroSections ==
  Zero \in Pool /\ StateOf(Zero) = {} /\ IlockOf(Zero) = {} /\ ExclOf(Zero) = {}
<1>1. \A m \in Index : ~At(Zero, m)
  BY InArray DEF At, Zero, Index
<1> QED
  BY <1>1, Sectioned DEF Zero, Pool, StateOf, IlockOf, ExclOf

LEMMA ClearState ==
  ASSUME NEW ws \in Pool
  PROVE  LET new == SetAll(ws, {StateBit(n) : n \in StateOf(ws)}, FALSE) IN
         /\ new \in Pool
         /\ StateOf(new) = {}
         /\ IlockOf(new) = IlockOf(ws)
         /\ ExclOf(new) = ExclOf(ws)
<1> DEFINE N == {StateBit(n) : n \in StateOf(ws)}
           new == SetAll(ws, N, FALSE)
<1>1. N \in SUBSET Index
  BY Sectioned DEF StateOf
<1>2. new \in Pool /\ \A m \in Index : At(new, m) = IF m \in N THEN FALSE ELSE At(ws, m)
  <2> HIDE DEF N
  <2>1. /\ SetAll(ws, N, FALSE) \in Pool
        /\ \A m \in Index : At(SetAll(ws, N, FALSE), m) = IF m \in N THEN FALSE ELSE At(ws, m)
    <3>1. \A v \in BOOLEAN :
            /\ SetAll(ws, N, v) \in Pool
            /\ \A m \in Index : At(SetAll(ws, N, v), m) = IF m \in N THEN v ELSE At(ws, m)
      BY <1>1, GetSetAll
    <3>2. FALSE \in BOOLEAN
      OBVIOUS
    <3> QED
      BY <3>1, <3>2, Zenon
  <2> QED
    BY <2>1, Zenon
<1> HIDE DEF new
<1>3. StateOf(new) = {}
  <2>1. \A n \in Node : ~At(new, StateBit(n))
    BY <1>2, Sectioned DEF StateOf
  <2> QED
    BY <2>1 DEF StateOf
<1>4. IlockOf(new) = IlockOf(ws)
  <2>1. \A a, b \in Row : IlockBit(a, b) \in Index /\ IlockBit(a, b) \notin N
    BY Sectioned DEF StateOf
  <2>2. \A p \in Row \X Row : At(new, IlockBit(p[1], p[2])) = At(ws, IlockBit(p[1], p[2]))
    BY <1>2, <2>1
  <2> QED
    BY <2>2 DEF IlockOf
<1>5. ExclOf(new) = ExclOf(ws)
  <2>1. \A c \in Col : ExclBit(c) \in Index /\ ExclBit(c) \notin N
    BY Sectioned DEF StateOf
  <2>2. \A c \in Col : At(new, ExclBit(c)) = At(ws, ExclBit(c))
    BY <1>2, <2>1
  <2> QED
    BY <2>2 DEF ExclOf
<1> QED
  BY <1>2, <1>3, <1>4, <1>5 DEF new
-------------------------------------------------------------------------------
(***************************************************************************)
(* get() inside the array is the bit.                                      *)
(***************************************************************************)
LEMMA GetIsAt ==
  ASSUME words \in Pool, NEW n \in Index
  PROVE  Get(n) = At(words, n)
<1>1. n \div W \in DOMAIN words /\ n \div W \in Word /\ n % W \in Bit
  BY InArray DEF Index, Pool
<1>2. words[n \div W][n % W] \in BOOLEAN
  BY <1>1 DEF Pool
<1> QED
  BY <1>1, <1>2 DEF Get, At

(* The same after a step. *)
LEMMA GetIsAtNext ==
  ASSUME words' \in Pool, NEW n \in Index
  PROVE  Get(n)' = At(words', n)
<1>1. n \div W \in DOMAIN words' /\ n \div W \in Word /\ n % W \in Bit
  BY InArray DEF Index, Pool
<1>2. words'[n \div W][n % W] \in BOOLEAN
  BY <1>1 DEF Pool
<1> QED
  BY <1>1, <1>2 DEF Get, At

(* What clearAll() finds connected is the state section. *)
LEMMA ConnectedIsState ==
  ASSUME words \in Pool
  PROVE  Connected = StateOf(words)
BY GetIsAt, Sectioned DEF Connected, StateOf
-------------------------------------------------------------------------------
(***************************************************************************)
(* No step writes to a word outside the array.                             *)
(***************************************************************************)
THEOREM PoolTyping == Spec => []TypeOK
<1>1. Init => TypeOK
  BY DEF Init, TypeOK
<1>2. TypeOK /\ [Next]_vars => TypeOK'
  <2> SUFFICES ASSUME TypeOK, [Next]_vars PROVE TypeOK'
    OBVIOUS
  <2> USE DEF TypeOK
  <2>1. CASE Construct
    BY <2>1, ZeroSections DEF Construct
  <2>2. ASSUME NEW n \in Node, Connect(n) \/ Disconnect(n) PROVE TypeOK'
    <3>1. Set(words, StateBit(n), TRUE) \in Pool /\ Set(words, StateBit(n), FALSE) \in Pool
      BY SetState
    <3> QED
      BY <2>2, <3>1 DEF Connect, Disconnect, Write
  <2>3. CASE ClearAll
    BY <2>3, ClearState, ConnectedIsState DEF ClearAll, Write
  <2>4. ASSUME NEW p \in LockArgs, LockRows(p[1], p[2]) PROVE TypeOK'
    <3>1. p[1] \in Row /\ p[2] \in Row
      BY PoolAssumption
    <3> QED
      BY <2>4, <3>1, SetIlock DEF LockRows, Write
  <2>5. ASSUME NEW c \in ExclArgs, ExclusiveInput(c) PROVE TypeOK'
    BY <2>5, SetExcl, PoolAssumption DEF ExclusiveInput, Write
  <2>6. CASE UNCHANGED vars
    BY <2>6 DEF vars
  <2> QED
    BY <2>1, <2>2, <2>3, <2>4, <2>5, <2>6 DEF Next
<1> QED
  BY <1>1, <1>2, PTL DEF Spec
-------------------------------------------------------------------------------
(***************************************************************************)
(* What the refinement mapping shows, and that it is the sections of the   *)
(* array while the pool is in use and empty otherwise.                     *)
(***************************************************************************)
StateShown == IF InUse THEN Connected ELSE {}
IlockShown == IF InUse THEN {p \in Row \X Row : Get(IlockBit(p[1], p[2]))} ELSE {}
ExclShown  == IF InUse THEN {c \in Col : Get(ExclBit(c))} ELSE {}

LEMMA Shown ==
  ASSUME words \in Pool
  PROVE  /\ StateShown = IF InUse THEN StateOf(words) ELSE {}
         /\ IlockShown = IF InUse THEN IlockOf(words) ELSE {}
         /\ ExclShown = IF InUse THEN ExclOf(words) ELSE {}
<1>1. Connected = StateOf(words)
  BY GetIsAt, Sectioned DEF Connected, StateOf
<1>2. {p \in Row \X Row : Get(IlockBit(p[1], p[2]))} = IlockOf(words)
  <2>1. \A p \in Row \X Row : IlockBit(p[1], p[2]) \in Index
    BY Sectioned
  <2> QED
    BY GetIsAt, <2>1 DEF IlockOf
<1>3. {c \in Col : Get(ExclBit(c))} = ExclOf(words)
  BY GetIsAt, Sectioned DEF ExclOf
<1> QED
  BY <1>1, <1>2, <1>3 DEF StateShown, IlockShown, ExclShown

(* The same after a step. *)
LEMMA ShownNext ==
  ASSUME words' \in Pool
  PROVE  /\ StateShown' = IF InUse' THEN StateOf(words') ELSE {}
         /\ IlockShown' = IF InUse' THEN IlockOf(words') ELSE {}
         /\ ExclShown' = IF InUse' THEN ExclOf(words') ELSE {}
<1>1. Connected' = StateOf(words')
  BY GetIsAtNext, Sectioned DEF Connected, StateOf
<1>2. {p \in Row \X Row : Get(IlockBit(p[1], p[2]))'} = IlockOf(words')
  <2>1. \A p \in Row \X Row : IlockBit(p[1], p[2]) \in Index
    BY Sectioned
  <2> QED
    BY GetIsAtNext, <2>1 DEF IlockOf
<1>3. {c \in Col : Get(ExclBit(c))'} = ExclOf(words')
  BY GetIsAtNext, Sectioned DEF ExclOf
<1> QED
  BY <1>1, <1>2, <1>3 DEF StateShown, IlockShown, ExclShown

(***************************************************************************)
(* The rules as they are read from the bits are the rules of XPoint.       *)
(***************************************************************************)
LEMMA SameRules ==
  ASSUME InUse, NEW n \in Node, ~Refused(n)
  PROVE  ~Sections!Forbidden(n, StateShown)
<1>1. n[1] \in Row /\ n[2] \in Col
  BY DEF Node
<1>2. \A r \in Row : <<r, n[2]>> \in StateShown <=> Get(StateBit(<<r, n[2]>>))
  BY <1>1 DEF StateShown, Connected, Node
<1>3. Sections!OtherBusyRows(n, StateShown) = OtherBusyRows(n)
  BY <1>1, <1>2 DEF Sections!OtherBusyRows, OtherBusyRows, Sections!Row, Row
<1>4. \A r \in OtherBusyRows(n) : <<n[1], r>> \notin IlockShown
  BY DEF Refused, IlockShown
<1>5. OtherBusyRows(n) = {} \/ n[2] \notin ExclShown
  BY DEF Refused, ExclShown
<1> QED
  BY <1>3, <1>4, <1>5 DEF Sections!Forbidden, IlockShown, ExclShown

(***************************************************************************)
(* The pool implements the sections: three disjoint sets that every        *)
(* request changes as RecordNext says, for all dimensions and whatever     *)
(* the array held before it was cleared.                                   *)
(***************************************************************************)
THEOREM PoolKeepsSections == Spec => KeepsSections
<1>1. Init => Sections!MatrixInit
  BY DEF Init, InUse, Sections!MatrixInit
<1>2. TypeOK /\ TypeOK' /\ [Next]_vars => [Sections!RecordNext]_(Sections!matrixVars)
  <2> SUFFICES ASSUME TypeOK, TypeOK', [Next]_vars
               PROVE  [Sections!RecordNext]_(Sections!matrixVars)
    OBVIOUS
  <2>0. Sections!Node = Node
    BY DEF Sections!Node, Sections!Row, Sections!Col, Node, Row, Col
  <2>w. words \in Pool /\ words' \in Pool
    BY DEF TypeOK
  <2>s. ASSUME StateShown' = StateShown, IlockShown' = IlockShown, ExclShown' = ExclShown
        PROVE  UNCHANGED Sections!matrixVars
    BY <2>s DEF Sections!matrixVars, StateShown, IlockShown, ExclShown
  <2>1. CASE Construct
    <3>1. StateShown' = {} /\ IlockShown' = {} /\ ExclShown' = {}
      BY <2>w, <2>1, ShownNext, ZeroSections DEF Construct, InUse
    <3>2. Sections!MatrixReset
      BY <3>1 DEF Sections!MatrixReset, StateShown, IlockShown, ExclShown
    <3> QED
      BY <3>2 DEF Sections!RecordNext
  <2>2. ASSUME NEW n \in Node, Connect(n) PROVE Sections!RecordNext
    <3>1. InUse /\ InUse' /\ words' = Set(words, StateBit(n), TRUE) /\ ~Refused(n)
      BY <2>2 DEF Connect, Write, InUse
    <3>2. StateShown' = StateShown \cup {n} /\ IlockShown' = IlockShown /\ ExclShown' = ExclShown
      <4>1. /\ StateOf(words') = StateOf(words) \cup {n}
            /\ IlockOf(words') = IlockOf(words)
            /\ ExclOf(words') = ExclOf(words)
        BY <2>w, <3>1, SetState
      <4> QED
        BY <2>w, <3>1, <4>1, Shown, ShownNext
    <3>3. Sections!Record(n)
      BY <3>1, <3>2, SameRules DEF Sections!Record, StateShown, IlockShown, ExclShown
    <3> QED
      BY <2>0, <3>3 DEF Sections!RecordNext
  <2>3. ASSUME NEW n \in Node, Disconnect(n) PROVE Sections!RecordNext
    <3>1. InUse /\ InUse' /\ words' = Set(words, StateBit(n), FALSE)
      BY <2>3 DEF Disconnect, Write, InUse
    <3>2. StateShown' = StateShown \ {n} /\ IlockShown' = IlockShown /\ ExclShown' = ExclShown
      <4>1. /\ StateOf(words') = StateOf(words) \ {n}
            /\ IlockOf(words') = IlockOf(words)
            /\ ExclOf(words') = ExclOf(words)
        BY <2>w, <3>1, SetState
      <4> QED
        BY <2>w, <3>1, <4>1, Shown, ShownNext
    <3>3. Sections!Forget({n})
      BY <3>2 DEF Sections!Forget, StateShown, IlockShown, ExclShown
    <3> QED
      BY <2>0, <3>3 DEF Sections!RecordNext
  <2>4. CASE ClearAll
    <3>1. /\ InUse /\ InUse'
          /\ words' = SetAll(words, {StateBit(n) : n \in StateOf(words)}, FALSE)
      BY <2>w, <2>4, ConnectedIsState DEF ClearAll, Write, InUse
    <3>2. StateShown' = {} /\ IlockShown' = IlockShown /\ ExclShown' = ExclShown
      BY <2>w, <3>1, ClearState, Shown, ShownNext
    <3>3. Sections!Forget(StateShown)
      BY <3>2 DEF Sections!Forget, StateShown, IlockShown, ExclShown
    <3> QED
      BY <3>3 DEF Sections!RecordNext, StateShown
  <2>5. ASSUME NEW p \in LockArgs, LockRows(p[1], p[2]) PROVE Sections!RecordNext
    <3>1. p[1] \in Row /\ p[2] \in Row
      BY PoolAssumption
    <3> DEFINE once == Set(words, IlockBit(p[1], p[2]), TRUE)
    <3>2. once \in Pool /\ StateOf(once) = StateOf(words) /\ ExclOf(once) = ExclOf(words)
          /\ IlockOf(once) = IlockOf(words) \cup {<<p[1], p[2]>>}
      BY <2>w, <3>1, SetIlock
    <3>3. InUse /\ InUse' /\ words' = Set(once, IlockBit(p[2], p[1]), TRUE)
      BY <2>5 DEF LockRows, Write, InUse
    <3> HIDE DEF once
    <3>4. StateOf(words') = StateOf(once) /\ ExclOf(words') = ExclOf(once)
          /\ IlockOf(words') = IlockOf(once) \cup {<<p[2], p[1]>>}
      BY <3>1, <3>2, <3>3, SetIlock
    <3>5. /\ StateShown' = StateShown /\ ExclShown' = ExclShown
          /\ IlockShown' = IlockShown \cup {<<p[1], p[2]>>, <<p[2], p[1]>>}
      BY <2>w, <3>2, <3>3, <3>4, Shown, ShownNext
    <3>6. Sections!LockRows(p[1], p[2])
      BY <3>5 DEF Sections!LockRows, StateShown, IlockShown, ExclShown
    <3> QED
      BY <3>6 DEF Sections!RecordNext, Sections!Configure
  <2>6. ASSUME NEW c \in ExclArgs, ExclusiveInput(c) PROVE Sections!RecordNext
    <3>1. c \in Col /\ InUse /\ InUse' /\ words' = Set(words, ExclBit(c), TRUE)
      BY <2>6, PoolAssumption DEF ExclusiveInput, Write, InUse
    <3>2. StateShown' = StateShown /\ IlockShown' = IlockShown /\ ExclShown' = ExclShown \cup {c}
      BY <2>w, <3>1, SetExcl, Shown, ShownNext
    <3>3. Sections!ExclusiveInput(c)
      BY <3>2 DEF Sections!ExclusiveInput, StateShown, IlockShown, ExclShown
    <3> QED
      BY <3>3 DEF Sections!RecordNext, Sections!Configure
  <2>7. CASE UNCHANGED vars
    <3>1. StateShown' = StateShown /\ IlockShown' = IlockShown /\ ExclShown' = ExclShown
      BY <2>w, <2>7, Shown, ShownNext DEF vars, InUse
    <3> QED
      BY <2>s, <3>1
  <2> QED
    BY <2>1, <2>2, <2>3, <2>4, <2>5, <2>6, <2>7 DEF Next
<1> QED
  BY <1>1, <1>2, PoolTyping, PTL DEF Spec, KeepsSections, Sections!RecordSpec
===============================================================================
