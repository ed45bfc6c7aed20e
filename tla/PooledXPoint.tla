----------------------------- MODULE PooledXPoint -----------------------------
(***************************************************************************)
(* How XPoint keeps its record: state, interlock and exclusive sections    *)
(* packed into one array of words by a BitPool and found by offsets that   *)
(* are computed from the dimensions.  The operations are those of the      *)
(* matrix on its record alone; drivers and relays are in LatchingXPoint    *)
(* and NonLatchingXPoint, which keep the sections as sets.                 *)
(*                                                                         *)
(* get() and set() check no bound.  A set() past the array writes into     *)
(* foreign memory: in the model the array grows by the word that is hit,   *)
(* so that the write shows and can be read back.                           *)
(***************************************************************************)
EXTENDS Integers, FiniteSets

CONSTANTS
  ROWS, COLS,  \* the dimensions, uint8_t
  W,           \* bits of a word: 32
  COUNT_RANGE, \* 2^16: wordsFor() returns a uint16_t
  LockArgs,    \* the row pairs the application passes to lockRows()
  ExclArgs     \* the columns the application passes to exclusiveInput()

Row  == 0 .. ROWS - 1
Col  == 0 .. COLS - 1
Node == Row \X Col

PoolBits == ROWS * COLS + ROWS * ROWS + COLS

ASSUME PoolAssumption ==
  /\ ROWS \in 0 .. 255
  /\ COLS \in 0 .. 255
  /\ W \in Nat \ {0}
  /\ COUNT_RANGE \in Nat \ {0}
  /\ PoolBits + W <= W * COUNT_RANGE
  /\ LockArgs \subseteq Row \X Row
  /\ ExclArgs \subseteq Col

VARIABLES
  words,  \* _words, the array
  valid,  \* _words # nullptr; never changes
  built   \* the constructor has run

vars == <<words, valid, built>>
-------------------------------------------------------------------------------
(***************************************************************************)
(* The array: as many words as the constructors, poolWords() and           *)
(* XPointStatic compute.  The last may be used in part.                    *)
(***************************************************************************)
FullWordsFor(nBits) == (nBits \div W) % COUNT_RANGE

WordsFor(nBits) == ((nBits + W - 1) \div W) % COUNT_RANGE

Word == 0 .. WordsFor(PoolBits) - 1
Bit  == 0 .. W - 1

Pool == [Word -> [Bit -> BOOLEAN]]

Zero == [i \in Word |-> [b \in Bit |-> FALSE]]

Get(n) == n \div W \in DOMAIN words /\ words[n \div W][n % W]

SetAll(ws, N, v) ==
  [i \in DOMAIN ws \cup {n \div W : n \in N} |->
     [b \in Bit |-> IF i * W + b \in N THEN v ELSE i \in DOMAIN ws /\ ws[i][b]]]

Set(ws, n, v) == SetAll(ws, {n}, v)

(***************************************************************************)
(* The sections.                                                           *)
(***************************************************************************)
IlockOff == ROWS * COLS

ExclOffNoSquare == ROWS * COLS + ROWS

ExclOff == ROWS * COLS + ROWS * ROWS

StateBit(n) == n[1] * COLS + n[2]

IlockBit(a, b) == IlockOff + a * ROWS + b

ExclBit(c) == ExclOff + c

Connected == {n \in Node : Get(StateBit(n))}
-------------------------------------------------------------------------------
(***************************************************************************)
(* The caller's array may hold anything until the constructor clears it,   *)
(* and a reset of the microcontroller runs the constructor over what was   *)
(* there before.  A pool of no bits, or one the caller does not supply, is *)
(* not valid.                                                              *)
(***************************************************************************)
Init ==
  /\ words \in Pool
  /\ valid \in BOOLEAN
  /\ Word = {} => ~valid
  /\ built = FALSE

Construct ==
  /\ built' = TRUE
  /\ words' = IF valid THEN Zero ELSE words
  /\ valid' = valid

Write(ws) ==
  /\ valid
  /\ built
  /\ words' = ws
  /\ UNCHANGED <<valid, built>>

(***************************************************************************)
(* connect(), and setLevel() with a level above 0: the two loops over the  *)
(* other rows of the column, then the node's own bit.                      *)
(***************************************************************************)
OtherBusyRows(n) == {r \in Row \ {n[1]} : Get(StateBit(<<r, n[2]>>))}

Refused(n) ==
  \/ \E r \in OtherBusyRows(n) : Get(IlockBit(n[1], r))
  \/ Get(ExclBit(n[2])) /\ OtherBusyRows(n) # {}

Connect(n) ==
  /\ ~Refused(n)
  /\ Write(Set(words, StateBit(n), TRUE))

(***************************************************************************)
(* disconnect(), and setLevel() with level 0.                              *)
(***************************************************************************)
Disconnect(n) == Write(Set(words, StateBit(n), FALSE))

(***************************************************************************)
(* clearAll() clears the bits of the nodes it finds connected.             *)
(***************************************************************************)
ClearAll == Write(SetAll(words, {StateBit(n) : n \in Connected}, FALSE))

LockRows(a, b) ==
  Write(Set(Set(words, IlockBit(a, b), TRUE), IlockBit(b, a), TRUE))

ExclusiveInput(c) == Write(Set(words, ExclBit(c), TRUE))

Next ==
  \/ Construct
  \/ \E n \in Node : Connect(n) \/ Disconnect(n)
  \/ ClearAll
  \/ \E p \in LockArgs : LockRows(p[1], p[2])
  \/ \E c \in ExclArgs : ExclusiveInput(c)

Spec == Init /\ [][Next]_vars
-------------------------------------------------------------------------------
(***************************************************************************)
(* No write of any operation reaches a word outside the array that         *)
(* wordsFor() sized: the array never grows.                                *)
(***************************************************************************)
TypeOK ==
  /\ words \in Pool
  /\ valid \in BOOLEAN
  /\ built \in BOOLEAN
  /\ Word = {} => ~valid

(***************************************************************************)
(* The pool is the three sections and nothing else: read back through the  *)
(* offsets, every operation changes the section and the element it is for, *)
(* as if the sections were sets, whatever the array held before.           *)
(***************************************************************************)
InUse == valid /\ built

Sections ==
  INSTANCE XPoint WITH
    Headless  <- FALSE,
    connected <- IF InUse THEN Connected ELSE {},
    ilock     <- IF InUse THEN {p \in Row \X Row : Get(IlockBit(p[1], p[2]))} ELSE {},
    excl      <- IF InUse THEN {c \in Col : Get(ExclBit(c))} ELSE {},
    attached  <- TRUE

KeepsSections == Sections!RecordSpec
===============================================================================
