---------------------------- MODULE NonLatchingProof ----------------------------
(***************************************************************************)
(* Theorems about NonLatchingXPoint, for every size of the matrix, every   *)
(* set of rules and every kind of driver.                                  *)
(***************************************************************************)
EXTENDS NonLatchingXPoint, TLAPS

(***************************************************************************)
(* The inductive invariant.  The outputs agree with the record because the *)
(* shadow does and because nothing reaches the outputs but the shadow;     *)
(* before the driver is there everything recorded is undriven, and before  *)
(* the first commit the shadow is zero.                                    *)
(***************************************************************************)
ShadowFollowsRecord ==
  \A n \in Node : /\ shadow[n] > 0 => n \in connected
                  /\ n \in connected \ undriven => shadow[n] > 0

OutIsShadow ==
  /\ attached /\ (driver = "dimmer" => committed) => out = shadow
  /\ driver = "recorder" => out = shadow

NothingYet ==
  /\ ~attached => connected \subseteq undriven
  /\ committed => attached
  /\ ~committed => shadow = AllOff

SymmetricLocks == \A a, b \in Row : <<a, b>> \in ilock => <<b, a>> \in ilock

NInv ==
  /\ TypeOK
  /\ ShadowFollowsRecord
  /\ OutIsShadow
  /\ NothingYet
  /\ SymmetricLocks

(* The constructor establishes the invariant. *)
LEMMA InitNInv == Init => NInv
<1> SUFFICES ASSUME Init PROVE NInv
  OBVIOUS
<1>1. TypeOK
  <2>1. MatrixTypeOK
    BY MatrixAssumption DEF Init, MatrixInit, MatrixTypeOK
  <2>2. 0 \in Level /\ FULL \in Level
    BY LevelAssumption DEF Level
  <2>3. shadow \in [Node -> Level] /\ undriven \subseteq Node
    BY <2>2 DEF Init, AllOff
  <2>4. out \in [Node -> {0, FULL}] \/ out = AllOff
    BY DEF Init, PoweredUp
  <2>5. out \in [Node -> Level]
    BY <2>2, <2>4 DEF AllOff
  <2>6. driver \in Driver /\ committed \in BOOLEAN
    BY Zenon DEF Init
  <2> QED
    BY <2>1, <2>3, <2>5, <2>6 DEF TypeOK
<1>2. ShadowFollowsRecord /\ NothingYet /\ SymmetricLocks
  BY DEF Init, MatrixInit, AllOff, ShadowFollowsRecord, NothingYet, SymmetricLocks
<1>3. OutIsShadow
  <2>1. attached = ~Headless
    BY DEF Init, MatrixInit
  <2>2. /\ ~committed
        /\ ~Headless /\ driver # "dimmer" => out = shadow
        /\ driver = "recorder" => out = shadow
    BY DEF Init, PoweredUp
  <2> QED
    BY <2>1, <2>2, Zenon DEF OutIsShadow
<1> QED
  BY <1>1, <1>2, <1>3 DEF NInv

-------------------------------------------------------------------------------
(***************************************************************************)
(* A request records S as on or as off and drives it to a level that says  *)
(* the same.                                                               *)
(***************************************************************************)
LEMMA DriveNInv ==
  ASSUME NInv, NEW S \in SUBSET Node, NEW level \in Level,
         Drive(S, level),
         connected' = IF level > 0 THEN connected \cup S ELSE connected \ S,
         UNCHANGED <<ilock, excl, attached, driver>>
  PROVE  NInv'
<1> USE DEF NInv
<1>1. TypeOK'
  BY DEF TypeOK, MatrixTypeOK, Drive
<1>2. CASE attached
  <2>1. /\ shadow' = [n \in Node |-> IF n \in S THEN level ELSE shadow[n]]
        /\ out' = shadow'
        /\ committed' = TRUE
        /\ undriven' = undriven \ S
    BY <1>2 DEF Drive
  <2>2. level \in Nat
    BY LevelAssumption DEF Level
  <2>3. ShadowFollowsRecord'
    BY <2>1, <2>2 DEF ShadowFollowsRecord
  <2> QED
    BY <1>1, <1>2, <2>1, <2>3 DEF OutIsShadow, NothingYet, SymmetricLocks
<1>3. CASE ~attached
  <2>1. /\ shadow' = shadow /\ out' = out /\ shadow = AllOff
        /\ undriven' = undriven \cup S
        /\ committed' = committed
    BY <1>3 DEF Drive, NothingYet
  <2>2. connected' \subseteq undriven'
    BY <1>3, <2>1 DEF NothingYet
  <2>3. ShadowFollowsRecord'
    BY <2>1, <2>2 DEF ShadowFollowsRecord, AllOff
  <2>4. OutIsShadow' /\ SymmetricLocks'
    BY <1>3, <2>1 DEF OutIsShadow, SymmetricLocks
  <2>5. NothingYet'
    BY <1>3, <2>1, <2>2 DEF NothingYet
  <2> QED
    BY <1>1, <2>3, <2>4, <2>5
<1> QED
  BY <1>2, <1>3

(* connect() and disconnect() drive the two ends of the scale. *)
LEMMA FullLevel == FULL \in Level /\ 0 \in Level /\ FULL > 0 /\ ~(0 > 0)
BY LevelAssumption DEF Level

(* connect() preserves the invariant. *)
LEMMA ConnectNInv ==
  ASSUME NInv, NEW n \in Node, Connect(n)
  PROVE  NInv'
BY DriveNInv, FullLevel, {n} \in SUBSET Node DEF Connect

(* disconnect() preserves the invariant. *)
LEMMA DisconnectNInv ==
  ASSUME NInv, NEW n \in Node, Disconnect(n)
  PROVE  NInv'
BY DriveNInv, FullLevel, {n} \in SUBSET Node DEF Disconnect

(* A level is driven as on exactly when it is above 0. *)
LEMMA DrivenLevel ==
  ASSUME NEW level \in Level
  PROVE  Driven(level) \in Level /\ (Driven(level) > 0 <=> level > 0)
BY LevelAssumption DEF Driven, Level

(* setLevel() preserves the invariant. *)
LEMMA SetLevelNInv ==
  ASSUME NInv, NEW n \in Node, NEW level \in Level, SetLevel(n, level)
  PROVE  NInv'
<1>1. Driven(level) \in Level /\ (Driven(level) > 0 <=> level > 0)
  BY DrivenLevel
<1>2. Drive({n}, Driven(level)) /\ UNCHANGED <<ilock, excl, attached, driver>>
  BY DEF SetLevel
<1>3. connected' = IF Driven(level) > 0 THEN connected \cup {n} ELSE connected \ {n}
  BY <1>1 DEF SetLevel
<1> QED
  BY <1>1, <1>2, <1>3, DriveNInv, {n} \in SUBSET Node

(* clearAll() preserves the invariant. *)
LEMMA ClearAllNInv ==
  ASSUME NInv, ClearAll
  PROVE  NInv'
<1>1. connected \in SUBSET Node
  BY DEF NInv, TypeOK, MatrixTypeOK
<1>2. connected' = connected \ connected
  BY DEF ClearAll
<1> QED
  BY <1>1, <1>2, DriveNInv, FullLevel DEF ClearAll

(* Configuration and begin() preserve the invariant. *)
LEMMA ConfigureNInv ==
  ASSUME NInv, Begin \/ AddLock \/ AddExclusive
  PROVE  NInv'
<1> USE DEF NInv
<1>1. CASE Begin
  <2>1. /\ attached' = TRUE
        /\ shadow' = IF driver = "pins" THEN AllOff ELSE shadow
        /\ out' = IF driver \in {"expander", "pins"} THEN shadow' ELSE out
        /\ undriven' = IF driver = "pins" THEN undriven \cup connected ELSE undriven
        /\ UNCHANGED <<connected, ilock, excl, driver, committed>>
    BY <1>1 DEF Begin, SetDriver
  <2>2. 0 \in Level
    BY FullLevel
  <2>3. TypeOK'
    BY <2>1, <2>2 DEF TypeOK, MatrixTypeOK, AllOff
  <2>4. OutIsShadow'
    BY <2>1 DEF OutIsShadow, NothingYet, TypeOK, Driver
  <2>5. ShadowFollowsRecord' /\ NothingYet'
    BY <2>1 DEF ShadowFollowsRecord, NothingYet, AllOff
  <2> QED
    BY <2>1, <2>3, <2>4, <2>5 DEF SymmetricLocks
<1>2. ASSUME NEW p \in LockArgs, LockRows(p[1], p[2]), AddLock PROVE NInv'
  <2>1. p[1] \in Row /\ p[2] \in Row
    BY MatrixAssumption
  <2>2. UNCHANGED <<connected, excl, attached, driver, shadow, out, committed,
                  undriven>>
    BY <1>2 DEF LockRows, AddLock
  <2>3. TypeOK' /\ SymmetricLocks'
    BY <1>2, <2>1, <2>2 DEF LockRows, TypeOK, MatrixTypeOK, SymmetricLocks
  <2> QED
    BY <2>2, <2>3 DEF ShadowFollowsRecord, OutIsShadow, NothingYet
<1>3. ASSUME NEW c \in ExclArgs, ExclusiveInput(c), AddExclusive PROVE NInv'
  <2>1. UNCHANGED <<connected, ilock, attached, driver, shadow, out, committed,
                  undriven>>
    BY <1>3 DEF ExclusiveInput, AddExclusive
  <2>2. TypeOK'
    BY <1>3, <2>1, MatrixAssumption DEF ExclusiveInput, TypeOK, MatrixTypeOK
  <2> QED
    BY <2>1, <2>2 DEF ShadowFollowsRecord, OutIsShadow, NothingYet, SymmetricLocks
<1> QED
  BY <1>1, <1>2, <1>3 DEF AddLock, AddExclusive

(* After a reset nothing is recorded and the shadow is zero. *)
LEMMA ResetNInv ==
  ASSUME NInv, Reset
  PROVE  NInv'
<1>1. /\ connected' = {} /\ ilock' = {} /\ excl' = {} /\ undriven' = {}
      /\ shadow' = AllOff
      /\ driver' = driver
      /\ out' \in PoweredUp({out})
  BY DEF Reset, MatrixReset
<1>2. attached' = ~Headless /\ committed' = FALSE
  BY DEF Reset, MatrixReset
<1>3. 0 \in Level /\ FULL \in Level
  BY FullLevel
<1>4. out' \in [Node -> Level]
  BY <1>1, <1>3 DEF NInv, TypeOK, PoweredUp, AllOff
<1>5. driver' \in Driver /\ shadow' \in [Node -> Level] /\ MatrixTypeOK'
  BY <1>1, <1>2, <1>3, MatrixAssumption DEF NInv, TypeOK, MatrixTypeOK, AllOff
<1>6. TypeOK'
  BY <1>1, <1>2, <1>4, <1>5 DEF TypeOK
<1>7. /\ ~Headless /\ driver # "dimmer" => out' = AllOff
      /\ driver = "recorder" => out' = AllOff
  BY <1>1 DEF PoweredUp
<1>8. OutIsShadow'
  BY <1>1, <1>2, <1>7, Zenon DEF OutIsShadow
<1>9. ShadowFollowsRecord' /\ SymmetricLocks'
  BY <1>1 DEF ShadowFollowsRecord, AllOff, SymmetricLocks
<1>10. NothingYet'
  BY <1>1, <1>2, Zenon DEF NothingYet
<1> QED
  BY <1>6, <1>8, <1>9, <1>10 DEF NInv

(* Every step preserves the invariant. *)
LEMMA NextNInv == NInv /\ [Next]_vars => NInv'
<1> SUFFICES ASSUME NInv, [Next]_vars PROVE NInv'
  OBVIOUS
<1>1. CASE UNCHANGED vars
  BY <1>1
  DEF vars, matrixVars, NInv, TypeOK, MatrixTypeOK, ShadowFollowsRecord, OutIsShadow,
      NothingYet, SymmetricLocks
<1>2. CASE Next
  BY <1>2, ConnectNInv, DisconnectNInv, SetLevelNInv, ClearAllNInv, ConfigureNInv, ResetNInv
  DEF Next
<1> QED
  BY <1>1, <1>2

(* NInv is an invariant of NonLatchingXPoint. *)
LEMMA NInvariance == Spec => []NInv
BY InitNInv, NextNInv, PTL DEF Spec

(***************************************************************************)
(* Type correctness.                                                       *)
(***************************************************************************)
THEOREM NonLatchingTyping == Spec => []TypeOK
<1>1. NInv => TypeOK
  BY DEF NInv
<1> QED
  BY <1>1, NInvariance, PTL

(***************************************************************************)
(* What is energised is what is recorded.                                  *)
(***************************************************************************)
THEOREM OutputsRight == Spec => []OutputFollowsRecord
<1>1. NInv => OutputFollowsRecord
  BY DEF NInv, OutIsShadow, ShadowFollowsRecord, OutputFollowsRecord
<1> QED
  BY <1>1, NInvariance, PTL

-------------------------------------------------------------------------------
(***************************************************************************)
(* No new short.  A node that comes on was allowed by the rules, which see *)
(* every other node that is on.                                            *)
(***************************************************************************)
LEMMA RivalForbids ==
  ASSUME NInv, NEW m \in Node, NEW n \in Node,
         m \in connected, m[2] = n[2], Exclude(m[1], n[1], m[2])
  PROVE  Forbidden(n, connected)
<1>1. m = <<m[1], m[2]>> /\ m[1] \in Row /\ n[1] \in Row /\ m[1] # n[1]
  BY DEF Node, Exclude
<1>2. m[1] \in OtherBusyRows(n, connected)
  BY <1>1 DEF OtherBusyRows
<1> QED
  BY <1>1, <1>2 DEF Forbidden, Exclude, NInv, SymmetricLocks

(* A node that the shadow has on is on already, at that level. *)
LEMMA ShadowIsOut ==
  ASSUME NInv, NEW n \in Node, shadow[n] > 0
  PROVE  out[n] = shadow[n]
BY DEF NInv, OutIsShadow, NothingYet, AllOff

(* An output stays as it was, or shows the driven level or the shadow. *)
LEMMA DriveOut ==
  ASSUME NEW S \in SUBSET Node, NEW level, Drive(S, level)
  PROVE  \A m \in Node :
           \/ out'[m] = out[m]
           \/ out'[m] = IF m \in S THEN level ELSE shadow[m]
BY DEF Drive

(* A node that comes on was driven by a request that the rules allowed,    *)
(* and that request turns nothing else on.                                 *)
LEMMA NewlyOn ==
  ASSUME NInv, [Next]_vars, ~Reset,
         NEW n \in Node, ~(out[n] > 0), out'[n] > 0
  PROVE  /\ ~Forbidden(n, connected)
         /\ \A m \in Node : m # n /\ out'[m] > 0 => m \in connected
<1> USE DEF NInv
<1>1. ~(shadow[n] > 0)
  BY ShadowIsOut
<1>2. ASSUME NEW m \in Node, NEW level, Drive({m}, level),
             level > 0 => ~Forbidden(m, connected)
      PROVE  /\ ~Forbidden(n, connected)
             /\ \A k \in Node : k # n /\ out'[k] > 0 => k \in connected
  <2>1. attached /\ \A k \in Node : out'[k] = IF k = m THEN level ELSE shadow[k]
    BY <1>2 DEF Drive
  <2>2. m = n
    BY <1>1, <2>1
  <2> QED
    BY <1>2, <2>1, <2>2 DEF ShadowFollowsRecord
<1>3. ASSUME NEW m \in Node, Connect(m)
      PROVE  /\ ~Forbidden(n, connected)
             /\ \A k \in Node : k # n /\ out'[k] > 0 => k \in connected
  BY <1>2, <1>3 DEF Connect
<1>4. ASSUME NEW m \in Node, Disconnect(m)
      PROVE  FALSE
  <2>1. Drive({m}, 0) /\ {m} \in SUBSET Node
    BY <1>4 DEF Disconnect
  <2> QED
    BY <1>1, <2>1, DriveOut
<1>5. ASSUME NEW m \in Node, NEW level \in Level, SetLevel(m, level)
      PROVE  /\ ~Forbidden(n, connected)
             /\ \A k \in Node : k # n /\ out'[k] > 0 => k \in connected
  <2>1. Drive({m}, Driven(level))
    BY <1>5 DEF SetLevel
  <2>2. Driven(level) > 0 => ~Forbidden(m, connected)
    BY <1>5, DrivenLevel DEF SetLevel
  <2> QED
    BY <1>2, <2>1, <2>2
<1>6. ASSUME ClearAll PROVE FALSE
  <2>1. Drive(connected, 0) /\ connected \in SUBSET Node
    BY <1>6 DEF ClearAll, TypeOK, MatrixTypeOK
  <2> QED
    BY <1>1, <2>1, DriveOut
<1>7. ASSUME Begin \/ AddLock \/ AddExclusive \/ UNCHANGED vars
      PROVE  FALSE
  BY <1>1, <1>7 DEF Begin, AllOff, AddLock, AddExclusive, vars
<1> QED
  BY <1>3, <1>4, <1>5, <1>6, <1>7 DEF Next

(* No step turns two excluded nodes into a short. *)
LEMMA NoStepShorts ==
  ASSUME NInv, [Next]_vars,
         NEW m \in Node, NEW n \in Node,
         m[2] = n[2], Exclude(m[1], n[1], m[2]), ~Short(m, n)
  PROVE  ~Short(m, n)'
<1>r. CASE Reset
  BY <1>r DEF Reset, MatrixReset, Short, Exclude
<1> SUFFICES ASSUME ~Reset, out'[m] > 0, out'[n] > 0 PROVE FALSE
  BY <1>r DEF Short
<1>1. Exclude(n[1], m[1], n[2]) /\ m # n
  BY DEF Exclude
<1>2. ASSUME ~(out[n] > 0) PROVE FALSE
  <2>1. ~Forbidden(n, connected) /\ m \in connected
    BY <1>1, <1>2, NewlyOn
  <2> QED
    BY <2>1, RivalForbids
<1>3. ASSUME ~(out[m] > 0) PROVE FALSE
  <2>1. ~Forbidden(m, connected) /\ n \in connected
    BY <1>1, <1>3, NewlyOn
  <2> QED
    BY <1>1, <2>1, RivalForbids
<1> QED
  BY <1>2, <1>3 DEF Short

(***************************************************************************)
(* No step energises two excluded rows in one column.                      *)
(***************************************************************************)
THEOREM OutputsKeptApart == Spec => NoNewShort
<1>1. NInv /\ [Next]_vars =>
        [\A m, n \in Node :
          (m[2] = n[2] /\ Exclude(m[1], n[1], m[2]) /\ ~Short(m, n))
            => ~Short(m, n)']_vars
  BY NoStepShorts
<1> QED
  BY <1>1, NInvariance, PTL DEF Spec, NoNewShort

-------------------------------------------------------------------------------
(***************************************************************************)
(* The refinement.  A request that records a node is Grant, one that drops *)
(* nodes, or records what is recorded, is Vacate.                          *)
(***************************************************************************)
LEMMA Records ==
  ASSUME TypeOK, NEW n \in Node, ~Forbidden(n, connected),
         connected' = connected \cup {n}, UNCHANGED <<ilock, excl>>
  PROVE  Arbiter!Next
<1>1. CASE n \in connected
  BY <1>1 DEF Arbiter!Next, Arbiter!Vacate
<1>2. CASE n \notin connected
  <2>1. ASSUME NEW m \in Arbiter!Rivals(n) PROVE FALSE
    <3>1. /\ m \in connected /\ m[2] = n[2] /\ m[1] # n[1]
          /\ <<n[1], m[1]>> \in ilock \/ n[2] \in excl
      BY DEF Arbiter!Rivals
    <3>2. m = <<m[1], m[2]>> /\ m[1] \in Row
      BY <3>1 DEF TypeOK, MatrixTypeOK, Node
    <3>3. m[1] \in OtherBusyRows(n, connected)
      BY <3>1, <3>2 DEF OtherBusyRows
    <3> QED
      BY <3>1, <3>3 DEF Forbidden
  <2>2. Arbiter!Grant(n)
    BY <1>2, <2>1 DEF Arbiter!Grant
  <2> QED
    BY <2>2 DEF Arbiter!Next, Node
<1> QED
  BY <1>1, <1>2

(* Dropping nodes from the record is Vacate. *)
LEMMA Drops ==
  ASSUME connected' \subseteq connected, UNCHANGED <<ilock, excl>>
  PROVE  Arbiter!Next
BY DEF Arbiter!Next, Arbiter!Vacate

(* Every step is one of the arbiter, or a stutter. *)
LEMMA StepArbitrates ==
  ASSUME TypeOK, [Next]_vars
  PROVE  [Arbiter!Next]_(Arbiter!vars)
<1>1. ASSUME NEW n \in Node, Connect(n) PROVE Arbiter!Next
  BY <1>1, Records DEF Connect
<1>2. ASSUME NEW n \in Node, Disconnect(n) PROVE Arbiter!Next
  BY <1>2, Drops DEF Disconnect
<1>3. ASSUME NEW n \in Node, NEW level \in Level, SetLevel(n, level) PROVE Arbiter!Next
  <2>1. CASE level > 0
    BY <1>3, <2>1, Records DEF SetLevel
  <2>2. CASE ~(level > 0)
    BY <1>3, <2>2, Drops DEF SetLevel
  <2> QED
    BY <2>1, <2>2
<1>4. CASE ClearAll
  BY <1>4, Drops DEF ClearAll
<1>5. CASE Begin
  BY <1>5, Drops DEF Begin, SetDriver
<1>6. CASE AddLock
  <2>1. PICK p \in LockArgs : LockRows(p[1], p[2])
    BY <1>6 DEF AddLock
  <2>2. p[1] \in Row /\ p[2] \in Row
    BY MatrixAssumption
  <2> QED
    BY <2>1, <2>2 DEF LockRows, Arbiter!Next, Arbiter!AddRule
<1>7. CASE AddExclusive
  BY <1>7, MatrixAssumption
  DEF AddExclusive, ExclusiveInput, Arbiter!Next, Arbiter!AddRule
<1>8. CASE UNCHANGED vars
  BY <1>8 DEF vars, matrixVars, Arbiter!vars
<1>9. CASE Reset
  BY <1>9 DEF Reset, MatrixReset, Arbiter!Next, Arbiter!Reset
<1> QED
  BY <1>1, <1>2, <1>3, <1>4, <1>5, <1>6, <1>7, <1>8, <1>9 DEF Next

(***************************************************************************)
(* The non-latching matrix implements the abstract arbiter.                *)
(***************************************************************************)
THEOREM NonLatchingImplements == Spec => Arbitrates
<1>1. Init => Arbiter!Init
  BY DEF Init, MatrixInit, Arbiter!Init
<1>2. TypeOK /\ [Next]_vars => [Arbiter!Next]_(Arbiter!vars)
  BY StepArbitrates
<1> QED
  BY <1>1, <1>2, NonLatchingTyping, PTL DEF Spec, Arbitrates, Arbiter!Spec
===============================================================================
