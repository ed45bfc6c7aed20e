-------------------------- MODULE LatchingXPointProof --------------------------
(***************************************************************************)
(* Theorems about LatchingXPoint, for every size of the matrix, of the     *)
(* pulse table and of the clock.  The argument is in README.md.            *)
(***************************************************************************)
EXTENDS LatchingXPoint, TLAPS

(***************************************************************************)
(* The clock.  As long as less than CLOCK_RANGE has passed since t0, the   *)
(* unsigned subtraction in update() measures it, also across the wrap.     *)
(***************************************************************************)
LEMMA ElapsedType ==
  ASSUME NEW t \in Clock, NEW t0 \in Clock
  PROVE  /\ Elapsed(t, t0) \in Nat
         /\ Elapsed(t, t) = 0
BY TimingAssumption DEF Clock, Elapsed

(* Time that passes is added to what the subtraction shows. *)
LEMMA ElapsedGrows ==
  ASSUME NEW t \in Clock, NEW t0 \in Clock, NEW d \in Nat,
         Elapsed(t, t0) + d < CLOCK_RANGE
  PROVE  Elapsed(Later(t, d), t0) = Elapsed(t, t0) + d
BY TimingAssumption DEF Clock, Elapsed, Later

(* The clock stays in its range. *)
LEMMA LaterType ==
  ASSUME NEW t \in Clock, NEW d \in Nat, d < CLOCK_RANGE
  PROVE  Later(t, d) \in Clock
BY TimingAssumption DEF Clock, Later

-------------------------------------------------------------------------------
(***************************************************************************)
(* The inductive invariant.  A node has at most one slot, an energised     *)
(* coil has one; the time that a slot's record shows and the time that its *)
(* coil has been on differ by what one call takes, and neither outlives    *)
(* the update() that follows its end.                                      *)
(***************************************************************************)
Slack == IF PDUR = 0 THEN 0 ELSE PDUR - 1 + CALL_MS

AgeSlack == IF PDUR = 0 THEN 0 ELSE PDUR - 1 + 2 * CALL_MS

OneSlot ==
  \A i, j \in Slot :
    pulses[i].on /\ pulses[j].on /\ pulses[i].node = pulses[j].node => i = j

CoilHasSlot == \A n \in Node : coil[n] # "off" => n \in Pending

SlotTimed ==
  \A i \in Slot : pulses[i].on =>
    Elapsed(millis, pulses[i].t0) <= sinceUpdate + Slack

AgeTimed ==
  \A i \in Slot :
    pulses[i].on /\ coil[pulses[i].node] # "off" =>
      /\ age[pulses[i].node] <= Elapsed(millis, pulses[i].t0) + CALL_MS
      /\ Elapsed(millis, pulses[i].t0) <= age[pulses[i].node] + CALL_MS

(* A SET coil is on before its slot is stamped. *)
SetTimed ==
  \A i \in Slot :
    pulses[i].on /\ coil[pulses[i].node] = "set" =>
      Elapsed(millis, pulses[i].t0) <= age[pulses[i].node]

AgeBounded ==
  \A n \in Node :
    /\ coil[n] = "off" => age[n] = 0
    /\ coil[n] # "off" => age[n] <= sinceUpdate + AgeSlack

NoDriverNoCoil == ~attached => \A n \in Node : coil[n] = "off"

SymmetricLocks == \A a, b \in Row : <<a, b>> \in ilock => <<b, a>> \in ilock

IInv ==
  /\ TypeOK
  /\ OneSlot
  /\ CoilHasSlot
  /\ SlotTimed
  /\ AgeTimed
  /\ SetTimed
  /\ AgeBounded
  /\ CoilFollowsRecord
  /\ NoDriverNoCoil
  /\ SymmetricLocks

(* The constructor establishes the invariant. *)
LEMMA InitIInv == Init => IInv
<1> SUFFICES ASSUME Init PROVE IInv
  OBVIOUS
<1>1. TypeOK
  BY TimingAssumption, MatrixAssumption
  DEF Init, CoilsOff, TypeOK, MatrixInit, MatrixTypeOK, PulseEvent, Free
<1>2. OneSlot /\ SlotTimed /\ AgeTimed /\ SetTimed
  BY DEF Init, CoilsOff, OneSlot, SlotTimed, AgeTimed, SetTimed, Free
<1>3. CoilHasSlot /\ AgeBounded /\ CoilFollowsRecord
  BY DEF Init, CoilsOff, CoilHasSlot, AgeBounded, CoilFollowsRecord
<1>4. SymmetricLocks /\ NoDriverNoCoil
  BY DEF Init, CoilsOff, MatrixInit, SymmetricLocks, NoDriverNoCoil
<1> QED
  BY <1>1, <1>2, <1>3, <1>4 DEF IInv

-------------------------------------------------------------------------------
(* A slot that is taken holds a PulseEvent. *)
LEMMA PulseType ==
  ASSUME NEW n \in Node, NEW t \in Clock
  PROVE  Pulse(n, t) \in PulseEvent
BY DEF Pulse, PulseEvent

(***************************************************************************)
(* Time that passes between two update()s is seen by every running pulse.  *)
(***************************************************************************)
LEMMA SlotType ==
  ASSUME TypeOK, NEW i \in Slot, pulses[i].on
  PROVE  pulses[i].node \in Node /\ pulses[i].t0 \in Clock
<1>1. pulses[i] \in PulseEvent
  BY DEF TypeOK
<1>2. pulses[i] # Free
  BY DEF Free
<1>3. pulses[i] \in [node : Node, t0 : Clock, on : {TRUE}]
  BY <1>1, <1>2 DEF PulseEvent
<1> QED
  BY <1>3

(* Before the next update() a slot cannot have outlived the clock. *)
LEMMA PassSeen ==
  ASSUME IInv, NEW d \in Nat, sinceUpdate + d <= LOOP_GAP,
         NEW i \in Slot, pulses[i].on
  PROVE  Elapsed(Later(millis, d), pulses[i].t0) = Elapsed(millis, pulses[i].t0) + d
<1>1. pulses[i].t0 \in Clock /\ millis \in Clock /\ sinceUpdate \in Nat
  BY SlotType, TimingAssumption DEF IInv, TypeOK
<1>2. Elapsed(millis, pulses[i].t0) <= sinceUpdate + Slack
  BY DEF IInv, SlotTimed
<1>3. Elapsed(millis, pulses[i].t0) \in Nat
  BY <1>1, ElapsedType
<1>4. Elapsed(millis, pulses[i].t0) + d < CLOCK_RANGE
  BY <1>1, <1>2, <1>3, TimingAssumption DEF Slack
<1> QED
  BY <1>1, <1>4, ElapsedGrows

(* Time that passes keeps the clock and its bound in range. *)
LEMMA PassType ==
  ASSUME TypeOK, NEW d \in Nat, Pass(d)
  PROVE  /\ millis' \in Clock
         /\ sinceUpdate' \in 0 .. LOOP_GAP
BY LaterType, TimingAssumption DEF TypeOK, Pass

(***************************************************************************)
(* What setNodeHardware() does to the relays, as facts about each node.    *)
(***************************************************************************)
LEMMA EnergiseType ==
  ASSUME TypeOK, NEW S \in SUBSET Node, NEW on \in BOOLEAN,
         NEW ms \in Nat, NEW d \in Nat, Energise(S, on, ms, d)
  PROVE  /\ coil' \in [Node -> {"off", "set", "reset"}]
         /\ age' \in [Node -> Nat]
         /\ contact' \in [Node -> {"open", "closed", "moving"}]
BY DEF TypeOK, Energise, Aged, Coil, Pulled, Rest

(* The coils of S are switched, the other coils age. *)
LEMMA Energised ==
  ASSUME TypeOK, NEW S \in SUBSET Node, NEW on \in BOOLEAN,
         NEW ms \in Nat, NEW d \in Nat, Energise(S, on, ms, d)
  PROVE  \A n \in Node :
           /\ n \in S /\ attached =>
                /\ coil'[n] = IF on THEN "set" ELSE "reset"
                /\ age'[n] = ms
           /\ n \notin S \/ ~attached =>
                /\ coil'[n] = coil[n]
                /\ contact'[n] = contact[n]
                /\ age'[n] = IF coil[n] = "off" THEN 0 ELSE age[n] + d
BY DEF TypeOK, Energise, Aged, Coil

-------------------------------------------------------------------------------
(***************************************************************************)
(* connect(), disconnect() and setLevel() preserve the invariant.          *)
(***************************************************************************)
LEMMA StartPulseIInv ==
  ASSUME IInv, NEW n \in Node, NEW on \in BOOLEAN, NEW d \in 0 .. CALL_MS,
         StartPulse(n, on, d)
  PROVE  IInv'
<1> USE DEF IInv
<1>0. d \in Nat /\ d <= CALL_MS
  BY TimingAssumption
<1>1. /\ millis' = Later(millis, d)
      /\ sinceUpdate' = sinceUpdate + d
      /\ sinceUpdate + d <= LOOP_GAP
      /\ millis' \in Clock
      /\ sinceUpdate' \in 0 .. LOOP_GAP
      /\ sinceUpdate \in Nat
  BY <1>0, PassType DEF StartPulse, Pass, TypeOK
<1>2. n \notin Pending
  BY DEF StartPulse
<1>3. PICK i \in Slot : /\ ~pulses[i].on
                        /\ pulses' = [pulses EXCEPT ![i] = Pulse(n, millis')]
  BY <1>1 DEF StartPulse, FirstFree, FreeSlots
<1>4. /\ pulses'[i] = [node |-> n, t0 |-> millis', on |-> TRUE]
      /\ \A j \in Slot \ {i} : pulses'[j] = pulses[j]
  BY <1>3 DEF TypeOK, Pulse
<1>5. \A j \in Slot : pulses[j].on => pulses[j].node # n
  BY <1>2 DEF Pending, PulsePending
<1>6. \A j \in Slot : pulses[j].on =>
        /\ pulses[j].node \in Node
        /\ Elapsed(millis', pulses[j].t0) = Elapsed(millis, pulses[j].t0) + d
        /\ Elapsed(millis, pulses[j].t0) \in Nat
  BY <1>0, <1>1, PassSeen, SlotType, ElapsedType DEF TypeOK
<1>7. Energise({n}, on, d, d)
  BY DEF StartPulse
<1>8. \A m \in Node :
        /\ m = n /\ attached =>
             /\ coil'[m] = IF on THEN "set" ELSE "reset"
             /\ age'[m] = d
        /\ m # n \/ ~attached =>
             /\ coil'[m] = coil[m]
             /\ age'[m] = IF coil[m] = "off" THEN 0 ELSE age[m] + d
  <2>1. \A m \in Node :
          /\ m \in {n} /\ attached =>
               /\ coil'[m] = IF on THEN "set" ELSE "reset"
               /\ age'[m] = d
          /\ m \notin {n} \/ ~attached =>
               /\ coil'[m] = coil[m]
               /\ contact'[m] = contact[m]
               /\ age'[m] = IF coil[m] = "off" THEN 0 ELSE age[m] + d
    BY <1>0, <1>7, Energised, {n} \in SUBSET Node
  <2> QED
    BY <2>1
<1>9. coil[n] = "off"
  BY <1>2 DEF CoilHasSlot
<1>10. connected' = IF on THEN connected \cup {n} ELSE connected \ {n}
  BY DEF StartPulse
<1>11. UNCHANGED <<ilock, excl, attached>>
  BY DEF StartPulse
<1>12. TypeOK'
  <2>1. MatrixTypeOK'
    BY <1>10, <1>11 DEF TypeOK, MatrixTypeOK
  <2>2. Pulse(n, millis') \in PulseEvent
    BY <1>1 DEF Pulse, PulseEvent
  <2>3. pulses' \in [Slot -> PulseEvent]
    BY <1>3, <2>2 DEF TypeOK
  <2>4. /\ coil' \in [Node -> {"off", "set", "reset"}]
        /\ age' \in [Node -> Nat]
        /\ contact' \in [Node -> {"open", "closed", "moving"}]
    BY <1>0, <1>7, EnergiseType, {n} \in SUBSET Node
  <2>5. (undriven \subseteq Node)'
    BY DEF StartPulse, TypeOK
  <2> QED
    BY <1>1, <2>1, <2>3, <2>4, <2>5 DEF TypeOK
<1>13. OneSlot'
  BY <1>4, <1>5 DEF OneSlot
<1>14. \A m \in Node : m \in Pending \/ m = n => m \in Pending'
  BY <1>3, <1>4 DEF Pending, PulsePending
<1>15. CoilHasSlot'
  BY <1>8, <1>14 DEF CoilHasSlot
<1>16. SlotTimed'
  <2>1. Elapsed(millis', millis') = 0
    BY <1>1, ElapsedType
  <2> SUFFICES ASSUME NEW j \in Slot, pulses'[j].on
               PROVE  Elapsed(millis', pulses'[j].t0) <= sinceUpdate' + Slack
    BY DEF SlotTimed, Slack
  <2>2. Slack \in Nat
    BY TimingAssumption DEF Slack
  <2>3. CASE j = i
    BY <1>0, <1>1, <1>4, <2>1, <2>2, <2>3
  <2>4. CASE j # i
    <3>1. pulses'[j] = pulses[j] /\ pulses[j].on
      BY <1>4, <2>4
    <3> QED
      BY <1>0, <1>1, <1>6, <2>2, <3>1 DEF SlotTimed
  <2> QED
    BY <2>3, <2>4
<1>17. AgeTimed'
  <2>1. Elapsed(millis', millis') = 0
    BY <1>1, ElapsedType
  <2> SUFFICES ASSUME NEW j \in Slot, pulses'[j].on, coil'[pulses'[j].node] # "off"
               PROVE  /\ age'[pulses'[j].node] <= Elapsed(millis', pulses'[j].t0) + CALL_MS
                      /\ Elapsed(millis', pulses'[j].t0) <= age'[pulses'[j].node] + CALL_MS
    BY DEF AgeTimed
  <2>2. CASE j = i
    BY <1>0, <1>4, <1>8, <1>9, <2>1, <2>2, TimingAssumption
  <2>3. CASE j # i
    <3>1. pulses'[j] = pulses[j] /\ pulses[j].on /\ pulses[j].node # n
      BY <1>4, <1>5, <2>3
    <3>2. pulses[j].node \in Node /\ coil[pulses[j].node] # "off"
      BY <1>6, <1>8, <3>1
    <3>3. age'[pulses[j].node] = age[pulses[j].node] + d
      BY <1>8, <3>1, <3>2
    <3>4. age[pulses[j].node] \in Nat
      BY <3>2 DEF TypeOK
    <3> QED
      BY <1>0, <1>6, <3>1, <3>2, <3>3, <3>4, TimingAssumption DEF AgeTimed
  <2> QED
    BY <2>2, <2>3
<1>18. AgeBounded'
  BY <1>0, <1>1, <1>8, TimingAssumption DEF AgeBounded, AgeSlack, TypeOK
<1>19. CoilFollowsRecord'
  BY <1>8, <1>9, <1>10 DEF CoilFollowsRecord
<1>20. SymmetricLocks'
  BY <1>11 DEF SymmetricLocks
<1>21. NoDriverNoCoil'
  BY <1>8, <1>11 DEF NoDriverNoCoil
<1>22. SetTimed'
  <2> SUFFICES ASSUME NEW j \in Slot, pulses'[j].on, coil'[pulses'[j].node] = "set"
               PROVE  Elapsed(millis', pulses'[j].t0) <= age'[pulses'[j].node]
    BY DEF SetTimed
  <2>1. CASE j = i
    <3>1. Elapsed(millis', pulses'[j].t0) = 0
      BY <1>1, <1>4, <2>1, ElapsedType
    <3>2. age'[n] = d
      BY <1>4, <1>8, <1>9, <2>1
    <3> QED
      BY <1>0, <1>4, <2>1, <3>1, <3>2
  <2>2. CASE j # i
    <3>1. pulses'[j] = pulses[j] /\ pulses[j].on /\ pulses[j].node # n
      BY <1>4, <1>5, <2>2
    <3>2. pulses[j].node \in Node /\ coil[pulses[j].node] = "set"
      BY <1>6, <1>8, <3>1
    <3>3. age'[pulses[j].node] = age[pulses[j].node] + d /\ age[pulses[j].node] \in Nat
      BY <1>8, <3>1, <3>2 DEF TypeOK
    <3> QED
      BY <1>0, <1>6, <3>1, <3>2, <3>3 DEF SetTimed
  <2> QED
    BY <2>1, <2>2
<1> QED
  BY <1>12, <1>13, <1>15, <1>16, <1>17, <1>18, <1>19, <1>20, <1>21, <1>22

-------------------------------------------------------------------------------
(***************************************************************************)
(* clearAll() preserves the invariant: the slots that it hands out go to   *)
(* nodes that have none, each to another node.                             *)
(***************************************************************************)
LEMMA HandedOut ==
  ASSUME TypeOK, NEW S \in SUBSET FreeSlots, NEW f \in [S -> connected],
         SlotsHandedOut(f)
  PROVE  /\ \A i \in S : f[i] \in Node /\ f[i] \in connected /\ f[i] \notin Pending
         /\ \A i, j \in S : f[i] = f[j] => i = j
<1>1. \A i \in S : f[i] \in connected /\ f[i] \in Node
  BY DEF TypeOK, MatrixTypeOK
<1>2. \A i \in S : f[i] \notin Pending
  BY DEF SlotsHandedOut
<1>3. ASSUME NEW i \in S, NEW j \in S, f[i] = f[j], i < j
      PROVE  FALSE
  <2>1. Before(f[i], f[i])
    BY <1>3 DEF SlotsHandedOut
  <2>2. f[i][1] \in Int /\ f[i][2] \in Int
    BY <1>1 DEF Node, Row, Col
  <2> QED
    BY <2>1, <2>2 DEF Before
<1>4. S \subseteq Int
  BY TimingAssumption DEF FreeSlots, Slot
<1> QED
  BY <1>1, <1>2, <1>3, <1>4

(* clearAll() preserves the invariant. *)
LEMMA ClearAllIInv ==
  ASSUME IInv, NEW d \in 0 .. CALL_MS, ClearAll(d)
  PROVE  IInv'
<1> USE DEF IInv
<1>0. d \in Nat /\ d <= CALL_MS /\ CALL_MS \in Nat
  BY TimingAssumption
<1>1. /\ millis' = Later(millis, d)
      /\ sinceUpdate' = sinceUpdate + d
      /\ sinceUpdate + d <= LOOP_GAP
      /\ millis' \in Clock
      /\ millis \in Clock
      /\ sinceUpdate' \in 0 .. LOOP_GAP
      /\ sinceUpdate \in Nat
  BY <1>0, PassType DEF ClearAll, Pass, TypeOK
<1>2. PICK S \in SUBSET FreeSlots : \E f \in [S -> connected] :
        /\ SlotsHandedOut(f)
        /\ pulses' = [i \in Slot |->
             IF i \in S THEN Pulse(f[i], millis)
             ELSE IF pulses[i].on /\ pulses[i].node \in ToCancel
                  THEN Pulse(pulses[i].node, millis)
                  ELSE pulses[i]]
        /\ Energise(ToCancel \cup {f[i] : i \in S}, FALSE, 0, d)
  BY DEF ClearAll
<1>3. PICK f \in [S -> connected] :
        /\ SlotsHandedOut(f)
        /\ pulses' = [i \in Slot |->
             IF i \in S THEN Pulse(f[i], millis)
             ELSE IF pulses[i].on /\ pulses[i].node \in ToCancel
                  THEN Pulse(pulses[i].node, millis)
                  ELSE pulses[i]]
        /\ Energise(ToCancel \cup {f[i] : i \in S}, FALSE, 0, d)
  BY <1>2
<1> DEFINE D == ToCancel \cup {f[i] : i \in S}
<1>4. /\ \A i \in S : f[i] \in Node /\ f[i] \in connected /\ f[i] \notin Pending
      /\ \A i, j \in S : f[i] = f[j] => i = j
  BY <1>3, HandedOut
<1>5. /\ S \subseteq Slot
      /\ \A i \in S : ~pulses[i].on
  BY DEF FreeSlots
<1>6. D \in SUBSET Node /\ D \subseteq connected
  BY <1>4 DEF ToCancel, Pending
<1>7. \A i \in Slot :
        /\ i \in S => pulses'[i] = Pulse(f[i], millis)
        /\ i \notin S /\ pulses[i].on /\ pulses[i].node \in ToCancel =>
             pulses'[i] = Pulse(pulses[i].node, millis)
        /\ i \notin S /\ ~(pulses[i].on /\ pulses[i].node \in ToCancel) =>
             pulses'[i] = pulses[i]
  BY <1>3
<1>7a. \A i \in Slot :
         /\ i \in S =>
              /\ pulses'[i].on
              /\ pulses'[i].node = f[i]
              /\ pulses'[i].t0 = millis
         /\ i \notin S /\ pulses[i].on =>
              /\ pulses'[i].on
              /\ pulses'[i].node = pulses[i].node
         /\ i \notin S /\ pulses'[i].on =>
              /\ pulses[i].on
              /\ pulses'[i].node = pulses[i].node
              /\ pulses[i].node \in ToCancel => pulses'[i].t0 = millis
              /\ pulses[i].node \notin ToCancel => pulses'[i] = pulses[i]
  <2> SUFFICES ASSUME NEW i \in Slot
               PROVE
         /\ i \in S =>
              /\ pulses'[i].on
              /\ pulses'[i].node = f[i]
              /\ pulses'[i].t0 = millis
         /\ i \notin S /\ pulses[i].on =>
              /\ pulses'[i].on
              /\ pulses'[i].node = pulses[i].node
         /\ i \notin S /\ pulses'[i].on =>
              /\ pulses[i].on
              /\ pulses'[i].node = pulses[i].node
              /\ pulses[i].node \in ToCancel => pulses'[i].t0 = millis
              /\ pulses[i].node \notin ToCancel => pulses'[i] = pulses[i]
    OBVIOUS
  <2>1. CASE i \in S
    <3>1. pulses'[i] = Pulse(f[i], millis)
      BY <1>7, <2>1
    <3>2. pulses'[i].node = f[i] /\ pulses'[i].t0 = millis
      BY ONLY <3>1 DEF Pulse
    <3>3. pulses'[i].on = TRUE
      BY ONLY <3>1 DEF Pulse
    <3> QED
      BY <1>5, <2>1, <3>2, <3>3
  <2>2. CASE i \notin S /\ pulses[i].on /\ pulses[i].node \in ToCancel
    <3>1. pulses'[i] = Pulse(pulses[i].node, millis)
      BY <1>7, <2>2
    <3>2. pulses'[i].node = pulses[i].node /\ pulses'[i].t0 = millis
      BY ONLY <3>1 DEF Pulse
    <3>3. pulses'[i].on = TRUE
      BY ONLY <3>1 DEF Pulse
    <3> QED
      BY <2>2, <3>2, <3>3
  <2>3. CASE i \notin S /\ ~(pulses[i].on /\ pulses[i].node \in ToCancel)
    <3>1. pulses'[i] = pulses[i]
      BY <1>7, <2>3
    <3> QED
      BY <2>3, <3>1
  <2> QED
    BY <2>1, <2>2, <2>3
<1>8. \A n \in Node :
        /\ n \in D /\ attached => coil'[n] = "reset" /\ age'[n] = 0
        /\ n \notin D \/ ~attached =>
             /\ coil'[n] = coil[n]
             /\ age'[n] = IF coil[n] = "off" THEN 0 ELSE age[n] + d
  <2>1. Energise(D, FALSE, 0, d)
    BY <1>3
  <2>2. \A n \in Node :
          /\ n \in D /\ attached =>
               /\ coil'[n] = IF FALSE THEN "set" ELSE "reset"
               /\ age'[n] = 0
          /\ n \notin D \/ ~attached =>
               /\ coil'[n] = coil[n]
               /\ contact'[n] = contact[n]
               /\ age'[n] = IF coil[n] = "off" THEN 0 ELSE age[n] + d
    <3> HIDE DEF D
    <3> QED
      BY <1>0, <1>6, <2>1, Energised
  <2> QED
    BY <2>2
<1>9. \A i \in Slot : pulses[i].on =>
        /\ pulses[i].node \in Node
        /\ pulses[i].node \in Pending
        /\ pulses[i].t0 \in Clock
        /\ Elapsed(millis', pulses[i].t0) = Elapsed(millis, pulses[i].t0) + d
        /\ Elapsed(millis, pulses[i].t0) \in Nat
  BY <1>0, <1>1, PassSeen, SlotType, ElapsedType DEF TypeOK, Pending, PulsePending
<1>10. Elapsed(millis', millis) = d
  <2>1. Elapsed(millis, millis) = 0 /\ d < CLOCK_RANGE
    BY <1>0, <1>1, ElapsedType, TimingAssumption
  <2> QED
    BY <1>0, <1>1, <2>1, ElapsedGrows
<1>11. connected' = {} /\ UNCHANGED <<ilock, excl, attached>>
  BY DEF ClearAll
<1>12. TypeOK'
  <2>1. MatrixTypeOK'
    BY <1>11 DEF TypeOK, MatrixTypeOK
  <2>2. \A i \in Slot : pulses'[i] \in PulseEvent
    <3> SUFFICES ASSUME NEW i \in Slot PROVE pulses'[i] \in PulseEvent
      OBVIOUS
    <3>1. CASE i \in S
      BY <1>1, <1>4, <1>7, <3>1, PulseType
    <3>2. CASE i \notin S /\ pulses[i].on /\ pulses[i].node \in ToCancel
      BY <1>1, <1>7, <1>9, <3>2, PulseType
    <3>3. CASE i \notin S /\ ~(pulses[i].on /\ pulses[i].node \in ToCancel)
      BY <1>7, <3>3 DEF TypeOK
    <3> QED
      BY <3>1, <3>2, <3>3
  <2>3. pulses' \in [Slot -> PulseEvent]
    BY <1>3, <2>2
  <2>4. /\ coil' \in [Node -> {"off", "set", "reset"}]
        /\ age' \in [Node -> Nat]
        /\ contact' \in [Node -> {"open", "closed", "moving"}]
    <3>1. Energise(D, FALSE, 0, d)
      BY <1>3
    <3> HIDE DEF D
    <3> QED
      BY <1>0, <1>6, <3>1, EnergiseType
  <2>5. (undriven \subseteq Node)'
    BY DEF ClearAll, TypeOK, MatrixTypeOK
  <2> QED
    BY <1>1, <2>1, <2>3, <2>4, <2>5 DEF TypeOK
<1>13. OneSlot'
  <2> SUFFICES ASSUME NEW i \in Slot, NEW j \in Slot, pulses'[i].on, pulses'[j].on,
                      pulses'[i].node = pulses'[j].node
               PROVE  i = j
    BY DEF OneSlot
  <2>1. \A k \in Slot \ S : pulses'[k].on =>
          pulses[k].on /\ pulses'[k].node = pulses[k].node /\ pulses[k].node \in Pending
    BY <1>7a, <1>9
  <2>2. \A k \in S : pulses'[k].node = f[k] /\ f[k] \notin Pending
    BY <1>4, <1>5, <1>7a
  <2>3. CASE i \in S /\ j \in S
    BY <1>4, <2>2, <2>3
  <2>4. CASE i \notin S /\ j \notin S
    BY <2>1, <2>4 DEF OneSlot
  <2> QED
    BY <2>1, <2>2, <2>3, <2>4
<1>14. \A n \in Node : n \in Pending \/ n \in D => n \in Pending'
  <2>1. \A i \in Slot : i \in S => pulses'[i].on /\ pulses'[i].node = f[i]
    BY <1>7a
  <2>2. \A i \in Slot : pulses[i].on => pulses'[i].on /\ pulses'[i].node = pulses[i].node
    BY <1>5, <1>7a
  <2> QED
    BY <1>5, <2>1, <2>2 DEF Pending, PulsePending, ToCancel
<1>15. CoilHasSlot'
  BY <1>8, <1>14 DEF CoilHasSlot
<1>16. SlotTimed'
  <2> SUFFICES ASSUME NEW j \in Slot, pulses'[j].on
               PROVE  Elapsed(millis', pulses'[j].t0) <= sinceUpdate' + Slack
    BY DEF SlotTimed, Slack
  <2>1. Slack \in Nat
    BY TimingAssumption DEF Slack
  <2>2. CASE pulses'[j].t0 = millis
    BY <1>0, <1>1, <1>10, <2>1, <2>2
  <2>3. CASE pulses'[j] = pulses[j]
    BY <1>0, <1>1, <1>9, <2>1, <2>3 DEF SlotTimed
  <2> QED
    BY <1>7a, <2>2, <2>3 DEF ToCancel
<1>17. AgeTimed'
  <2> SUFFICES ASSUME NEW j \in Slot, pulses'[j].on, coil'[pulses'[j].node] # "off"
               PROVE  /\ age'[pulses'[j].node] <= Elapsed(millis', pulses'[j].t0) + CALL_MS
                      /\ Elapsed(millis', pulses'[j].t0) <= age'[pulses'[j].node] + CALL_MS
    BY DEF AgeTimed
  <2>1. attached
    <3>1. pulses'[j].node \in Node
      BY <1>4, <1>9, <1>7a
    <3> QED
      BY <1>8, <3>1 DEF NoDriverNoCoil
  <2>2. CASE pulses'[j].node \in D
    <3>1. age'[pulses'[j].node] = 0
      BY <1>6, <1>8, <2>1, <2>2
    <3>2. pulses'[j].t0 = millis
      <4>1. CASE j \in S
        BY <1>7a, <4>1
      <4>2. CASE j \notin S
        <5>1. pulses[j].on /\ pulses[j].node = pulses'[j].node
          BY <1>7a, <4>2
        <5>2. pulses[j].node \in ToCancel
          BY <1>6, <1>9, <2>2, <5>1 DEF ToCancel
        <5> QED
          BY <1>7a, <4>2, <5>1, <5>2
      <4> QED
        BY <4>1, <4>2
    <3> QED
      BY <1>0, <1>10, <3>1, <3>2
  <2>3. CASE pulses'[j].node \notin D
    <3>1. pulses'[j] = pulses[j] /\ pulses[j].on
      BY <1>7a, <2>3 DEF ToCancel
    <3>2. pulses[j].node \in Node /\ coil[pulses[j].node] # "off"
      BY <1>8, <1>9, <2>3, <3>1
    <3>3. age'[pulses[j].node] = age[pulses[j].node] + d
      BY <1>8, <2>3, <3>1, <3>2
    <3>4. age[pulses[j].node] \in Nat
      BY <3>2 DEF TypeOK
    <3> QED
      BY <1>0, <1>9, <3>1, <3>2, <3>3, <3>4 DEF AgeTimed
  <2> QED
    BY <2>2, <2>3
<1>18. AgeBounded'
  BY <1>0, <1>1, <1>8, TimingAssumption DEF AgeBounded, AgeSlack, TypeOK
<1>19. CoilFollowsRecord'
  BY <1>8, <1>11 DEF CoilFollowsRecord, CoilHasSlot, ToCancel, NoDriverNoCoil
<1>20. SymmetricLocks'
  BY <1>11 DEF SymmetricLocks
<1>21. NoDriverNoCoil'
  BY <1>8, <1>11 DEF NoDriverNoCoil
<1>22. SetTimed'
  <2>1. \A n \in Node : coil'[n] # "set"
    BY <1>11, <1>19 DEF CoilFollowsRecord
  <2>2. \A i \in Slot : pulses'[i].on => pulses'[i].node \in Node
    BY <1>4, <1>7a, <1>9
  <2> QED
    BY <2>1, <2>2 DEF SetTimed
<1> QED
  BY <1>12, <1>13, <1>15, <1>16, <1>17, <1>18, <1>19, <1>20, <1>21, <1>22

-------------------------------------------------------------------------------
(***************************************************************************)
(* update() preserves the invariant: a pulse that it leaves running is     *)
(* younger than PDUR, so its age is bounded until the next update().       *)
(***************************************************************************)
LEMMA UpdateIInv ==
  ASSUME IInv, NEW d \in 0 .. CALL_MS, Update(d)
  PROVE  IInv'
<1> USE DEF IInv
<1> DEFINE Out == {n \in Node : \E i \in Slot : Due(i) /\ pulses[i].node = n}
<1>0. d \in Nat /\ d <= CALL_MS /\ CALL_MS \in Nat /\ PDUR \in Nat
  BY TimingAssumption
<1>1. /\ millis' = Later(millis, d)
      /\ millis' \in Clock
      /\ millis \in Clock
      /\ sinceUpdate' = 0
  BY <1>0, LaterType, TimingAssumption DEF Update, Release, TypeOK
<1>2. \A i \in Slot : pulses'[i] = IF Due(i) THEN Free ELSE pulses[i]
  BY DEF Update, Release
<1>3. \A i \in Slot : pulses'[i].on => ~Due(i) /\ pulses'[i] = pulses[i] /\ pulses[i].on
  BY <1>2 DEF Free
<1>4. \A i \in Slot : pulses'[i].on =>
        /\ pulses[i].node \in Node
        /\ Elapsed(millis, pulses[i].t0) \in Nat
        /\ Elapsed(millis, pulses[i].t0) < PDUR
        /\ Elapsed(millis', pulses[i].t0) = Elapsed(millis, pulses[i].t0) + d
  <2> SUFFICES ASSUME NEW i \in Slot, pulses'[i].on
               PROVE  /\ pulses[i].node \in Node
                      /\ Elapsed(millis, pulses[i].t0) \in Nat
                      /\ Elapsed(millis, pulses[i].t0) < PDUR
                      /\ Elapsed(millis', pulses[i].t0)
                           = Elapsed(millis, pulses[i].t0) + d
    OBVIOUS
  <2>1. pulses[i].on /\ ~Due(i)
    BY <1>3
  <2>2. pulses[i].node \in Node /\ pulses[i].t0 \in Clock
    BY <2>1, SlotType
  <2>3. Elapsed(millis, pulses[i].t0) \in Nat
    BY <1>1, <2>2, ElapsedType
  <2>4. Elapsed(millis, pulses[i].t0) < PDUR
    BY <1>0, <2>1, <2>3 DEF Due
  <2>5. Elapsed(millis, pulses[i].t0) + d < CLOCK_RANGE
    BY <1>0, <2>3, <2>4, TimingAssumption
  <2> QED
    BY <1>0, <1>1, <2>2, <2>3, <2>4, <2>5, ElapsedGrows
<1>5. \A n \in Node :
        /\ n \in Out /\ attached => coil'[n] = "off" /\ age'[n] = 0
        /\ n \notin Out \/ ~attached =>
             /\ coil'[n] = coil[n]
             /\ age'[n] = IF coil[n] = "off" THEN 0 ELSE age[n] + d
  BY <1>0 DEF Update, Release, Aged, TypeOK
<1>6. \A n \in Node : coil'[n] # "off" =>
        /\ attached
        /\ n \notin Out
        /\ coil'[n] = coil[n]
        /\ age'[n] = age[n] + d
        /\ age[n] \in Nat
  BY <1>5 DEF NoDriverNoCoil, TypeOK
<1>7. UNCHANGED <<matrixVars, undriven>>
  BY DEF Update, Release
<1>8. TypeOK'
  <2>1. \A i \in Slot : pulses'[i] \in PulseEvent
    BY <1>2 DEF TypeOK, PulseEvent
  <2>2. pulses' \in [Slot -> PulseEvent]
    BY <2>1 DEF Update, Release
  <2>3. /\ coil' \in [Node -> {"off", "set", "reset"}]
        /\ age' \in [Node -> Nat]
        /\ contact' \in [Node -> {"open", "closed", "moving"}]
    BY <1>0 DEF Update, Release, Aged, Released, Rest, TypeOK
  <2> QED
    BY <1>1, <1>7, <2>2, <2>3, TimingAssumption
    DEF TypeOK, MatrixTypeOK, matrixVars
<1>9. OneSlot'
  BY <1>3 DEF OneSlot
<1>10. \A n \in Node : coil'[n] # "off" =>
         \E i \in Slot : pulses'[i].on /\ pulses[i].node = n /\ pulses'[i].node = n
  <2> SUFFICES ASSUME NEW n \in Node, coil'[n] # "off"
               PROVE  \E i \in Slot : /\ pulses'[i].on
                                      /\ pulses[i].node = n
                                      /\ pulses'[i].node = n
    OBVIOUS
  <2>1. PICK i \in Slot : pulses[i].on /\ pulses[i].node = n
    BY <1>6 DEF CoilHasSlot, Pending, PulsePending
  <2>2. ~Due(i)
    BY <1>6, <2>1
  <2> QED
    BY <1>2, <2>1, <2>2
<1>11. CoilHasSlot'
  BY <1>10 DEF CoilHasSlot, Pending, PulsePending
<1>12. SlotTimed'
  BY <1>0, <1>1, <1>3, <1>4 DEF SlotTimed, Slack
<1>13. AgeTimed'
  <2> SUFFICES ASSUME NEW j \in Slot, pulses'[j].on, coil'[pulses'[j].node] # "off"
               PROVE  /\ age'[pulses'[j].node] <= Elapsed(millis', pulses'[j].t0) + CALL_MS
                      /\ Elapsed(millis', pulses'[j].t0) <= age'[pulses'[j].node] + CALL_MS
    BY DEF AgeTimed
  <2>1. pulses'[j] = pulses[j] /\ pulses[j].on /\ pulses[j].node \in Node
    BY <1>3, <1>4
  <2>2. /\ coil[pulses[j].node] # "off"
        /\ age'[pulses[j].node] = age[pulses[j].node] + d
        /\ age[pulses[j].node] \in Nat
    BY <1>6, <2>1
  <2> QED
    BY <1>0, <1>4, <2>1, <2>2 DEF AgeTimed
<1>14. AgeBounded'
  <2> SUFFICES ASSUME NEW n \in Node
               PROVE  /\ coil'[n] = "off" => age'[n] = 0
                      /\ coil'[n] # "off" => age'[n] <= 0 + AgeSlack
    BY <1>1 DEF AgeBounded, AgeSlack
  <2>1. CASE coil'[n] = "off"
    BY <1>5, <2>1
  <2>2. CASE coil'[n] # "off"
    <3>1. PICK i \in Slot : pulses'[i].on /\ pulses[i].node = n
      BY <1>10, <2>2
    <3>2. Elapsed(millis, pulses[i].t0) \in Nat /\ Elapsed(millis, pulses[i].t0) < PDUR
      BY <1>4, <3>1
    <3>3. age[n] <= Elapsed(millis, pulses[i].t0) + CALL_MS
      BY <1>3, <1>6, <2>2, <3>1 DEF AgeTimed
    <3> QED
      BY <1>0, <1>6, <2>2, <3>2, <3>3 DEF AgeSlack
  <2> QED
    BY <2>1, <2>2
<1>15. CoilFollowsRecord'
  BY <1>6, <1>7 DEF CoilFollowsRecord, matrixVars
<1>16. NoDriverNoCoil' /\ SymmetricLocks'
  BY <1>6, <1>7 DEF NoDriverNoCoil, SymmetricLocks, matrixVars
<1>17. SetTimed'
  <2> SUFFICES ASSUME NEW j \in Slot, pulses'[j].on, coil'[pulses'[j].node] = "set"
               PROVE  Elapsed(millis', pulses'[j].t0) <= age'[pulses'[j].node]
    BY DEF SetTimed
  <2>1. pulses'[j] = pulses[j] /\ pulses[j].on /\ pulses[j].node \in Node
    BY <1>3, <1>4
  <2>2. /\ coil[pulses[j].node] = "set"
        /\ age'[pulses[j].node] = age[pulses[j].node] + d
        /\ age[pulses[j].node] \in Nat
    BY <1>6, <2>1
  <2> QED
    BY <1>0, <1>4, <2>1, <2>2 DEF SetTimed
<1> QED
  BY <1>8, <1>9, <1>11, <1>12, <1>13, <1>14, <1>15, <1>16, <1>17

(* Time outside the library preserves the invariant. *)
LEMMA TickIInv ==
  ASSUME IInv, Tick
  PROVE  IInv'
<1> USE DEF IInv
<1>1. /\ millis' = Later(millis, 1)
      /\ sinceUpdate' = sinceUpdate + 1
      /\ sinceUpdate + 1 <= LOOP_GAP
      /\ millis' \in Clock
      /\ sinceUpdate' \in 0 .. LOOP_GAP
      /\ sinceUpdate \in Nat
  BY PassType DEF Tick, Pass, TypeOK
<1>2. UNCHANGED <<matrixVars, pulses, coil, contact, undriven>>
  BY DEF Tick
<1>3. \A n \in Node : age'[n] = IF coil[n] = "off" THEN 0 ELSE age[n] + 1
  BY DEF Tick, Aged
<1>4. \A i \in Slot : pulses[i].on =>
        /\ pulses[i].node \in Node
        /\ Elapsed(millis', pulses[i].t0) = Elapsed(millis, pulses[i].t0) + 1
        /\ Elapsed(millis, pulses[i].t0) \in Nat
  BY <1>1, PassSeen, SlotType, ElapsedType DEF TypeOK
<1>5. TypeOK'
  BY <1>1, <1>2 DEF TypeOK, MatrixTypeOK, matrixVars, Tick, Aged
<1>6. OneSlot' /\ CoilHasSlot' /\ CoilFollowsRecord' /\ NoDriverNoCoil' /\ SymmetricLocks'
  BY <1>2
  DEF OneSlot, CoilHasSlot, Pending, PulsePending, CoilFollowsRecord, NoDriverNoCoil,
      SymmetricLocks, matrixVars
<1>7. SlotTimed'
  <2>1. Slack \in Nat
    BY TimingAssumption DEF Slack
  <2> QED
    BY <1>1, <1>2, <1>4, <2>1 DEF SlotTimed, Slack
<1>8. AgeTimed'
  <2> SUFFICES ASSUME NEW j \in Slot, pulses[j].on, coil[pulses[j].node] # "off"
               PROVE  /\ age'[pulses[j].node] <= Elapsed(millis', pulses[j].t0) + CALL_MS
                      /\ Elapsed(millis', pulses[j].t0) <= age'[pulses[j].node] + CALL_MS
    BY <1>2 DEF AgeTimed
  <2>1. age'[pulses[j].node] = age[pulses[j].node] + 1 /\ age[pulses[j].node] \in Nat
    BY <1>3, <1>4 DEF TypeOK
  <2> QED
    BY <1>4, <2>1, TimingAssumption DEF AgeTimed
<1>9. AgeBounded'
  BY <1>1, <1>2, <1>3, TimingAssumption DEF AgeBounded, AgeSlack, TypeOK
<1>10. SetTimed'
  <2> SUFFICES ASSUME NEW j \in Slot, pulses[j].on, coil[pulses[j].node] = "set"
               PROVE  Elapsed(millis', pulses[j].t0) <= age'[pulses[j].node]
    BY <1>2 DEF SetTimed
  <2>1. age'[pulses[j].node] = age[pulses[j].node] + 1 /\ age[pulses[j].node] \in Nat
    BY <1>3, <1>4 DEF TypeOK
  <2> QED
    BY <1>4, <2>1 DEF SetTimed
<1> QED
  BY <1>5, <1>6, <1>7, <1>8, <1>9, <1>10

(* Configuration preserves the invariant. *)
LEMMA SetupIInv ==
  ASSUME IInv, Setup
  PROVE  IInv'
<1> USE DEF IInv
<1>1. UNCHANGED <<connected, pulses, coil, age, contact, millis, sinceUpdate, undriven>>
  BY DEF Setup, Configure, LockRows, ExclusiveInput, SetDriver, pulseVars, timeVars
<1>2. MatrixTypeOK' /\ SymmetricLocks'
  <2>1. ASSUME NEW p \in LockArgs, LockRows(p[1], p[2])
        PROVE  MatrixTypeOK' /\ SymmetricLocks'
    <3>1. p[1] \in Row /\ p[2] \in Row
      BY MatrixAssumption
    <3> QED
      BY <2>1, <3>1 DEF LockRows, SymmetricLocks, TypeOK, MatrixTypeOK
  <2>2. ASSUME NEW c \in ExclArgs, ExclusiveInput(c)
        PROVE  MatrixTypeOK' /\ SymmetricLocks'
    BY <2>2, MatrixAssumption DEF ExclusiveInput, SymmetricLocks, TypeOK, MatrixTypeOK
  <2>3. CASE SetDriver
    BY <2>3 DEF SetDriver, SymmetricLocks, TypeOK, MatrixTypeOK
  <2> QED
    BY <2>1, <2>2, <2>3 DEF Setup, Configure
<1>3. NoDriverNoCoil'
  BY <1>1 DEF Setup, Configure, LockRows, ExclusiveInput, SetDriver, NoDriverNoCoil
<1> QED
  BY <1>1, <1>2, <1>3
  DEF TypeOK, OneSlot, CoilHasSlot, Pending, PulsePending, SlotTimed, Slack, AgeTimed,
      SetTimed, AgeBounded, AgeSlack, CoilFollowsRecord

(* The invariant is about vars only. *)
LEMMA StutterIInv ==
  ASSUME IInv, UNCHANGED vars
  PROVE  IInv'
BY DEF IInv, vars, matrixVars, pulseVars, timeVars, TypeOK, MatrixTypeOK, OneSlot,
       CoilHasSlot, Pending, PulsePending, SlotTimed, Slack, AgeTimed, SetTimed,
       AgeBounded,
       AgeSlack, CoilFollowsRecord, NoDriverNoCoil, SymmetricLocks

-------------------------------------------------------------------------------
(***************************************************************************)
(* Every request is one of three: setLevel() is connect() or disconnect(). *)
(***************************************************************************)
LEMMA SetLevelSteps ==
  ASSUME NEW n \in Node, NEW level \in 0 .. 1, NEW d \in 0 .. CALL_MS,
         SetLevel(n, level, d)
  PROVE  Connect(n, d) \/ Disconnect(n, d)
<1>1. CASE level > 0
  <2>1. (level > 0) = TRUE
    BY <1>1
  <2>2. StartPulse(n, TRUE, d)
    BY <2>1 DEF SetLevel
  <2> QED
    BY <1>1, <2>2 DEF SetLevel, Connect
<1>2. CASE ~(level > 0)
  <2>1. (level > 0) = FALSE
    BY <1>2
  <2>2. StartPulse(n, FALSE, d)
    BY <2>1 DEF SetLevel
  <2>3. n \in connected
    BY <1>2 DEF SetLevel
  <2> QED
    BY <2>2, <2>3 DEF Disconnect
<1> QED
  BY <1>1, <1>2

(* A request is connect(), disconnect() or clearAll(). *)
LEMMA RequestSteps ==
  ASSUME NEW d \in 0 .. CALL_MS, Request(d)
  PROVE  \/ \E n \in Node : Connect(n, d)
         \/ \E n \in Node : Disconnect(n, d)
         \/ ClearAll(d)
BY SetLevelSteps DEF Request

(* A reset leaves no coil on and no slot taken. *)
LEMMA ResetIInv ==
  ASSUME IInv, Reset
  PROVE  IInv'
<1>1. /\ connected' = {} /\ ilock' = {} /\ excl' = {} /\ attached' = ~Headless
      /\ pulses' = [i \in Slot |-> Free]
      /\ millis' = 0 /\ sinceUpdate' = 0
      /\ coil' = [n \in Node |-> "off"]
      /\ age' = [n \in Node |-> 0]
      /\ undriven' \subseteq Node
  BY DEF Reset, CoilsOff, MatrixReset
<1>2. contact' \in [Node -> {"open", "closed", "moving"}]
  BY DEF Reset, CoilsOff, Released, Rest, IInv, TypeOK
<1>3. TypeOK'
  BY <1>1, <1>2, TimingAssumption, MatrixAssumption
  DEF TypeOK, MatrixTypeOK, PulseEvent, Free, Clock
<1>4. (OneSlot /\ SlotTimed /\ AgeTimed /\ SetTimed)'
  BY <1>1 DEF OneSlot, SlotTimed, AgeTimed, SetTimed, Free
<1>5. (CoilHasSlot /\ AgeBounded /\ CoilFollowsRecord)'
  BY <1>1 DEF CoilHasSlot, AgeBounded, CoilFollowsRecord
<1>6. (SymmetricLocks /\ NoDriverNoCoil)'
  BY <1>1 DEF SymmetricLocks, NoDriverNoCoil
<1> QED
  BY <1>3, <1>4, <1>5, <1>6 DEF IInv

(* Every step preserves the invariant. *)
LEMMA NextIInv == IInv /\ [Next]_vars => IInv'
<1> SUFFICES ASSUME IInv, [Next]_vars PROVE IInv'
  OBVIOUS
<1>1. ASSUME NEW d \in 0 .. CALL_MS, Request(d) PROVE IInv'
  <2>1. ASSUME NEW n \in Node, Connect(n, d) PROVE IInv'
    BY <2>1, StartPulseIInv DEF Connect
  <2>2. ASSUME NEW n \in Node, Disconnect(n, d) PROVE IInv'
    BY <2>2, StartPulseIInv DEF Disconnect
  <2> QED
    BY <1>1, <2>1, <2>2, RequestSteps, ClearAllIInv
<1>2. ASSUME NEW d \in 0 .. CALL_MS, Update(d) PROVE IInv'
  BY <1>2, UpdateIInv
<1>3. CASE Tick
  BY <1>3, TickIInv
<1>4. CASE Setup
  BY <1>4, SetupIInv
<1>5. CASE UNCHANGED vars
  BY <1>5, StutterIInv
<1>6. CASE Reset
  BY <1>6, ResetIInv
<1> QED
  BY <1>1, <1>2, <1>3, <1>4, <1>5, <1>6 DEF Next, Updates

(* IInv is an invariant of LatchingXPoint. *)
LEMMA Invariance == Spec => []IInv
<1>1. Init => IInv
  BY InitIInv
<1>2. IInv /\ [Next]_vars => IInv'
  BY NextIInv
<1> QED
  BY <1>1, <1>2, PTL DEF Spec

(***************************************************************************)
(* Type correctness.                                                       *)
(***************************************************************************)
THEOREM Typing == Spec => []TypeOK
<1>1. IInv => TypeOK
  BY DEF IInv
<1> QED
  BY <1>1, Invariance, PTL

(***************************************************************************)
(* No coil is ever on without exactly one slot that will release it.       *)
(***************************************************************************)
THEOREM CoilsReleased == Spec => []NoStuckCoil
<1>1. IInv => NoStuckCoil
  BY DEF IInv, OneSlot, CoilHasSlot, Pending, PulsePending, NoStuckCoil
<1> QED
  BY <1>1, Invariance, PTL

(***************************************************************************)
(* The coil that is on pulls towards the record.                           *)
(***************************************************************************)
THEOREM CoilsDirected == Spec => []CoilFollowsRecord
<1>1. IInv => CoilFollowsRecord
  BY DEF IInv
<1> QED
  BY <1>1, Invariance, PTL

(***************************************************************************)
(* No coil is on for longer than MaxOn, whatever the clock does.           *)
(***************************************************************************)
THEOREM CoilsBounded == Spec => []BoundedOn
<1>1. ASSUME IInv PROVE BoundedOn
  BY <1>1, TimingAssumption
  DEF IInv, AgeBounded, AgeSlack, BoundedOn, MaxOn, TypeOK
<1> QED
  BY <1>1, Invariance, PTL
===============================================================================
