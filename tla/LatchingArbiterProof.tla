-------------------------- MODULE LatchingArbiterProof --------------------------
(***************************************************************************)
(* What the bookkeeping proved about in LatchingXPointProof is good for:   *)
(* the relays rest where the record says, no step makes a new short, and   *)
(* the matrix implements the abstract arbiter Crosspoint.                  *)
(***************************************************************************)
EXTENDS LatchingXPointProof

(***************************************************************************)
(* The pulse that the application chose leaves enough for the relay after  *)
(* what clearAll() may take off it.  The code does not check it.           *)
(***************************************************************************)
LongEnough == COIL_MIN + CALL_MS <= PDUR

CInv == IInv /\ ContactFollowsRecord

(* At the start every coil is off and every relay open. *)
LEMMA InitCInv == Init => CInv
BY InitIInv DEF Init, CoilsOff, MatrixInit, CInv, ContactFollowsRecord

-------------------------------------------------------------------------------
(***************************************************************************)
(* What each step does to the coils and the contacts of a node.            *)
(***************************************************************************)

(* What setNodeHardware() does to coils and contacts, their ages left out. *)
LEMMA EnergisedContacts ==
  ASSUME TypeOK, NEW S, NEW on, NEW ms, NEW d, Energise(S, on, ms, d)
  PROVE  \A m \in Node :
           /\ m \in S /\ attached => coil'[m] = IF on THEN "set" ELSE "reset"
           /\ m \notin S \/ ~attached => coil'[m] = coil[m] /\ contact'[m] = contact[m]
<1>1. CASE attached
  <2>1. /\ coil' = [m \in Node |-> IF m \in S THEN Coil(on) ELSE coil[m]]
        /\ contact' = [m \in Node |-> IF m \in S THEN Pulled(m, Coil(on)) ELSE contact[m]]
    BY <1>1 DEF Energise
  <2> QED
    BY <1>1, <2>1 DEF Coil
<1>2. CASE ~attached
  BY <1>2 DEF Energise
<1> QED
  BY <1>1, <1>2

LEMMA StartPulseContacts ==
  ASSUME IInv, NEW n \in Node, NEW on \in BOOLEAN, NEW d \in 0 .. CALL_MS,
         StartPulse(n, on, d)
  PROVE  /\ attached => coil'[n] # "off"
         /\ \A m \in Node : m # n => coil'[m] = coil[m] /\ contact'[m] = contact[m]
         /\ undriven' = IF attached THEN undriven \ {n} ELSE undriven \cup {n}
         /\ connected' = IF on THEN connected \cup {n} ELSE connected \ {n}
         /\ UNCHANGED <<ilock, excl, attached>>
         /\ ~attached => coil'[n] = coil[n] /\ contact'[n] = contact[n]
<1>1. Energise({n}, on, d, d)
  BY DEF StartPulse
<1>2. \A m \in Node :
        /\ m \in {n} /\ attached => coil'[m] = IF on THEN "set" ELSE "reset"
        /\ m \notin {n} \/ ~attached => coil'[m] = coil[m] /\ contact'[m] = contact[m]
  BY <1>1, EnergisedContacts DEF IInv
<1> QED
  BY <1>2 DEF StartPulse

(* clearAll(): the nodes it drives were connected, the rest of them become undriven. *)
LEMMA ClearAllContacts ==
  ASSUME IInv, NEW d \in 0 .. CALL_MS, ClearAll(d)
  PROVE  \E D \in SUBSET connected :
           /\ \A n \in Node : n \in D /\ attached => coil'[n] # "off"
           /\ \A n \in Node : n \notin D \/ ~attached =>
                coil'[n] = coil[n] /\ contact'[n] = contact[n]
           /\ undriven' = IF attached THEN (undriven \ D) \cup (connected \ D)
                                      ELSE undriven \cup connected
           /\ connected' = {}
           /\ UNCHANGED <<ilock, excl, attached>>
<1>2. PICK S \in SUBSET FreeSlots : \E f \in [S -> connected] :
        /\ Energise(ToCancel \cup {f[i] : i \in S}, FALSE, 0, d)
        /\ undriven' = IF attached
             THEN (undriven \ (ToCancel \cup {f[i] : i \in S}))
                    \cup (connected \ (ToCancel \cup {f[i] : i \in S}))
             ELSE undriven \cup connected
  BY DEF ClearAll
<1>3. PICK f \in [S -> connected] :
        /\ Energise(ToCancel \cup {f[i] : i \in S}, FALSE, 0, d)
        /\ undriven' = IF attached
             THEN (undriven \ (ToCancel \cup {f[i] : i \in S}))
                    \cup (connected \ (ToCancel \cup {f[i] : i \in S}))
             ELSE undriven \cup connected
  BY <1>2
<1> DEFINE D == ToCancel \cup {f[i] : i \in S}
<1>4. D \in SUBSET connected
  BY DEF ToCancel
<1>6. Energise(D, FALSE, 0, d)
  BY <1>3
<1>7. undriven' = IF attached THEN (undriven \ D) \cup (connected \ D)
                              ELSE undriven \cup connected
  BY <1>3
<1> HIDE DEF D
<1>8. \A n \in Node :
        /\ n \in D /\ attached => coil'[n] = IF FALSE THEN "set" ELSE "reset"
        /\ n \notin D \/ ~attached => coil'[n] = coil[n] /\ contact'[n] = contact[n]
  BY <1>6, EnergisedContacts DEF IInv
<1>9. connected' = {} /\ UNCHANGED <<ilock, excl, attached>>
  BY DEF ClearAll
<1> QED
  BY <1>4, <1>7, <1>8, <1>9

(***************************************************************************)
(* update() releases a coil only when its relay has moved.                 *)
(***************************************************************************)
LEMMA UpdateContacts ==
  ASSUME LongEnough, IInv, NEW d \in 0 .. CALL_MS, Update(d)
  PROVE  /\ UNCHANGED <<matrixVars, undriven>>
         /\ \A n \in Node :
              \/ coil'[n] = coil[n] /\ contact'[n] = contact[n]
              \/ /\ coil[n] # "off"
                 /\ coil'[n] = "off"
                 /\ contact'[n] = Rest(coil[n])
<1> DEFINE Out == {n \in Node : \E i \in Slot : Due(i) /\ pulses[i].node = n}
<1>1. UNCHANGED <<matrixVars, undriven>>
  BY DEF Update, Release
<1>2. CASE ~attached
  BY <1>1, <1>2 DEF Update, Release
<1>3. CASE attached
  <2>1. \A n \in Node :
          /\ coil'[n] = IF n \in Out THEN "off" ELSE coil[n]
          /\ contact'[n] = IF n \in Out THEN Released(n, Aged(d)[n]) ELSE contact[n]
    BY <1>3 DEF Update, Release
  <2> SUFFICES ASSUME NEW n \in Node
               PROVE  \/ coil'[n] = coil[n] /\ contact'[n] = contact[n]
                      \/ /\ coil[n] # "off"
                         /\ coil'[n] = "off"
                         /\ contact'[n] = Rest(coil[n])
    BY <1>1
  <2>2. CASE n \notin Out
    BY <2>1, <2>2
  <2>3. CASE n \in Out /\ coil[n] = "off"
    BY <2>1, <2>3, TimingAssumption DEF Released, Aged
  <2>4. CASE n \in Out /\ coil[n] # "off"
    <3>1. PICK i \in Slot : Due(i) /\ pulses[i].node = n
      BY <2>4
    <3>2. pulses[i].on /\ pulses[i].t0 \in Clock /\ millis \in Clock
      BY <3>1, SlotType DEF Due, IInv, TypeOK
    <3>3. Elapsed(millis, pulses[i].t0) <= age[n] + CALL_MS
      BY <2>4, <3>1, <3>2 DEF IInv, AgeTimed
    <3>4. Elapsed(millis, pulses[i].t0) >= PDUR /\ Elapsed(millis, pulses[i].t0) \in Nat
      BY <3>1, <3>2, ElapsedType DEF Due
    <3>5. age[n] \in Nat /\ Aged(d)[n] = age[n] + d /\ d \in Nat
      BY <2>4, TimingAssumption DEF IInv, TypeOK, Aged
    <3>6. Aged(d)[n] >= COIL_MIN
      BY <3>3, <3>4, <3>5, TimingAssumption DEF LongEnough
    <3> QED
      BY <2>1, <2>4, <3>6 DEF Released
  <2> QED
    BY <2>2, <2>3, <2>4
<1> QED
  BY <1>2, <1>3

(* Time and configuration move no relay. *)
LEMMA QuietContacts ==
  ASSUME Tick \/ Setup \/ UNCHANGED vars
  PROVE  /\ UNCHANGED <<connected, coil, contact, undriven, pulses>>
         /\ ~Setup => UNCHANGED <<ilock, excl>>
BY DEF Tick, Setup, Configure, LockRows, ExclusiveInput, SetDriver, vars, matrixVars,
       pulseVars, timeVars

-------------------------------------------------------------------------------
(***************************************************************************)
(* The relays rest where the record says.                                  *)
(***************************************************************************)
LEMMA StepsOfNext ==
  ASSUME [Next]_vars
  PROVE  \/ \E d \in 0 .. CALL_MS :
              \/ \E n \in Node : Connect(n, d)
              \/ \E n \in Node : Disconnect(n, d)
              \/ ClearAll(d)
              \/ Update(d)
         \/ Tick \/ Setup \/ Reset \/ UNCHANGED vars
BY RequestSteps DEF Next, Updates

(* Every step preserves the invariant of the contacts. *)
LEMMA NextCInv ==
  ASSUME LongEnough
  PROVE  CInv /\ [Next]_vars => CInv'
<1> SUFFICES ASSUME CInv, [Next]_vars PROVE ContactFollowsRecord'
  BY NextIInv DEF CInv
<1> USE DEF CInv, ContactFollowsRecord
<1>1. ASSUME NEW n \in Node, NEW on \in BOOLEAN, NEW d \in 0 .. CALL_MS,
             StartPulse(n, on, d)
      PROVE  ContactFollowsRecord'
  BY <1>1, StartPulseContacts
<1>2. ASSUME NEW d \in 0 .. CALL_MS, ClearAll(d)
      PROVE  ContactFollowsRecord'
  BY <1>2, ClearAllContacts
<1>3. ASSUME NEW d \in 0 .. CALL_MS, Update(d)
      PROVE  ContactFollowsRecord'
  <2>1. CoilFollowsRecord /\ coil \in [Node -> {"off", "set", "reset"}]
    BY DEF IInv, TypeOK
  <2> QED
    BY <1>3, <2>1, UpdateContacts DEF CoilFollowsRecord, Rest, matrixVars
<1>4. CASE Tick \/ Setup \/ UNCHANGED vars
  BY <1>4, QuietContacts
<1>5. CASE Reset
  BY <1>5 DEF Reset, CoilsOff, MatrixReset
<1> QED
  BY <1>1, <1>2, <1>3, <1>4, <1>5, StepsOfNext DEF Connect, Disconnect

(***************************************************************************)
(* For every matrix, pulse table and clock: if the pulse is long enough,   *)
(* a relay whose coil is off rests where the record says.                  *)
(***************************************************************************)
THEOREM ContactsRight ==
  ASSUME LongEnough
  PROVE  Spec => []ContactFollowsRecord
<1>1. Init => CInv
  BY InitCInv
<1>2. CInv /\ [Next]_vars => CInv'
  BY NextCInv
<1>3. CInv => ContactFollowsRecord
  BY DEF CInv
<1> QED
  BY <1>1, <1>2, <1>3, PTL DEF Spec

-------------------------------------------------------------------------------
(***************************************************************************)
(* A coil is released by update() alone, when its slot is due; what the    *)
(* slot shows, the coil has been on for, but for its shortfall.            *)
(***************************************************************************)
LEMMA DueIsOld ==
  ASSUME IInv, NEW n \in Node, coil[n] # "off",
         NEW i \in Slot, Due(i), pulses[i].node = n
  PROVE  age[n] + Shortfall(n) >= PDUR
<1>1. pulses[i].on /\ pulses[i].t0 \in Clock /\ millis \in Clock
  BY SlotType DEF Due, IInv, TypeOK
<1>2. Elapsed(millis, pulses[i].t0) >= PDUR /\ Elapsed(millis, pulses[i].t0) \in Nat
  BY <1>1, ElapsedType DEF Due
<1>3. Elapsed(millis, pulses[i].t0) <= age[n] + Shortfall(n)
  <2>1. age[n] \in Nat /\ CALL_MS \in Nat
    BY TimingAssumption DEF IInv, TypeOK
  <2>2. CASE coil[n] = "set"
    BY <1>1, <2>1, <2>2 DEF IInv, SetTimed, Shortfall
  <2>3. CASE coil[n] # "set"
    BY <1>1, <2>1, <2>3 DEF IInv, AgeTimed, Shortfall
  <2> QED
    BY <2>2, <2>3
<1>4. age[n] \in Nat /\ Shortfall(n) \in Nat
  BY TimingAssumption DEF IInv, TypeOK, Shortfall
<1> QED
  BY <1>2, <1>3, <1>4, TimingAssumption

(* No step but a reset releases a coil too early. *)
LEMMA ReleasedInTime ==
  ASSUME IInv, [Next]_vars, ~Reset, NEW n \in Node, coil[n] # "off", coil'[n] = "off"
  PROVE  age[n] + Shortfall(n) >= PDUR
<1>1. attached
  BY DEF IInv, NoDriverNoCoil
<1>2. ASSUME NEW m \in Node, NEW on \in BOOLEAN, NEW d \in 0 .. CALL_MS,
             StartPulse(m, on, d)
      PROVE  FALSE
  BY <1>1, <1>2, StartPulseContacts
<1>3. ASSUME NEW d \in 0 .. CALL_MS, ClearAll(d)
      PROVE  FALSE
  BY <1>1, <1>3, ClearAllContacts
<1>4. ASSUME NEW d \in 0 .. CALL_MS, Update(d)
      PROVE  age[n] + Shortfall(n) >= PDUR
  <2>1. \E i \in Slot : Due(i) /\ pulses[i].node = n
    BY <1>1, <1>4 DEF Update, Release
  <2> QED
    BY <2>1, DueIsOld
<1>5. CASE Tick \/ Setup \/ UNCHANGED vars
  BY <1>5, QuietContacts
<1> QED
  BY <1>2, <1>3, <1>4, <1>5, StepsOfNext DEF Connect, Disconnect

(***************************************************************************)
(* Whatever the timing, the table and the requests, a SET pulse is never   *)
(* short and a RESET pulse lacks at most what a call takes.                *)
(***************************************************************************)
THEOREM PulsesLast == Spec => NoShortPulse
<1>1. IInv /\ [Next]_vars =>
        [\A n \in Node : (coil[n] # "off" /\ coil'[n] = "off")
            => age[n] + Shortfall(n) >= PDUR \/ Reset]_vars
  BY ReleasedInTime
<1> QED
  BY <1>1, Invariance, PTL DEF Spec, NoShortPulse

-------------------------------------------------------------------------------
(***************************************************************************)
(* No new short.  A node that may bridge is busy, so the rules see it.     *)
(***************************************************************************)
LEMMA LiveIsBusy ==
  ASSUME CInv, NEW n \in Node \ undriven, Live(n)
  PROVE  n \in Busy
BY DEF CInv, IInv, CoilHasSlot, ContactFollowsRecord, Live, Busy

(* A busy rival in the column is what the loops of connect() look for. *)
LEMMA RivalForbids ==
  ASSUME IInv, NEW m \in Node, NEW n \in Node,
         m \in Busy, m[2] = n[2], Exclude(m[1], n[1], m[2])
  PROVE  Forbidden(n, Busy)
<1>1. /\ m = <<m[1], m[2]>> /\ m[1] \in Row /\ n[1] \in Row
      /\ m[1] # n[1]
  BY DEF Node, Exclude
<1>2. m[1] \in OtherBusyRows(n, Busy)
  BY <1>1 DEF OtherBusyRows
<1> QED
  BY <1>1, <1>2 DEF Forbidden, Exclude, IInv, SymmetricLocks

(***************************************************************************)
(* A node becomes live only because connect() energised it, which the      *)
(* rules allowed.                                                          *)
(***************************************************************************)
LEMMA NewlyLive ==
  ASSUME LongEnough, CInv, [Next]_vars, ~Reset,
         NEW n \in Node \ undriven, ~Live(n), Live(n)'
  PROVE  /\ ~Forbidden(n, Busy)
         /\ \A m \in Node : m # n => coil'[m] = coil[m] /\ contact'[m] = contact[m]
<1>1. coil[n] = "off" /\ contact[n] = "open" /\ n \notin connected
  BY DEF Live, CInv, ContactFollowsRecord
<1>2. ~(coil'[n] = coil[n] /\ contact'[n] = contact[n])
  BY DEF Live
<1>3. ASSUME NEW m \in Node, NEW d \in 0 .. CALL_MS, Connect(m, d)
      PROVE  /\ ~Forbidden(n, Busy)
             /\ \A k \in Node : k # n => coil'[k] = coil[k] /\ contact'[k] = contact[k]
  <2>1. StartPulse(m, TRUE, d) /\ ~Forbidden(m, Busy)
    BY <1>3 DEF Connect
  <2>2. \A k \in Node : k # m => coil'[k] = coil[k] /\ contact'[k] = contact[k]
    BY <2>1, StartPulseContacts DEF CInv
  <2> QED
    BY <1>2, <2>1, <2>2
<1>4. ASSUME NEW m \in Node, NEW d \in 0 .. CALL_MS, Disconnect(m, d)
      PROVE  FALSE
  <2>1. StartPulse(m, FALSE, d) /\ m \in connected
    BY <1>4 DEF Disconnect
  <2>2. \A k \in Node : k # m => coil'[k] = coil[k] /\ contact'[k] = contact[k]
    BY <2>1, StartPulseContacts DEF CInv
  <2> QED
    BY <1>1, <1>2, <2>1, <2>2
<1>5. ASSUME NEW d \in 0 .. CALL_MS, ClearAll(d)
      PROVE  FALSE
  BY <1>1, <1>2, <1>5, ClearAllContacts DEF CInv
<1>6. ASSUME NEW d \in 0 .. CALL_MS, Update(d)
      PROVE  FALSE
  BY <1>1, <1>2, <1>6, UpdateContacts DEF CInv
<1>7. CASE Tick \/ Setup \/ UNCHANGED vars
  BY <1>2, <1>7, QuietContacts
<1> QED
  BY <1>3, <1>4, <1>5, <1>6, <1>7, StepsOfNext

(* No step turns two excluded nodes into a short. *)
LEMMA NoStepShorts ==
  ASSUME LongEnough, CInv, [Next]_vars,
         NEW m \in Node \ undriven, NEW n \in Node \ undriven,
         m[2] = n[2], Exclude(m[1], n[1], m[2]), ~Short(m, n)
  PROVE  ~Short(m, n)'
<1>r. CASE Reset
  BY <1>r DEF Reset, CoilsOff, MatrixReset, Short, Exclude
<1> SUFFICES ASSUME ~Reset, Live(m)', Live(n)' PROVE FALSE
  BY <1>r DEF Short
<1>1. Exclude(n[1], m[1], n[2]) /\ m # n
  BY DEF Exclude
<1>2. ASSUME ~Live(n) PROVE FALSE
  <2>1. ~Forbidden(n, Busy) /\ coil'[m] = coil[m] /\ contact'[m] = contact[m]
    BY <1>1, <1>2, NewlyLive
  <2>2. Live(m)
    BY <2>1 DEF Live
  <2> QED
    BY <2>1, <2>2, LiveIsBusy, RivalForbids DEF CInv
<1>3. ASSUME ~Live(m) PROVE FALSE
  <2>1. ~Forbidden(m, Busy) /\ coil'[n] = coil[n] /\ contact'[n] = contact[n]
    BY <1>1, <1>3, NewlyLive
  <2>2. Live(n)
    BY <2>1 DEF Live
  <2> QED
    BY <1>1, <2>1, <2>2, LiveIsBusy, RivalForbids DEF CInv
<1> QED
  BY <1>2, <1>3 DEF Short

(***************************************************************************)
(* The interlock works on the relays, and not only on the records: no step *)
(* of the matrix makes two excluded rows live in one column.               *)
(***************************************************************************)
THEOREM RowsKeptApart ==
  ASSUME LongEnough
  PROVE  Spec => NoNewShort
<1>1. Init => CInv
  BY InitCInv
<1>2. CInv /\ [Next]_vars => CInv'
  BY NextCInv
<1>3. CInv /\ [Next]_vars =>
        [\A m, n \in Node \ undriven :
          (m[2] = n[2] /\ Exclude(m[1], n[1], m[2]) /\ ~Short(m, n)) => ~Short(m, n)']_vars
  BY NoStepShorts
<1> QED
  BY <1>1, <1>2, <1>3, PTL DEF Spec, NoNewShort

-------------------------------------------------------------------------------
(***************************************************************************)
(* The refinement.  A granted connect() is Grant, a rule is AddRule, every *)
(* other step leaves Busy as it is or vacates nodes.                       *)
(***************************************************************************)
LEMMA StartPulseBusy ==
  ASSUME TypeOK, NEW n \in Node, NEW on \in BOOLEAN, NEW d \in 0 .. CALL_MS,
         StartPulse(n, on, d)
  PROVE  Pending' = Pending \cup {n}
<1>1. PICK i \in Slot : /\ ~pulses[i].on
                        /\ pulses' = [pulses EXCEPT ![i] = Pulse(n, Later(millis, d))]
  BY DEF StartPulse, FirstFree, FreeSlots
<1>2. /\ pulses'[i].on /\ pulses'[i].node = n
      /\ \A j \in Slot \ {i} : pulses'[j] = pulses[j]
  BY <1>1 DEF TypeOK, Pulse
<1> QED
  BY <1>1, <1>2 DEF Pending, PulsePending

(* update() only frees slots. *)
LEMMA UpdateBusy ==
  ASSUME NEW d \in 0 .. CALL_MS, Update(d)
  PROVE  Pending' \subseteq Pending /\ connected' = connected
BY DEF Update, Release, Pending, PulsePending, Free, matrixVars

(* clearAll() pulses only nodes that were busy. *)
LEMMA ClearAllBusy ==
  ASSUME TypeOK, NEW d \in 0 .. CALL_MS, ClearAll(d)
  PROVE  Busy' \subseteq Busy
<1>1. PICK S \in SUBSET FreeSlots : \E f \in [S -> connected] :
        pulses' = [i \in Slot |->
             IF i \in S THEN Pulse(f[i], millis)
             ELSE IF pulses[i].on /\ pulses[i].node \in ToCancel
                  THEN Pulse(pulses[i].node, millis)
                  ELSE pulses[i]]
  BY DEF ClearAll
<1>2. PICK f \in [S -> connected] :
        pulses' = [i \in Slot |->
             IF i \in S THEN Pulse(f[i], millis)
             ELSE IF pulses[i].on /\ pulses[i].node \in ToCancel
                  THEN Pulse(pulses[i].node, millis)
                  ELSE pulses[i]]
  BY <1>1
<1>3. \A i \in Slot : pulses'[i].on =>
        \/ pulses'[i].node \in connected
        \/ pulses[i].on /\ pulses'[i].node = pulses[i].node
  <2> SUFFICES ASSUME NEW i \in Slot, pulses'[i].on
               PROVE  \/ pulses'[i].node \in connected
                      \/ pulses[i].on /\ pulses'[i].node = pulses[i].node
    OBVIOUS
  <2>1. CASE i \in S
    <3>1. pulses'[i] = Pulse(f[i], millis)
      BY <1>2, <2>1
    <3> QED
      BY <2>1, <3>1 DEF Pulse
  <2>2. CASE i \notin S /\ pulses[i].on /\ pulses[i].node \in ToCancel
    <3>1. pulses'[i] = Pulse(pulses[i].node, millis)
      BY <1>2, <2>2
    <3> QED
      BY <2>2, <3>1 DEF Pulse
  <2>3. CASE i \notin S /\ ~(pulses[i].on /\ pulses[i].node \in ToCancel)
    <3>1. pulses'[i] = pulses[i]
      BY <1>2, <2>3
    <3> QED
      BY <3>1
  <2> QED
    BY <2>1, <2>2, <2>3
<1>4. connected' = {}
  BY DEF ClearAll
<1> QED
  BY <1>3, <1>4 DEF Busy, Pending, PulsePending

(* Configuration is AddRule, or changes nothing that the arbiter knows. *)
LEMMA SetupBusy ==
  ASSUME Setup
  PROVE  Arbiter!Next
<1>1. Busy' = Busy
  BY DEF Setup, Configure, LockRows, ExclusiveInput, SetDriver, pulseVars, Busy, Pending,
         PulsePending
<1>2. ASSUME NEW p \in LockArgs, LockRows(p[1], p[2]) PROVE Arbiter!AddRule
  <2>1. p[1] \in Row /\ p[2] \in Row
    BY MatrixAssumption
  <2> QED
    BY <1>1, <1>2, <2>1 DEF LockRows, Arbiter!AddRule
<1>3. ASSUME NEW c \in ExclArgs, ExclusiveInput(c) PROVE Arbiter!AddRule
  BY <1>1, <1>3, MatrixAssumption DEF ExclusiveInput, Arbiter!AddRule
<1>4. CASE SetDriver
  BY <1>1, <1>4 DEF SetDriver, Arbiter!Next, Arbiter!Vacate
<1> QED
  BY <1>2, <1>3, <1>4 DEF Setup, Configure, Arbiter!Next

(* A connect() that goes through is Grant. *)
LEMMA ConnectGrants ==
  ASSUME TypeOK, NEW n \in Node, NEW d \in 0 .. CALL_MS, Connect(n, d)
  PROVE  Arbiter!Grant(n)
<1>1. StartPulse(n, TRUE, d) /\ n \notin connected /\ ~Forbidden(n, Busy)
  BY DEF Connect
<1>2. n \notin Busy /\ Busy' = Busy \cup {n} /\ UNCHANGED <<ilock, excl>>
  BY <1>1, StartPulseBusy DEF StartPulse, Busy
<1>3. Busy \subseteq Row \X Col
  BY DEF Busy, Pending, TypeOK, MatrixTypeOK, Node
<1>4. ASSUME NEW m \in Arbiter!Rivals(n) PROVE FALSE
  <2>1. /\ m \in Busy /\ m[2] = n[2] /\ m[1] # n[1]
        /\ <<n[1], m[1]>> \in ilock \/ n[2] \in excl
    BY DEF Arbiter!Rivals
  <2>2. m = <<m[1], m[2]>> /\ m[1] \in Row
    BY <1>3, <2>1
  <2>3. m[1] \in OtherBusyRows(n, Busy)
    BY <2>1, <2>2 DEF OtherBusyRows
  <2> QED
    BY <1>1, <2>1, <2>3 DEF Forbidden
<1> QED
  BY <1>2, <1>4 DEF Arbiter!Grant

(* Every step is one of the arbiter, or a stutter. *)
LEMMA StepArbitrates ==
  ASSUME IInv, [Next]_vars
  PROVE  [Arbiter!Next]_(Arbiter!vars)
<1>1. ASSUME NEW n \in Node, NEW d \in 0 .. CALL_MS, Connect(n, d)
      PROVE  Arbiter!Next
  BY <1>1, ConnectGrants DEF IInv, Arbiter!Next, Node
<1>2. ASSUME NEW n \in Node, NEW d \in 0 .. CALL_MS, Disconnect(n, d)
      PROVE  Arbiter!Next
  <2>1. StartPulse(n, FALSE, d) /\ n \in connected
    BY <1>2 DEF Disconnect
  <2>2. Pending' = Pending \cup {n}
    BY <2>1, StartPulseBusy DEF IInv
  <2>3. Busy' \subseteq Busy /\ UNCHANGED <<ilock, excl>>
    BY <2>1, <2>2 DEF StartPulse, Busy
  <2> QED
    BY <2>3 DEF Arbiter!Next, Arbiter!Vacate
<1>3. ASSUME NEW d \in 0 .. CALL_MS, ClearAll(d)
      PROVE  Arbiter!Next
  <2>1. Busy' \subseteq Busy /\ UNCHANGED <<ilock, excl>>
    BY <1>3, ClearAllBusy DEF IInv, ClearAll
  <2> QED
    BY <2>1 DEF Arbiter!Next, Arbiter!Vacate
<1>4. ASSUME NEW d \in 0 .. CALL_MS, Update(d)
      PROVE  Arbiter!Next
  <2>1. Busy' \subseteq Busy /\ UNCHANGED <<ilock, excl>>
    BY <1>4, UpdateBusy DEF Busy, Update, Release, matrixVars
  <2> QED
    BY <2>1 DEF Arbiter!Next, Arbiter!Vacate
<1>5. CASE Setup
  BY <1>5, SetupBusy
<1>6. CASE ~Setup /\ (Tick \/ UNCHANGED vars)
  BY <1>6, QuietContacts DEF Arbiter!vars, Busy, Pending, PulsePending
<1>7. CASE Reset
  BY <1>7 DEF Reset, CoilsOff, MatrixReset, Arbiter!Next, Arbiter!Reset, Busy, Pending,
              PulsePending, Free
<1> QED
  BY <1>1, <1>2, <1>3, <1>4, <1>5, <1>6, <1>7, StepsOfNext

(***************************************************************************)
(* The latching matrix implements the abstract arbiter, whatever its       *)
(* timing: a column never goes to a node that a rule in force excludes.    *)
(***************************************************************************)
THEOREM Implements == Spec => Arbitrates
<1>1. Init => Arbiter!Init
  BY DEF Init, CoilsOff, MatrixInit, Arbiter!Init, Busy, Pending, PulsePending, Free
<1>2. IInv /\ [Next]_vars => [Arbiter!Next]_(Arbiter!vars)
  BY StepArbitrates
<1> QED
  BY <1>1, <1>2, Invariance, PTL DEF Spec, Arbitrates, Arbiter!Spec
===============================================================================
