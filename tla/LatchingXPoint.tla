---------------------------- MODULE LatchingXPoint ----------------------------
(***************************************************************************)
(* The RE_LATCHING_DUAL_COIL branch of XPoint, with the dual-coil driver   *)
(* of the LatchingRelay example and the relays behind it.                  *)
(*                                                                         *)
(* A connection is made by energising the SET coil for a while, broken by  *)
(* energising the RESET coil; the relay holds its position by itself.  The *)
(* code does not block: a coil is switched on by connect(), disconnect(),  *)
(* setLevel() or clearAll(), recorded in one of MAX_PULSES slots, and      *)
(* switched off by a later update().                                       *)
(*                                                                         *)
(* Time is the driver's _millis(), a counter that wraps at CLOCK_RANGE.  A *)
(* call may take up to CALL_MS of it.  What the placement of those d ms    *)
(* decides is how long a coil is on compared to what its slot records, so  *)
(* they pass between the clock reading and the hardware write, in the      *)
(* order the call makes the two; time spent elsewhere is a Tick.           *)
(***************************************************************************)
EXTENDS XPoint

CONSTANTS
  MAX_PULSES,   \* slots of the pulse table
  PDUR,         \* _pdur, the pulse duration in ms
  CLOCK_RANGE,  \* 2^32: _millis() is a uint32_t
  CALL_MS,      \* the longest a call spends between its clock and its coils
  LOOP_GAP,     \* the longest the application leaves between two update()s
  COIL_MIN,     \* the shortest pulse that moves the relay, from its datasheet
  Resets        \* TRUE: the microcontroller may reset at any time

Slot == 0 .. MAX_PULSES - 1

ASSUME TimingAssumption ==
  /\ MAX_PULSES \in Nat
  /\ {PDUR, CALL_MS, LOOP_GAP, COIL_MIN, CLOCK_RANGE} \subseteq Nat
  /\ PDUR + 2 * CALL_MS + LOOP_GAP < CLOCK_RANGE
  /\ COIL_MIN > 0
  /\ Resets \in BOOLEAN

VARIABLES
  pulses,       \* _pulses: slot -> PulseEvent
  millis,       \* _millis()
  sinceUpdate,  \* ms since the last update()
  coil,         \* node -> the coil that is energised, or "off"
  age,          \* node -> ms since that coil was switched on, 0 when off
  contact,      \* node -> where the relay rests; "moving": undetermined
  undriven      \* history: nodes whose last change of record sent no pulse

pulseVars == <<pulses, coil, age, contact>>
timeVars  == <<millis, sinceUpdate>>
vars == <<matrixVars, pulseVars, timeVars, undriven>>
-------------------------------------------------------------------------------
(***************************************************************************)
(* The clock.  Elapsed is the uint32_t subtraction now - t0.               *)
(***************************************************************************)
Clock == 0 .. CLOCK_RANGE - 1

Unwrapped(t, d) == t + d

Later(t, d) == IF t + d < CLOCK_RANGE THEN t + d ELSE t + d - CLOCK_RANGE

SignedElapsed(now, t0) == now - t0

Elapsed(now, t0) == IF t0 <= now THEN now - t0 ELSE now - t0 + CLOCK_RANGE

Pass(d) ==
  /\ sinceUpdate + d <= LOOP_GAP
  /\ millis' = Later(millis, d)
  /\ sinceUpdate' = sinceUpdate + d

Aged(d) == [n \in Node |-> IF coil[n] = "off" THEN 0 ELSE age[n] + d]

(***************************************************************************)
(* The pulse table.  What a free slot still holds is never read, so it is  *)
(* shown as the constructor leaves it.                                     *)
(***************************************************************************)
Free == [node |-> <<0, 0>>, t0 |-> 0, on |-> FALSE]

PulseEvent == [node : Node, t0 : Clock, on : {TRUE}] \cup {Free}

Pulse(n, t) == [node |-> n, t0 |-> t, on |-> TRUE]

PulsePending(n) == \E i \in Slot : pulses[i].on /\ pulses[i].node = n

Pending == {n \in Node : PulsePending(n)}

AnySlot == Slot

FreeSlots == {i \in Slot : ~pulses[i].on}

FirstFree(i) == i \in FreeSlots /\ \A j \in FreeSlots : i <= j

NoBusyPulses == connected

Busy == connected \cup Pending
-------------------------------------------------------------------------------
(***************************************************************************)
(* The relay.  A coil that pulls towards the position the relay is in      *)
(* changes nothing; otherwise the position is undetermined from the moment *)
(* the coil is on until it has been on for COIL_MIN.                       *)
(***************************************************************************)
Coil(on) == IF on THEN "set" ELSE "reset"

Rest(c) == IF c = "set" THEN "closed" ELSE "open"

Pulled(n, c) == IF contact[n] = Rest(c) THEN contact[n] ELSE "moving"

Released(n, ms) == IF ms >= COIL_MIN THEN Rest(coil[n]) ELSE contact[n]

(***************************************************************************)
(* setNodeHardware(n, on) for every n of S, if there is a driver: one coil *)
(* of the pair goes high and the other low.  The coils of S have been on   *)
(* for ms when the call ends, the other energised coils for d more.        *)
(***************************************************************************)
Energise(S, on, ms, d) ==
  IF attached
  THEN /\ coil' = [n \in Node |-> IF n \in S THEN Coil(on) ELSE coil[n]]
       /\ age' = [n \in Node |-> IF n \in S THEN ms ELSE Aged(d)[n]]
       /\ contact' = [n \in Node |->
            IF n \in S THEN Pulled(n, Coil(on)) ELSE contact[n]]
  ELSE age' = Aged(d) /\ UNCHANGED <<coil, contact>>

(***************************************************************************)
(* releaseNode(n) for every n of S, if there is a driver: both coils of    *)
(* the pair go low.                                                        *)
(***************************************************************************)
Release(S, d) ==
  IF attached
  THEN /\ coil' = [n \in Node |-> IF n \in S THEN "off" ELSE coil[n]]
       /\ age' = [n \in Node |-> IF n \in S THEN 0 ELSE Aged(d)[n]]
       /\ contact' = [n \in Node |->
            IF n \in S THEN Released(n, Aged(d)[n]) ELSE contact[n]]
  ELSE age' = Aged(d) /\ UNCHANGED <<coil, contact>>

(***************************************************************************)
(* The driver's begin(): every coil is off.                                *)
(***************************************************************************)
CoilsOff == [n \in Node |-> "off"]
-------------------------------------------------------------------------------
Init ==
  /\ MatrixInit
  /\ pulses = [i \in Slot |-> Free]
  /\ millis \in Clock
  /\ sinceUpdate = 0
  /\ coil = CoilsOff
  /\ age = [n \in Node |-> 0]
  /\ contact = [n \in Node |-> "open"]
  /\ undriven = {}

(***************************************************************************)
(* The second half of connect(), disconnect() and setLevel(): refuse while *)
(* the node's own pulse is in flight or no slot is free, otherwise record, *)
(* drive, commit, and only then read the clock.                            *)
(***************************************************************************)
StartPulse(n, on, d) ==
  /\ n \notin Pending
  /\ Pass(d)
  /\ \E i \in Slot :
       /\ FirstFree(i)
       /\ pulses' = [pulses EXCEPT ![i] = Pulse(n, Later(millis, d))]
  /\ connected' = IF on THEN connected \cup {n} ELSE connected \ {n}
  /\ Energise({n}, on, d, d)
  /\ undriven' = IF attached THEN undriven \ {n} ELSE undriven \cup {n}
  /\ UNCHANGED <<ilock, excl, attached>>

Connect(n, d) ==
  /\ ~Forbidden(n, Busy)
  /\ n \notin connected
  /\ StartPulse(n, TRUE, d)

Disconnect(n, d) ==
  /\ n \in connected
  /\ StartPulse(n, FALSE, d)

(***************************************************************************)
(* setLevel() keeps one bit of the level: above 0 it is checked like       *)
(* connect(), at 0 it bypasses the rules, and it is idempotent.            *)
(***************************************************************************)
SetLevel(n, level, d) ==
  /\ level > 0 => ~Forbidden(n, Busy)
  /\ level > 0 <=> n \notin connected
  /\ StartPulse(n, level > 0, d)

NothingToCancel == {}

ToCancel == connected \cap Pending

(***************************************************************************)
(* clearAll(): a row-major scan of the connected nodes.  A node whose own  *)
(* pulse is in flight takes that slot again; the others take the free      *)
(* slots, first come, lowest slot first, until none is left.  The rest     *)
(* lose their bit and get no pulse.  The clock was read before the scan.   *)
(***************************************************************************)
SlotsHandedOut(f) ==
  LET Waiting == connected \ Pending
      Served  == {f[i] : i \in DOMAIN f}
  IN /\ Served \subseteq Waiting
     /\ \A i, j \in DOMAIN f : i < j => Before(f[i], f[j])
     /\ \A i \in DOMAIN f, j \in FreeSlots : j < i => j \in DOMAIN f
     /\ \A m \in Served, n \in Waiting : Before(n, m) => n \in Served
     /\ DOMAIN f = FreeSlots \/ Served = Waiting

ClearAll(d) ==
  /\ Pass(d)
  /\ \E S \in SUBSET FreeSlots : \E f \in [S -> connected] :
       LET Driven == ToCancel \cup {f[i] : i \in S}
       IN /\ SlotsHandedOut(f)
          /\ pulses' = [i \in Slot |->
               IF i \in S THEN Pulse(f[i], millis)
               ELSE IF pulses[i].on /\ pulses[i].node \in ToCancel
                    THEN Pulse(pulses[i].node, millis)
                    ELSE pulses[i]]
          /\ Energise(Driven, FALSE, 0, d)
          /\ undriven' = IF attached THEN (undriven \ Driven) \cup (connected \ Driven)
                                     ELSE undriven \cup connected
  /\ connected' = {}
  /\ UNCHANGED <<ilock, excl, attached>>

(***************************************************************************)
(* update(): release the coil of every pulse that is PDUR old by the clock *)
(* read at the start of the call.                                          *)
(***************************************************************************)
EarlyDue(i) == pulses[i].on /\ Elapsed(millis, pulses[i].t0) + 1 >= PDUR

LateDue(i) == pulses[i].on /\ Elapsed(millis, pulses[i].t0) > PDUR

Due(i) == pulses[i].on /\ Elapsed(millis, pulses[i].t0) >= PDUR

Update(d) ==
  LET Out == {n \in Node : \E i \in Slot : Due(i) /\ pulses[i].node = n}
  IN /\ pulses' = [i \in Slot |-> IF Due(i) THEN Free ELSE pulses[i]]
     /\ Release(Out, d)
     /\ millis' = Later(millis, d)
     /\ sinceUpdate' = 0
     /\ UNCHANGED <<matrixVars, undriven>>

(***************************************************************************)
(* The application spends a millisecond outside the library.               *)
(***************************************************************************)
Tick ==
  /\ Pass(1)
  /\ age' = Aged(1)
  /\ UNCHANGED <<matrixVars, pulses, coil, contact, undriven>>

(***************************************************************************)
(* The microcontroller resets, perhaps in the middle of a pulse: its pins  *)
(* let go of the coils and its memory is initialised again, the relays     *)
(* stay where they are.  A closed one is not recorded: it counts as        *)
(* undriven until something drives it.                                     *)
(***************************************************************************)
Reset ==
  /\ Resets
  /\ MatrixReset
  /\ pulses' = [i \in Slot |-> Free]
  /\ millis' = 0
  /\ sinceUpdate' = 0
  /\ coil' = CoilsOff
  /\ age' = [n \in Node |-> 0]
  /\ contact' = [n \in Node |->
       IF coil[n] = "off" THEN contact[n] ELSE Released(n, age[n])]
  /\ undriven' = {n \in Node : contact'[n] # "open"}

Setup == Configure /\ UNCHANGED <<pulseVars, timeVars, undriven>>

Request(d) ==
  \/ \E n \in Node : Connect(n, d)
  \/ \E n \in Node : Disconnect(n, d)
  \/ \E n \in Node, level \in 0 .. 1 : SetLevel(n, level, d)
  \/ ClearAll(d)

Updates == \E d \in 0 .. CALL_MS : Update(d)

Next ==
  \/ \E d \in 0 .. CALL_MS : Request(d)
  \/ Updates
  \/ Tick
  \/ Setup
  \/ Reset

Spec == Init /\ [][Next]_vars

(***************************************************************************)
(* loop() runs for ever and calls update() in each iteration, and time     *)
(* passes.  Nothing obliges the application to make any request.           *)
(***************************************************************************)
FairSpec == Spec /\ WF_vars(Updates) /\ WF_vars(Tick)
-------------------------------------------------------------------------------
TypeOK ==
  /\ MatrixTypeOK
  /\ pulses \in [Slot -> PulseEvent]
  /\ millis \in Clock
  /\ sinceUpdate \in 0 .. LOOP_GAP
  /\ coil \in [Node -> {"off", "set", "reset"}]
  /\ age \in [Node -> Nat]
  /\ contact \in [Node -> {"open", "closed", "moving"}]
  /\ undriven \subseteq Node

(***************************************************************************)
(* A coil is on only while exactly one slot will make update() release it: *)
(* no sequence of requests, not even clearAll() on a full table, loses the *)
(* slot of an energised coil or gives a node two of them.                  *)
(***************************************************************************)
NoStuckCoil ==
  \A n \in Node : coil[n] # "off" =>
    \E i \in Slot : \A j \in Slot :
      (pulses[j].on /\ pulses[j].node = n) <=> j = i

(***************************************************************************)
(* The coil that is on is the one that pulls towards what is recorded: a   *)
(* node that is not recorded as connected is never being set, also after a *)
(* clearAll() in the middle of its SET pulse.                              *)
(***************************************************************************)
CoilFollowsRecord ==
  \A n \in Node :
    /\ coil[n] = "set" => n \in connected
    /\ coil[n] = "reset" => n \notin connected

(***************************************************************************)
(* Once its coil is off the relay rests where the record says, unless the  *)
(* last change of the record drove nothing (no driver yet, a node that     *)
(* clearAll() skipped, or one that was closed when a reset cleared the     *)
(* record).  It needs every pulse to last for COIL_MIN.                    *)
(***************************************************************************)
ContactFollowsRecord ==
  \A n \in Node \ undriven :
    coil[n] = "off" => contact[n] = IF n \in connected THEN "closed" ELSE "open"

(***************************************************************************)
(* A coil is never on for longer than the pulse, the time between two      *)
(* update()s and what two calls take between their clock and their coils,  *)
(* also when the clock wraps in the middle of the pulse.                   *)
(***************************************************************************)
MaxOn == LOOP_GAP + IF PDUR = 0 THEN 0 ELSE PDUR - 1 + 2 * CALL_MS

BoundedOn == \A n \in Node : age[n] <= MaxOn

(***************************************************************************)
(* A node may bridge its row and its column: the contact is closed or not  *)
(* settled, or a coil is moving it.                                        *)
(***************************************************************************)
Live(n) == coil[n] # "off" \/ contact[n] # "open"

Short(m, n) ==
  /\ m[2] = n[2]
  /\ Exclude(m[1], n[1], m[2])
  /\ Live(m)
  /\ Live(n)

(***************************************************************************)
(* No step makes two rows that the rules in force exclude live in the same *)
(* column: the second waits until the RESET pulse of the first is over,    *)
(* and not only until its bit is cleared.  A contact that clearAll()       *)
(* skipped is out of reach of the rules.                                   *)
(***************************************************************************)
NoNewShort ==
  [][\A m, n \in Node \ undriven :
       (m[2] = n[2] /\ Exclude(m[1], n[1], m[2]) /\ ~Short(m, n)) => ~Short(m, n)']_vars

(***************************************************************************)
(* The same without the exception, which is what README promises of        *)
(* lockRows(): "row 0 and row 1 can never share a column".                 *)
(***************************************************************************)
LockedRowsNeverShare ==
  [][\A m, n \in Node :
       (m[2] = n[2] /\ Exclude(m[1], n[1], m[2]) /\ ~Short(m, n)) => ~Short(m, n)']_vars

(***************************************************************************)
(* README of the constructor: "pulseDuration in milliseconds -- how long   *)
(* the SET/RESET coil is energized".                                       *)
(***************************************************************************)
FullPulse ==
  [][\A n \in Node :
       (coil[n] # "off" /\ coil'[n] = "off")
         => age[n] + Elapsed(millis', millis) >= PDUR]_vars

(***************************************************************************)
(* What the code does keep: a SET coil is on for the whole duration, as    *)
(* millis() counts it, a RESET coil lacks at most what one call takes,     *)
(* whatever was cancelled or restarted meanwhile and wherever the clock    *)
(* wraps.                                                                  *)
(***************************************************************************)
Shortfall(n) == IF coil[n] = "set" THEN 0 ELSE CALL_MS

NoShortPulse ==
  [][\A n \in Node :
       (coil[n] # "off" /\ coil'[n] = "off")
         => age[n] + Shortfall(n) >= PDUR \/ Reset]_vars

(***************************************************************************)
(* The matrix with pulses and time arbitrates its columns as Crosspoint    *)
(* does, a node being occupied until its RESET pulse is over.              *)
(***************************************************************************)
Arbiter == INSTANCE Crosspoint WITH occupied <- Busy

Arbitrates == Arbiter!Spec

(***************************************************************************)
(* Every pulse ends, whatever the application requests meanwhile.          *)
(***************************************************************************)
PulsesExpire ==
  \A n \in Node : (n \in Pending) ~> (n \notin Pending)
===============================================================================
