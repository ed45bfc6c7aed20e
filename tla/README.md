# XPoint: TLA+ specifications and proofs

XPoint is an Arduino library for crosspoint matrices of relays, switches or
dimmable channels.  A matrix of rows and columns records which nodes are
connected, refuses connections that interlock rules forbid, and drives the nodes
through a driver.  This directory models the matrix and the drivers that hold
state, checks the models with TLC on small instances, and proves the main safety
properties with TLAPS for instances of every size.

1. [The system](#1-the-system)
2. [The modules](#2-the-modules)
3. [What the runs check](#3-what-the-runs-check)
4. [Fairness](#4-fairness)
5. [Where code and documentation disagree](#5-where-code-and-documentation-disagree)
6. [What is proved](#6-what-is-proved)
7. [What is not modelled](#7-what-is-not-modelled)
8. [Plan](#8-plan)

## 1. The system

Nothing in the library blocks and nothing runs concurrently on the
microcontroller: the application's `setup()` and `loop()` call the matrix, the
matrix calls the driver, the driver the bus.  What is concurrent is the world:
the clock, the relays, the chips on the bus, which keep their state when the
microcontroller resets.

| Component | State | Operations | Interacts with |
|---|---|---|---|
| `XPoint`, latching (`XPoint.cpp`, `XPoint.h`) | bit pool (connections, locks, exclusive columns), driver pointer, 8 pulse slots | `connect`, `disconnect`, `setLevel`, `clearAll`, `update`, `lockRows`, `exclusiveInput`, `setDriver`, `begin` | calls the driver; reads `millis()`; `update()` is called by `loop()` |
| `XPoint`, non-latching | the bit pool, the driver pointer | the same, `update()` does nothing | calls the driver |
| Dual-coil driver (`examples/advanced/LatchingRelay`) | none of its own; the pins of two coils a node | `setNodeHardware`, `releaseNode` | the relays |
| `MCP23017Driver` | shadows of two output latches | `begin`, `setNodeHardware` | an `I2CInterface` |
| `TCA9548AInterface` | a static cache, mux address to channel | `begin`, `writeRegister` | another `I2CInterface`, the muxes |
| `WireI2C` | none | `writeRegister`, `writeByte` | the bus; ignores errors |
| `TLC59711Driver` | level of every channel, the packet | `setNodeHardware`, `setNodeLevel`, `setPWM`, `commitPhysicalUpdates` | a daisy chain of chips |
| `XPointDriver` | none | the interface, with defaults for `setNodeLevel`, `releaseNode`, `commitPhysicalUpdates` | |
| `BitPool` | array of words | `get`, `set`, `clear` | used by `XPoint` |
| `ArduinoShiftRegisterDriver`, `HC595Helper` | a shadow of the outputs | `begin`, `setNodeHardware`, `commitPhysicalUpdates` | a chain of 74HC595 |
| `ArduinoDirectGPIODriver` | none of its own; the port registers of the pins | `begin`, `setNodeHardware` | pins |
| `ShiftRegisterDriver`, `DirectGPIODriver` | arrays that stand for outputs | `setNodeHardware` | the tests |

What is hard, and what makes each component correct:

* **Latching matrix.**  A request switches a coil on and leaves; a later
  `update()` switches it off.  In between come other requests, `clearAll()`,
  configuration, the wrap of a 32-bit clock, and a full pulse table.  It is
  correct if no coil is left on, none is on for too long, a relay ends where the
  record says, and two rows that exclude each other are never live in one
  column: not even while the RESET pulse of the first is still running, when its
  bit is already clear.  A reset of the microcontroller empties the record while
  the relays stay where they are.
* **Non-latching matrix.**  No time, but levels, a driver that may come late, and
  outputs that hold arbitrary values at the start and after a reset.  It is
  correct if the outputs are what is recorded and no step energises two excluded
  rows.
* **Bit pool.**  Connections, locks and exclusive columns in one array of words,
  found by offsets that are computed from the dimensions, with no bound checked.
  It is correct if each operation changes the section and the element that it is
  for and nothing outside of the array.
* **Expanders behind muxes.**  A call is several bus transactions.  The
  microcontroller may reset between any two, and forgets the shadows and the
  cache, while muxes and expanders keep their registers.  It is correct if the
  cache is true, a write reaches its chip and no other, and after each call the
  chip is what the driver believes.  On a bus that loses bytes, only what was lost
  may be wrong, and only until the next write.
* **A matrix on an expander.**  A request changes the record at once and the pins
  two writes later.  It is correct if pins and record agree between calls, and no
  single write energises two excluded rows.
* **74HC595 chain.**  A commit is dozens of clock edges, the last byte first and the
  highest bit first.  It is correct if the outputs show the whole buffer or nothing
  of it, whatever a reset left in the registers.
* **TLC59711 chain.**  A packet in reverse order through a shift register, with a
  loop counter of 8 bits and a sign.  It is correct if every channel shows what
  was asked for it.

## 2. The modules

```
XPoint ---------- LatchingXPoint ------ LatchingXPointProof -- LatchingArbiterProof
   |  |               |    \----------- MCLatching
   |  |            Crosspoint (abstract)
   |  |               |
   |  \---------- NonLatchingXPoint --- NonLatchingProof
   |                       \----------- MCNonLatching
   |
   |---(abstract, RecordSpec)--- PooledXPoint --- PooledXPointProof
   |                                  \---------- MCPooled
   |
   \------------- ExpanderMatrix ------ ExpanderMatrixProof
                      |    \----------- MCExpander  |
                      |                             |
                 MuxedExpanders ------- MuxedExpandersProof
                           \----------- MCMuxed

ShiftRegisterChain -- ShiftRegisterChainProof     TLC59711Chain -- TLC59711ChainProof
        |
   OutputBuffer (abstract)
```

**`XPoint`** has what both relay types share.  The sections of the bit pool are
sets: `connected`, `ilock`, `excl`.  `attached` is `_drv != nullptr`.
`Forbidden(n, busy)` is the pair of loops at the head of `connect()` and
`setLevel()`.  Calls with coordinates outside the matrix return at once and
change nothing, so the actions range over the nodes.  `RecordSpec` is what the
requests may do to the three sets, drivers left out: the abstract specification of
`PooledXPoint`.

**`LatchingXPoint`** is the `RE_LATCHING_DUAL_COIL` branch with driver and
relays.

| Variable | In the code |
|---|---|
| `pulses` | `_pulses`, the slot table |
| `millis` | `_millis()`, wrapping at `CLOCK_RANGE` (2^32) |
| `sinceUpdate` | time since the last `update()`, which the application keeps below `LOOP_GAP` |
| `coil`, `age` | which of the two pins of a node is high, and for how long |
| `contact` | where the relay rests: open, closed, or moving while undetermined |
| `undriven` | history: nodes whose last change of record sent no pulse |

Each public method is one action: `Connect`, `Disconnect`, `SetLevel`,
`ClearAll`, `Update`, and `Setup` for the configuration.  A call that returns
without changing anything is a stuttering step and has no action.  A call may
take `d` ms, at most `CALL_MS`.  Where they fall matters only against the reading of the clock:
`connect()` reads it after the coil is on, so that the coil is older than its
slot says; `clearAll()` reads it before, so that the coil is younger.  The relay
moves if its coil is on for `COIL_MIN`; until then its position is undetermined.
`setLevel()` is reduced to on and off, which is what the dual-coil driver does
with it.

`Reset` is a reset of the microcontroller at any time, also during a pulse: record,
rules, slots and clock start anew, the pins let go of the coils, and the relays stay
where they are or where the shortened pulse brought them.  A relay that is not open
then is in `undriven` until something drives it.

`ClearAll` is a scan over nodes and slots in the code.  The model states its
outcome: nodes whose own pulse is in flight take their slot again, the others
take the free slots in order (`SlotsHandedOut`), the rest get none.

**`NonLatchingXPoint`** is the `RE_NON_LATCHING` branch with each kind of driver
that the library has for it.  `driver` says which; it is chosen at the start and
never changes.

| `driver` | In the code | `begin()` | Levels |
|---|---|---|---|
| `"expander"` | `MCP23017Driver`, `ArduinoShiftRegisterDriver` | writes the shadow | on and off |
| `"dimmer"` | `TLC59711Driver` | writes nothing | all |
| `"pins"` | `ArduinoDirectGPIODriver` | drives the pins LOW, whatever was asked of them | on and off |
| `"recorder"` | `ShiftRegisterDriver`, `DirectGPIODriver` of the host builds | does nothing | on and off |

`out` is what the outputs drive; until the driver first writes, that is what they
held when the microcontroller reset.  `setDriver()` and `begin()` are one action,
which may be repeated, as the documentation requires them to be called together.
`Reset` constructs matrix and driver again and leaves the outputs of chips alone.

**`Crosspoint`** is what a matrix promises with no drivers, pulses or time: nodes
are granted unless a rule in force excludes them, rules are added and only a reset
drops them.  The latching matrix implements it with `occupied` as "connected or
pulse pending", the non-latching one with `occupied` as `connected`.

**`MuxedExpanders`** has drivers (`shadow`, `begun`), the adapters' static cache
(`lastSel`), the bus transactions left in the call in progress (`todo`), and the
hardware (`selected`, `regs`).  A register, or its shadow, is the set of the pins
whose bit is one, for `IODIR` of those that are outputs.  `Begin`, `SetNodeHardware` and `InterfaceBegin`
start a call, `Select` and `Write` are its transactions, `Reset` may come between
any two.  A write reaches every chip that has the address and is behind an open
channel: the bus knows nothing else.  With `Lossy` a register write or a select
byte may be lost, and nobody notices, as `WireI2C` ignores the result.  The cache
then names a channel that is not open; the history variable `misled` holds the
muxes that this is true of, and `lost` the registers that lack their last write or
took one that went astray through such a mux.

**`ExpanderMatrix`** composes `XPoint` and `MuxedExpanders` as the MCP23017Matrix
example does.  A request of the matrix changes the record and, in the same step,
leaves the register writes of its `setNodeHardware()` to be made; `clearAll()`
leaves two for every node that was connected.  The other expanders are driven by
other matrices, of which only the driver calls are modelled.  A reset clears record
and shadows in one step and leaves pins and muxes.  `mapper`, `PortOf` and `PinOf`
are the mapper of the example and the driver's split of what it returns: row 0 is
port A and row 1 port B, so that a matrix has at most two rows and eight columns.
`ClearAll` states the outcome of the loops: `Visits` is the order in which they
meet the connected nodes, `Cleared(order, i)` the shadows after `i` of them, and
`ClearWrites` the two writes of each commit.  `Unsure(n)` says that a lost byte
concerned the port of a node.

**`PooledXPoint`** has the array of words (`words`) and the operations of the
matrix on its record, each through `Get`, `Set` and the three offsets.  The word
size `W` is 32 in the code.  A write past the array, which `BitPool` does not
check, makes the array grow by the word it hits, so that `TypeOK` says that no
operation writes to foreign memory.  `Sections` reads the pool back as three sets.

**`ShiftRegisterChain`** has the buffer (`buf`), the number of bits clocked out by
the commit in progress (`clocked`), the modes of the pins (`pins`), the latch line
(`latch`), and the hardware: the shift stages (`stage`) and the output latches
(`outputs`).  `LatchLow`, `ClockBit` and `LatchHigh` are the steps of a commit, and
`Reset` may come between any two.  While the pins float the chain may see any
edges.  **`OutputBuffer`** is what `XPointDriver.h` asks of a driver that batches
its writes.

**`TLC59711Chain`** has the levels (`pwms`), the packet (`pkt`) and the outputs
of the chips (`lit`).  `LastChip` is the start value of the loop with both its
conversions to `int8_t`; `INT8_HALF` is 128 in the code.

The modules `MC...` give the constants their values.  Operators that stand
directly before a definition with a name like `EarlyDue`, `SilentBegin` or
`LowestFirst` are plausible errors in that definition; each is there to show that
a property would notice.  No specification uses them.

## 3. What the runs check

| Run | Properties | Instance |
|---|---|---|
| `Latching.cfg` | `TypeOK`, `NoStuckCoil`, `CoilFollowsRecord`, `ContactFollowsRecord`, `BoundedOn`, `NoNewShort`, `NoShortPulse`, `Arbitrates` | 3 rows, 1 column, 2 slots, pulse 2 ms, calls up to 1 ms, clock wraps at 6, resets, locks only |
| `LatchingGrid.cfg` | `ContactFollowsRecord`, `NoNewShort`, `PulsesExpire` | 2 x 2, 1 slot, pulse 1 ms, driver attached at any time, clock wraps at 3, no resets |
| `NonLatching.cfg` | `TypeOK`, `OutputFollowsRecord`, `NoNewShort`, `Arbitrates` | 2 x 2, 3 levels, all kinds of driver, attached at any time, resets |
| `Expander.cfg` | `TypeOK`, `CacheIsTrue`, `LatchesFollowShadows`, `PinsFollowRecord`, `OnlyTheTarget`, `SwitchedOn`, `NoNewShort` | a matrix of 2 x 1 on one of three chips, two of them with one address behind two channels of a mux, the third behind another mux; resets |
| `ExpanderLossy.cfg` | `CacheIsTrue`, `LatchesFollowShadows`, `PinsFollowRecord`, `OnlyTheTarget`, `NoNewShort` | the same matrix, on one of two chips with one address behind two channels of a mux; register writes and select bytes may be lost; resets |
| `Chain.cfg` | `TypeOK`, `ChainShowsLevels` | 2 chips of 2 channels, 3 levels, `INT8_HALF` = 2 |
| `BitPool.cfg` | `TypeOK`, `KeepsSections` | 2 x 3, words of 4 bits, any contents of the array at the start |
| `ShiftChain.cfg` | `TypeOK`, `ShiftedSoFar`, `ShowsBuffer` | 2 registers of 2 outputs, 3 outputs in use, 6 nodes |
| `ClearAllOverflow.cfg`, `ClearAllPulse.cfg`, `TwoMuxes.cfg`, `ChainTooLong.cfg` | one each, violated: section 5 | as small as shows it |

Why the bounds are enough:

* *Rows and columns.*  The rules act within a column.  Three rows of one column
  have a locked pair and a row outside of it, and outnumber the two slots.  The
  2 x 2 run adds the second column and the exclusive columns, so that a rule applied
  to the wrong one shows; the proofs have both rules and the resets at once.
* *Slots.*  One and two slots, with more nodes than slots: a full table, a free
  slot below and above a used one, and `clearAll()` running out of slots all occur.
* *Clock.*  `CLOCK_RANGE` is the least that the timing assumption allows, so that
  the clock wraps in the middle of pulses, from any start value.  Elapsed times
  are smaller than the range, as in the code: 2^32 ms are 49 days.
* *Durations.*  A pulse of 2 ms with calls of up to 1 ms and a relay that needs
  1 ms is the tightest case of `COIL_MIN + CALL_MS <= PDUR`.
* *Levels.*  Off, between, full.
* *Chips.*  Two behind one mux make the cache matter, one behind a second mux
  makes the cache be per mux.
* *Pins.*  The runs have one pin of each port, which is one column.  A write carries
  both, one or none of two rows, and `clearAll()` up to two commits; the theorems of
  section 6 have all eight pins, and with them the columns, which share a write.
* *Chain.*  `INT8_HALF` = 2 puts the wrap of the counter at three chips.
* *Losses.*  Of the lossy instance, the states with more than two registers wrong at
  a time are not explored further (`FewLost`, a constraint of that run alone).  Two
  are a pair of latches, or one register of each chip; the proof of section 6 has
  no such bound.
* *Pool.*  With 2 x 3 nodes and words of 4 bits the state section ends inside a
  word, the lock section starts there, the exclusive section crosses a word, and
  the last word has bits to spare.  More columns than rows make an offset that mixes
  them up show.
* *Registers.*  Two registers make the order of bytes matter, two outputs each the
  order of bits; of six nodes three have an output, one would be at the idle output,
  and two past the buffer, so that the early return of `setNodeHardware()` is needed.

Lengths of behaviours are not bounded anywhere: but for `FewLost`, the state spaces
are finite and explored in full.

What the properties say is stated above each of them in the modules.  The ones
that need a word:

* `NoNewShort` is an action property.  The code allows rules to be added when the
  rows they exclude share a column already, so "two excluded rows
  are never live together" is false; what holds is that no step *makes* them so.
  On the latching matrix it excepts the nodes in `undriven`: `clear_all_overflow`
  shows why, and a relay that a reset finds closed is the other case.  It speaks of
  coils and contacts, not of records.  On the expander it is about single register
  writes: a commit that changes both ports, or one over what a reset left.
* `ContactFollowsRecord` excepts the nodes in `undriven` too, whose last change
  of record moved nothing.
* `LatchesFollowShadows` excepts, on a lossy bus, the registers whose last write
  was lost or that took a stray one, and nothing else: in particular not the other
  latch of the same chip, which a commit writes as well.
* `OnlyTheTarget` allows a lost select byte to misdirect a write, but only to a chip
  with the same address behind the same mux, and only until the next select byte
  that arrives.  This is how far the damage of one lost byte reaches.
* `KeepsSections` and `ShowsBuffer` are refinements: `PooledXPoint` implements the
  sets of `XPoint`, `ShiftRegisterChain` a buffer that is shown at once.
* `PinsFollowRecord` and the `NoNewShort` of the expander except, on a lossy bus,
  the nodes of a port that a lost byte concerned (`Unsure`), and nothing else:
  between calls an expander that was begun shows the record, whatever was cut short
  before, and the other port does so even while this one is wrong.

## 4. Fairness

Liveness is checked for two modules.

* `LatchingXPoint!FairSpec` has weak fairness of `Updates` and of `Tick`.  The
  example's `loop()` calls `update()` in every iteration and never ends, and the
  documentation requires it ("must be called every loop()"); time passes by
  itself.  No request is fair: `PulsesExpire` holds although the application may
  call `clearAll()` again and again, which restarts pulses that are being set,
  because a node that it has cleared is not connected any more and cannot be
  cleared again before its pulse is over.
* `ExpanderMatrix!ComposedSpec` has weak fairness of `Bus`: a driver call blocks the
  only thread and runs to its end unless the microcontroller resets.  Neither calls
  nor resets are fair; `SwitchedOn` allows for the reset.

## 5. Where code and documentation disagree

Each of the four has a run whose counterexample is a few steps long.

1. **`clearAll()` with more connected nodes than slots** (`ClearAllOverflow.cfg`).
   `XPoint.cpp:280` clears the bit before it is known that a slot is free; without
   one (297) nothing is driven.  The relay stays closed, its node is recorded as
   disconnected, and a row that is locked with it can be connected to its column.
   `XPoint.h:167` mentions that such nodes are skipped; README.md:144 promises
   that locked rows "can never share a column".
2. **`clearAll()` reads the clock first** (`ClearAllPulse.cfg`).  Its pulses are
   shorter than `pulseDuration` by the time between line 270 and the hardware
   write.  With a slow driver this can be a large part of a pulse.
3. **Two muxes on one bus** (`TwoMuxes.cfg`).  Selecting a channel of one mux does
   not close the channel that another has open.  Expanders with the same address
   behind different muxes then both take a write.  `TCA9548AInterface.h:13-16`
   promises 64 segments of 8 expanders on a bus with 8 muxes.
4. **More than 128 TLC59711** (`ChainTooLong.cfg`).  `(int8_t)_nChips - 1` is
   negative, the loop assembles nothing, the chips are sent zeros without a
   control word.

Three more follow from a line of code each, or from the hardware, and have no run:

* `lockRows()` looks at no connection (`XPoint.cpp:316-323`): two rows that share a
  column when they are locked stay connected, against README.md:144.  `NoNewShort`
  is stated so that it holds all the same.
* `connect()` answers `true` for a node that is recorded already and drives nothing
  (`XPoint.cpp:105`); after a low `setLevel()` the channel stays low.
  `TLC59711Driver.h:23` says that `connect()` drives it to `0xFFFF`.
* After a reset the constructor takes every latching relay for open
  (`XPoint.cpp:45`); one that is closed stays so, out of reach of the interlock,
  until it is connected and disconnected again.

## 6. What is proved

All theorems hold for every value of the constants that the named assumptions
allow, and are checked by `tlapm` to the last leaf.

| Module | Theorem | Property | Assumes |
|---|---|---|---|
| `LatchingXPointProof` | `Typing` | `TypeOK` | `MatrixAssumption`, `TimingAssumption` |
| | `CoilsReleased` | `NoStuckCoil` | the same |
| | `CoilsDirected` | `CoilFollowsRecord` | the same |
| | `CoilsBounded` | `BoundedOn` | the same |
| `LatchingArbiterProof` | `ContactsRight` | `ContactFollowsRecord` | and `LongEnough` |
| | `RowsKeptApart` | `NoNewShort` | and `LongEnough` |
| | `PulsesLast` | `NoShortPulse` | `MatrixAssumption`, `TimingAssumption` |
| | `Implements` | `Arbitrates` | the same |
| `NonLatchingProof` | `NonLatchingTyping` | `TypeOK` | `MatrixAssumption`, `LevelAssumption` |
| | `OutputsRight` | `OutputFollowsRecord` | the same |
| | `OutputsKeptApart` | `NoNewShort` | the same |
| | `NonLatchingImplements` | `Arbitrates` | the same |
| `MuxedExpandersProof` | `MuxedTyping`, `CacheRight` | `TypeOK`, `CacheIsTrue` | `MuxAssumption` |
| | `LatchesRight`, `WritesReachTheirChip` | `LatchesFollowShadows`, `OnlyTheTarget` | and `Apart` |
| `ExpanderMatrixProof` | `ComposedTyping`, `ComposedCache` | `TypeOK`, `CacheIsTrue` | `MuxAssumption`, `MatrixAssumption`, `ExpanderAssumption` |
| | `ComposedLatches`, `ComposedTarget` | `LatchesFollowShadows`, `OnlyTheTarget` | and `Apart` |
| | `PinsRight` | `PinsFollowRecord` | and `Apart` |
| | `PinsKeptApart` | `NoNewShort` | and `Apart` |
| `PooledXPointProof` | `PoolTyping` | `TypeOK` | `PoolAssumption` |
| | `PoolKeepsSections` | `KeepsSections` | the same |
| `ShiftRegisterChainProof` | `ShiftTyping` | `TypeOK` | `ChainAssumption` |
| | `BitsInPlace` | `ShiftedSoFar` | the same |
| | `ChainShowsBuffer` | `ShowsBuffer` | the same |
| `TLC59711ChainProof` | `ChainTyping` | `TypeOK` | `ChainAssumption` |
| | `ShortChainShows` | `ChainShowsLevels` | and `N_CHIPS <= INT8_HALF` |

The assumptions that are more than types:

* `TimingAssumption`: pulse, gap between `update()`s and two calls together are
  shorter than the range of the clock.  Without it an unsigned difference of
  two readings says nothing.  The pulse duration is at most 65535 ms in the code.
* `LongEnough`: `COIL_MIN + CALL_MS <= PDUR`.  The code does not check it; it is
  what the choice of `pulseDuration` has to satisfy *because* of finding 2.
  Without `CALL_MS` in it the theorem would be false.
* `Apart`: chips with one address are behind one mux.  Finding 3 is the case
  that it leaves out.
* `ExpanderAssumption`: the matrix fits the 16 pins as the mapper of the example lays
  them out, at most two rows and eight columns, and its driver is attached before
  the first request, as in the example.
* `PoolAssumption`: the number of words fits the type that counts them.  With
  dimensions up to 255 a pool has at most 130305 bits, 4073 words, and the counter
  has 16 bits.
* `N_CHIPS <= INT8_HALF`: finding 4 is the rest.

**The latching matrix.**  `NoStuckCoil` is not inductive: `update()` releases the
coil of every due slot, and that frees the *right* coil only if a node never has
two slots, and `BoundedOn` needs to know how the age of a coil relates to the
age that its slot shows.  The invariant `IInv` therefore has, apart from types,

* `OneSlot`: no two slots in use name one node;
* `CoilHasSlot`: a node whose coil is on has a slot;
* `SlotTimed`: the age shown by a slot is at most the time since the last
  `update()` plus what a pulse may have had left then.  It is where the
  wrapping subtraction is shown to be a true difference (`ElapsedGrows`);
* `AgeTimed`: the age of a coil and the age shown by its slot differ by at most
  `CALL_MS`, in either direction;
* `SetTimed`: a SET coil is at least as old as its slot shows, since `connect()` reads
  the clock after it switched the coil on.  RESET coils are the ones of which only
  `AgeTimed` holds, since `clearAll()` reads the clock first;
* `AgeBounded`: the same bound for coils, from which `BoundedOn` follows;
* `NoDriverNoCoil`, `SymmetricLocks` and `CoilFollowsRecord`.

Each action is shown to preserve each part.  `StartPulse` is the common part of
three actions, and `ClearAll` is the long case: the slots it hands out are
distinct and free, and no served node is still pending.

`NoShortPulse` follows from `IInv`: but for a reset, only `Update` turns a coil off
(`ReleasedInTime`), and only one whose slot shows `PDUR`, which the coil has been on for
by `SetTimed`, or less `CALL_MS` by `AgeTimed` (`DueIsOld`).  It is the part of the
README's promise that finding 2 leaves: SET pulses are whole, RESET pulses lack at
most one call.  Time is counted as `millis()` counts it: that a clock read just before
a tick makes a pulse shorter by a part of a millisecond is below what the model
shows.

`CInv` adds `ContactFollowsRecord`.  Its only hard step is `Update`: a due slot is
`PDUR` old, its coil at least `PDUR - CALL_MS` by `AgeTimed`, which `LongEnough`
makes enough for the relay.  `NoNewShort` follows from `CInv`: a node that becomes
live was not forbidden, and every other live node that is not in `undriven` is
recorded or has a pulse pending, so that the rules see it.  `Reset` re-establishes
every part, since relays that are not open become `undriven`.

**The non-latching matrix.**  `NInv`: what is on in the shadow is recorded and the
reverse, outputs are the shadow once the driver has written, before the first
commit the shadow is zero, and before the driver is there all records are
undriven.  It holds for the four kinds of driver alike; they differ in `Begin` and
in what `Reset` leaves of the outputs.

**The expanders.**  `MInv`: every register of a begun chip is right, or was lost,
or a write for it is still in the call in progress; and every write in the call in
progress is right or is followed by another for the same register, as the earlier
commits of a `clearAll()` are.  With no call in progress that is
`LatchesFollowShadows`.  On a lossy bus a write that goes astray reaches only chips
in `Astray`, which the same step enters in `lost`; `WriteEffect` is what is left
of a write after that: a register that is not in `lost` afterwards took the write or
was right and stayed so.

**The matrix on an expander.**  Every step but `clearAll()` is a step of
`MuxedExpanders` or leaves it alone (`BusStep`), so that its four properties carry
over once `ClearAll` is shown to preserve their invariants.  For `PinsFollowRecord` and
`NoNewShort` there is `EInv`, which adds to `MInv`

* `RecordIsShadow`: the shadow of the matrix's chip is the record.  That the mapper
  gives no two nodes one pin (`Mapped`) is used here;
* `BegunFirst`: what is recorded was recorded after `begin()`;
* `DirectionsFirst`: a pin whose latch is high is an output, and a call writes
  directions before latches.  Without it a write of `IODIR` over latches that a
  reset left could energise two pins at once;
* `OnlyFalling`: of two writes to one latch in a call the later has no pin that the
  earlier had not.  Only `clearAll()` has two, and it only clears;
* `RisesAlone`: a pin that a write still to come will raise is high already, or the
  pins that it excludes are low and no write of the call raises them.  It is what
  makes each single write safe: requests establish it from `Forbidden` and the
  record, which between calls is what the pins show (`IdlePins`);
* `SymmetricLocks` and the types of the record.

The exceptions for lost bytes are in the parts that speak of registers, each for the
port that it speaks of: `RisesAlone` excepts the latch, `DirectionsFirst` the latch
and the direction.  TLC has checked `EInv` on the instances
of the two runs.

**The pool.**  `RowMajor` and `RowMajorUnique` are the facts about `n * COLS + m`: it
is below `ROWS * COLS`, and no two pairs share a value.  With them the three kinds of index
lie in disjoint intervals below `PoolBits`, `PoolBits` bits fit the words, and two
indices with the same word and the same bit are equal.  Every `Set` then keeps the
domain of the array (`GetSetAll`), which is `PoolTyping`, and changes one
element of one of the sets read back, and each operation is the action of
`XPoint!RecordNext` of its name.

**The 74HC595 chain.**  `ShiftedSoFar` is inductive as it stands: a clock moves every
bit up by one, and the bit put in at stage 0 is the one that the formula asks for
there.  After the last clock it says `stage = buf`, so that the rising latch line is
`OutputBuffer!Commit`, and all other steps but the reset leave the outputs alone.

**The chain.**  The theorem is arithmetic: channel `ch` is in block
`N - 1 - ch \div PER_CHIP` at position `PER_CHIP - 1 - ch % PER_CHIP`, and the loop
puts it there.

**Only model-checked.**  `PulsesExpire` and `SwitchedOn`: liveness under fairness
is out of the prover's reach.  Every invariant and every action property that a
passing run checks is proved.

## 7. What is not modelled

* Exchanging or detaching a driver, `begin()` in the middle of a pulse, a latching
  matrix over a driver without `releaseNode()`: outside the documented use.
* Cascades of muxes, several buses: the documentation promises neither.  The cache
  is one static array, so that they would share entries.
* A mapper that returns a pin or an output past the last of an expander or a port,
  or one pin for two nodes; a mapper is the application's.  `ShiftRegisterChain` has
  a node past the last output, which the driver ignores.
* `CustomDriver` and the other examples, which are straight-line calls with prints,
  and the tests, which were read for what the library promises.
* A failed heap allocation: `new` of the Arduino core returns a null pointer, the
  pool is not valid, and every method returns at once.  `PooledXPoint` has it as
  `valid = FALSE`; the modules of the two branches leave it out.

## 8. Plan

What is left, in this order:

1. **Cascades and second buses** that share a cache entry, and the weakest
   condition under which `OnlyTheTarget` still holds.
2. **Driver exchange**, `begin()` in the middle of a pulse, and the default
   `releaseNode()`, as configurations of `LatchingXPoint` of their own.
3. **The latching matrix over the bit pool**: `LatchingXPoint` with its sections
   replaced by those of `PooledXPoint`.
