---------------------------- MODULE MuxedExpanders ----------------------------
(***************************************************************************)
(* MCP23017 expanders behind TCA9548A multiplexers on one I2C bus:         *)
(* MCP23017Driver on TCA9548AInterface on WireI2C.  A driver keeps shadows *)
(* of its two output latches and writes both after every change; an        *)
(* adapter selects its channel on its mux unless a cache says that it is   *)
(* selected already.                                                       *)
(*                                                                         *)
(* The calls are broken into their bus transactions, between which the     *)
(* microcontroller may reset.  The muxes and the expanders do not reset    *)
(* with it: they keep their channels, directions and latches.              *)
(*                                                                         *)
(* A driver has one chip, named by the place of its driver: the mux and    *)
(* the channel of its adapter and its own device address.  A register of a *)
(* port, and its shadow, is the set of the pins whose bit says high, or    *)
(* for IODIR output.                                                       *)
(***************************************************************************)
EXTENDS Integers, Sequences, FiniteSets

CONSTANTS
  Chip,  \* subset of Mux \X Channel \X device address
  Pin,   \* the pins of a port, 0 .. 7
  Lossy  \* TRUE: a transaction may be lost; endTransmission() is ignored

Mux     == {c[1] : c \in Chip}
Channel == {c[2] : c \in Chip}
Port    == {"A", "B"}
Reg     == {"IODIR", "OLAT"} \X Port

CONSTANT Unknown  \* the sentinel 0xFF of the cache

ASSUME MuxAssumption ==
  /\ \A c \in Chip : c = <<c[1], c[2], c[3]>>
  /\ Unknown \notin Channel
  /\ Lossy \in BOOLEAN

VARIABLES
  shadow,    \* _ga and _gb of each driver: chip -> port -> pins that are high
  begun,     \* drivers whose begin() was called since the reset
  lastSel,   \* the static cache: mux -> channel or Unknown
  todo,      \* register writes left in the call in progress
  selected,  \* the muxes' own control registers: mux -> set of channels
  regs,      \* the chips' registers: chip -> register -> pins
  misled,    \* history: muxes whose last channel-select byte was lost
  lost       \* history: registers that lack their last write, or took
             \* another chip's, because a byte was lost

vars == <<shadow, begun, lastSel, todo, selected, regs, misled, lost>>
-------------------------------------------------------------------------------
Off == [c \in Chip |-> [p \in Port |-> {}]]

WriteTo(c, r, v) == [to |-> c, reg |-> r, val |-> v]

(***************************************************************************)
(* Power-on: shadows and cache are initialised, no mux has a channel open, *)
(* every pin of a chip is a low input.                                     *)
(***************************************************************************)
Init ==
  /\ shadow = Off
  /\ begun = {}
  /\ lastSel = [m \in Mux |-> Unknown]
  /\ todo = <<>>
  /\ selected = [m \in Mux |-> {}]
  /\ regs = [c \in Chip |-> [r \in Reg |-> {}]]
  /\ misled = {}
  /\ lost = {}

(***************************************************************************)
(* _commit(): both latches, from the shadows.                              *)
(***************************************************************************)
CommitToPort(c, sh) ==
  <<WriteTo(c, <<"GPIO", "A">>, sh["A"]), WriteTo(c, <<"GPIO", "B">>, sh["B"])>>

CommitPortA(c, sh) == <<WriteTo(c, <<"OLAT", "A">>, sh["A"])>>

Commit(c, sh) ==
  <<WriteTo(c, <<"OLAT", "A">>, sh["A"]), WriteTo(c, <<"OLAT", "B">>, sh["B"])>>

(***************************************************************************)
(* MCP23017Driver::begin(): directions first, then the latches.            *)
(***************************************************************************)
Directions(c) ==
  <<WriteTo(c, <<"IODIR", "A">>, Pin), WriteTo(c, <<"IODIR", "B">>, Pin)>>

SilentBegin(c) ==
  /\ todo = <<>>
  /\ begun' = begun \cup {c}
  /\ todo' = Directions(c)
  /\ UNCHANGED <<shadow, lastSel, selected, regs, misled, lost>>

Begin(c) ==
  /\ todo = <<>>
  /\ begun' = begun \cup {c}
  /\ todo' = Directions(c) \o Commit(c, shadow[c])
  /\ UNCHANGED <<shadow, lastSel, selected, regs, misled, lost>>

(***************************************************************************)
(* MCP23017Driver::setNodeHardware(), legal after begin().                 *)
(***************************************************************************)
SetNodeHardware(c, p, pin, state) ==
  /\ todo = <<>>
  /\ c \in begun
  /\ shadow' = [shadow EXCEPT ![c][p] = IF state THEN @ \cup {pin} ELSE @ \ {pin}]
  /\ todo' = Commit(c, shadow'[c])
  /\ UNCHANGED <<begun, lastSel, selected, regs, misled, lost>>

(***************************************************************************)
(* TCA9548AInterface::begin() of any adapter of the mux.                   *)
(***************************************************************************)
InterfaceBegin(m) ==
  /\ todo = <<>>
  /\ lastSel' = [lastSel EXCEPT ![m] = Unknown]
  /\ UNCHANGED <<shadow, begun, todo, selected, regs, misled, lost>>

(***************************************************************************)
(* _selectIfNeeded() when the cache differs: one byte to the mux, which    *)
(* opens this channel and closes its others, and the cache, which is       *)
(* written whether the byte arrives or not.                                *)
(***************************************************************************)
Target == Head(todo).to

UnknownIsSelected == lastSel[Target[1]] \in {Target[2], Unknown}

CachedAsSelected == lastSel[Target[1]] = Target[2]

SelectByte(open, cache) ==
  /\ todo # <<>>
  /\ ~CachedAsSelected
  /\ \/ /\ selected' = [selected EXCEPT ![Target[1]] = open]
        /\ misled' = misled \ {Target[1]}
     \/ /\ Lossy
        /\ selected' = selected
        /\ misled' = misled \cup {Target[1]}
  /\ lastSel' = cache
  /\ UNCHANGED <<shadow, begun, todo, regs, lost>>

SharedCache == SelectByte({Target[2]}, [m \in Mux |-> Target[2]])

AddChannel ==
  SelectByte(selected[Target[1]] \cup {Target[2]},
             [lastSel EXCEPT ![Target[1]] = Target[2]])

Select == SelectByte({Target[2]}, [lastSel EXCEPT ![Target[1]] = Target[2]])

(***************************************************************************)
(* The forwarded writeRegister().  It reaches every chip that has the      *)
(* device address and sits behind an open channel of any mux of the bus;   *)
(* the device address is all that the transaction carries.  Through a mux  *)
(* that is misled it misses its chip and may reach another one.            *)
(***************************************************************************)
Listening(c) == c[3] = Target[3] /\ c[2] \in selected[c[1]]

Astray ==
  {c \in Chip : Target[1] \in misled /\ (Listening(c) <=> c # Target)}

Write ==
  /\ todo # <<>>
  /\ CachedAsSelected
  /\ todo' = Tail(todo)
  /\ LET w == Head(todo) IN
       \/ /\ regs' = [c \in Chip |->
               IF Listening(c) THEN [regs[c] EXCEPT ![w.reg] = w.val] ELSE regs[c]]
          /\ lost' = (lost \ {<<w.to, w.reg>>}) \cup {<<c, w.reg>> : c \in Astray}
       \/ /\ Lossy
          /\ regs' = regs
          /\ lost' = lost \cup {<<w.to, w.reg>>}
  /\ UNCHANGED <<shadow, begun, lastSel, selected, misled>>

(***************************************************************************)
(* The microcontroller resets, between any two transactions: what it holds *)
(* in RAM is initialised again, the chips on the bus notice nothing.       *)
(***************************************************************************)
Reset ==
  /\ shadow' = Off
  /\ begun' = {}
  /\ lastSel' = [m \in Mux |-> Unknown]
  /\ todo' = <<>>
  /\ UNCHANGED <<selected, regs, misled, lost>>

Call ==
  \/ \E c \in Chip : Begin(c)
  \/ \E c \in Chip, p \in Port, pin \in Pin, state \in BOOLEAN :
       SetNodeHardware(c, p, pin, state)
  \/ \E m \in Mux : InterfaceBegin(m)

Bus == Select \/ Write

Next == Call \/ Bus \/ Reset

Spec == Init /\ [][Next]_vars
-------------------------------------------------------------------------------
RegWrite == [to : Chip, reg : Reg, val : SUBSET Pin]

TypeOK ==
  /\ shadow \in [Chip -> [Port -> SUBSET Pin]]
  /\ begun \subseteq Chip
  /\ lastSel \in [Mux -> Channel \cup {Unknown}]
  /\ todo \in Seq(RegWrite)
  /\ selected \in [Mux -> SUBSET Channel]
  /\ regs \in [Chip -> [Reg -> SUBSET Pin]]
  /\ misled \subseteq Mux
  /\ lost \subseteq Chip \X Reg

(***************************************************************************)
(* What the cache claims is true: the mux has that channel open and no     *)
(* other, so skipping the select byte is safe, also after a reset, unless  *)
(* the last select byte itself was lost.                                   *)
(***************************************************************************)
CacheIsTrue ==
  \A m \in Mux \ misled : lastSel[m] # Unknown => selected[m] = {lastSel[m]}

(***************************************************************************)
(* A register write changes the registers of the chip that it is for and   *)
(* of no other ("routes I2C traffic through a specific channel"); a lost   *)
(* select byte misdirects writes among the chips with one address behind   *)
(* that mux, and no others, until a select byte arrives.                   *)
(***************************************************************************)
OnlyTheTarget ==
  [][\A c \in Chip : regs'[c] # regs[c] =>
       /\ todo # <<>>
       /\ c = Target \/ (Target[1] \in misled /\ c[1] = Target[1] /\ c[3] = Target[3])]_vars

(***************************************************************************)
(* Between calls the latches of a chip that was begun are its driver's     *)
(* shadows and its pins are outputs, whatever a reset interrupted before;  *)
(* a write that was lost or went astray is made good by the next write of  *)
(* the register that arrives.                                              *)
(***************************************************************************)
LatchesFollowShadows ==
  todo = <<>> =>
    \A c \in begun, p \in Port :
      /\ <<c, <<"OLAT", p>>>> \notin lost => regs[c][<<"OLAT", p>>] = shadow[c][p]
      /\ <<c, <<"IODIR", p>>>> \notin lost => regs[c][<<"IODIR", p>>] = Pin

(***************************************************************************)
(* A relay that a driver was told to switch ends up energised, or the      *)
(* driver was told otherwise, the microcontroller reset, or a byte was     *)
(* lost: no order of calls and selections leaves it waiting.               *)
(***************************************************************************)
SwitchedOn ==
  \A c \in Chip, p \in Port, pin \in Pin :
    (c \in begun /\ pin \in shadow[c][p]) ~>
      \/ c \notin begun
      \/ pin \notin shadow[c][p]
      \/ pin \in regs[c][<<"OLAT", p>>] \cap regs[c][<<"IODIR", p>>]
      \/ {<<c, <<"OLAT", p>>>>, <<c, <<"IODIR", p>>>>} \cap lost # {}
===============================================================================
