-------------------------- MODULE MuxedExpandersProof ---------------------------
(***************************************************************************)
(* Theorems about MuxedExpanders, for any number of chips and muxes, with  *)
(* or without lost transactions.                                           *)
(***************************************************************************)
EXTENDS MuxedExpanders, TLAPS

(***************************************************************************)
(* What the code relies on and does not check: two chips with one device   *)
(* address sit behind the same mux.  The run two_muxes shows the other     *)
(* case.                                                                   *)
(***************************************************************************)
Apart == \A c, d \in Chip : c[3] = d[3] => c[1] = d[1]

(***************************************************************************)
(* What a register of a chip has to hold when no call is in progress, and  *)
(* the inductive invariant: a register that does not hold it yet has a     *)
(* write for it in the call in progress, and the last such write brings    *)
(* it.  Earlier ones, in a call that commits more than once, need not.     *)
(***************************************************************************)
Right(c, r, v) ==
  /\ r[1] = "OLAT" => v = shadow[c][r[2]]
  /\ r[1] = "IODIR" => v = Pin

Coming(c, r) == \E i \in 1 .. Len(todo) : todo[i].to = c /\ todo[i].reg = r

WritesAreWanted ==
  \A i \in 1 .. Len(todo) :
    /\ todo[i].to \in begun
    /\ \/ Right(todo[i].to, todo[i].reg, todo[i].val)
       \/ \E j \in i + 1 .. Len(todo) :
            todo[j].to = todo[i].to /\ todo[j].reg = todo[i].reg

RegistersSettle ==
  \A c \in begun, r \in Reg :
    <<c, r>> \in lost \/ Right(c, r, regs[c][r]) \/ Coming(c, r)

MInv ==
  /\ TypeOK
  /\ CacheIsTrue
  /\ WritesAreWanted
  /\ RegistersSettle

(* Power-on establishes the invariant. *)
LEMMA InitMInv == Init => MInv
BY DEF Init, MInv, TypeOK, CacheIsTrue, WritesAreWanted, RegistersSettle, Off, Mux,
       RegWrite

-------------------------------------------------------------------------------
(* _commit() writes the two latches. *)
LEMMA CommitWrites ==
  ASSUME NEW c \in Chip, NEW sh \in [Port -> SUBSET Pin]
  PROVE  /\ Commit(c, sh) \in Seq(RegWrite)
         /\ Len(Commit(c, sh)) = 2
         /\ Commit(c, sh)[1] = WriteTo(c, <<"OLAT", "A">>, sh["A"])
         /\ Commit(c, sh)[2] = WriteTo(c, <<"OLAT", "B">>, sh["B"])
BY DEF Commit, RegWrite, WriteTo, Reg, Port

(* begin() writes the two directions, then the two latches. *)
LEMMA BeginWrites ==
  ASSUME NEW c \in Chip, NEW sh \in [Port -> SUBSET Pin]
  PROVE  /\ Directions(c) \o Commit(c, sh) \in Seq(RegWrite)
         /\ Len(Directions(c) \o Commit(c, sh)) = 4
         /\ (Directions(c) \o Commit(c, sh))[1] = WriteTo(c, <<"IODIR", "A">>, Pin)
         /\ (Directions(c) \o Commit(c, sh))[2] = WriteTo(c, <<"IODIR", "B">>, Pin)
         /\ (Directions(c) \o Commit(c, sh))[3] = WriteTo(c, <<"OLAT", "A">>, sh["A"])
         /\ (Directions(c) \o Commit(c, sh))[4] = WriteTo(c, <<"OLAT", "B">>, sh["B"])
BY DEF Directions, Commit, RegWrite, WriteTo, Reg, Port

(* MCP23017Driver::begin() preserves the invariant. *)
LEMMA BeginMInv ==
  ASSUME MInv, NEW c \in Chip, Begin(c)
  PROVE  MInv'
<1> USE DEF MInv
<1>1. todo = <<>> /\ begun' = begun \cup {c}
      /\ UNCHANGED <<shadow, lastSel, selected, regs, misled, lost>>
  BY DEF Begin
<1>2. shadow[c] \in [Port -> SUBSET Pin]
  BY DEF TypeOK
<1>3. /\ todo' \in Seq(RegWrite)
      /\ Len(todo') = 4
      /\ todo'[1] = WriteTo(c, <<"IODIR", "A">>, Pin)
      /\ todo'[2] = WriteTo(c, <<"IODIR", "B">>, Pin)
      /\ todo'[3] = WriteTo(c, <<"OLAT", "A">>, shadow[c]["A"])
      /\ todo'[4] = WriteTo(c, <<"OLAT", "B">>, shadow[c]["B"])
  <2>1. todo' = Directions(c) \o Commit(c, shadow[c])
    BY DEF Begin
  <2> QED
    BY <1>2, <2>1, BeginWrites
<1>4. TypeOK' /\ CacheIsTrue'
  <2>1. begun' \subseteq Chip
    BY <1>1 DEF TypeOK
  <2> QED
    BY <1>1, <1>3, <2>1 DEF TypeOK, CacheIsTrue
<1>5. \A i \in 1 .. 4 : /\ todo'[i].to = c
                        /\ Right(c, todo'[i].reg, todo'[i].val)
  <2>1. /\ todo'[1].to = c /\ todo'[1].val = Pin /\ todo'[1].reg = <<"IODIR", "A">>
        /\ todo'[2].to = c /\ todo'[2].val = Pin /\ todo'[2].reg = <<"IODIR", "B">>
    BY ONLY <1>3 DEF WriteTo
  <2>2. /\ todo'[3].to = c /\ todo'[3].val = shadow[c]["A"] /\ todo'[3].reg = <<"OLAT", "A">>
        /\ todo'[4].to = c /\ todo'[4].val = shadow[c]["B"] /\ todo'[4].reg = <<"OLAT", "B">>
    BY ONLY <1>3 DEF WriteTo
  <2>3. /\ Right(c, todo'[1].reg, todo'[1].val)
        /\ Right(c, todo'[2].reg, todo'[2].val)
    BY <2>1 DEF Right
  <2>4. /\ Right(c, todo'[3].reg, todo'[3].val)
        /\ Right(c, todo'[4].reg, todo'[4].val)
    BY <2>2 DEF Right
  <2>5. \A i \in 1 .. 4 : i = 1 \/ i = 2 \/ i = 3 \/ i = 4
    OBVIOUS
  <2> QED
    BY <2>1, <2>2, <2>3, <2>4, <2>5
<1>6. WritesAreWanted'
  BY <1>1, <1>3, <1>5 DEF WritesAreWanted, Right
<1>7. ASSUME NEW r \in Reg PROVE Coming(c, r)'
  <2>1. /\ todo'[1].to = c /\ todo'[1].reg = <<"IODIR", "A">>
        /\ todo'[2].to = c /\ todo'[2].reg = <<"IODIR", "B">>
    BY ONLY <1>3 DEF WriteTo
  <2>2. /\ todo'[3].to = c /\ todo'[3].reg = <<"OLAT", "A">>
        /\ todo'[4].to = c /\ todo'[4].reg = <<"OLAT", "B">>
    BY ONLY <1>3 DEF WriteTo
  <2>3. \/ r = <<"IODIR", "A">> \/ r = <<"IODIR", "B">>
        \/ r = <<"OLAT", "A">> \/ r = <<"OLAT", "B">>
    BY DEF Reg, Port
  <2>4. PICK i \in 1 .. 4 : todo'[i].to = c /\ todo'[i].reg = r
    <3>1. 1 \in 1 .. 4 /\ 2 \in 1 .. 4 /\ 3 \in 1 .. 4 /\ 4 \in 1 .. 4
      OBVIOUS
    <3> QED
      BY <2>1, <2>2, <2>3, <3>1, Zenon
  <2> QED
    BY <1>3, <2>4 DEF Coming
<1>8. \A d \in Chip, r \in Reg : ~Coming(d, r)
  BY <1>1 DEF Coming
<1>9. RegistersSettle'
  BY <1>1, <1>7, <1>8 DEF RegistersSettle, Right, TypeOK
<1> QED
  BY <1>4, <1>6, <1>9

(* setNodeHardware() preserves the invariant. *)
LEMMA SetNodeMInv ==
  ASSUME MInv, NEW c \in Chip, NEW p \in Port, NEW pin \in Pin,
         NEW state \in BOOLEAN,
         SetNodeHardware(c, p, pin, state)
  PROVE  MInv'
<1> USE DEF MInv
<1>1. /\ todo = <<>> /\ c \in begun
      /\ UNCHANGED <<begun, lastSel, selected, regs, misled, lost>>
  BY DEF SetNodeHardware
<1>2. /\ shadow' \in [Chip -> [Port -> SUBSET Pin]]
      /\ \A d \in Chip : d # c => shadow'[d] = shadow[d]
  BY DEF SetNodeHardware, TypeOK
<1>3. /\ todo' \in Seq(RegWrite)
      /\ Len(todo') = 2
      /\ todo'[1] = WriteTo(c, <<"OLAT", "A">>, shadow'[c]["A"])
      /\ todo'[2] = WriteTo(c, <<"OLAT", "B">>, shadow'[c]["B"])
  BY <1>2, CommitWrites DEF SetNodeHardware
<1>4. TypeOK' /\ CacheIsTrue'
  BY <1>1, <1>2, <1>3 DEF TypeOK, CacheIsTrue
<1>5. /\ todo'[1].to = c /\ todo'[1].reg = <<"OLAT", "A">> /\ todo'[1].val = shadow'[c]["A"]
      /\ todo'[2].to = c /\ todo'[2].reg = <<"OLAT", "B">> /\ todo'[2].val = shadow'[c]["B"]
  BY ONLY <1>3 DEF WriteTo
<1>6. WritesAreWanted'
  <2>1. \A i \in 1 .. 2 : i = 1 \/ i = 2
    OBVIOUS
  <2>2. \A i \in 1 .. 2 :
          /\ todo'[i].to = c
          /\ todo'[i].reg[1] = "OLAT"
          /\ todo'[i].val = shadow'[c][todo'[i].reg[2]]
    BY <1>5, <2>1
  <2> QED
    BY <1>1, <1>3, <2>2 DEF WritesAreWanted, Right
<1>7. ASSUME NEW r \in Reg, r[1] = "OLAT" PROVE Coming(c, r)'
  <2>1. r = <<"OLAT", "A">> \/ r = <<"OLAT", "B">>
    BY <1>7 DEF Reg, Port
  <2>2. 1 \in 1 .. Len(todo') /\ 2 \in 1 .. Len(todo')
    BY <1>3
  <2> QED
    BY <1>5, <2>1, <2>2 DEF Coming
<1>8. \A d \in Chip, r \in Reg : ~Coming(d, r)
  BY <1>1 DEF Coming
<1>9. RegistersSettle'
  <2> SUFFICES ASSUME NEW d \in begun, NEW r \in Reg
               PROVE  (<<d, r>> \in lost \/ Right(d, r, regs[d][r]) \/ Coming(d, r))'
    BY <1>1 DEF RegistersSettle
  <2>1. d \in Chip
    BY DEF TypeOK
  <2>2. <<d, r>> \in lost \/ Right(d, r, regs[d][r])
    BY <1>8, <2>1 DEF RegistersSettle
  <2>3. CASE d = c /\ r[1] = "OLAT"
    BY <1>7, <2>3
  <2>4. CASE d # c \/ r[1] # "OLAT"
    BY <1>1, <1>2, <2>1, <2>2, <2>4 DEF Right
  <2> QED
    BY <2>3, <2>4
<1> QED
  BY <1>4, <1>6, <1>9

(* Forgetting the channel preserves the invariant. *)
LEMMA InterfaceBeginMInv ==
  ASSUME MInv, NEW m \in Mux, InterfaceBegin(m)
  PROVE  MInv'
BY DEF MInv, InterfaceBegin, TypeOK, CacheIsTrue, WritesAreWanted, RegistersSettle,
       Right, Coming

-------------------------------------------------------------------------------
(***************************************************************************)
(* The write in turn, and what its removal leaves.                         *)
(***************************************************************************)
LEMMA HeadWrite ==
  ASSUME TypeOK, todo # <<>>
  PROVE  /\ Head(todo) \in RegWrite
         /\ Head(todo) = todo[1]
         /\ 1 \in 1 .. Len(todo)
         /\ Target \in Chip
         /\ Target[1] \in Mux /\ Target[2] \in Channel
<1>1. /\ Head(todo) \in RegWrite
      /\ Head(todo) = todo[1]
      /\ 1 \in 1 .. Len(todo)
  BY DEF TypeOK
<1>2. Target \in Chip
  BY <1>1 DEF Target, RegWrite
<1> QED
  BY <1>1, <1>2 DEF Mux, Channel

(* The writes that are left are the later ones, in order. *)
LEMMA TailWrites ==
  ASSUME TypeOK, todo # <<>>
  PROVE  /\ Tail(todo) \in Seq(RegWrite)
         /\ Len(Tail(todo)) = Len(todo) - 1
         /\ \A i \in 1 .. Len(Tail(todo)) : Tail(todo)[i] = todo[i + 1]
         /\ Len(todo) \in Nat
BY DEF TypeOK

(* Selecting a channel preserves the invariant. *)
LEMMA SelectMInv ==
  ASSUME MInv, Select
  PROVE  MInv'
<1> USE DEF MInv
<1>1. Target[1] \in Mux /\ Target[2] \in Channel
  BY HeadWrite DEF Select, SelectByte
<1>2. /\ \/ /\ selected' = [selected EXCEPT ![Target[1]] = {Target[2]}]
            /\ misled' = misled \ {Target[1]}
         \/ /\ selected' = selected
            /\ misled' = misled \cup {Target[1]}
      /\ lastSel' = [lastSel EXCEPT ![Target[1]] = Target[2]]
      /\ UNCHANGED <<shadow, begun, todo, regs, lost>>
  BY DEF Select, SelectByte
<1>3. TypeOK'
  <2>1. selected' \in [Mux -> SUBSET Channel] /\ misled' \subseteq Mux
    BY <1>1, <1>2 DEF TypeOK
  <2>2. lastSel' \in [Mux -> Channel \cup {Unknown}]
    BY <1>1, <1>2 DEF TypeOK
  <2> QED
    BY <1>2, <2>1, <2>2 DEF TypeOK
<1>4. CacheIsTrue'
  BY <1>1, <1>2 DEF CacheIsTrue, TypeOK
<1>5. WritesAreWanted' /\ RegistersSettle'
  BY <1>2 DEF WritesAreWanted, RegistersSettle, Right, Coming
<1> QED
  BY <1>3, <1>4, <1>5

(***************************************************************************)
(* A chip that listens is the target: its mux, not misled, has the cached  *)
(* channel open and no other, and no other mux has a chip with this device *)
(* address.                                                                *)
(***************************************************************************)
LEMMA ListenerIsTarget ==
  ASSUME Apart, TypeOK, CacheIsTrue, todo # <<>>, CachedAsSelected,
         Target[1] \notin misled, NEW c \in Chip
  PROVE  Listening(c) <=> c = Target
<1>1. Target \in Chip /\ Target[1] \in Mux /\ Target[2] \in Channel
  BY HeadWrite
<1>2. selected[Target[1]] = {Target[2]}
  BY <1>1, MuxAssumption DEF CachedAsSelected, CacheIsTrue
<1>3. c = <<c[1], c[2], c[3]>> /\ Target = <<Target[1], Target[2], Target[3]>>
  BY <1>1, MuxAssumption
<1>4. ASSUME Listening(c) PROVE c = Target
  <2>1. c[3] = Target[3] /\ c[2] \in selected[c[1]]
    BY <1>4 DEF Listening
  <2>2. c[1] = Target[1]
    BY <1>1, <2>1 DEF Apart
  <2>3. c[2] = Target[2]
    BY <1>2, <2>1, <2>2
  <2> QED
    BY <1>3, <2>1, <2>2, <2>3, Zenon
<1>5. ASSUME c = Target PROVE Listening(c)
  BY <1>2, <1>5 DEF Listening
<1> QED
  BY <1>4, <1>5

(***************************************************************************)
(* The effect of a register write, delivered or lost, on a register of any *)
(* chip: it is lost from now on, or it holds the value if it is the one    *)
(* that the write is for, or else it is what and as sure as it was.        *)
(***************************************************************************)
LEMMA WriteEffect ==
  ASSUME Apart, TypeOK, CacheIsTrue, Write
  PROVE  /\ todo[1] \in RegWrite /\ 1 \in 1 .. Len(todo)
         /\ todo' \in Seq(RegWrite)
         /\ Len(todo') = Len(todo) - 1 /\ Len(todo) \in Nat
         /\ \A i \in 1 .. Len(todo') : todo'[i] = todo[i + 1]
         /\ UNCHANGED <<shadow, begun, lastSel, selected, misled>>
         /\ regs' \in [Chip -> [Reg -> SUBSET Pin]] /\ lost' \subseteq Chip \X Reg
         /\ \A c \in Chip, r \in Reg :
              \/ <<c, r>> \in lost'
              \/ /\ regs'[c][r] = IF c = todo[1].to /\ r = todo[1].reg
                                  THEN todo[1].val ELSE regs[c][r]
                 /\ <<c, r>> \in lost => c = todo[1].to /\ r = todo[1].reg
<1> DEFINE w == Head(todo)
<1>1. /\ todo # <<>> /\ CachedAsSelected /\ todo' = Tail(todo)
      /\ UNCHANGED <<shadow, begun, lastSel, selected, misled>>
  BY DEF Write
<1>2. /\ w \in RegWrite /\ w = todo[1] /\ 1 \in 1 .. Len(todo)
      /\ Target = w.to /\ Target \in Chip /\ w.reg \in Reg /\ w.val \in SUBSET Pin
  BY <1>1, HeadWrite DEF Target, RegWrite
<1>3. /\ todo' \in Seq(RegWrite)
      /\ Len(todo') = Len(todo) - 1
      /\ \A i \in 1 .. Len(todo') : todo'[i] = todo[i + 1]
      /\ Len(todo) \in Nat
  BY <1>1, TailWrites
<1>5. \/ /\ \A c \in Chip, r \in Reg :
              regs'[c][r] = IF Listening(c) /\ r = w.reg THEN w.val ELSE regs[c][r]
         /\ regs' \in [Chip -> [Reg -> SUBSET Pin]]
         /\ lost' = (lost \ {<<w.to, w.reg>>}) \cup {<<c, w.reg>> : c \in Astray}
      \/ /\ regs' = regs
         /\ lost' = lost \cup {<<w.to, w.reg>>}
  <2>1. CASE /\ regs' = [c \in Chip |->
                  IF Listening(c) THEN [regs[c] EXCEPT ![w.reg] = w.val] ELSE regs[c]]
             /\ lost' = (lost \ {<<w.to, w.reg>>}) \cup {<<c, w.reg>> : c \in Astray}
    <3>1. \A c \in Chip, r \in Reg :
            regs'[c][r] = IF Listening(c) /\ r = w.reg THEN w.val ELSE regs[c][r]
      BY <1>2, <2>1 DEF TypeOK
    <3>2. regs' \in [Chip -> [Reg -> SUBSET Pin]]
      BY <1>2, <2>1 DEF TypeOK
    <3> QED
      BY <2>1, <3>1, <3>2
  <2>2. CASE regs' = regs /\ lost' = lost \cup {<<w.to, w.reg>>}
    BY <2>2
  <2> QED
    BY <2>1, <2>2 DEF Write
<1>10. \A c \in Chip : c \notin Astray => (Listening(c) <=> c = w.to)
  <2> SUFFICES ASSUME NEW c \in Chip, c \notin Astray
               PROVE  Listening(c) <=> c = w.to
    OBVIOUS
  <2>1. CASE Target[1] \in misled
    BY <1>2, <2>1 DEF Astray
  <2>2. CASE Target[1] \notin misled
    BY <1>1, <1>2, <2>2, ListenerIsTarget
  <2> QED
    BY <2>1, <2>2
<1>11. \A c \in Chip, r \in Reg :
         \/ <<c, r>> \in lost'
         \/ /\ regs'[c][r] = IF c = w.to /\ r = w.reg THEN w.val ELSE regs[c][r]
            /\ <<c, r>> \in lost => c = w.to /\ r = w.reg
  <2> SUFFICES ASSUME NEW c \in Chip, NEW r \in Reg, <<c, r>> \notin lost'
               PROVE  /\ regs'[c][r] = IF c = w.to /\ r = w.reg THEN w.val ELSE regs[c][r]
                      /\ <<c, r>> \in lost => c = w.to /\ r = w.reg
    OBVIOUS
  <2>1. CASE /\ regs'[c][r] = IF Listening(c) /\ r = w.reg THEN w.val ELSE regs[c][r]
             /\ lost' = (lost \ {<<w.to, w.reg>>}) \cup {<<d, w.reg>> : d \in Astray}
    <3>1. r = w.reg => c \notin Astray
      BY <2>1
    <3>2. r = w.reg => (Listening(c) <=> c = w.to)
      BY <1>10, <3>1
    <3> QED
      BY <2>1, <3>2
  <2>2. CASE regs' = regs /\ lost' = lost \cup {<<w.to, w.reg>>}
    BY <2>2
  <2> QED
    BY <1>5, <2>1, <2>2
<1> HIDE DEF w
<1>6. lost' \subseteq Chip \X Reg
  BY <1>2, <1>5 DEF TypeOK, Astray
<1>7. regs' \in [Chip -> [Reg -> SUBSET Pin]]
  BY <1>5 DEF TypeOK
<1> QED
  BY <1>1, <1>2, <1>3, <1>6, <1>7, <1>11

(* A register write, delivered or lost, preserves the invariant. *)
LEMMA WriteMInv ==
  ASSUME Apart, MInv, Write
  PROVE  MInv'
<1> USE DEF MInv
<1> DEFINE w == todo[1]
<1>1. /\ UNCHANGED <<shadow, begun, lastSel, selected, misled>>
      /\ w \in RegWrite /\ 1 \in 1 .. Len(todo)
      /\ todo' \in Seq(RegWrite)
      /\ Len(todo') = Len(todo) - 1 /\ Len(todo) \in Nat
      /\ \A i \in 1 .. Len(todo') : todo'[i] = todo[i + 1]
      /\ regs' \in [Chip -> [Reg -> SUBSET Pin]] /\ lost' \subseteq Chip \X Reg
  BY WriteEffect
<1>2. \A c \in Chip, r \in Reg :
        \/ <<c, r>> \in lost'
        \/ /\ regs'[c][r] = IF c = w.to /\ r = w.reg THEN w.val ELSE regs[c][r]
           /\ <<c, r>> \in lost => c = w.to /\ r = w.reg
  BY WriteEffect
<1>3. \A i \in 2 .. Len(todo) : i - 1 \in 1 .. Len(todo') /\ todo'[i - 1] = todo[i]
  BY <1>1
<1>4. /\ w.to \in begun
      /\ \/ Right(w.to, w.reg, w.val)
         \/ \E i \in 1 .. Len(todo') : todo'[i].to = w.to /\ todo'[i].reg = w.reg
  <2>1. /\ w.to \in begun
        /\ \/ Right(w.to, w.reg, w.val)
           \/ \E j \in 1 + 1 .. Len(todo) : todo[j].to = w.to /\ todo[j].reg = w.reg
    BY <1>1 DEF WritesAreWanted
  <2> QED
    BY <1>3, <2>1
<1>5. TypeOK'
  BY <1>1 DEF TypeOK
<1>6. CacheIsTrue'
  BY <1>1 DEF CacheIsTrue
<1>7. WritesAreWanted'
  <2> SUFFICES ASSUME NEW i \in 1 .. Len(todo')
               PROVE  /\ todo'[i].to \in begun
                      /\ \/ Right(todo'[i].to, todo'[i].reg, todo'[i].val)
                         \/ \E j \in i + 1 .. Len(todo') :
                              todo'[j].to = todo'[i].to /\ todo'[j].reg = todo'[i].reg
    BY <1>1 DEF WritesAreWanted, Right
  <2>1. i + 1 \in 1 .. Len(todo) /\ todo'[i] = todo[i + 1]
    BY <1>1
  <2>2. /\ todo[i + 1].to \in begun
        /\ \/ Right(todo[i + 1].to, todo[i + 1].reg, todo[i + 1].val)
           \/ \E j \in (i + 1) + 1 .. Len(todo) :
                todo[j].to = todo[i + 1].to /\ todo[j].reg = todo[i + 1].reg
    BY <2>1 DEF WritesAreWanted
  <2>3. ASSUME NEW j \in (i + 1) + 1 .. Len(todo)
        PROVE  j - 1 \in i + 1 .. Len(todo') /\ todo'[j - 1] = todo[j]
    BY <1>1
  <2> QED
    BY <2>1, <2>2, <2>3
<1>8. RegistersSettle'
  <2> SUFFICES ASSUME NEW c \in begun, NEW r \in Reg
               PROVE  (<<c, r>> \in lost \/ Right(c, r, regs[c][r]) \/ Coming(c, r))'
    BY <1>1 DEF RegistersSettle
  <2>1. c \in Chip
    BY DEF TypeOK
  <2>2. CASE c = w.to /\ r = w.reg
    <3>1. <<c, r>> \in lost' \/ regs'[c][r] = w.val
      BY <1>2, <2>1, <2>2
    <3>2. <<c, r>> \in lost' \/ Right(c, r, regs'[c][r]) \/ Coming(c, r)'
      BY <1>4, <2>2, <3>1 DEF Coming
    <3> QED
      BY <1>1, <3>2 DEF Right
  <2>3. CASE ~(c = w.to /\ r = w.reg)
    <3>1. \/ <<c, r>> \in lost'
          \/ regs'[c][r] = regs[c][r] /\ <<c, r>> \notin lost
      BY <1>2, <2>1, <2>3
    <3>2. Coming(c, r) => Coming(c, r)'
      <4> SUFFICES ASSUME NEW i \in 1 .. Len(todo), todo[i].to = c, todo[i].reg = r
                   PROVE  Coming(c, r)'
        BY DEF Coming
      <4>1. i # 1
        BY <2>3
      <4>2. i - 1 \in 1 .. Len(todo') /\ todo'[i - 1] = todo[i]
        BY <1>3, <4>1
      <4> QED
        BY <4>2 DEF Coming
    <3>3. <<c, r>> \in lost \/ Right(c, r, regs[c][r]) \/ Coming(c, r)
      BY DEF RegistersSettle
    <3> QED
      BY <1>1, <3>1, <3>2, <3>3 DEF Right
  <2> QED
    BY <2>2, <2>3
<1> QED
  BY <1>5, <1>6, <1>7, <1>8

(* A reset leaves no driver begun and no call in progress. *)
LEMMA ResetMInv ==
  ASSUME MInv, Reset
  PROVE  MInv'
<1> USE DEF MInv
<1>1. /\ begun' = {} /\ todo' = <<>> /\ lastSel' = [m \in Mux |-> Unknown]
      /\ shadow' = Off
      /\ UNCHANGED <<selected, regs, misled, lost>>
  BY DEF Reset
<1>2. todo' \in Seq(RegWrite) /\ Len(todo') = 0
  BY <1>1
<1>3. TypeOK' /\ CacheIsTrue'
  BY <1>1, <1>2 DEF TypeOK, CacheIsTrue, Off
<1>4. WritesAreWanted' /\ RegistersSettle'
  BY <1>1, <1>2 DEF WritesAreWanted, RegistersSettle
<1> QED
  BY <1>3, <1>4

(* Every step preserves the invariant. *)
LEMMA NextMInv ==
  ASSUME Apart
  PROVE  MInv /\ [Next]_vars => MInv'
<1> SUFFICES ASSUME MInv, [Next]_vars PROVE MInv'
  OBVIOUS
<1>1. CASE Call
  BY <1>1, BeginMInv, SetNodeMInv, InterfaceBeginMInv DEF Call
<1>2. CASE Bus
  BY <1>2, SelectMInv, WriteMInv DEF Bus
<1>3. CASE Reset
  BY <1>3, ResetMInv
<1>4. CASE UNCHANGED vars
  BY <1>4
  DEF vars, MInv, TypeOK, CacheIsTrue, WritesAreWanted, RegistersSettle, Right, Coming
<1> QED
  BY <1>1, <1>2, <1>3, <1>4 DEF Next

(* With no call in progress no write is still to come. *)
LEMMA MInvLatches == MInv => LatchesFollowShadows
<1> SUFFICES ASSUME MInv, todo = <<>>, NEW c \in begun, NEW p \in Port
             PROVE  /\ <<c, <<"OLAT", p>>>> \notin lost
                         => regs[c][<<"OLAT", p>>] = shadow[c][p]
                    /\ <<c, <<"IODIR", p>>>> \notin lost => regs[c][<<"IODIR", p>>] = Pin
  BY DEF LatchesFollowShadows
<1>1. <<"OLAT", p>> \in Reg /\ <<"IODIR", p>> \in Reg
  BY DEF Reg
<1>2. \A r \in Reg : ~Coming(c, r)
  BY DEF Coming
<1>3. \A r \in Reg : <<c, r>> \in lost \/ Right(c, r, regs[c][r])
  BY <1>2 DEF MInv, RegistersSettle
<1> QED
  BY <1>1, <1>3 DEF Right

-------------------------------------------------------------------------------
(***************************************************************************)
(* When no call is in progress, the registers of every chip that was begun *)
(* and whose writes were not lost hold what its driver believes, whatever  *)
(* calls and resets came before.                                           *)
(***************************************************************************)
THEOREM LatchesRight ==
  ASSUME Apart
  PROVE  Spec => []LatchesFollowShadows
<1>1. Init => MInv
  BY InitMInv
<1>2. MInv /\ [Next]_vars => MInv'
  BY NextMInv
<1>3. MInv => LatchesFollowShadows
  BY MInvLatches
<1> QED
  BY <1>1, <1>2, <1>3, PTL DEF Spec

-------------------------------------------------------------------------------
(***************************************************************************)
(* Type correctness and the truth of the cache need no assumption on where *)
(* the chips are.                                                          *)
(***************************************************************************)
SInv == TypeOK /\ CacheIsTrue

(* Every step keeps the types and the truth of the cache. *)
LEMMA StepSInv == SInv /\ [Next]_vars => SInv'
<1> SUFFICES ASSUME SInv, [Next]_vars PROVE SInv'
  OBVIOUS
<1> USE DEF SInv
<1>1. ASSUME NEW c \in Chip, Begin(c) PROVE SInv'
  <2>1. shadow[c] \in [Port -> SUBSET Pin]
    BY DEF TypeOK
  <2>2. todo' \in Seq(RegWrite)
    BY <1>1, <2>1, BeginWrites DEF Begin
  <2> QED
    BY <1>1, <2>2 DEF Begin, TypeOK, CacheIsTrue
<1>2. ASSUME NEW c \in Chip, NEW p \in Port, NEW pin \in Pin,
         NEW state \in BOOLEAN,
             SetNodeHardware(c, p, pin, state)
      PROVE  SInv'
  <2>1. shadow' \in [Chip -> [Port -> SUBSET Pin]]
    BY <1>2 DEF SetNodeHardware, TypeOK
  <2>2. todo' \in Seq(RegWrite)
    BY <1>2, <2>1, CommitWrites DEF SetNodeHardware
  <2> QED
    BY <1>2, <2>1, <2>2 DEF SetNodeHardware, TypeOK, CacheIsTrue
<1>3. ASSUME NEW m \in Mux, InterfaceBegin(m) PROVE SInv'
  BY <1>3 DEF InterfaceBegin, TypeOK, CacheIsTrue
<1>4. CASE Select
  <2>1. Target[1] \in Mux /\ Target[2] \in Channel
    BY <1>4, HeadWrite DEF Select, SelectByte
  <2>2. /\ \/ /\ selected' = [selected EXCEPT ![Target[1]] = {Target[2]}]
              /\ misled' = misled \ {Target[1]}
           \/ /\ selected' = selected
              /\ misled' = misled \cup {Target[1]}
        /\ lastSel' = [lastSel EXCEPT ![Target[1]] = Target[2]]
        /\ UNCHANGED <<shadow, begun, todo, regs, lost>>
    BY <1>4 DEF Select, SelectByte
  <2> QED
    BY <2>1, <2>2 DEF TypeOK, CacheIsTrue
<1>5. CASE Write
  <2>1. /\ todo # <<>> /\ todo' = Tail(todo)
        /\ UNCHANGED <<shadow, begun, lastSel, selected, misled>>
    BY <1>5 DEF Write
  <2>2. Head(todo).to \in Chip /\ Head(todo).reg \in Reg /\ Head(todo).val \in SUBSET Pin
    BY <2>1, HeadWrite DEF RegWrite
  <2>3. regs' \in [Chip -> [Reg -> SUBSET Pin]] /\ lost' \subseteq Chip \X Reg
    <3>1. \/ /\ regs' = [c \in Chip |->
                  IF Listening(c)
                  THEN [regs[c] EXCEPT ![Head(todo).reg] = Head(todo).val] ELSE regs[c]]
             /\ lost' = (lost \ {<<Head(todo).to, Head(todo).reg>>})
                           \cup {<<c, Head(todo).reg>> : c \in Astray}
          \/ /\ regs' = regs
             /\ lost' = lost \cup {<<Head(todo).to, Head(todo).reg>>}
      BY <1>5 DEF Write
    <3>2. Astray \subseteq Chip
      BY DEF Astray
    <3>3. regs' \in [Chip -> [Reg -> SUBSET Pin]]
      <4>1. regs \in [Chip -> [Reg -> SUBSET Pin]]
        BY DEF TypeOK
      <4>2. CASE regs' = [c \in Chip |->
                   IF Listening(c)
                   THEN [regs[c] EXCEPT ![Head(todo).reg] = Head(todo).val] ELSE regs[c]]
        BY <2>2, <4>1, <4>2
      <4> QED
        BY <3>1, <4>1, <4>2
    <3>4. lost' \subseteq Chip \X Reg
      BY <2>2, <3>1, <3>2 DEF TypeOK
    <3> QED
      BY <3>3, <3>4
  <2> QED
    BY <2>1, <2>3, TailWrites DEF TypeOK, CacheIsTrue
<1>6. CASE Reset
  BY <1>6 DEF Reset, TypeOK, CacheIsTrue, Off
<1>7. CASE UNCHANGED vars
  BY <1>7 DEF vars, TypeOK, CacheIsTrue
<1> QED
  BY <1>1, <1>2, <1>3, <1>4, <1>5, <1>6, <1>7 DEF Next, Call, Bus

(* Power-on knows no channel. *)
LEMMA InitSInv == Init => SInv
BY InitMInv DEF SInv, MInv

(***************************************************************************)
(* Type correctness.                                                       *)
(***************************************************************************)
THEOREM MuxedTyping == Spec => []TypeOK
<1>1. SInv => TypeOK
  BY DEF SInv
<1> QED
  BY <1>1, InitSInv, StepSInv, PTL DEF Spec

(***************************************************************************)
(* The cache never claims a channel that is not open, or not the only one. *)
(***************************************************************************)
THEOREM CacheRight == Spec => []CacheIsTrue
<1>1. SInv => CacheIsTrue
  BY DEF SInv
<1> QED
  BY <1>1, InitSInv, StepSInv, PTL DEF Spec

(* Steps on the bus, delivered or lost, and where they may be felt. *)
LEMMA StepReachesTarget ==
  ASSUME Apart, SInv, [Next]_vars, NEW c \in Chip, regs'[c] # regs[c]
  PROVE  /\ todo # <<>>
         /\ c = Target \/ (Target[1] \in misled /\ c[1] = Target[1] /\ c[3] = Target[3])
<1>1. Write
  BY DEF Next, Call, Bus, Begin, SetNodeHardware, InterfaceBegin, Select, SelectByte, Reset,
         vars
<1>2. todo # <<>> /\ CachedAsSelected
  BY <1>1 DEF Write
<1>3. Listening(c)
  BY <1>1 DEF Write
<1>4. Target[1] \notin misled => (Listening(c) <=> c = Target)
  BY <1>2, ListenerIsTarget DEF SInv
<1>5. Target \in Chip
  BY <1>2, HeadWrite DEF SInv
<1>6. c[1] = Target[1] /\ c[3] = Target[3]
  BY <1>3, <1>5 DEF Apart, Listening
<1> QED
  BY <1>2, <1>3, <1>4, <1>6

(***************************************************************************)
(* A register write changes no chip but the one that it is for, or after a *)
(* lost select byte one behind the same mux, provided that chips with one  *)
(* address are behind one mux.                                             *)
(***************************************************************************)
THEOREM WritesReachTheirChip ==
  ASSUME Apart
  PROVE  Spec => OnlyTheTarget
<1>1. ASSUME SInv, [Next]_vars
      PROVE  [\A c \in Chip : regs'[c] # regs[c] =>
                /\ todo # <<>>
                /\ c = Target \/ (Target[1] \in misled /\ c[1] = Target[1]
                                                        /\ c[3] = Target[3])]_vars
  BY <1>1, StepReachesTarget
<1> QED
  BY <1>1, InitSInv, StepSInv, PTL DEF Spec, OnlyTheTarget
===============================================================================
