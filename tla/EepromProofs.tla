----------------------------- MODULE EepromProofs -----------------------------
(***************************************************************************)
(* Theorems about Eeprom, for every geometry that Fits, every checksum,    *)
(* every set of requests and every set of faults.                          *)
(***************************************************************************)
EXTENDS Eeprom, TLAPS

(* What the theorems ask of the constants: the layout fits in the array,   *)
(* and a checksum can be stored in a header field.                         *)
WellConfigured ==
  /\ Fits
  /\ \A s \in Seq(Cell) : Crc(s) \in Cell

-----------------------------------------------------------------------------
(* Arithmetic of the layout.                                               *)

LEMMA Pad4Bounds ==
  ASSUME NEW x \in Nat
  PROVE  Pad4(x) \in Nat /\ x <= Pad4(x)
BY DEF Pad4

LEMMA Pad4Monotone ==
  ASSUME NEW x \in Nat, NEW y \in Nat, x <= y
  PROVE  Pad4(x) <= Pad4(y)
BY DEF Pad4

(* A record whose padded length fits, fits.                                *)
LEMMA RecordRoom ==
  ASSUME NEW w \in Nat, NEW len \in Nat, NEW s \in Nat, w + Pad4(RecLen + len) <= s
  PROVE  w + RecLen + len <= s
<1>1. RecLen + len \in Nat
  BY DEF RecLen
<1>2. RecLen + len <= Pad4(RecLen + len) /\ Pad4(RecLen + len) \in Nat
  BY <1>1, Pad4Bounds
<1> QED  BY <1>1, <1>2 DEF RecLen

(* The header and the data of an append, and where they end.               *)
LEMMA AppendRoom ==
  ASSUME NEW a \in Nat, NEW w \in Nat, NEW len \in Nat, NEW s \in Nat,
         w + RecLen + len <= s, w >= HdrLen
  PROVE  /\ a + w \in Nat /\ a + w >= a + HdrLen
         /\ (a + w) + RecLen <= a + s
         /\ a + w + RecLen \in Nat /\ a + w + RecLen >= a + w
         /\ a + w + RecLen >= a + HdrLen
         /\ (a + w + RecLen) + len <= a + s
BY DEF HdrLen, RecLen

LEMMA Geometry ==
  ASSUME WellConfigured
  PROVE  /\ BaseA \in Nat /\ BaseB \in Nat /\ SectorSize \in Nat /\ Size \in Nat \ {0}
         /\ BaseB = BaseA + SectorSize /\ BaseB + SectorSize <= FlashSize
         /\ FlashSize \in Nat
         /\ HdrLen + RecLen + Size <= SectorSize
         /\ \A x : x \in Addr <=> (x \in Nat /\ x < FlashSize)
<1>1. Pad4(RecLen + Size) >= RecLen + Size /\ Pad4(RecLen + Size) \in Nat
  <2>1. RecLen + Size \in Nat
    BY EepromAssumption DEF RecLen
  <2> QED  BY <2>1, Pad4Bounds
<1> QED
  BY <1>1, EepromAssumption, GeometryAssumption
  DEF WellConfigured, Fits, BaseA, BaseB, HdrLen, RecLen, Addr

LEMMA HeaderAddresses ==
  ASSUME WellConfigured
  PROVE  /\ BaseA \in Addr /\ BaseA + 1 \in Addr /\ BaseB \in Addr /\ BaseB + 1 \in Addr
         /\ BaseA \in Nat /\ BaseB \in Nat /\ BaseA # BaseB /\ BaseA + 2 <= BaseB
BY Geometry DEF HdrLen, RecLen

-----------------------------------------------------------------------------
(* What a flash call does to the array, however far it gets.               *)

LEMMA ProgramEffect ==
  ASSUME NEW mem \in [Addr -> Cell], NEW a \in Nat, NEW cells \in Seq(Cell),
         NEW k \in 0 .. Len(cells)
  PROVE  /\ Programmed(mem, a, cells, k) \in [Addr -> Cell]
         /\ \A x \in Addr : x < a \/ a + k <= x => Programmed(mem, a, cells, k)[x] = mem[x]
         /\ \A x \in Addr : a <= x /\ x < a + k /\ mem[x] = Blank =>
              Programmed(mem, a, cells, k)[x] = cells[x - a + 1]
<1>1. \A x \in Addr : a <= x /\ x < a + k => cells[x - a + 1] \in Cell
  <2> SUFFICES ASSUME NEW x \in Addr, a <= x, x < a + k
               PROVE  cells[x - a + 1] \in Cell
    OBVIOUS
  <2>1. x - a + 1 \in 1 .. Len(cells)
    BY GeometryAssumption DEF Addr
  <2> QED  BY <2>1
<1>2. \A x \in Addr : x \in a .. (a + k - 1) <=> a <= x /\ x < a + k
  BY GeometryAssumption DEF Addr
<1>3. /\ \A v, w \in Cell : BitAnd(v, w) \in Cell
      /\ \A w \in Cell : BitAnd(Blank, w) = w
  BY CellAssumption
<1>4. Programmed(mem, a, cells, k) =
        [x \in Addr |-> IF a <= x /\ x < a + k THEN BitAnd(mem[x], cells[x - a + 1]) ELSE mem[x]]
  BY <1>2 DEF Programmed
<1>5. \A x \in Addr : a <= x /\ x < a + k => BitAnd(mem[x], cells[x - a + 1]) \in Cell
  BY <1>1, <1>3
<1>6. Programmed(mem, a, cells, k) \in [Addr -> Cell]
  BY <1>4, <1>5
<1>7. \A x \in Addr : x < a \/ a + k <= x => Programmed(mem, a, cells, k)[x] = mem[x]
  <2>1. \A x \in Addr : x < a \/ a + k <= x => ~ (a <= x /\ x < a + k)
    BY GeometryAssumption DEF Addr
  <2> QED  BY <1>4, <2>1
<1>8. \A x \in Addr : a <= x /\ x < a + k /\ mem[x] = Blank =>
        Programmed(mem, a, cells, k)[x] = cells[x - a + 1]
  BY <1>1, <1>3, <1>4
<1> QED
  BY <1>6, <1>7, <1>8

LEMMA EraseEffect ==
  ASSUME NEW mem \in [Addr -> Cell], NEW b \in Nat, EraseBase(b) = b,
         NEW k \in 0 .. SectorSize
  PROVE  /\ Erased(mem, b, k) \in [Addr -> Cell]
         /\ \A x \in Addr : x < b \/ b + k <= x => Erased(mem, b, k)[x] = mem[x]
         /\ \A x \in Addr : Erased(mem, b, k)[x] = mem[x] \/ Erased(mem, b, k)[x] = Blank
         /\ \A x \in Addr : b <= x /\ x < b + k => Erased(mem, b, k)[x] = Blank
<1>1. \A x \in Addr : x \in b .. (b + k - 1) <=> b <= x /\ x < b + k
  BY GeometryAssumption DEF Addr
<1> QED
  BY <1>1, CellAssumption DEF Erased

-----------------------------------------------------------------------------
(* The cells the library programs, and where.                              *)

LEMMA RecordHeaderType ==
  ASSUME WellConfigured, NEW n \in Cell, NEW a \in Cell, NEW data \in Seq(Cell),
         Len(data) \in Cell
  PROVE  RecordHeader(n, a, data) \in Seq(Cell) /\ Len(RecordHeader(n, a, data)) = RecLen
<1>0. RecMagic \in Cell /\ 0 \in Cell
  BY EepromAssumption
<1>1. RecordCells(n, a, Len(data), 0) \in Seq(Cell)
  BY <1>0 DEF RecordCells
<1>2. RecordCells(n, a, Len(data), 0) \o data \in Seq(Cell)
  BY <1>1
<1>3. Crc(RecordCells(n, a, Len(data), 0) \o data) \in Cell
  BY <1>2 DEF WellConfigured
<1> QED
  BY <1>0, <1>3 DEF RecordHeader, RecordCells, RecLen

LEMMA SnapshotType ==
  ASSUME WellConfigured, TypeOK
  PROVE  Snapshot \in Seq(Cell) /\ Len(Snapshot) = Size
<1>1. Size \in Nat /\ \A i \in 1 .. Size : state[i - 1] \in Cell
  BY EepromAssumption DEF TypeOK
<1>2. Snapshot \in [1 .. Size -> Cell]
  BY <1>1 DEF Snapshot
<1>3. [1 .. Size -> Cell] \subseteq Seq(Cell)
  BY <1>1
<1> QED
  BY <1>1, <1>2, <1>3 DEF Snapshot

(* Every program call is typed and lands where it should.                  *)
LEMMA ProgramCalls ==
  ASSUME WellConfigured, IInv, pc \in CallPcs, ~ Erasing
  PROVE  /\ Target \in Nat /\ Payload \in Seq(Cell) /\ CallLen = Len(Payload)
         /\ pc = "fHdr" => Target = BaseA /\ Payload = <<SectorMagic, 1>>
         /\ pc = "cHdr" => Target = scratch /\ Payload = <<SectorMagic, seq + 1>>
         /\ pc \in {"cRecHdr", "cSnap"} =>
              Target >= scratch + HdrLen /\ Target + Len(Payload) <= scratch + SectorSize
         /\ pc \in AppendPcs =>
              /\ Target >= active + wptr /\ Target >= active + HdrLen
              /\ Target + Len(Payload) <= active + SectorSize
<1>a. /\ TypeOK /\ SeqBounded /\ FormatInv /\ MountedInv /\ RequestInv /\ CompactInv
      /\ HeadersDistinct
  BY DEF IInv
<1>1. CallLen = Len(Payload)
  BY DEF CallLen
<1>2. /\ active \in Nat /\ scratch \in Nat /\ wptr \in Nat /\ seq \in Nat
      /\ HdrLen = 2 /\ RecLen = 5 /\ Size \in Nat /\ SectorSize \in Nat
      /\ HdrLen + RecLen + Size <= SectorSize
  BY <1>a, Geometry DEF TypeOK, HdrLen, RecLen
<1>3. CASE pc = "fHdr"
  <2>1. Target = BaseA /\ Payload = <<SectorMagic, 1>>
    BY <1>3 DEF Target, Payload, SectorHeader
  <2>2. 1 \in Cell /\ SectorMagic \in Cell
    BY EepromAssumption
  <2> QED  BY <1>1, <1>3, <2>1, <2>2, Geometry DEF AppendPcs
<1>4. CASE pc = "cHdr"
  <2>1. Target = scratch /\ Payload = <<SectorMagic, seq + 1>>
    BY <1>4 DEF Target, Payload, SectorHeader, NextSeq
  <2>2. seq + 1 \in Cell /\ SectorMagic \in Cell
    BY <1>a, <1>2, <1>4, EepromAssumption DEF CompactInv, CompactPcs, NextSeq
  <2> QED  BY <1>1, <1>2, <1>4, <2>1, <2>2 DEF AppendPcs
<1>5. CASE pc = "cRecHdr"
  <2>1. Target = scratch + HdrLen /\ Payload = RecordHeader(seq + 1, 0, Snapshot)
    BY <1>5 DEF Target, Payload, NextSeq
  <2>2. seq + 1 \in Cell /\ 0 \in Cell /\ Size \in Cell
    BY <1>a, <1>2, <1>5, EepromAssumption DEF CompactInv, CompactPcs, NextSeq
  <2>3. Payload \in Seq(Cell) /\ Len(Payload) = RecLen
    <3>1. Snapshot \in Seq(Cell) /\ Len(Snapshot) = Size
      BY <1>a, SnapshotType
    <3> QED  BY <2>1, <2>2, <3>1, RecordHeaderType
  <2>4. Target \in Nat /\ Target >= scratch + HdrLen
        /\ Target + Len(Payload) <= scratch + SectorSize
    BY <1>2, <2>1, <2>3, SMTT(20)
  <2> QED  BY <1>1, <1>5, <2>3, <2>4 DEF AppendPcs
<1>6. CASE pc = "cSnap"
  <2>1. Target = scratch + HdrLen + RecLen /\ Payload = Snapshot
    BY <1>6 DEF Target, Payload
  <2>2. Payload \in Seq(Cell) /\ Len(Payload) = Size
    BY <1>a, <2>1, SnapshotType
  <2>3. Target \in Nat /\ Target >= scratch + HdrLen
        /\ Target + Len(Payload) <= scratch + SectorSize
    BY <1>2, <2>1, <2>2
  <2> QED  BY <1>1, <1>6, <2>2, <2>3 DEF AppendPcs
<1>7. CASE pc \in AppendPcs
  <2>1. /\ req.hdr \in Seq(Cell) /\ Len(req.hdr) = RecLen
        /\ req.data \in Seq(Cell) /\ Len(req.data) \in Nat
    BY <1>a, <1>7 DEF TypeOK, RequestInv, AppendPcs, WritePcs
  <2>0. Len(req.data) \in Nat
    BY <2>1
  <2>2. wptr + RecLen + Len(req.data) <= SectorSize /\ wptr >= HdrLen
    <3>1. wptr + Pad4(RecLen + Len(req.data)) <= SectorSize
      BY <1>a, <1>7 DEF RequestInv, HasSpace
    <3>2. wptr >= HdrLen
      BY <1>a, <1>7 DEF MountedInv, Session, WritePcs
    <3> QED  BY <1>2, <2>1, <3>1, <3>2, RecordRoom
  <2>5. /\ active + wptr \in Nat
        /\ active + wptr >= active + HdrLen
        /\ (active + wptr) + RecLen <= active + SectorSize
        /\ active + wptr + RecLen \in Nat /\ active + wptr + RecLen >= active + wptr
        /\ active + wptr + RecLen >= active + HdrLen
        /\ (active + wptr + RecLen) + Len(req.data) <= active + SectorSize
    BY <1>2, <2>0, <2>2, AppendRoom
  <2>3. CASE pc = "aHdr"
    <3>1. Target = active + wptr /\ Payload = req.hdr
      BY <2>3 DEF Target, Payload
    <3>3. Payload \in Seq(Cell) /\ Len(Payload) = RecLen
      BY <2>1, <3>1
    <3>2. Target \in Nat /\ Target >= active + wptr /\ Target >= active + HdrLen
          /\ Target + Len(Payload) <= active + SectorSize
      BY <2>5, <3>1, <3>3
    <3> QED  BY <1>1, <2>3, <3>2, <3>3
  <2>4. CASE pc = "aData"
    <3>1. Target = active + wptr + RecLen /\ Payload = req.data
      BY <2>4 DEF Target, Payload
    <3>3. Payload \in Seq(Cell) /\ Len(Payload) = Len(req.data)
      BY <2>1, <3>1
    <3>2. Target \in Nat /\ Target >= active + wptr /\ Target >= active + HdrLen
          /\ Target + Len(Payload) <= active + SectorSize
      BY <2>5, <3>1, <3>3
    <3> QED  BY <1>1, <2>4, <3>2, <3>3
  <2> QED  BY <1>7, <2>3, <2>4 DEF AppendPcs
<1> QED
  BY <1>3, <1>4, <1>5, <1>6, <1>7
  DEF CallPcs, FormatPcs, WritePcs, CompactPcs, AppendPcs, Erasing

-----------------------------------------------------------------------------
(* What a flash call leaves of the sector headers and of the log, however  *)
(* far it gets: the part of the induction step every action shares.        *)

LEMMA CallEffect ==
  ASSUME WellConfigured, IInv, pc \in CallPcs, NEW k \in 0 .. CallLen, flash' = After(k)
  PROVE  /\ flash' \in [Addr -> Cell]
         /\ SeqBounded' /\ HeadersDistinct'
         /\ pc \in {"fEraseA", "fEraseB"} => Unformatted(flash')
         /\ pc = "fEraseA" /\ k = CallLen => BlankHeader(flash', BaseA)
         /\ pc = "fEraseB" => BlankHeader(flash', BaseA)
         /\ pc = "fHdr" /\ k = CallLen => ValidHeader(flash', BaseA) /\ flash'[BaseA + 1] = 1
         /\ pc \in WritePcs => /\ ValidHeader(flash', active) /\ flash'[active + 1] = seq
                               /\ \A x \in LogCells : flash'[x] = flash[x]
         /\ pc = "cErase" /\ k = CallLen => BlankHeader(flash', scratch)
         /\ (pc = "cHdr" /\ k = CallLen) \/ pc \in {"cRecHdr", "cSnap"} =>
              ValidHeader(flash', scratch) /\ flash'[scratch + 1] = NextSeq
<1>a. /\ TypeOK /\ SeqBounded /\ FormatInv /\ MountedInv /\ RequestInv /\ CompactInv
      /\ HeadersDistinct
  BY DEF IInv
<1>0. /\ flash \in [Addr -> Cell] /\ active \in {BaseA, BaseB} /\ scratch \in {BaseA, BaseB}
      /\ wptr \in Nat /\ seq \in Nat
      /\ SectorMagic # Blank /\ SectorMagic \in Cell /\ MaxSeq \in Nat /\ MaxSeq < Blank
      /\ 1 <= MaxSeq /\ Blank \in Nat
  BY <1>a, EepromAssumption, CellAssumption DEF TypeOK
<1>1. /\ BaseA \in Addr /\ BaseA + 1 \in Addr /\ BaseB \in Addr /\ BaseB + 1 \in Addr
      /\ BaseA \in Nat /\ BaseB \in Nat
      /\ BaseA + 1 < BaseB /\ BaseB = BaseA + SectorSize /\ 1 < SectorSize /\ SectorSize \in Nat
  BY Geometry DEF HdrLen, RecLen
<1>2. pc \in WritePcs => /\ active # scratch /\ ValidHeader(flash, active)
                         /\ flash[active + 1] = seq /\ wptr >= HdrLen
  BY <1>a DEF MountedInv, Session
<1>3. CASE Erasing
  <2>1. /\ Target \in {BaseA, BaseB} /\ k \in 0 .. SectorSize /\ CallLen = SectorSize
        /\ flash' = Erased(flash, Target, k)
        /\ pc = "fEraseA" => Target = BaseA
        /\ pc = "fEraseB" => Target = BaseB
        /\ pc = "cErase" => Target = scratch
        /\ pc \in {"fEraseA", "fEraseB", "cErase"}
    BY <1>0, <1>3 DEF Erasing, Target, CallLen, After
  <2>2. EraseBase(Target) = Target
    BY <2>1 DEF WellConfigured, Fits
  <2>3. /\ flash' \in [Addr -> Cell]
        /\ \A x \in Addr : x < Target \/ Target + k <= x => flash'[x] = flash[x]
        /\ \A x \in Addr : flash'[x] = flash[x] \/ flash'[x] = Blank
        /\ \A x \in Addr : Target <= x /\ x < Target + k => flash'[x] = Blank
    BY <1>0, <1>1, <2>1, <2>2, EraseEffect
  <2>4. \A b \in {BaseA, BaseB} : ValidHeader(flash', b) =>
          ValidHeader(flash, b) /\ flash'[b + 1] = flash[b + 1]
    BY <1>0, <1>1, <2>3 DEF ValidHeader
  <2>5. SeqBounded' /\ HeadersDistinct'
    BY <1>a, <1>1, <2>3, <2>4 DEF SeqBounded, HeadersDistinct
  <2>6. Unformatted(flash) => Unformatted(flash')
    BY <2>4 DEF Unformatted
  <2>7. pc \in {"fEraseA", "fEraseB"} => Unformatted(flash')
    BY <1>a, <2>6 DEF FormatInv, FormatPcs
  <2>8. BlankHeader(flash, BaseA) => BlankHeader(flash', BaseA)
    BY <1>1, <2>3 DEF BlankHeader
  <2>9. k = CallLen => BlankHeader(flash', Target)
    BY <1>1, <2>1, <2>3 DEF BlankHeader
  <2>10. pc \in WritePcs => /\ ValidHeader(flash', active) /\ flash'[active + 1] = seq
                            /\ \A x \in LogCells : flash'[x] = flash[x]
    <3> SUFFICES ASSUME pc = "cErase"
                 PROVE  /\ ValidHeader(flash', active) /\ flash'[active + 1] = seq
                        /\ \A x \in LogCells : flash'[x] = flash[x]
      BY <2>1 DEF WritePcs, CompactPcs, AppendPcs
    <3>1. Target = scratch /\ active # scratch /\ ValidHeader(flash, active)
          /\ flash[active + 1] = seq
      BY <1>2, <2>1 DEF WritePcs, CompactPcs
    <3>2. \A x \in Addr : active <= x /\ x < active + SectorSize => flash'[x] = flash[x]
      BY <1>0, <1>1, <2>1, <2>3, <3>1 DEF Addr
    <3> QED  BY <1>0, <1>1, <3>1, <3>2 DEF LogCells, ValidHeader
  <2> QED
    BY <1>a, <2>1, <2>3, <2>5, <2>7, <2>8, <2>9, <2>10 DEF FormatInv
<1>4. CASE ~ Erasing
  <2>0. k \in 0 .. Len(Payload) /\ flash' = Programmed(flash, Target, Payload, k)
        /\ CallLen = Len(Payload) /\ Target \in Nat /\ Payload \in Seq(Cell)
    BY <1>4, ProgramCalls DEF After
  <2>1. /\ flash' \in [Addr -> Cell]
        /\ \A x \in Addr : x < Target \/ Target + k <= x => flash'[x] = flash[x]
        /\ \A x \in Addr : Target <= x /\ x < Target + k /\ flash[x] = Blank =>
             flash'[x] = Payload[x - Target + 1]
    BY <1>0, <2>0, ProgramEffect
  <2>2. CASE pc \in {"fHdr", "cHdr"}
    <3> DEFINE b == IF pc = "fHdr" THEN BaseA ELSE scratch
               o == IF b = BaseA THEN BaseB ELSE BaseA
               n == IF pc = "fHdr" THEN 1 ELSE seq + 1
    <3>1. Target = b /\ Payload = <<SectorMagic, n>> /\ Len(Payload) = 2
      BY <1>4, <2>2, ProgramCalls
    <3>2. BlankHeader(flash, b) /\ b \in {BaseA, BaseB} /\ o \in {BaseA, BaseB} /\ o # b
      BY <1>a, <1>0, <1>1, <2>2 DEF FormatInv, CompactInv
    <3>3. n \in 1 .. MaxSeq
      BY <1>a, <1>0, <2>2 DEF CompactInv, CompactPcs, NextSeq
    <3>4. flash'[o] = flash[o] /\ flash'[o + 1] = flash[o + 1]
      BY <1>1, <2>0, <2>1, <3>1, <3>2
    <3>5. flash'[b] = IF k = 0 THEN Blank ELSE SectorMagic
      BY <1>1, <2>0, <2>1, <3>1, <3>2 DEF BlankHeader
    <3>6. flash'[b + 1] = IF k = 2 THEN n ELSE Blank
      BY <1>1, <2>0, <2>1, <3>1, <3>2, SMTT(20) DEF BlankHeader
    <3>7. ~ ValidHeader(flash, o) \/ (n = seq + 1 /\ flash[o + 1] = seq)
      <4>1. CASE pc = "fHdr"
        BY <1>a, <1>1, <3>2, <4>1 DEF FormatInv, FormatPcs, Unformatted
      <4>2. CASE pc = "cHdr"
        BY <1>0, <1>2, <3>2, <4>2 DEF WritePcs, CompactPcs
      <4> QED  BY <2>2, <4>1, <4>2
    <3>13. pc = "fHdr" => b = BaseA /\ n = 1
      OBVIOUS
    <3>14. pc = "cHdr" => b = scratch /\ n = seq + 1
      OBVIOUS
    <3> HIDE DEF b, o, n
    <3>8. SeqBounded'
      BY <1>a, <1>0, <1>1, <3>2, <3>3, <3>4, <3>6 DEF SeqBounded
    <3>9. ValidHeader(flash', o) /\ ValidHeader(flash', b) => flash'[o + 1] # flash'[b + 1]
      BY <1>0, <2>2, <3>3, <3>4, <3>6, <3>7 DEF ValidHeader
    <3>10. HeadersDistinct'
      BY <1>a, <3>2, <3>9 DEF HeadersDistinct
    <3>11. k = CallLen => ValidHeader(flash', b) /\ flash'[b + 1] = n
      <4> SUFFICES ASSUME k = CallLen
                   PROVE  ValidHeader(flash', b) /\ flash'[b + 1] = n
        OBVIOUS
      <4>1. k = 2
        BY <2>0, <3>1
      <4>2. flash'[b] = SectorMagic /\ flash'[b + 1] = n /\ n # Blank
        BY <1>0, <3>3, <3>5, <3>6, <4>1
      <4> QED  BY <4>2 DEF ValidHeader
    <3>12. pc = "cHdr" => /\ ValidHeader(flash', active) /\ flash'[active + 1] = seq
                          /\ \A x \in LogCells : flash'[x] = flash[x]
      <4> SUFFICES ASSUME pc = "cHdr"
                   PROVE  /\ ValidHeader(flash', active) /\ flash'[active + 1] = seq
                          /\ \A x \in LogCells : flash'[x] = flash[x]
        OBVIOUS
      <4>1. b = scratch /\ active # scratch /\ ValidHeader(flash, active)
            /\ flash[active + 1] = seq
        BY <1>2, <3>14 DEF WritePcs, CompactPcs
      <4>2. \A x \in Addr : active <= x /\ x < active + SectorSize => flash'[x] = flash[x]
        <5> SUFFICES ASSUME NEW x \in Addr, active <= x, x < active + SectorSize
                     PROVE  x < Target \/ Target + k <= x
          BY <2>1
        <5>1. x \in Nat /\ Target = scratch /\ k \in 0 .. 2
          BY <2>0, <3>1, <4>1 DEF Addr
        <5>2. 2 <= SectorSize /\ active \in Nat /\ scratch \in Nat
              /\ (scratch = active + SectorSize \/ active = scratch + SectorSize)
          BY <1>0, <1>1, <4>1
        <5> QED  BY <1>1, <5>1, <5>2
      <4> QED  BY <1>0, <1>1, <4>1, <4>2 DEF LogCells, ValidHeader
    <3> QED
      BY <2>1, <2>2, <3>8, <3>10, <3>11, <3>12, <3>13, <3>14
      DEF WritePcs, CompactPcs, AppendPcs, NextSeq
  <2>3. CASE pc \in {"cRecHdr", "cSnap"} \cup AppendPcs
    <3> DEFINE b == IF pc \in AppendPcs THEN active ELSE scratch
    <3>1. /\ b \in {BaseA, BaseB} /\ Target >= b + HdrLen
          /\ Target + Len(Payload) <= b + SectorSize
          /\ pc \in AppendPcs => Target >= active + wptr
      BY <1>0, <1>4, <2>3, ProgramCalls
    <3>2. \A c \in {BaseA, BaseB} : flash'[c] = flash[c] /\ flash'[c + 1] = flash[c + 1]
      <4> SUFFICES ASSUME NEW c \in {BaseA, BaseB}
                   PROVE  c + 1 < Target \/ Target + k <= c
        BY <1>1, <2>0, <2>1
      <4>1. b \in Nat /\ c \in Nat /\ (c = b \/ c = b + SectorSize \/ b = c + SectorSize)
        BY <1>1, <3>1
      <4>2. k \in Nat /\ Len(Payload) \in Nat /\ k <= Len(Payload)
        BY <2>0
      <4>3. Target >= b + 2 /\ Target + Len(Payload) <= b + SectorSize /\ Target \in Nat
        BY <2>0, <3>1 DEF HdrLen
      <4> HIDE DEF b
      <4> QED  BY <1>1, <4>1, <4>2, <4>3
    <3>3. \A c \in {BaseA, BaseB} : ValidHeader(flash', c) <=> ValidHeader(flash, c)
      BY <3>2 DEF ValidHeader
    <3>4. SeqBounded' /\ HeadersDistinct'
      BY <1>a, <3>2, <3>3 DEF SeqBounded, HeadersDistinct
    <3>5. active # scratch /\ ValidHeader(flash, active) /\ flash[active + 1] = seq
      BY <1>2, <2>3 DEF WritePcs, CompactPcs
    <3>6. \A x \in LogCells : flash'[x] = flash[x]
      <4>1. SUFFICES ASSUME NEW x \in Addr, active <= x, x < active + wptr,
                            x < active + SectorSize
                     PROVE  x < Target \/ Target + k <= x
        BY <2>1 DEF LogCells
      <4>2. x \in Nat
        BY <4>1 DEF Addr
      <4>3. CASE pc \in AppendPcs
        BY <1>0, <1>1, <2>0, <3>1, <4>1, <4>2, <4>3
      <4>4. CASE pc \notin AppendPcs
        <5>1. Target >= scratch + HdrLen /\ Target + k <= scratch + SectorSize
          BY <1>0, <1>1, <2>0, <3>1, <4>4
        <5> QED
          BY <1>0, <1>1, <2>0, <3>5, <4>1, <4>2, <5>1 DEF HdrLen
      <4> QED  BY <4>3, <4>4
    <3>7. pc \in {"cRecHdr", "cSnap"} =>
            ValidHeader(flash', scratch) /\ flash'[scratch + 1] = NextSeq
      BY <1>a, <1>0, <3>2, <3>3 DEF CompactInv
    <3> HIDE DEF b
    <3> QED
      BY <1>0, <2>1, <2>3, <3>2, <3>3, <3>4, <3>5, <3>6, <3>7 DEF AppendPcs
  <2> QED
    BY <1>4, <2>2, <2>3 DEF CallPcs, FormatPcs, WritePcs, CompactPcs, AppendPcs, Erasing
<1> QED
  BY <1>3, <1>4

-----------------------------------------------------------------------------
(* The induction step, action by action.                                   *)

LEMMA BlankStateType ==
  BlankState \in [0 .. (Size - 1) -> Cell]
BY CellAssumption DEF BlankState

LEMMA NoRequestType ==
  NoRequest \in [addr : Nat, data : Seq(Cell), hdr : Seq(Cell)]
<1>1. SectorMagic \in Cell /\ 0 \in Cell
  BY EepromAssumption
<1> QED
  BY <1>1 DEF NoRequest, SectorHeader

LEMMA OverwriteType ==
  ASSUME NEW st \in [0 .. (Size - 1) -> Cell], NEW a \in Nat, NEW data \in Seq(Cell)
  PROVE  Overwrite(st, a, data) \in [0 .. (Size - 1) -> Cell]
<1>1. ASSUME NEW i \in 0 .. (Size - 1), i \in a .. (a + Len(data) - 1)
      PROVE  data[i - a + 1] \in Cell
  <2>1. i - a + 1 \in 1 .. Len(data)
    BY <1>1
  <2> QED  BY <2>1
<1> QED
  BY <1>1 DEF Overwrite

LEMMA HeadersKept ==
  ASSUME IInv, UNCHANGED flash
  PROVE  flash' \in [Addr -> Cell] /\ SeqBounded' /\ HeadersDistinct'
BY DEF IInv, TypeOK, SeqBounded, HeadersDistinct

(* Nothing is asked of an object that does not exist.                      *)
LEMMA DownInv ==
  ASSUME IInv, flash' \in [Addr -> Cell], SeqBounded', HeadersDistinct',
         Fresh, pc' \in {"off", "failed"}, UNCHANGED store
  PROVE  IInv'
<1>1. TypeOK'
  BY BlankStateType, NoRequestType DEF IInv, TypeOK, Fresh
<1> QED
  BY <1>1 DEF IInv, FormatInv, MountedInv, RequestInv, CompactInv,
              FormatPcs, Session, WritePcs, CompactPcs, AppendPcs

LEMMA EnterReplayInv ==
  ASSUME WellConfigured, IInv, flash' \in [Addr -> Cell], SeqBounded', HeadersDistinct',
         NEW b \in {BaseA, BaseB}, NEW n, StartReplay(b, n), pc' = "replay", UNCHANGED store,
         ValidHeader(flash', b), n = flash'[b + 1]
  PROVE  IInv'
<1>1. /\ b + 1 \in Addr /\ BaseA # BaseB /\ Cell \subseteq Nat
  BY Geometry, CellAssumption DEF HdrLen, RecLen
<1>2. n \in Nat
  BY <1>1
<1>3. TypeOK'
  BY <1>2, BlankStateType, NoRequestType DEF IInv, TypeOK, StartReplay, HdrLen
<1>4. MountedInv'
  BY <1>1 DEF MountedInv, StartReplay, HdrLen
<1> QED
  BY <1>3, <1>4 DEF IInv, FormatInv, RequestInv, CompactInv,
                    FormatPcs, WritePcs, CompactPcs, AppendPcs

LEMMA OpenInv ==
  ASSUME WellConfigured, IInv, Open
  PROVE  IInv'
<1>0. flash' \in [Addr -> Cell] /\ SeqBounded' /\ HeadersDistinct' /\ flash' = flash
      /\ UNCHANGED store
  BY HeadersKept DEF Open
<1>1. CASE Unformatted(flash)
  <2>1. pc' = "fEraseA" /\ Fresh
    BY <1>1 DEF Open
  <2>2. TypeOK'
    BY <1>0, <2>1, BlankStateType, NoRequestType
    DEF IInv, TypeOK, Fresh, CallPcs, FormatPcs
  <2>3. FormatInv'
    BY <1>0, <1>1, <2>1 DEF FormatInv
  <2> QED
    BY <1>0, <2>1, <2>2, <2>3 DEF IInv, MountedInv, RequestInv, CompactInv,
                              Session, WritePcs, CompactPcs, AppendPcs
<1>2. CASE ~ Unformatted(flash)
  <2>1. pc' = "replay" /\ StartReplay(Picked(flash), flash[Picked(flash) + 1])
    BY <1>2 DEF Open
  <2>2. Picked(flash) \in {BaseA, BaseB} /\ ValidHeader(flash, Picked(flash))
    BY <1>2 DEF Picked, Unformatted
  <2> QED
    BY <1>0, <2>1, <2>2, EnterReplayInv
<1> QED
  BY <1>1, <1>2

LEMMA MountStepInv ==
  ASSUME WellConfigured, IInv, FormatEraseA \/ FormatEraseB \/ FormatHeader
  PROVE  IInv'
<1>0. TypeOK /\ pc \in CallPcs /\ flash' = After(CallLen) /\ CallLen \in 0 .. CallLen
  <2>1. SectorSize \in Nat
    BY GeometryAssumption
  <2>2. CASE Erasing
    BY <2>1, <2>2 DEF IInv, FormatEraseA, FormatEraseB, FormatHeader, Completes,
                      CallPcs, FormatPcs, CallLen
  <2>3. CASE ~ Erasing
    <3>1. pc = "fHdr" /\ flash' = After(CallLen)
      BY <2>3 DEF FormatEraseA, FormatEraseB, FormatHeader, Completes, Erasing
    <3>2. Payload \in Seq(Cell) /\ CallLen = Len(Payload)
      BY <2>3, <3>1, ProgramCalls DEF CallPcs, FormatPcs
    <3> QED  BY <3>1, <3>2 DEF IInv, CallPcs, FormatPcs
  <2> QED  BY <2>2, <2>3
<1>1. CASE FormatEraseA
  <2>1. pc = "fEraseA" /\ pc' = "fEraseB" /\ UNCHANGED <<object, store>>
    BY <1>1 DEF FormatEraseA, Completes
  <2>2. /\ flash' \in [Addr -> Cell] /\ SeqBounded' /\ HeadersDistinct'
        /\ Unformatted(flash') /\ BlankHeader(flash', BaseA)
    BY <1>0, <2>1, CallEffect
  <2> QED
    BY <1>0, <2>1, <2>2 DEF IInv, TypeOK, object, FormatInv, MountedInv, RequestInv, CompactInv,
                      CallPcs, FormatPcs, Session, WritePcs, CompactPcs, AppendPcs
<1>2. CASE FormatEraseB
  <2>1. pc = "fEraseB" /\ pc' = "fHdr" /\ UNCHANGED <<object, store>>
    BY <1>2 DEF FormatEraseB, Completes
  <2>2. /\ flash' \in [Addr -> Cell] /\ SeqBounded' /\ HeadersDistinct'
        /\ Unformatted(flash') /\ BlankHeader(flash', BaseA)
    BY <1>0, <2>1, CallEffect
  <2> QED
    BY <1>0, <2>1, <2>2 DEF IInv, TypeOK, object, FormatInv, MountedInv, RequestInv, CompactInv,
                      CallPcs, FormatPcs, Session, WritePcs, CompactPcs, AppendPcs
<1>3. CASE FormatHeader
  <2>1. pc = "fHdr" /\ pc' = "replay" /\ StartReplay(BaseA, 1) /\ UNCHANGED store
    BY <1>3 DEF FormatHeader, Completes
  <2>2. /\ flash' \in [Addr -> Cell] /\ SeqBounded' /\ HeadersDistinct'
        /\ ValidHeader(flash', BaseA) /\ flash'[BaseA + 1] = 1
    BY <1>0, <2>1, CallEffect
  <2> QED
    BY <2>1, <2>2, EnterReplayInv
<1> QED
  BY <1>1, <1>2, <1>3

LEMMA RecordDataType ==
  ASSUME IInv, HeaderInArray, DataInArray
  PROVE  RecField(2) \in Nat /\ RecField(3) \in Nat /\ RecData(RecField(3)) \in Seq(Cell)
<1>1. /\ flash \in [Addr -> Cell] /\ active \in Nat /\ wptr \in Nat /\ FlashSize \in Nat
      /\ Cell \subseteq Nat
  BY GeometryAssumption, EepromAssumption, CellAssumption DEF IInv, TypeOK, BaseA, BaseB
<1>2. RecField(2) \in Cell /\ RecField(3) \in Cell
  BY <1>1 DEF RecField, HeaderInArray, InArray, RecLen, Addr
<1>3. \A i \in 1 .. RecField(3) : RecField(RecLen + i - 1) \in Cell
  <2> SUFFICES ASSUME NEW i \in 1 .. RecField(3)
               PROVE  flash[active + wptr + (RecLen + i - 1)] \in Cell
    BY DEF RecField
  <2>1. RecField(3) \in Nat /\ (active + wptr + RecLen) + RecField(3) <= FlashSize
    BY <1>1, <1>2 DEF DataInArray, InArray
  <2>2. active + wptr + (RecLen + i - 1) \in Addr
    BY <1>1, <2>1 DEF Addr, RecLen
  <2> QED  BY <1>1, <2>2
<1>4. RecData(RecField(3)) \in [1 .. RecField(3) -> Cell]
  BY <1>3 DEF RecData
<1>5. RecField(3) \in Nat
  BY <1>1, <1>2
<1>6. [1 .. RecField(3) -> Cell] \subseteq Seq(Cell)
  BY <1>5
<1> QED
  BY <1>1, <1>2, <1>4, <1>6

LEMMA ReplayRecordInv ==
  ASSUME WellConfigured, IInv, ReplayRecord
  PROVE  IInv'
<1>0. /\ pc = "replay" /\ UNCHANGED <<flash, pc, active, scratch, seq, req, store>>
      /\ HeaderInArray /\ DataInArray
  BY DEF ReplayRecord
<1>1. RecField(2) \in Nat /\ RecField(3) \in Nat /\ RecData(RecField(3)) \in Seq(Cell)
  BY <1>0, RecordDataType
<1>2. state' \in [0 .. (Size - 1) -> Cell]
  BY <1>1, OverwriteType DEF ReplayRecord, IInv, TypeOK
<1>3. wptr' \in Nat /\ wptr' >= wptr
  <2>1. RecLen + RecField(3) \in Nat
    BY <1>1 DEF RecLen
  <2>2. Consumed(RecField(3)) \in Nat
    BY <2>1, Pad4Bounds DEF Consumed
  <2> QED  BY <2>2 DEF ReplayRecord, IInv, TypeOK
<1>4. TypeOK'
  BY <1>0, <1>2, <1>3 DEF IInv, TypeOK
<1>5. MountedInv'
  <2>1. wptr >= HdrLen /\ wptr \in Nat
    BY <1>0 DEF IInv, MountedInv, TypeOK
  <2>2. wptr' >= HdrLen
    BY <1>3, <2>1 DEF HdrLen
  <2> QED  BY <1>0, <2>2 DEF IInv, MountedInv
<1> QED
  BY <1>0, <1>4, <1>5, HeadersKept
  DEF IInv, FormatInv, RequestInv, CompactInv, FormatPcs, WritePcs, CompactPcs, AppendPcs

LEMMA WriteInv ==
  ASSUME WellConfigured, IInv, NEW r \in Requests, Write(r)
  PROVE  IInv'
<1>0. /\ pc = "ready" /\ pc' \in {"aHdr", "cErase"}
      /\ UNCHANGED <<flash, active, scratch, seq, state, wptr, store>>
      /\ InRange(r)
      /\ req' = [addr |-> r.addr, data |-> r.data, hdr |-> RecordHeader(seq, r.addr, r.data)]
      /\ pc' = "aHdr" => HasSpace(r.data)
      /\ pc' = "cErase" => NextSeq <= MaxSeq
  BY DEF Write
<1>1. /\ r.addr \in Nat /\ r.data \in Seq(Cell) /\ Len(r.data) \in Nat
      /\ r.addr + Len(r.data) <= Size /\ Size \in Nat
  <2>1. r \in [addr : Nat, data : Seq(Cell)] /\ Size \in Nat
    BY EepromAssumption
  <2> QED  BY <1>0, <2>1 DEF InRange
<1>2. r.addr \in Cell /\ Len(r.data) \in Cell
  <2>1. r.addr \in 0 .. Size /\ Len(r.data) \in 0 .. Size
    BY <1>1
  <2> QED  BY <2>1, EepromAssumption
<1>3. seq \in Cell
  <2>1. seq = flash[active + 1] /\ active \in {BaseA, BaseB} /\ flash \in [Addr -> Cell]
    BY <1>0 DEF IInv, TypeOK, MountedInv, Session
  <2>2. active + 1 \in Addr
    BY <2>1, Geometry DEF HdrLen, RecLen
  <2> QED  BY <2>1, <2>2
<1>4. /\ RecordHeader(seq, r.addr, r.data) \in Seq(Cell)
      /\ Len(RecordHeader(seq, r.addr, r.data)) = RecLen
  BY <1>1, <1>2, <1>3, RecordHeaderType
<1>5. TypeOK'
  BY <1>0, <1>1, <1>4 DEF IInv, TypeOK, CallPcs, WritePcs, CompactPcs, AppendPcs
<1>6. MountedInv'
  BY <1>0 DEF IInv, MountedInv, Session
<1>7. RequestInv'
  BY <1>0, <1>4 DEF RequestInv, InRange, HasSpace, AppendPcs
<1>8. CompactInv'
  BY <1>0 DEF CompactInv, CompactPcs, NextSeq
<1>9. FormatInv'
  BY <1>0 DEF FormatInv, FormatPcs
<1> QED
  BY <1>0, <1>5, <1>6, <1>7, <1>8, <1>9, HeadersKept DEF IInv

(* A call inside write() that gets through all its cells.                  *)
LEMMA CompletedCall ==
  ASSUME WellConfigured, IInv, pc \in WritePcs, NEW next, Completes(next)
  PROVE  /\ pc \in CallPcs /\ CallLen \in 0 .. CallLen /\ flash' = After(CallLen) /\ pc' = next
         /\ flash' \in [Addr -> Cell] /\ SeqBounded' /\ HeadersDistinct'
         /\ ValidHeader(flash', active) /\ flash'[active + 1] = seq
         /\ active # scratch /\ seq = flash[active + 1] /\ wptr >= HdrLen
<1>1. pc \in CallPcs /\ flash' = After(CallLen) /\ pc' = next
  BY DEF CallPcs, Completes
<1>2. CallLen \in 0 .. CallLen
  <2>1. CASE Erasing
    BY <2>1, GeometryAssumption DEF CallLen
  <2>2. CASE ~ Erasing
    <3>1. Payload \in Seq(Cell) /\ CallLen = Len(Payload)
      BY <1>1, <2>2, ProgramCalls
    <3> QED  BY <3>1
  <2> QED  BY <2>1, <2>2
<1> QED
  BY <1>1, <1>2, CallEffect DEF IInv, MountedInv, Session

LEMMA CompactStepInv ==
  ASSUME WellConfigured, IInv, CompactErase \/ CompactHeader \/ CompactRecord
  PROVE  IInv'
<1> DEFINE next == IF pc = "cErase" THEN "cHdr"
                   ELSE IF pc = "cHdr" THEN "cRecHdr" ELSE "cSnap"
<1>1. /\ pc \in {"cErase", "cHdr", "cRecHdr"} /\ pc \in WritePcs /\ Completes(next)
      /\ UNCHANGED <<object, store>>
  BY DEF CompactErase, CompactHeader, CompactRecord, WritePcs, CompactPcs
<1>2. /\ flash' \in [Addr -> Cell] /\ SeqBounded' /\ HeadersDistinct'
      /\ ValidHeader(flash', active) /\ flash'[active + 1] = seq
      /\ active # scratch /\ seq = flash[active + 1] /\ wptr >= HdrLen
      /\ pc' = next
  BY <1>1, CompletedCall
<1>3. /\ pc = "cErase" => BlankHeader(flash', scratch)
      /\ pc \in {"cHdr", "cRecHdr"} =>
           ValidHeader(flash', scratch) /\ flash'[scratch + 1] = NextSeq
  BY <1>1, CompletedCall, CallEffect
<1>4. TypeOK'
  BY <1>1, <1>2 DEF IInv, TypeOK, object, CallPcs, WritePcs, CompactPcs
<1>5. MountedInv'
  BY <1>1, <1>2 DEF MountedInv, object
<1>6. RequestInv'
  BY <1>1, <1>2 DEF IInv, RequestInv, object, InRange, AppendPcs
<1>7. CompactInv'
  BY <1>1, <1>2, <1>3 DEF IInv, CompactInv, object, NextSeq, CompactPcs
<1>8. FormatInv'
  BY <1>1, <1>2 DEF FormatInv, FormatPcs
<1> QED
  BY <1>2, <1>4, <1>5, <1>6, <1>7, <1>8 DEF IInv

(* After the swap a record of the request that is pending has its room.    *)
LEMMA CompactSnapshotInv ==
  ASSUME WellConfigured, IInv, CompactSnapshot
  PROVE  IInv'
<1>1. /\ pc = "cSnap" /\ pc \in WritePcs /\ Completes("aHdr")
      /\ active' = scratch /\ scratch' = active
      /\ seq' = NextSeq /\ wptr' = LogAfterSnapshot /\ UNCHANGED <<state, req, store>>
  BY DEF CompactSnapshot, WritePcs, CompactPcs
<1>2. /\ flash' \in [Addr -> Cell] /\ SeqBounded' /\ HeadersDistinct'
      /\ active # scratch /\ pc' = "aHdr"
  BY <1>1, CompletedCall
<1>3. ValidHeader(flash', scratch) /\ flash'[scratch + 1] = NextSeq
  BY <1>1, CompletedCall, CallEffect
<1>4. /\ RecLen + Size \in Nat /\ Pad4(RecLen + Size) \in Nat /\ wptr' \in Nat
      /\ wptr' >= HdrLen /\ wptr' = HdrLen + Pad4(RecLen + Size)
  <2>1. RecLen + Size \in Nat
    BY EepromAssumption DEF RecLen
  <2> QED  BY <1>1, <2>1, Pad4Bounds DEF LogAfterSnapshot, HdrLen
<1>5. NextSeq \in Nat
  BY DEF IInv, TypeOK, NextSeq
<1>6. TypeOK'
  BY <1>1, <1>2, <1>4, <1>5 DEF IInv, TypeOK, CallPcs, WritePcs, AppendPcs
<1>7. MountedInv'
  BY <1>1, <1>2, <1>3, <1>4 DEF MountedInv
<1>8. RequestInv'
  <2>1. InRange(req) /\ Len(req.hdr) = RecLen /\ req.addr \in Nat /\ Len(req.data) \in Nat
        /\ Size \in Nat
    BY <1>1, EepromAssumption DEF IInv, RequestInv, TypeOK
  <2>2. Len(req.data) <= Size
    BY <2>1 DEF InRange
  <2>3. RecLen + Len(req.data) \in Nat /\ RecLen + Len(req.data) <= RecLen + Size
    BY <2>1, <2>2 DEF RecLen
  <2>4. /\ Pad4(RecLen + Len(req.data)) <= Pad4(RecLen + Size)
        /\ Pad4(RecLen + Len(req.data)) \in Nat
    BY <1>4, <2>3, Pad4Monotone, Pad4Bounds
  <2>5. HdrLen + 2 * Pad4(RecLen + Size) <= SectorSize
    BY DEF WellConfigured, Fits
  <2>6. wptr' + Pad4(RecLen + Len(req.data)) <= SectorSize
    BY <1>4, <2>4, <2>5, GeometryAssumption DEF HdrLen
  <2> QED  BY <1>1, <2>1, <2>6 DEF RequestInv, HasSpace, InRange
<1>9. FormatInv' /\ CompactInv'
  BY <1>2 DEF FormatInv, FormatPcs, CompactInv, CompactPcs
<1> QED
  BY <1>2, <1>6, <1>7, <1>8, <1>9 DEF IInv

LEMMA AppendInv ==
  ASSUME WellConfigured, IInv, AppendHeader \/ AppendData
  PROVE  IInv'
<1>1. CASE AppendHeader
  <2>1. pc = "aHdr" /\ pc \in WritePcs /\ Completes("aData") /\ UNCHANGED <<object, store>>
    BY <1>1 DEF AppendHeader, WritePcs, AppendPcs
  <2>2. /\ flash' \in [Addr -> Cell] /\ SeqBounded' /\ HeadersDistinct'
        /\ ValidHeader(flash', active) /\ flash'[active + 1] = seq
        /\ active # scratch /\ wptr >= HdrLen /\ pc' = "aData"
    BY <2>1, CompletedCall
  <2>3. TypeOK'
    BY <2>1, <2>2 DEF IInv, TypeOK, object, CallPcs, WritePcs, AppendPcs
  <2>4. RequestInv'
    BY <2>1, <2>2 DEF IInv, RequestInv, object, InRange, HasSpace, AppendPcs
  <2>5. MountedInv' /\ FormatInv' /\ CompactInv'
    BY <2>1, <2>2 DEF MountedInv, object, FormatInv, FormatPcs, CompactInv, CompactPcs
  <2> QED  BY <2>2, <2>3, <2>4, <2>5 DEF IInv
<1>2. CASE AppendData
  <2>1. /\ pc = "aData" /\ pc \in WritePcs /\ Completes("ready")
        /\ wptr' = wptr + Pad4(RecLen + Len(req.data))
        /\ state' = Overwrite(state, req.addr, req.data) /\ store' = state'
        /\ req' = NoRequest /\ UNCHANGED <<active, scratch, seq>>
    BY <1>2 DEF AppendData, WritePcs, AppendPcs
  <2>2. /\ flash' \in [Addr -> Cell] /\ SeqBounded' /\ HeadersDistinct'
        /\ ValidHeader(flash', active) /\ flash'[active + 1] = seq
        /\ active # scratch /\ wptr >= HdrLen /\ pc' = "ready"
    BY <2>1, CompletedCall
  <2>3. state' \in [0 .. (Size - 1) -> Cell]
    BY <2>1, OverwriteType DEF IInv, TypeOK
  <2>4. wptr' \in Nat /\ wptr' >= HdrLen
    <3>1. Len(req.data) \in Nat /\ wptr \in Nat
      BY DEF IInv, TypeOK
    <3>2. RecLen + Len(req.data) \in Nat
      BY <3>1 DEF RecLen
    <3>3. Pad4(RecLen + Len(req.data)) \in Nat
      BY <3>2, Pad4Bounds
    <3> QED  BY <2>1, <2>2, <3>1, <3>3 DEF HdrLen
  <2>5. TypeOK'
    BY <2>1, <2>2, <2>3, <2>4, NoRequestType DEF IInv, TypeOK
  <2>6. MountedInv'
    BY <2>1, <2>2, <2>4 DEF MountedInv
  <2>7. FormatInv' /\ RequestInv' /\ CompactInv'
    BY <2>2 DEF FormatInv, FormatPcs, RequestInv, CompactInv, WritePcs, CompactPcs, AppendPcs
  <2> QED  BY <2>2, <2>5, <2>6, <2>7 DEF IInv
<1> QED
  BY <1>1, <1>2

LEMMA FailsInv ==
  ASSUME WellConfigured, IInv, Fails
  PROVE  IInv'
<1>1. PICK k \in 0 .. CallLen : CallFails(k)
  BY DEF Fails
<1>2. pc \in CallPcs /\ flash' = After(k) /\ UNCHANGED store
  BY <1>1 DEF Fails, CallFails
<1>3. /\ flash' \in [Addr -> Cell] /\ SeqBounded' /\ HeadersDistinct'
      /\ pc \in WritePcs => ValidHeader(flash', active) /\ flash'[active + 1] = seq
  BY <1>2, CallEffect
<1>4. CASE pc \in WritePcs
  <2>1. /\ pc' = "ready" /\ req' = NoRequest
        /\ UNCHANGED <<active, scratch, seq, state, wptr>>
    BY <1>1, <1>4 DEF CallFails
  <2>2. TypeOK'
    BY <1>2, <1>3, <2>1, NoRequestType DEF IInv, TypeOK
  <2>3. MountedInv'
    BY <1>3, <1>4, <2>1 DEF IInv, MountedInv, Session
  <2>4. FormatInv' /\ RequestInv' /\ CompactInv'
    BY <2>1 DEF FormatInv, FormatPcs, RequestInv, CompactInv, WritePcs, CompactPcs, AppendPcs
  <2> QED  BY <1>3, <2>2, <2>3, <2>4 DEF IInv
<1>5. CASE pc \notin WritePcs
  BY <1>1, <1>2, <1>3, <1>5, DownInv DEF CallFails
<1> QED
  BY <1>4, <1>5

LEMMA GoingDownInv ==
  ASSUME WellConfigured, IInv, OpenFails \/ ReplayFails \/ Restart \/ PowerLoss
  PROVE  IInv'
<1>1. CASE OpenFails \/ ReplayFails \/ Restart
  <2>1. UNCHANGED flash /\ Fresh /\ pc' \in {"off", "failed"} /\ UNCHANGED store
    BY <1>1 DEF OpenFails, ReplayFails, Restart
  <2> QED  BY <2>1, HeadersKept, DownInv
<1>2. CASE PowerLoss
  <2>1. PICK k \in 0 .. CallLen : flash' = After(k)
    BY <1>2 DEF PowerLoss
  <2>2. pc \in CallPcs /\ pc' = "off" /\ Fresh /\ UNCHANGED store
    BY <1>2 DEF PowerLoss
  <2>3. flash' \in [Addr -> Cell] /\ SeqBounded' /\ HeadersDistinct'
    BY <2>1, <2>2, CallEffect
  <2> QED  BY <2>2, <2>3, DownInv
<1> QED
  BY <1>1, <1>2

LEMMA ReplayEndInv ==
  ASSUME IInv, ReplayEnd
  PROVE  IInv'
<1>1. pc = "replay" /\ pc' = "ready" /\ store' = state /\ UNCHANGED <<flash, object>>
  BY DEF ReplayEnd
<1>2. TypeOK'
  BY <1>1 DEF IInv, TypeOK, object
<1>3. MountedInv'
  BY <1>1 DEF IInv, MountedInv, object
<1> QED
  BY <1>1, <1>2, <1>3, HeadersKept
  DEF IInv, FormatInv, RequestInv, CompactInv, FormatPcs, WritePcs, CompactPcs, AppendPcs

LEMMA StutterInv ==
  ASSUME IInv, UNCHANGED vars
  PROVE  IInv'
<1> USE DEF vars
<1>1. TypeOK' /\ SeqBounded' /\ FormatInv' /\ MountedInv' /\ HeadersDistinct'
  BY DEF IInv, TypeOK, SeqBounded, FormatInv, MountedInv, HeadersDistinct
<1>2. RequestInv' /\ CompactInv'
  BY DEF IInv, RequestInv, InRange, HasSpace, CompactInv, NextSeq
<1> QED
  BY <1>1, <1>2 DEF IInv

LEMMA InitInv ==
  ASSUME WellConfigured, Init
  PROVE  IInv
<1>1. ErasedArray \in [Addr -> Cell]
  BY CellAssumption DEF ErasedArray
<1>2. \A b \in {BaseA, BaseB} : ErasedArray[b] = Blank /\ ErasedArray[b + 1] = Blank
  BY Geometry DEF ErasedArray, HdrLen, RecLen
<1>3. TypeOK
  BY <1>1, BlankStateType, NoRequestType DEF Init, TypeOK
<1>4. SeqBounded /\ HeadersDistinct
  BY <1>2 DEF Init, SeqBounded, HeadersDistinct, ValidHeader
<1> QED
  BY <1>3, <1>4 DEF Init, IInv, FormatInv, MountedInv, RequestInv, CompactInv,
                    FormatPcs, Session, WritePcs, CompactPcs, AppendPcs

LEMMA NextInv ==
  ASSUME WellConfigured, IInv, [Next]_vars
  PROVE  IInv'
<1>1. CASE Open
  BY <1>1, OpenInv
<1>2. CASE OpenFails \/ ReplayFails \/ Restart \/ PowerLoss
  BY <1>2, GoingDownInv
<1>3. CASE \E r \in Requests : Write(r)
  BY <1>3, WriteInv
<1>4. CASE FormatEraseA \/ FormatEraseB \/ FormatHeader
  BY <1>4, MountStepInv
<1>5. CASE ReplayRecord
  BY <1>5, ReplayRecordInv
<1>6. CASE ReplayEnd
  BY <1>6, ReplayEndInv
<1>7. CASE CompactErase \/ CompactHeader \/ CompactRecord
  BY <1>7, CompactStepInv
<1>8. CASE CompactSnapshot
  BY <1>8, CompactSnapshotInv
<1>9. CASE AppendHeader \/ AppendData
  BY <1>9, AppendInv
<1>10. CASE Fails
  BY <1>10, FailsInv
<1>11. CASE Read \/ UNCHANGED vars
  BY <1>11, StutterInv DEF Read
<1> QED
  BY <1>1, <1>2, <1>3, <1>4, <1>5, <1>6, <1>7, <1>8, <1>9, <1>10, <1>11
  DEF Next, Running, Mounting, Compacting, Appending

-----------------------------------------------------------------------------
(* The theorems.                                                           *)

(* The invariant holds in every reachable state, whatever fails and        *)
(* wherever the power is lost.                                             *)
THEOREM Inductive ==
  ASSUME WellConfigured
  PROVE  Spec => []IInv
<1>1. Init => IInv
  BY InitInv
<1>2. IInv /\ [Next]_vars => IInv'
  BY NextInv
<1> QED
  BY <1>1, <1>2, PTL DEF Spec

(* Every variable stays in its type: in particular every cell that reaches *)
(* the flash is a cell value, and req is a request with its header.        *)
THEOREM TypeCorrect ==
  ASSUME WellConfigured
  PROVE  Spec => []TypeOK
<1>1. IInv => TypeOK
  BY DEF IInv
<1> QED
  BY <1>1, Inductive, PTL

(* No program call leaves its sector: an append stays between the header   *)
(* and the end of the active sector, a compaction inside the scratch one.  *)
THEOREM SectorBounds ==
  ASSUME WellConfigured
  PROVE  Spec => []WriteStaysInSector
<1>1. IInv => WriteStaysInSector
  <2> SUFFICES ASSUME IInv PROVE WriteStaysInSector
    OBVIOUS
  <2>1. CASE pc \in AppendPcs \cup {"cRecHdr", "cSnap"}
    <3>1. pc \in CallPcs /\ ~ Erasing
      BY <2>1 DEF CallPcs, WritePcs, CompactPcs, AppendPcs, Erasing
    <3> QED
      BY <2>1, <3>1, ProgramCalls DEF WriteStaysInSector, AppendPcs
  <2>2. CASE pc = "cHdr"
    <3>1. pc \in CallPcs /\ ~ Erasing
      BY <2>2 DEF CallPcs, WritePcs, CompactPcs, Erasing
    <3>2. Target = scratch /\ Payload = <<SectorMagic, seq + 1>> /\ CallLen = Len(Payload)
      BY <2>2, <3>1, ProgramCalls
    <3>3. CallLen = 2
      BY <3>2
    <3>4. scratch \in Nat /\ SectorSize \in Nat /\ 2 <= SectorSize
      BY Geometry, SMTT(20) DEF IInv, TypeOK, HdrLen, RecLen
    <3>5. Target + CallLen <= scratch + SectorSize
      BY <3>2, <3>3, <3>4
    <3> QED  BY <2>2, <3>5 DEF WriteStaysInSector, AppendPcs
  <2> QED  BY <2>1, <2>2 DEF WriteStaysInSector
<1> QED
  BY <1>1, Inductive, PTL

(* No two valid sector headers carry the same sequence number.             *)
THEOREM DistinctHeaders ==
  ASSUME WellConfigured
  PROVE  Spec => []HeadersDistinct
<1>1. IInv => HeadersDistinct
  BY DEF IInv
<1> QED
  BY <1>1, Inductive, PTL

(* The flash calls of a step, if it makes one: all the others leave the    *)
(* array alone.                                                            *)
LEMMA StepCalls ==
  ASSUME WellConfigured, IInv, [Next]_vars
  PROVE  UNCHANGED flash \/ (pc \in CallPcs /\ \E k \in 0 .. CallLen : flash' = After(k))
<1>1. CASE Fails \/ PowerLoss
  BY <1>1 DEF Fails, CallFails, PowerLoss
<1>2. CASE FormatEraseA \/ FormatEraseB \/ FormatHeader \/ Compacting \/ Appending
  <2>1. pc \in CallPcs /\ flash' = After(CallLen)
    BY <1>2 DEF FormatEraseA, FormatEraseB, FormatHeader, Compacting, Appending, CompactErase,
       CompactHeader, CompactRecord, CompactSnapshot, AppendHeader, AppendData, Completes,
       CallPcs, FormatPcs, WritePcs, CompactPcs, AppendPcs
  <2>2. CallLen \in 0 .. CallLen
    <3>1. CASE Erasing
      BY <3>1, GeometryAssumption DEF CallLen
    <3>2. CASE ~ Erasing
      <4>1. Payload \in Seq(Cell) /\ CallLen = Len(Payload)
        BY <2>1, <3>2, ProgramCalls
      <4> QED  BY <4>1
    <3> QED  BY <3>1, <3>2
  <2> QED  BY <2>1, <2>2
<1>3. CASE Open \/ OpenFails \/ (\E r \in Requests : Write(r)) \/ Read \/ ReplayRecord
             \/ ReplayEnd \/ ReplayFails \/ Restart \/ UNCHANGED vars
  BY <1>3 DEF Open, OpenFails, Write, Read, ReplayRecord, ReplayEnd, ReplayFails, Restart, vars
<1> QED
  BY <1>1, <1>2, <1>3 DEF Next, Running, Mounting

(* No step taken while an object exists, a failure or a loss of power      *)
(* included, changes a cell of its log.                                    *)
THEOREM LogIsKept ==
  ASSUME WellConfigured
  PROVE  Spec => LogKept
<1>1. IInv /\ [Next]_vars =>
        [(pc \in Session) => \A x \in LogCells : flash'[x] = flash[x]]_vars
  <2> SUFFICES ASSUME IInv, [Next]_vars, pc \in Session
               PROVE  \A x \in LogCells : flash'[x] = flash[x]
    OBVIOUS
  <2>1. CASE UNCHANGED flash
    BY <2>1
  <2>2. CASE pc \in CallPcs /\ \E k \in 0 .. CallLen : flash' = After(k)
    <3>1. pc \in WritePcs
      BY <2>2 DEF CallPcs, Session, FormatPcs, WritePcs, CompactPcs, AppendPcs
    <3>2. PICK k \in 0 .. CallLen : flash' = After(k)
      BY <2>2
    <3> QED  BY <2>2, <3>1, <3>2, CallEffect
  <2> QED  BY <2>1, <2>2, StepCalls
<1> QED
  BY <1>1, Inductive, PTL DEF Spec, LogKept

(* A formatted EEPROM keeps a valid sector header through every step.      *)
THEOREM HeaderSurvives ==
  ASSUME WellConfigured
  PROVE  Spec => NeverReformatted
<1>1. IInv /\ [Next]_vars => [~ Unformatted(flash) => ~ Unformatted(flash')]_vars
  <2> SUFFICES ASSUME IInv, [Next]_vars, ~ Unformatted(flash)
               PROVE  ~ Unformatted(flash')
    OBVIOUS
  <2>1. CASE UNCHANGED flash
    BY <2>1
  <2>2. CASE pc \in CallPcs /\ \E k \in 0 .. CallLen : flash' = After(k)
    <3>1. pc \in WritePcs
      BY <2>2 DEF IInv, FormatInv, CallPcs
    <3>2. PICK k \in 0 .. CallLen : flash' = After(k)
      BY <2>2
    <3>3. ValidHeader(flash', active) /\ active \in {BaseA, BaseB}
      BY <2>2, <3>1, <3>2, CallEffect DEF IInv, TypeOK
    <3> QED  BY <3>3 DEF Unformatted
  <2> QED  BY <2>1, <2>2, StepCalls
<1> QED
  BY <1>1, Inductive, PTL DEF Spec, NeverReformatted

-----------------------------------------------------------------------------
(* On a device without errors a restart finds the sector that was active.  *)

(* No call reaches outside the array, so none fails.                       *)
LEMMA NoFailure ==
  ASSUME WellConfigured, IInv, "ioerr" \notin Faults
  PROVE  ~ Fails
<1> SUFFICES ASSUME Fails PROVE FALSE
  OBVIOUS
<1>1. pc \in CallPcs /\ ~ Erasing /\ ~ InArray(Target, CallLen)
  BY DEF Fails, CallFails
<1>2. /\ Target \in Nat /\ CallLen \in Nat /\ CallLen = Len(Payload)
      /\ Payload \in Seq(Cell)
  BY <1>1, ProgramCalls
<1>3. /\ active \in Nat /\ scratch \in Nat /\ SectorSize \in Nat /\ FlashSize \in Nat
      /\ active + SectorSize <= FlashSize /\ scratch + SectorSize <= FlashSize
      /\ 2 <= SectorSize /\ BaseA \in Nat /\ BaseA + SectorSize <= FlashSize
  BY Geometry, SMTT(20) DEF IInv, TypeOK, HdrLen, RecLen
<1>4. Target + CallLen <= FlashSize
  <2>1. CASE pc \in {"fHdr", "cHdr"}
    <3>1. Target \in {BaseA, scratch} /\ Len(Payload) = 2
      BY <1>1, <2>1, ProgramCalls
    <3> QED  BY <1>2, <1>3, <3>1
  <2>2. CASE pc \in {"cRecHdr", "cSnap"}
    <3>1. Target + Len(Payload) <= scratch + SectorSize
      BY <1>1, <2>2, ProgramCalls
    <3> QED  BY <1>2, <1>3, <3>1
  <2>3. CASE pc \in AppendPcs
    <3>1. Target + Len(Payload) <= active + SectorSize
      BY <1>1, <2>3, ProgramCalls
    <3> QED  BY <1>2, <1>3, <3>1
  <2> QED
    BY <1>1, <2>1, <2>2, <2>3 DEF CallPcs, FormatPcs, WritePcs, CompactPcs, AppendPcs, Erasing
<1> QED
  BY <1>1, <1>4 DEF InArray

(* Appending does not touch the scratch header.                            *)
LEMMA AppendKeepsScratch ==
  ASSUME WellConfigured, IInv, pc \in AppendPcs, NEW k \in 0 .. CallLen, flash' = After(k)
  PROVE  flash'[scratch] = flash[scratch] /\ flash'[scratch + 1] = flash[scratch + 1]
<1>1. pc \in CallPcs /\ ~ Erasing
  BY DEF CallPcs, WritePcs, AppendPcs, Erasing
<1>2. /\ Target \in Nat /\ Payload \in Seq(Cell) /\ CallLen = Len(Payload)
      /\ Target >= active + HdrLen /\ Target + Len(Payload) <= active + SectorSize
  BY <1>1, ProgramCalls
<1>3. flash' = Programmed(flash, Target, Payload, k) /\ k \in 0 .. Len(Payload)
  BY <1>1, <1>2 DEF After
<1>4. \A x \in Addr : x < Target \/ Target + k <= x => flash'[x] = flash[x]
  BY <1>2, <1>3, ProgramEffect, SMTT(20) DEF IInv, TypeOK
<1>5. /\ active # scratch /\ active \in {BaseA, BaseB} /\ scratch \in {BaseA, BaseB}
  BY DEF IInv, TypeOK, MountedInv, Session, WritePcs
<1>6. /\ active \in Nat /\ scratch \in Nat /\ SectorSize \in Nat /\ 2 <= SectorSize
      /\ scratch \in Addr /\ scratch + 1 \in Addr
      /\ (scratch = active + SectorSize \/ active = scratch + SectorSize)
  BY <1>5, Geometry DEF HdrLen, RecLen
<1>7. k \in Nat /\ k <= Len(Payload) /\ Len(Payload) \in Nat
  BY <1>2, <1>3
<1>8. scratch + 1 < Target \/ Target + k <= scratch
  BY <1>2, <1>6, <1>7 DEF HdrLen
<1> QED
  BY <1>2, <1>4, <1>6, <1>7, <1>8

LEMMA ScratchOlderStep ==
  ASSUME WellConfigured, IInv, ScratchOlder, [Next]_vars, "ioerr" \notin Faults
  PROVE  ScratchOlder'
<1>0. IInv'
  BY NextInv
<1>1. CASE Open
  <2> SUFFICES ASSUME pc' = "replay", ValidHeader(flash', scratch')
               PROVE  flash'[scratch' + 1] < seq'
    BY <1>1 DEF Open, ScratchOlder, AppendPcs
  <2>1. /\ UNCHANGED flash /\ active' = Picked(flash) /\ seq' = flash[Picked(flash) + 1]
        /\ scratch' = IF Picked(flash) = BaseA THEN BaseB ELSE BaseA
        /\ ~ Unformatted(flash)
    BY <1>1 DEF Open, StartReplay, Fresh
  <2>2. /\ BaseA # BaseB /\ BaseA + 1 \in Addr /\ BaseB + 1 \in Addr /\ Cell \subseteq Nat
        /\ flash \in [Addr -> Cell]
    BY HeaderAddresses, CellAssumption DEF IInv, TypeOK
  <2>3. flash[BaseA + 1] \in Nat /\ flash[BaseB + 1] \in Nat
    BY <2>2
  <2>4. HeadersDistinct
    BY DEF IInv
  <2> QED
    BY <2>1, <2>2, <2>3, <2>4 DEF Picked, Unformatted, HeadersDistinct
<1>2. CASE FormatHeader
  <2>1. /\ pc = "fHdr" /\ StartReplay(BaseA, 1) /\ flash' = After(CallLen)
        /\ Unformatted(flash)
    BY <1>2 DEF FormatHeader, Completes, IInv, FormatInv, FormatPcs
  <2>2. /\ Target = BaseA /\ Payload = <<SectorMagic, 1>> /\ Payload \in Seq(Cell)
        /\ CallLen = 2 /\ flash' = Programmed(flash, BaseA, Payload, 2)
    BY <2>1, ProgramCalls DEF CallPcs, FormatPcs, Erasing, After
  <2>3. /\ BaseA \in Nat /\ BaseB \in Nat /\ BaseA + 2 <= BaseB /\ BaseA # BaseB
        /\ BaseB \in Addr /\ BaseB + 1 \in Addr
    BY HeaderAddresses
  <2>4. 2 \in 0 .. Len(Payload)
    BY <2>2
  <2>5. flash'[BaseB] = flash[BaseB] /\ flash'[BaseB + 1] = flash[BaseB + 1]
    <3>1. flash \in [Addr -> Cell]
      BY DEF IInv, TypeOK
    <3>2. \A x \in Addr : x < BaseA \/ BaseA + 2 <= x => flash'[x] = flash[x]
      <4>1. Payload \in Seq(Cell) /\ flash' = Programmed(flash, BaseA, Payload, 2)
        BY <2>2
      <4>2. BaseA \in Nat
        BY <2>3
      <4>3. \A x \in Addr : x < BaseA \/ BaseA + 2 <= x =>
              Programmed(flash, BaseA, Payload, 2)[x] = flash[x]
        BY <2>4, <3>1, <4>1, <4>2, ProgramEffect
      <4> QED  BY <4>1, <4>3
    <3> QED  BY <2>3, <3>2
  <2> QED
    BY <2>1, <2>3, <2>5 DEF StartReplay, ScratchOlder, ValidHeader, Unformatted
<1>3. CASE CompactSnapshot
  <2>1. /\ pc = "cSnap" /\ pc \in WritePcs /\ Completes("aHdr")
        /\ scratch' = active /\ seq' = NextSeq
    BY <1>3 DEF CompactSnapshot, WritePcs, CompactPcs
  <2>2. flash'[active + 1] = seq /\ seq \in Nat
    BY <2>1, CompletedCall DEF IInv, TypeOK
  <2> QED  BY <2>1, <2>2 DEF ScratchOlder, NextSeq
<1>4. CASE Appending
  <2>1. /\ pc \in AppendPcs /\ pc \in WritePcs /\ flash' = After(CallLen)
        /\ UNCHANGED <<scratch, seq>> /\ \E next : Completes(next)
    BY <1>4 DEF Appending, AppendHeader, AppendData, Completes, object, AppendPcs, WritePcs
  <2>2. CallLen \in 0 .. CallLen
    BY <2>1, CompletedCall
  <2>3. flash'[scratch] = flash[scratch] /\ flash'[scratch + 1] = flash[scratch + 1]
    BY <2>1, <2>2, AppendKeepsScratch
  <2> QED  BY <2>1, <2>3 DEF ScratchOlder, ValidHeader
<1>5. CASE ReplayRecord \/ ReplayEnd \/ (\E r \in Requests : Write(r)) \/ Read \/ UNCHANGED vars
  <2>1. /\ UNCHANGED <<flash, scratch, seq>>
        /\ pc \in {"replay", "ready"} \/ UNCHANGED pc
    BY <1>5 DEF ReplayRecord, ReplayEnd, Write, Read, vars, object
  <2> QED  BY <2>1 DEF ScratchOlder, ValidHeader
<1>6. CASE OpenFails \/ ReplayFails \/ Restart \/ PowerLoss
  BY <1>6 DEF OpenFails, ReplayFails, Restart, PowerLoss, ScratchOlder, AppendPcs
<1>7. CASE FormatEraseA \/ FormatEraseB \/ CompactErase \/ CompactHeader \/ CompactRecord
  BY <1>7 DEF FormatEraseA, FormatEraseB, CompactErase, CompactHeader, CompactRecord, Completes,
              ScratchOlder, AppendPcs
<1> QED
  BY <1>1, <1>2, <1>3, <1>4, <1>5, <1>6, <1>7, NoFailure
  DEF Next, Running, Mounting, Compacting

(* On a device that returns no errors, the sector the object writes to is  *)
(* the one the next mount picks, wherever the power was lost before.       *)
THEOREM RestartFindsActive ==
  ASSUME WellConfigured, "ioerr" \notin Faults
  PROVE  Spec => []RestartPicksActive
<1>1. Init => IInv /\ ScratchOlder
  BY InitInv DEF Init, ScratchOlder, AppendPcs
<1>2. IInv /\ ScratchOlder /\ [Next]_vars => (IInv /\ ScratchOlder)'
  BY NextInv, ScratchOlderStep
<1>3. IInv /\ ScratchOlder => RestartPicksActive
  <2> SUFFICES ASSUME IInv, ScratchOlder, pc = "ready"
               PROVE  Picked(flash) = active
    BY DEF RestartPicksActive
  <2>1. /\ active # scratch /\ ValidHeader(flash, active) /\ seq = flash[active + 1]
        /\ active \in {BaseA, BaseB} /\ scratch \in {BaseA, BaseB}
        /\ ValidHeader(flash, scratch) => flash[scratch + 1] < seq
    BY DEF IInv, TypeOK, MountedInv, Session, ScratchOlder
  <2>2. /\ BaseA + 1 \in Addr /\ BaseB + 1 \in Addr /\ Cell \subseteq Nat
        /\ flash \in [Addr -> Cell]
    BY HeaderAddresses, CellAssumption DEF IInv, TypeOK
  <2>3. flash[BaseA + 1] \in Nat /\ flash[BaseB + 1] \in Nat
    BY <2>2
  <2> QED  BY <2>1, <2>3 DEF Picked
<1> QED
  BY <1>1, <1>2, <1>3, PTL DEF Spec
=============================================================================
