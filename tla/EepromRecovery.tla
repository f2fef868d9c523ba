--------------------------- MODULE EepromRecovery ---------------------------
(***************************************************************************)
(* The log implements the store wherever a mount recovers the promised     *)
(* contents; a session that is never left does, on a device that may fail  *)
(* any call.  And what a loss of power does to the mounts after it.        *)
(***************************************************************************)
EXTENDS EepromProofs, SequenceTheorems

(* The contents the client has been promised are those in RAM.             *)
Promised == pc \in Session => state = store

LEMMA PcSets ==
  /\ Session = {"ready", "cErase", "cHdr", "cRecHdr", "cSnap", "aHdr", "aData"}
  /\ WritePcs = {"cErase", "cHdr", "cRecHdr", "cSnap", "aHdr", "aData"}
  /\ CallPcs = {"fEraseA", "fEraseB", "fHdr"} \cup WritePcs
BY DEF Session, WritePcs, CallPcs, FormatPcs, CompactPcs, AppendPcs

LEMMA PromisedStep ==
  ASSUME Promised, [Next]_vars
  PROVE  Promised'
<1>1. CASE Open \/ OpenFails \/ FormatEraseA \/ FormatEraseB \/ FormatHeader
             \/ ReplayRecord \/ ReplayFails \/ Restart \/ PowerLoss
  <2>1. pc' \notin Session
    BY <1>1, PcSets DEF Open, OpenFails, FormatEraseA, FormatEraseB, FormatHeader, Completes,
                        ReplayRecord, ReplayFails, Restart, PowerLoss
  <2> QED  BY <2>1 DEF Promised
<1>2. CASE ReplayEnd
  BY <1>2 DEF ReplayEnd, object, Promised
<1>3. CASE AppendData
  BY <1>3 DEF AppendData, Promised
<1>4. CASE Compacting \/ AppendHeader \/ (\E r \in Requests : Write(r)) \/ Read \/ UNCHANGED vars
  <2>1. UNCHANGED <<state, store>> /\ (pc \in Session \/ UNCHANGED pc)
    BY <1>4, PcSets DEF Compacting, CompactErase, CompactHeader, CompactRecord,
         CompactSnapshot, AppendHeader, Write, Read, vars, object
  <2> QED  BY <2>1 DEF Promised
<1>5. CASE Fails
  <2>1. UNCHANGED store /\ (pc \in WritePcs => UNCHANGED state)
        /\ (pc \notin WritePcs => pc' = "failed")
    BY <1>5 DEF Fails, CallFails
  <2> QED  BY <2>1, PcSets DEF Promised
<1> QED
  BY <1>1, <1>2, <1>3, <1>4, <1>5 DEF Next, Running, Mounting, Appending

(* A step that neither starts nor ends in a session and keeps the promise. *)
LEMMA DownStutters ==
  ASSUME pc \notin Session, pc' \notin Session, UNCHANGED store
  PROVE  UNCHANGED Store!vars
<1>1. pc \notin WritePcs /\ pc' \notin WritePcs
  BY DEF Session
<1> QED
  BY <1>1 DEF Store!vars

(* Every step is a step of the store, if a mount ends with the contents    *)
(* that were promised.                                                     *)
LEMMA StoreStep ==
  ASSUME Promised, RestartRecovers, [Next]_vars
  PROVE  [Store!Next]_(Store!vars)
<1>0. WritePcs \subseteq Session /\ "ready" \in Session /\ "ready" \notin WritePcs
      /\ "replay" \notin Session
  BY PcSets
<1>1. CASE Open \/ OpenFails \/ FormatEraseA \/ FormatEraseB \/ FormatHeader
             \/ ReplayRecord \/ ReplayFails
  <2>1. pc \notin Session /\ pc' \notin Session /\ UNCHANGED store
    BY <1>1, PcSets DEF Open, OpenFails, FormatEraseA, FormatEraseB, FormatHeader, Completes,
                        ReplayRecord, ReplayFails, object
  <2> QED  BY <2>1, DownStutters
<1>2. CASE ReplayEnd
  <2>1. pc = "replay" /\ pc' = "ready" /\ store' = state /\ state' = state /\ state = store
    BY <1>2 DEF ReplayEnd, RestartRecovers, object
  <2>2. Store!MountOk
    BY <1>0, <2>1 DEF Store!MountOk
  <2> QED  BY <2>2 DEF Store!Next
<1>3. CASE \E r \in Requests : Write(r)
  <2>1. PICK r \in Requests : Write(r)
    BY <1>3
  <2>2. pc = "ready" /\ pc' \in WritePcs /\ UNCHANGED state
        /\ req'.addr = r.addr /\ req'.data = r.data
    BY <2>1, PcSets DEF Write
  <2>3. r = [addr |-> r.addr, data |-> r.data]
    BY EepromAssumption
  <2>4. {[addr |-> req'.addr, data |-> req'.data]} = {r}
    BY <2>2, <2>3
  <2>5. Store!Request
    BY <1>0, <2>2, <2>4 DEF Store!Request
  <2> QED  BY <2>5 DEF Store!Next
<1>4. CASE Read \/ UNCHANGED vars
  BY <1>4 DEF Read, vars, Store!vars
<1>5. CASE Compacting \/ AppendHeader
  <2>1. pc \in WritePcs /\ pc' \in WritePcs /\ UNCHANGED <<state, req>>
    BY <1>5, PcSets DEF Compacting, CompactErase, CompactHeader, CompactRecord,
         CompactSnapshot, AppendHeader, Completes, object
  <2> QED  BY <1>0, <2>1 DEF Store!vars
<1>6. CASE AppendData
  <2>1. pc = "aData" /\ pc' = "ready" /\ state' = Overwrite(state, req.addr, req.data)
    BY <1>6 DEF AppendData, Completes
  <2>2. pc \in WritePcs
    BY <2>1, PcSets
  <2> DEFINE r == [addr |-> req.addr, data |-> req.data]
  <2>3. Store!Updated(state, r) = Overwrite(state, req.addr, req.data)
    BY DEF Store!Updated, Overwrite
  <2> HIDE DEF r
  <2>4. r \in {r} /\ state' = Store!Updated(state, r)
    BY <2>1, <2>3
  <2>5. Store!Succeed
    BY <1>0, <2>1, <2>2, <2>4 DEF Store!Succeed, r
  <2> QED  BY <2>5 DEF Store!Next
<1>7. CASE Fails
  <2>1. CASE pc \in WritePcs
    <3>1. pc' = "ready" /\ UNCHANGED state
      BY <1>7, <2>1 DEF Fails, CallFails
    <3>2. Store!Fail
      BY <1>0, <2>1, <3>1 DEF Store!Fail
    <3> QED  BY <3>2 DEF Store!Next
  <2>2. CASE pc \notin WritePcs
    <3>1. pc \notin Session /\ pc' \notin Session /\ UNCHANGED store
      BY <1>7, <2>2, PcSets DEF Fails, CallFails
    <3> QED  BY <3>1, DownStutters
  <2> QED  BY <2>1, <2>2
<1>8. CASE Restart \/ PowerLoss
  <2>1. pc' = "off" /\ "off" \notin Session /\ "off" \notin WritePcs /\ UNCHANGED store
    BY <1>8, PcSets DEF Restart, PowerLoss
  <2>2. CASE pc \in Session
    <3>1. Store!Unmount
      BY <2>1, <2>2 DEF Store!Unmount, Promised
    <3> QED  BY <3>1 DEF Store!Next
  <2>3. CASE pc \notin Session
    BY <2>1, <2>3, DownStutters
  <2> QED  BY <2>2, <2>3
<1> QED
  BY <1>1, <1>2, <1>3, <1>4, <1>5, <1>6, <1>7, <1>8 DEF Next, Running, Mounting, Appending

(* Whatever fails and wherever power is lost, an EEPROM whose mounts       *)
(* recover what was promised is a store: recovery is all that can go wrong.*)
THEOREM RecoveryImplementsStore ==
  Spec /\ []RestartRecovers => ImplementsStore
<1>1. Init => Store!Init
  <2>1. "off" \notin Session /\ "off" \notin WritePcs
    BY PcSets
  <2> QED  BY <2>1 DEF Init, Store!Init, BlankState
<1>2. Init => Promised
  BY PcSets DEF Init, Promised
<1>3. Promised /\ [Next]_vars => Promised'
  BY PromisedStep
<1>4. Promised /\ RestartRecovers /\ [Next]_vars => [Store!Next]_(Store!vars)
  BY StoreStep
<1> QED
  BY <1>1, <1>2, <1>3, <1>4, PTL DEF Spec, ImplementsStore, Store!Safety
-----------------------------------------------------------------------------
(* A session that is never left: no restart and no loss of power, but any  *)
(* flash call may fail after any number of its cells, in the format too.   *)

OnlyHeader(mem) == \A x \in Addr : x # BaseA /\ x # BaseA + 1 => mem[x] = Blank

(* Until the first mount is done nothing was promised, and nothing but the *)
(* header of the first sector was ever programmed.                         *)
FirstMount ==
  pc \notin Session =>
    /\ store = BlankState /\ state = BlankState /\ OnlyHeader(flash)
    /\ pc = "replay" => active = BaseA /\ wptr = HdrLen

(* The calls of a format, however far they get.                            *)
LEMMA FormatCallsKeepBlank ==
  ASSUME WellConfigured, IInv, pc \in FormatPcs, OnlyHeader(flash),
         NEW k \in 0 .. CallLen, flash' = After(k)
  PROVE  OnlyHeader(flash')
<1>0. flash \in [Addr -> Cell] /\ BaseA \in Nat /\ BaseB \in Nat /\ pc \in CallPcs
  BY Geometry DEF IInv, TypeOK, CallPcs
<1>1. CASE Erasing
  <2>1. /\ Target \in {BaseA, BaseB} /\ k \in 0 .. SectorSize
        /\ flash' = Erased(flash, Target, k)
    BY <1>1 DEF Erasing, Target, CallLen, After, FormatPcs
  <2>2. EraseBase(Target) = Target /\ Target \in Nat
    BY <1>0, <2>1 DEF WellConfigured, Fits
  <2>3. \A x \in Addr : flash'[x] = flash[x] \/ flash'[x] = Blank
    BY <1>0, <2>1, <2>2, EraseEffect
  <2> QED  BY <2>3 DEF OnlyHeader
<1>2. CASE ~ Erasing
  <2>1. pc = "fHdr"
    BY <1>2 DEF FormatPcs, Erasing
  <2>2. Target = BaseA /\ Payload = <<SectorMagic, 1>> /\ Payload \in Seq(Cell)
        /\ CallLen = Len(Payload)
    BY <1>0, <1>2, <2>1, ProgramCalls
  <2>3. k \in 0 .. Len(Payload) /\ k \in 0 .. 2
    BY <2>2
  <2>4. flash' = Programmed(flash, BaseA, Payload, k)
    BY <1>2, <2>2 DEF After
  <2>5. \A x \in Addr : x < BaseA \/ BaseA + k <= x => flash'[x] = flash[x]
    <3>1. \A x \in Addr : x < BaseA \/ BaseA + k <= x =>
            Programmed(flash, BaseA, Payload, k)[x] = flash[x]
      <4>1. Payload \in Seq(Cell) /\ k \in 0 .. Len(Payload)
        BY <2>2, <2>3
      <4> QED  BY <1>0, <4>1, ProgramEffect
    <3> QED  BY <2>4, <3>1
  <2>6. \A x \in Addr : x # BaseA /\ x # BaseA + 1 => x < BaseA \/ BaseA + k <= x
    BY <1>0, <2>3, Geometry
  <2> QED  BY <2>5, <2>6 DEF OnlyHeader
<1> QED
  BY <1>1, <1>2

LEMMA FirstMountStep ==
  ASSUME WellConfigured, Faults \subseteq {"ioerr"}, IInv, FirstMount, [Next]_vars
  PROVE  FirstMount'
<1>0. /\ BaseA \in Nat /\ BaseB \in Addr /\ BaseA # BaseB /\ BaseA + 1 # BaseB
      /\ BaseA + HdrLen \in Addr
      /\ SectorMagic # Blank /\ RecMagic # Blank
  <2>1. SectorMagic # Blank /\ RecMagic # Blank
    BY EepromAssumption
  <2>2. HdrLen = 2 /\ RecLen \in Nat /\ Size >= 1
    BY EepromAssumption DEF HdrLen, RecLen
  <2>3. BaseA \in Nat /\ BaseB = BaseA + SectorSize /\ SectorSize >= 3 /\ SectorSize \in Nat
    BY <2>2, Geometry
  <2>4. BaseB \in Addr /\ BaseA + HdrLen \in Addr
    BY <2>2, <2>3, Geometry
  <2> QED  BY <2>1, <2>2, <2>3, <2>4
<1>1. CASE Open
  <2>1. pc \notin Session /\ OnlyHeader(flash) /\ store = BlankState
        /\ UNCHANGED <<flash, store>>
    BY <1>1, PcSets DEF Open, FirstMount
  <2>2. ~ ValidHeader(flash, BaseB)
    BY <1>0, <2>1 DEF OnlyHeader, ValidHeader
  <2>3. Picked(flash) = BaseA
    BY <2>2 DEF Picked
  <2>4. state' = BlankState /\ (pc' = "replay" => active' = BaseA /\ wptr' = HdrLen)
    BY <1>1, <2>3 DEF Open, Fresh, StartReplay
  <2> QED  BY <2>1, <2>4 DEF FirstMount
<1>2. CASE OpenFails \/ ReplayFails
  <2>1. pc \notin Session /\ pc' = "failed" /\ state' = BlankState /\ UNCHANGED <<flash, store>>
    BY <1>2, PcSets DEF OpenFails, ReplayFails, Fresh
  <2> QED  BY <2>1 DEF FirstMount
<1>3. CASE FormatEraseA \/ FormatEraseB \/ FormatHeader
  <2>1. /\ pc \in FormatPcs /\ flash' = After(CallLen) /\ UNCHANGED store
        /\ (pc' \in FormatPcs /\ UNCHANGED state)
             \/ (state' = BlankState /\ active' = BaseA /\ wptr' = HdrLen)
    BY <1>3 DEF FormatEraseA, FormatEraseB, FormatHeader, Completes, FormatPcs, StartReplay,
                object
  <2>2. pc \in CallPcs /\ pc \notin Session
    BY <2>1, PcSets DEF FormatPcs
  <2>3. CallLen \in 0 .. CallLen
    <3>1. CASE Erasing
      BY <3>1, GeometryAssumption DEF CallLen
    <3>2. CASE ~ Erasing
      <4>1. Payload \in Seq(Cell) /\ CallLen = Len(Payload)
        BY <2>2, <3>2, ProgramCalls
      <4> QED  BY <4>1
    <3> QED  BY <3>1, <3>2
  <2>4. OnlyHeader(flash') /\ store = BlankState /\ state = BlankState
    BY <2>1, <2>2, <2>3, FormatCallsKeepBlank DEF FirstMount
  <2> QED  BY <2>1, <2>4 DEF FirstMount, FormatPcs
<1>4. CASE ReplayRecord
  <2>1. pc = "replay" /\ RecField(0) = RecMagic
    BY <1>4 DEF ReplayRecord, LogAtEnd
  <2>2. active = BaseA /\ wptr = HdrLen /\ OnlyHeader(flash)
    BY <2>1, PcSets DEF FirstMount
  <2>3. flash[BaseA + HdrLen] = Blank
    BY <1>0, <2>2 DEF OnlyHeader, HdrLen
  <2>4. RecField(0) = flash[BaseA + HdrLen]
    BY <1>0, <2>2 DEF RecField, HdrLen
  <2> QED  BY <1>0, <2>1, <2>3, <2>4
<1>5. CASE Fails
  <2>1. PICK k \in 0 .. CallLen : CallFails(k)
    BY <1>5 DEF Fails
  <2>2. CASE pc \in WritePcs
    BY <2>1, <2>2, PcSets DEF CallFails, FirstMount
  <2>3. CASE pc \notin WritePcs
    <3>1. pc \in FormatPcs /\ pc \notin Session
      BY <1>5, <2>3, PcSets DEF Fails, FormatPcs
    <3>2. pc' = "failed" /\ state' = BlankState /\ UNCHANGED store /\ flash' = After(k)
      BY <2>1, <2>3 DEF CallFails, Fresh
    <3>3. OnlyHeader(flash') /\ store = BlankState
      BY <3>1, <3>2, FormatCallsKeepBlank DEF FirstMount
    <3> QED  BY <3>2, <3>3 DEF FirstMount
  <2> QED  BY <2>2, <2>3
<1>6. CASE ReplayEnd \/ (\E r \in Requests : Write(r)) \/ Compacting \/ Appending \/ Read
  <2>1. pc' \in Session
    BY <1>6, PcSets DEF ReplayEnd, Write, Compacting, CompactErase, CompactHeader, CompactRecord,
         CompactSnapshot, Appending, AppendHeader, AppendData, Completes, Read, vars
  <2> QED  BY <2>1 DEF FirstMount
<1>7. ~ Restart /\ ~ PowerLoss
  BY DEF Restart, PowerLoss
<1>8. CASE UNCHANGED vars
  BY <1>8 DEF vars, FirstMount
<1> QED
  BY <1>1, <1>2, <1>3, <1>4, <1>5, <1>6, <1>7, <1>8 DEF Next, Running, Mounting

(* However many flash calls fail, and after how many cells, the client of  *)
(* one session sees the store: a failed write leaves no trace in what it   *)
(* reads and in what later writes give, in any sector and any compaction.  *)
THEOREM SessionImplementsStore ==
  ASSUME WellConfigured, Faults \subseteq {"ioerr"}
  PROVE  Spec => ImplementsStore
<1>1. Init => FirstMount
  <2> SUFFICES ASSUME Init PROVE FirstMount
    OBVIOUS
  <2>1. OnlyHeader(flash)
    BY DEF Init, ErasedArray, OnlyHeader
  <2> QED  BY <2>1 DEF Init, FirstMount
<1>2. IInv /\ FirstMount /\ [Next]_vars => FirstMount'
  BY FirstMountStep
<1>3. FirstMount => RestartRecovers
  BY PcSets DEF FirstMount, RestartRecovers
<1> QED
  BY <1>1, <1>2, <1>3, Inductive, RecoveryImplementsStore, PTL DEF Spec

-----------------------------------------------------------------------------
(* Mounting with the checksum the code has, over a flash whose power may   *)
(* have been lost between any two calls, or inside one.                    *)

(* AND does not make a length longer.                                      *)
LengthAnd == \A a, b \in 0 .. Size : BitAnd(a, b) \in 0 .. Size

PowerLossOnly ==
  WellConfigured /\ LengthAnd /\ Faults \subseteq {"restart", "crash", "tear"}

(* No record passes the check that includes its own checksum (lib.rs:134). *)
NonePasses ==
  pc = "replay" /\ wptr < SectorSize /\ HeaderInArray /\ ~ LogAtEnd /\ DataInArray => ~ ChecksumOk

(* Where the first record of a sector is, a length was programmed, perhaps *)
(* several on top of each other, or none was; and then nothing else was    *)
(* either, if no call was ever cut off.                                    *)
FirstRecord(mem, b) ==
  \/ mem[b + HdrLen + 3] \in 0 .. Size
  \/ mem[b + HdrLen + 3] = Blank /\ ("tear" \in Faults \/ mem[b + HdrLen] = Blank)

(* So every object starts to write at the first record again, over what is *)
(* there, and no mount reads beyond it.                                    *)
MountInv ==
  /\ pc = "failed" => "tear" \in Faults
  /\ FirstRecord(flash, BaseA) /\ FirstRecord(flash, BaseB)
  /\ pc = "replay" => wptr = HdrLen
  /\ pc \in Session => wptr = HdrLen \/ wptr >= HdrLen + RecLen
  /\ pc \in WritePcs => req.hdr[4] = Len(req.data) /\ Len(req.data) \in 0 .. Size

LEMMA FirstRecordPlace ==
  ASSUME WellConfigured, NEW b \in {BaseA, BaseB}
  PROVE  /\ b \in Nat /\ b + HdrLen \in Addr /\ b + HdrLen + 3 \in Addr
         /\ HdrLen = 2 /\ RecLen = 5 /\ SectorSize \in Nat /\ HdrLen + RecLen + Size <= SectorSize
         /\ BaseB = BaseA + SectorSize /\ b + SectorSize <= FlashSize /\ FlashSize \in Nat
         /\ Size \in Nat \ {0} /\ BaseA \in Nat /\ BaseB \in Nat
<1>1. HdrLen = 2 /\ RecLen = 5
  BY DEF HdrLen, RecLen
<1> QED  BY <1>1, Geometry

(* A program elsewhere leaves the first record of a sector alone.          *)
LEMMA ProgramElsewhere ==
  ASSUME WellConfigured, NEW mem \in [Addr -> Cell], NEW a \in Nat, NEW cells \in Seq(Cell),
         NEW b \in {BaseA, BaseB}, FirstRecord(mem, b),
         a + Len(cells) <= b + HdrLen \/ b + HdrLen + RecLen <= a
  PROVE  FirstRecord(Programmed(mem, a, cells, Len(cells)), b)
<1> DEFINE new == Programmed(mem, a, cells, Len(cells))
           x == b + HdrLen
           y == b + HdrLen + 3
<1>1. /\ b \in Nat /\ x \in Addr /\ y \in Addr /\ HdrLen = 2 /\ RecLen = 5 /\ Len(cells) \in Nat
  <2>1. Len(cells) \in Nat
    OBVIOUS
  <2>2. b \in Nat /\ x \in Addr /\ y \in Addr /\ HdrLen = 2 /\ RecLen = 5
    BY FirstRecordPlace
  <2> QED  BY <2>1, <2>2
<1>2. Len(cells) \in 0 .. Len(cells)
  BY <1>1
<1>3. \A z \in Addr : z < a \/ a + Len(cells) <= z => new[z] = mem[z]
  BY <1>2, ProgramEffect
<1>4. (x < a \/ a + Len(cells) <= x) /\ (y < a \/ a + Len(cells) <= y)
  BY <1>1
<1> HIDE DEF new
<1>5. new[x] = mem[x] /\ new[y] = mem[y]
  BY <1>1, <1>3, <1>4
<1> HIDE DEF x, y
<1> QED  BY <1>5 DEF FirstRecord, x, y, new

(* A record header at the first record makes the length there a length.    *)
LEMMA ProgramThere ==
  ASSUME WellConfigured, LengthAnd, NEW mem \in [Addr -> Cell], NEW cells \in Seq(Cell),
         NEW b \in {BaseA, BaseB}, FirstRecord(mem, b), Len(cells) = RecLen,
         cells[4] \in 0 .. Size
  PROVE  FirstRecord(Programmed(mem, b + HdrLen, cells, Len(cells)), b)
<1> DEFINE a == b + HdrLen
           y == b + HdrLen + 3
           new == Programmed(mem, a, cells, Len(cells))
<1>1. b \in Nat /\ y \in Addr /\ y \in Nat /\ HdrLen = 2 /\ RecLen = 5 /\ y = a + 3 /\ a \in Nat
  <2>1. b \in Nat /\ y \in Addr /\ HdrLen = 2 /\ RecLen = 5
    BY FirstRecordPlace
  <2> QED  BY <2>1
<1>2. y \in a .. (a + Len(cells) - 1) /\ y - a + 1 = 4
  BY <1>1
<1>3. new[y] = BitAnd(mem[y], cells[4])
  <2> HIDE DEF a, y
  <2> QED  BY <1>1, <1>2 DEF Programmed
<1>4. BitAnd(mem[y], cells[4]) \in 0 .. Size
  <2>1. CASE mem[y] \in 0 .. Size
    BY <2>1 DEF LengthAnd
  <2>2. CASE mem[y] = Blank
    <3>1. cells[4] \in Cell
      BY EepromAssumption
    <3> QED  BY <2>2, <3>1, CellAssumption
  <2> QED  BY <2>1, <2>2 DEF FirstRecord
<1> HIDE DEF new
<1>5. new[y] \in 0 .. Size
  BY <1>3, <1>4
<1> QED  BY <1>5 DEF FirstRecord, new

LEMMA EraseKeepsFirst ==
  ASSUME WellConfigured, NEW mem \in [Addr -> Cell], NEW t \in {BaseA, BaseB},
         NEW b \in {BaseA, BaseB}, FirstRecord(mem, b)
  PROVE  FirstRecord(Erased(mem, t, SectorSize), b)
<1> DEFINE new == Erased(mem, t, SectorSize)
           x == b + HdrLen
           y == b + HdrLen + 3
<1>1. /\ b \in Nat /\ x \in Addr /\ y \in Addr /\ HdrLen = 2 /\ RecLen = 5
      /\ t \in Nat /\ SectorSize \in Nat /\ SectorSize >= 7 /\ BaseB = BaseA + SectorSize
      /\ BaseA \in Nat
  <2>1. t \in Nat
    BY FirstRecordPlace
  <2> QED  BY <2>1, FirstRecordPlace
<1>2. EraseBase(t) = t
  BY DEF WellConfigured, Fits
<1>3. SectorSize \in 0 .. SectorSize
  BY <1>1
<1>4. /\ \A z \in Addr : z < t \/ t + SectorSize <= z => new[z] = mem[z]
      /\ \A z \in Addr : t <= z /\ z < t + SectorSize => new[z] = Blank
  BY <1>1, <1>2, <1>3, EraseEffect
<1> HIDE DEF new
<1>5. CASE b = t
  <2>1. t <= x /\ x < t + SectorSize /\ t <= y /\ y < t + SectorSize
    BY <1>1, <1>5
  <2>2. new[x] = Blank /\ new[y] = Blank
    BY <1>1, <1>4, <2>1
  <2> QED  BY <2>2 DEF FirstRecord, new
<1>6. CASE b # t
  <2>1. (x < t \/ t + SectorSize <= x) /\ (y < t \/ t + SectorSize <= y)
    BY <1>1, <1>6
  <2>2. new[x] = mem[x] /\ new[y] = mem[y]
    BY <1>1, <1>4, <2>1
  <2> HIDE DEF x, y
  <2> QED  BY <2>2 DEF FirstRecord, x, y, new
<1> QED  BY <1>5, <1>6

(* A program of a record reaches the first record of a sector from its     *)
(* first cell on, or not at all.                                           *)
LEMMA FirstRecordCalls ==
  ASSUME PowerLossOnly, IInv, MountInv, pc \in CallPcs, ~ Erasing, NEW b \in {BaseA, BaseB}
  PROVE  /\ Target \in Nat /\ Payload \in Seq(Cell) /\ CallLen = Len(Payload)
         /\ \/ Target + Len(Payload) <= b + HdrLen
            \/ b + HdrLen + RecLen <= Target
            \/ Target = b + HdrLen /\ Len(Payload) = RecLen /\ Payload[4] \in 0 .. Size
<1>0. WellConfigured /\ LengthAnd
  BY DEF PowerLossOnly
<1>1. /\ flash \in [Addr -> Cell] /\ active \in {BaseA, BaseB} /\ scratch \in {BaseA, BaseB}
      /\ wptr \in Nat /\ FirstRecord(flash, b)
  BY DEF IInv, TypeOK, MountInv
<1>2. /\ b \in Nat /\ HdrLen = 2 /\ RecLen = 5 /\ SectorSize \in Nat
      /\ HdrLen + RecLen + Size <= SectorSize /\ BaseB = BaseA + SectorSize /\ BaseA \in Nat
      /\ Size \in Nat \ {0} /\ active \in Nat /\ scratch \in Nat
  <2>1. active \in Nat /\ scratch \in Nat
    BY <1>0, <1>1, FirstRecordPlace
  <2> QED  BY <1>0, <2>1, FirstRecordPlace
<1>3. ~ Erasing
  OBVIOUS
<1>4. Target \in Nat /\ Payload \in Seq(Cell) /\ CallLen = Len(Payload)
  BY <1>0, <1>3, ProgramCalls
<1>5. Len(Payload) \in Nat
  BY <1>4
<1>6. SUFFICES ASSUME ~ (Target + Len(Payload) <= b + HdrLen \/ b + HdrLen + RecLen <= Target)
               PROVE  /\ Target = b + HdrLen /\ Len(Payload) = RecLen
                      /\ Payload[4] \in 0 .. Size
  BY <1>4
<1>7. CASE pc \in {"fHdr", "cHdr"}
  <2>1. Target \in {BaseA, BaseB} /\ Len(Payload) = 2
    <3>1. /\ pc = "fHdr" => Target = BaseA /\ Payload = <<SectorMagic, 1>>
          /\ pc = "cHdr" => Target = scratch /\ Payload = <<SectorMagic, seq + 1>>
      BY <1>0, <1>3, ProgramCalls
    <3> QED  BY <1>1, <1>7, <3>1
  <2> QED  BY <1>2, <1>4, <1>6, <2>1
<1>8. CASE pc = "cRecHdr"
  <2>1. Target = scratch + HdrLen /\ Payload = RecordHeader(NextSeq, 0, Snapshot)
    BY <1>8 DEF Target, Payload
  <2>2. Len(Snapshot) = Size
    BY <1>0, SnapshotType DEF IInv
  <2>3. Payload[4] = Size /\ Len(Payload) = RecLen
    BY <1>2, <2>1, <2>2 DEF RecordHeader, RecordCells
  <2>4. scratch = b
    <3>1. ~ (scratch + 7 <= b + 2 \/ b + 7 <= scratch + 2)
      <4>1. Target = scratch + 2 /\ Len(Payload) = 5
        BY <1>2, <2>1, <2>3
      <4> QED  BY <1>2, <1>6, <4>1
    <3>2. b = scratch \/ b = scratch + SectorSize \/ scratch = b + SectorSize
      BY <1>1, <1>2
    <3> QED  BY <1>2, <3>1, <3>2
  <2> QED  BY <1>2, <2>1, <2>3, <2>4
<1>9. CASE pc = "cSnap"
  <2>1. Target = scratch + HdrLen + RecLen /\ Target + Len(Payload) <= scratch + SectorSize
    BY <1>0, <1>3, <1>9, ProgramCalls DEF Target
  <2> QED  BY <1>1, <1>2, <1>5, <1>6, <2>1
<1>10. CASE pc \in AppendPcs
  <2>1. /\ Target + Len(Payload) <= active + SectorSize
        /\ pc = "aHdr" => Target = active + wptr /\ Payload = req.hdr
        /\ pc = "aData" => Target = active + wptr + RecLen
    BY <1>0, <1>3, <1>10, ProgramCalls DEF Target, Payload, AppendPcs
  <2>2. /\ wptr = HdrLen \/ wptr >= HdrLen + RecLen
        /\ Len(req.hdr) = RecLen /\ req.hdr[4] \in 0 .. Size
    <3>1. pc \in WritePcs /\ pc \in Session
      BY <1>10, PcSets DEF AppendPcs
    <3>2. Len(req.hdr) = RecLen
      BY <3>1 DEF IInv, RequestInv
    <3>3. req.hdr[4] = Len(req.data) /\ Len(req.data) \in 0 .. Size
      BY <3>1 DEF MountInv
    <3> QED  BY <3>1, <3>2, <3>3 DEF MountInv
  <2>3. CASE pc = "aHdr" /\ wptr = HdrLen
    <3>1. Target = active + HdrLen /\ Payload = req.hdr
      BY <2>1, <2>3
    <3>2. active = b
      <4>1. Len(Payload) = 5 /\ Target = active + 2
        BY <1>2, <2>2, <3>1
      <4>2. ~ (active + 7 <= b + 2 \/ b + 7 <= active + 2)
        BY <1>2, <1>6, <4>1
      <4>3. b = active \/ b = active + SectorSize \/ active = b + SectorSize
        BY <1>1, <1>2
      <4> QED  BY <1>2, <4>2, <4>3
    <3> QED  BY <2>2, <3>1, <3>2
  <2>4. CASE ~ (pc = "aHdr" /\ wptr = HdrLen)
    <3>1. Target >= active + HdrLen + RecLen
      BY <1>1, <1>2, <1>10, <2>1, <2>2, <2>4 DEF AppendPcs
    <3> QED  BY <1>1, <1>2, <1>4, <1>5, <1>6, <2>1, <3>1
  <2> QED  BY <2>3, <2>4
<1> QED
  BY <1>3, <1>7, <1>8, <1>9, <1>10 DEF CallPcs, FormatPcs, WritePcs, CompactPcs, AppendPcs, Erasing

(* A call that gets through.                                               *)
LEMMA CallKeepsFirst ==
  ASSUME PowerLossOnly, IInv, MountInv, pc \in CallPcs, flash' = After(CallLen),
         NEW b \in {BaseA, BaseB}
  PROVE  FirstRecord(flash', b)
<1>0. WellConfigured /\ LengthAnd
  BY DEF PowerLossOnly
<1>1. /\ flash \in [Addr -> Cell] /\ active \in {BaseA, BaseB} /\ scratch \in {BaseA, BaseB}
      /\ FirstRecord(flash, b)
  BY DEF IInv, TypeOK, MountInv
<1>2. CASE Erasing
  <2>1. Target \in {BaseA, BaseB} /\ flash' = Erased(flash, Target, SectorSize)
    BY <1>1, <1>2 DEF Erasing, Target, CallLen, After
  <2> QED  BY <1>0, <1>1, <2>1, EraseKeepsFirst
<1>3. CASE ~ Erasing
  <2>1. /\ Target \in Nat /\ Payload \in Seq(Cell) /\ CallLen = Len(Payload)
        /\ \/ Target + Len(Payload) <= b + HdrLen
           \/ b + HdrLen + RecLen <= Target
           \/ Target = b + HdrLen /\ Len(Payload) = RecLen /\ Payload[4] \in 0 .. Size
    BY <1>3, FirstRecordCalls
  <2>2. flash' = Programmed(flash, Target, Payload, Len(Payload))
    BY <1>3, <2>1 DEF After
  <2>3. CASE Target + Len(Payload) <= b + HdrLen \/ b + HdrLen + RecLen <= Target
    BY <1>0, <1>1, <2>1, <2>2, <2>3, ProgramElsewhere
  <2>4. CASE Target = b + HdrLen /\ Len(Payload) = RecLen /\ Payload[4] \in 0 .. Size
    BY <1>0, <1>1, <2>1, <2>2, <2>4, ProgramThere
  <2> QED  BY <2>1, <2>3, <2>4
<1> QED  BY <1>2, <1>3

(* A call that is cut off leaves the length as it was, erases it, or lays  *)
(* another one over it.                                                    *)
LEMMA CutKeepsFirst ==
  ASSUME PowerLossOnly, "tear" \in Faults, IInv, MountInv, pc \in CallPcs,
         NEW k \in 0 .. CallLen, flash' = After(k), NEW b \in {BaseA, BaseB}
  PROVE  FirstRecord(flash', b)
<1> DEFINE y == b + HdrLen + 3
<1>0. WellConfigured /\ LengthAnd
  BY DEF PowerLossOnly
<1>1. /\ flash \in [Addr -> Cell] /\ active \in {BaseA, BaseB} /\ scratch \in {BaseA, BaseB}
      /\ FirstRecord(flash, b)
  BY DEF IInv, TypeOK, MountInv
<1>2. flash[y] \in 0 .. Size \/ flash[y] = Blank
  BY <1>1 DEF FirstRecord
<1>3. b \in Nat /\ y \in Addr /\ y \in Nat /\ HdrLen = 2 /\ RecLen = 5
  <2>1. b \in Nat /\ y \in Addr /\ HdrLen = 2 /\ RecLen = 5
    BY <1>0, FirstRecordPlace
  <2> QED  BY <2>1
<1>4. SUFFICES flash'[y] \in 0 .. Size \/ flash'[y] = Blank
  BY DEF FirstRecord
<1> HIDE DEF y
<1>5. CASE Erasing
  <2>1. /\ Target \in {BaseA, BaseB} /\ k \in 0 .. SectorSize
        /\ flash' = Erased(flash, Target, k)
    BY <1>1, <1>5 DEF Erasing, Target, CallLen, After
  <2>2. EraseBase(Target) = Target /\ Target \in Nat
    BY <1>0, <2>1, FirstRecordPlace DEF WellConfigured, Fits
  <2>3. flash'[y] = flash[y] \/ flash'[y] = Blank
    BY <1>1, <1>3, <2>1, <2>2, EraseEffect
  <2> QED  BY <1>2, <2>3
<1>6. CASE ~ Erasing
  <2>1. /\ Target \in Nat /\ Payload \in Seq(Cell) /\ CallLen = Len(Payload)
        /\ \/ Target + Len(Payload) <= b + HdrLen
           \/ b + HdrLen + RecLen <= Target
           \/ Target = b + HdrLen /\ Len(Payload) = RecLen /\ Payload[4] \in 0 .. Size
    BY <1>6, FirstRecordCalls
  <2>2. flash' = Programmed(flash, Target, Payload, k)
    BY <1>6 DEF After
  <2>3. flash'[y] = IF y \in Target .. (Target + k - 1)
                      THEN BitAnd(flash[y], Payload[y - Target + 1]) ELSE flash[y]
    BY <1>3, <2>2 DEF Programmed
  <2>4. ASSUME y \in Target .. (Target + k - 1)
        PROVE  y - Target + 1 = 4 /\ Payload[4] \in 0 .. Size
    <3>1. Len(Payload) \in Nat /\ k \in 0 .. Len(Payload)
      BY <2>1
    <3> QED  BY <1>3, <2>1, <2>4, <3>1 DEF y
  <2>5. CASE y \in Target .. (Target + k - 1)
    <3>1. flash'[y] = BitAnd(flash[y], Payload[4]) /\ Payload[4] \in 0 .. Size
      BY <2>3, <2>4, <2>5
    <3>2. CASE flash[y] \in 0 .. Size
      BY <1>0, <3>1, <3>2 DEF LengthAnd
    <3>3. CASE flash[y] = Blank
      <4>1. Payload[4] \in Cell
        BY <3>1, EepromAssumption
      <4> QED  BY <3>1, <3>3, <4>1, CellAssumption
    <3> QED  BY <1>2, <3>2, <3>3
  <2>6. CASE y \notin Target .. (Target + k - 1)
    BY <1>2, <2>3, <2>6
  <2> QED  BY <2>5, <2>6
<1> QED  BY <1>5, <1>6

(* Power lost before the first cell of a call.                             *)
LEMMA NothingDone ==
  ASSUME WellConfigured, IInv, pc \in CallPcs
  PROVE  After(0) = flash
<1>1. flash \in [Addr -> Cell] /\ active \in {BaseA, BaseB} /\ scratch \in {BaseA, BaseB}
  BY DEF IInv, TypeOK
<1>2. CASE Erasing
  <2>1. Target \in {BaseA, BaseB}
    BY <1>1, <1>2 DEF Erasing, Target
  <2>2. EraseBase(Target) = Target /\ Target \in Nat
    BY <2>1, Geometry DEF WellConfigured, Fits
  <2>3. \A x : x \notin Target .. (Target + 0 - 1)
    BY <2>2
  <2>4. After(0) = Erased(flash, Target, 0)
    BY <1>2 DEF After
  <2> QED  BY <1>1, <2>2, <2>3, <2>4 DEF Erased
<1>3. CASE ~ Erasing
  <2>1. Target \in Nat
    BY <1>3, ProgramCalls
  <2>2. \A x : x \notin Target .. (Target + 0 - 1)
    BY <2>1
  <2>3. After(0) = Programmed(flash, Target, Payload, 0)
    BY <1>3 DEF After
  <2> QED  BY <1>1, <2>2, <2>3 DEF Programmed
<1> QED  BY <1>2, <1>3

(* What a mount finds where the first record should be, and cannot read.   *)
TornHeader == wptr = HdrLen /\ RecField(0) = RecMagic /\ RecField(3) = Blank

(* A mount can read the first record, and does not read another.           *)
LEMMA FirstRecordReads ==
  ASSUME PowerLossOnly, IInv, MountInv
  PROVE  /\ ~ OpenFails
         /\ ReplayFails => "tear" \in Faults /\ TornHeader
<1>0. WellConfigured /\ "ioerr" \notin Faults
  BY DEF PowerLossOnly
<1>1. active \in {BaseA, BaseB}
  BY DEF IInv, TypeOK
<1>2. /\ active \in Nat /\ HdrLen = 2 /\ RecLen = 5 /\ SectorSize \in Nat /\ FlashSize \in Nat
      /\ HdrLen + RecLen + Size <= SectorSize /\ active + SectorSize <= FlashSize
      /\ Size \in Nat \ {0}
      /\ BaseA \in Nat /\ BaseB = BaseA + SectorSize
  BY <1>0, <1>1, FirstRecordPlace
<1>3. ~ OpenFails
  <2>1. BaseB + SectorSize <= FlashSize
    BY <1>0, Geometry
  <2>2. BaseA + HdrLen <= FlashSize /\ BaseB + HdrLen <= FlashSize
    BY <1>2, <2>1
  <2> QED  BY <1>0, <2>2 DEF OpenFails, OpenSizesOk, InArray
<1>4. ASSUME ReplayFails PROVE "tear" \in Faults /\ TornHeader
  <2>1. pc = "replay" /\ wptr = HdrLen /\ FirstRecord(flash, active)
    BY <1>1, <1>4 DEF ReplayFails, MountInv
  <2>2. HeaderInArray
    BY <1>2, <2>1 DEF HeaderInArray, InArray
  <2>3. ~ LogAtEnd /\ ~ DataInArray
    BY <1>0, <1>4, <2>2 DEF ReplayFails
  <2>4. RecField(0) = flash[active + HdrLen] /\ RecField(3) = flash[active + HdrLen + 3]
    <3>1. active + HdrLen + 0 = active + HdrLen
      BY <1>2
    <3> QED  BY <2>1, <3>1 DEF RecField
  <2>5. RecField(0) = RecMagic /\ RecField(0) # Blank
    BY <2>3, EepromAssumption DEF LogAtEnd
  <2>6. RecField(3) \notin 0 .. Size
    <3> SUFFICES ASSUME RecField(3) \in 0 .. Size PROVE FALSE
      OBVIOUS
    <3>1. active + wptr + RecLen + RecField(3) <= FlashSize
      BY <1>2, <2>1
    <3> QED  BY <2>3, <3>1 DEF DataInArray, InArray
  <2> QED  BY <2>1, <2>4, <2>5, <2>6 DEF FirstRecord, TornHeader
<1> QED  BY <1>3, <1>4

LEMMA MountStep ==
  ASSUME PowerLossOnly, IInv, MountInv, NonePasses, [Next]_vars
  PROVE  MountInv'
<1>0. WellConfigured /\ "ioerr" \notin Faults
  BY DEF PowerLossOnly
<1>1. HdrLen = 2 /\ RecLen = 5 /\ Size \in Nat /\ wptr \in Nat
  BY EepromAssumption DEF HdrLen, RecLen, IInv, TypeOK
<1>2. CASE Open
  BY <1>2, PcSets DEF Open, Fresh, StartReplay, MountInv
<1>3. CASE FormatEraseA \/ FormatEraseB \/ FormatHeader
  <2>1. /\ pc \in CallPcs /\ flash' = After(CallLen)
        /\ pc' \in {"fEraseB", "fHdr"} \/ (pc' = "replay" /\ wptr' = HdrLen)
    BY <1>3, PcSets DEF FormatEraseA, FormatEraseB, FormatHeader, Completes, StartReplay
  <2>2. FirstRecord(flash', BaseA) /\ FirstRecord(flash', BaseB)
    BY <2>1, CallKeepsFirst
  <2> QED  BY <2>1, <2>2, PcSets DEF MountInv
<1>4. ~ ReplayRecord
  BY DEF ReplayRecord, NonePasses
<1>5. CASE ReplayEnd
  BY <1>5, PcSets DEF ReplayEnd, object, MountInv
<1>6. CASE \E r \in Requests : Write(r)
  <2>1. PICK r \in Requests : Write(r)
    BY <1>6
  <2>2. /\ pc = "ready" /\ pc' \in {"aHdr", "cErase"} /\ InRange(r)
        /\ req' = [addr |-> r.addr, data |-> r.data, hdr |-> RecordHeader(seq, r.addr, r.data)]
        /\ UNCHANGED <<flash, wptr>>
    BY <2>1 DEF Write
  <2>3. r.addr \in Nat /\ r.data \in Seq(Cell)
    BY EepromAssumption
  <2>4. Len(r.data) \in 0 .. Size
    <3>1. Len(r.data) \in Nat /\ r.addr + Len(r.data) <= Size
      BY <2>2, <2>3 DEF InRange
    <3> QED  BY <1>1, <2>3, <3>1
  <2>5. req'.hdr[4] = Len(r.data) /\ req'.data = r.data
    BY <2>2 DEF RecordHeader, RecordCells
  <2> QED  BY <2>2, <2>4, <2>5, PcSets DEF MountInv
<1>7. CASE CompactErase \/ CompactHeader \/ CompactRecord \/ AppendHeader
  <2>1. /\ pc \in CallPcs /\ pc \in WritePcs /\ pc \in Session /\ flash' = After(CallLen)
        /\ pc' \in WritePcs /\ UNCHANGED <<wptr, req>>
    BY <1>7, PcSets DEF CompactErase, CompactHeader, CompactRecord, AppendHeader, Completes, object
  <2>2. FirstRecord(flash', BaseA) /\ FirstRecord(flash', BaseB)
    BY <2>1, CallKeepsFirst
  <2> QED  BY <2>1, <2>2, PcSets DEF MountInv
<1>8. CASE CompactSnapshot
  <2>1. /\ pc \in CallPcs /\ pc \in WritePcs /\ flash' = After(CallLen) /\ pc' = "aHdr"
        /\ wptr' = HdrLen + Pad4(RecLen + Size) /\ UNCHANGED req
    BY <1>8, PcSets DEF CompactSnapshot, Completes, LogAfterSnapshot
  <2>2. FirstRecord(flash', BaseA) /\ FirstRecord(flash', BaseB)
    BY <2>1, CallKeepsFirst
  <2>3. wptr' >= HdrLen + RecLen
    <3>1. RecLen + Size \in Nat
      BY <1>1
    <3>2. RecLen + Size <= Pad4(RecLen + Size) /\ Pad4(RecLen + Size) \in Nat
      BY <3>1, Pad4Bounds
    <3> QED  BY <1>1, <2>1, <3>2
  <2> QED  BY <2>1, <2>2, <2>3, PcSets DEF MountInv
<1>9. CASE AppendData
  <2>1. /\ pc \in CallPcs /\ pc \in WritePcs /\ pc \in Session /\ flash' = After(CallLen)
        /\ pc' = "ready" /\ wptr' = wptr + Pad4(RecLen + Len(req.data))
    BY <1>9, PcSets DEF AppendData, Completes
  <2>2. FirstRecord(flash', BaseA) /\ FirstRecord(flash', BaseB)
    BY <2>1, CallKeepsFirst
  <2>3. wptr' >= HdrLen + RecLen
    <3>1. Len(req.data) \in Nat /\ wptr >= HdrLen
      BY <1>1, <2>1 DEF MountInv
    <3>2. RecLen + Len(req.data) \in Nat
      BY <1>1, <3>1
    <3>3. RecLen + Len(req.data) <= Pad4(RecLen + Len(req.data))
          /\ Pad4(RecLen + Len(req.data)) \in Nat
      BY <3>2, Pad4Bounds
    <3> QED  BY <1>1, <2>1, <3>1, <3>3
  <2> QED  BY <2>1, <2>2, <2>3, PcSets DEF MountInv
<1>10. CASE Restart
  BY <1>10, PcSets DEF Restart, MountInv
<1>11. CASE PowerLoss
  <2>1. PICK k \in 0 .. CallLen : /\ "tear" \in Faults \/ ("crash" \in Faults /\ k = 0)
                                 /\ flash' = After(k)
    BY <1>11 DEF PowerLoss
  <2>2. pc \in CallPcs /\ pc' = "off"
    BY <1>11 DEF PowerLoss
  <2>3. FirstRecord(flash', BaseA) /\ FirstRecord(flash', BaseB)
    <3>1. CASE "tear" \in Faults
      BY <2>1, <2>2, <3>1, CutKeepsFirst
    <3>2. CASE k = 0
      BY <1>0, <2>1, <2>2, <3>2, NothingDone DEF MountInv
    <3> QED  BY <2>1, <3>1, <3>2
  <2> QED  BY <2>2, <2>3, PcSets DEF MountInv
<1>12. CASE Read \/ UNCHANGED vars
  BY <1>12 DEF Read, vars, MountInv
<1>13. CASE ReplayFails
  <2>1. pc' = "failed" /\ flash' = flash /\ "tear" \in Faults
    BY <1>13, FirstRecordReads DEF ReplayFails
  <2> QED  BY <2>1, PcSets DEF MountInv
<1> QED
  BY <1>0, <1>2, <1>3, <1>4, <1>5, <1>6, <1>7, <1>8, <1>9, <1>10, <1>11, <1>12, <1>13,
     FirstRecordReads, NoFailure
  DEF Next, Running, Mounting, Compacting, Appending

LEMMA MountInvariant ==
  ASSUME PowerLossOnly
  PROVE  Spec /\ []NonePasses => []MountInv
<1>0. WellConfigured
  BY DEF PowerLossOnly
<1>1. Init => MountInv
  <2> SUFFICES ASSUME Init PROVE MountInv
    OBVIOUS
  <2>1. \A x \in Addr : flash[x] = Blank
    BY DEF Init, ErasedArray
  <2>2. FirstRecord(flash, BaseA) /\ FirstRecord(flash, BaseB)
    BY <1>0, <2>1, FirstRecordPlace DEF FirstRecord
  <2> QED  BY <2>2, PcSets DEF Init, MountInv
<1>2. IInv /\ MountInv /\ NonePasses /\ [Next]_vars => MountInv'
  BY MountStep
<1> QED
  BY <1>0, <1>1, <1>2, Inductive, PTL DEF Spec

(* With the checksum of the code no mount fails, though power was lost     *)
(* between any two flash calls and records were written over each other:   *)
(* the first record of a sector never has a length that leads out of the   *)
(* array, and replay does not get to the second (lib.rs:119-149).          *)
THEOREM MountsAfterPowerLoss ==
  ASSUME PowerLossOnly, "tear" \notin Faults
  PROVE  Spec /\ []NonePasses => []MountSucceeds
<1>1. MountInv => MountSucceeds
  BY DEF MountInv, MountSucceeds
<1> QED
  BY <1>1, MountInvariant, PTL

(* And power that is lost inside a flash call makes a mount fail only over *)
(* a record header that was cut off before its length (lib.rs:131).        *)
THEOREM FailsOnlyTorn ==
  ASSUME PowerLossOnly
  PROVE  Spec /\ []NonePasses => MountFailsOnlyTorn
<1>0. WellConfigured /\ "ioerr" \notin Faults
  BY DEF PowerLossOnly
<1>1. IInv /\ MountInv /\ [Next]_vars =>
        [pc # "failed" /\ pc' = "failed" =>
           /\ pc = "replay" /\ wptr = HdrLen
           /\ RecField(0) = RecMagic /\ RecField(3) = Blank]_vars
  <2> SUFFICES ASSUME IInv, MountInv, Next, pc # "failed", pc' = "failed"
               PROVE  pc = "replay" /\ TornHeader
    BY DEF TornHeader, vars
  <2>1. CASE ReplayFails
    BY <2>1, FirstRecordReads DEF ReplayFails
  <2>2. CASE ~ ReplayFails
    <3>1. ~ OpenFails /\ ~ Fails
      BY <1>0, FirstRecordReads, NoFailure
    <3>2. pc' # "failed"
      BY <2>2, <3>1
      DEF Next, Running, Mounting, Compacting, Appending, Open, Write, Read, Restart, PowerLoss,
          FormatEraseA, FormatEraseB, FormatHeader, ReplayRecord, ReplayEnd, CompactErase,
          CompactHeader, CompactRecord, CompactSnapshot, AppendHeader, AppendData, Completes, vars
    <3> QED  BY <3>2
  <2> QED  BY <2>1, <2>2
<1> QED
  BY <1>0, <1>1, Inductive, MountInvariant, PTL DEF Spec, MountFailsOnlyTorn
=============================================================================
