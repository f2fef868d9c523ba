--------------------------- MODULE SpiFlashProofs ---------------------------
(***************************************************************************)
(* Theorems about SpiFlash, for every width of a byte and of an address,   *)
(* every geometry, every set of frames and every number of busy cycles.    *)
(***************************************************************************)
EXTENDS SpiFlash, TLAPS

(* The write latch is never set while a program or an erase is under way,  *)
(* no transaction runs while a strobe waits for the clock, and between two *)
(* transactions the state machine is back at its start.                    *)
LatchOff   == wel => ~ wip /\ ~ StartPending
GapKept    == cs => ~ StartPending
Deselected == ~ cs => st = "IDLE" /\ rx = 0

SpiInv == TypeOK /\ LatchOff /\ GapKept /\ Deselected

-----------------------------------------------------------------------------
(* Arithmetic of bits and bytes.                                           *)

LEMMA Widths ==
  /\ ByteBits \in Nat /\ ByteBits >= 2 /\ AddrBytes \in Nat /\ AddrBytes >= 1
  /\ \A i \in 0 .. ByteBits : 2 ^ i \in Nat /\ 2 ^ i > 0 /\ 2 ^ (i + 1) = 2 * 2 ^ i
  /\ AddrSpace \in Nat /\ AddrSpace > 0
<1>1. ByteBits \in Nat /\ ByteBits >= 2 /\ AddrBytes \in Nat /\ AddrBytes >= 1
  BY SpiAssumption
<1>2. ByteBits * AddrBytes \in Nat /\ ByteBits <= ByteBits * AddrBytes
  BY <1>1
<1>3. \A i \in 0 .. ByteBits : i \in 0 .. ByteBits * AddrBytes
  BY <1>1, <1>2
<1>4. ByteBits * AddrBytes \in 0 .. ByteBits * AddrBytes
  BY <1>2
<1> QED  BY <1>1, <1>3, <1>4, PowersOfTwo DEF AddrSpace

LEMMA BitIsBit ==
  ASSUME NEW v \in Nat, NEW i \in 0 .. ByteBits
  PROVE  Bit(v, i) \in {0, 1}
<1>1. 2 ^ i \in Nat /\ 2 ^ i > 0
  BY Widths
<1>2. v \div 2 ^ i \in Nat
  BY <1>1
<1> QED  BY <1>2 DEF Bit

LEMMA Remainder ==
  ASSUME NEW v \in Nat, NEW d \in Nat, d > 0
  PROVE  v % d \in Nat /\ v % d < d
OBVIOUS

LEMMA InFrame ==
  ASSUME NEW i \in Nat, NEW len \in Nat, i < len * ByteBits
  PROVE  (i \div ByteBits) + 1 \in 1 .. len
<1>1. ByteBits \in Nat /\ ByteBits > 0
  BY Widths
<1>2. i \div ByteBits \in Nat /\ (i \div ByteBits) * ByteBits <= i
  BY <1>1
<1>3. ASSUME i \div ByteBits >= len PROVE FALSE
  <2>1. (i \div ByteBits) * ByteBits >= len * ByteBits
    BY <1>1, <1>2, <1>3
  <2> QED  BY <1>1, <1>2, <2>1
<1> QED  BY <1>2, <1>3

(* A bit of the frame that the master still has to send.                   *)
LEMMA FrameBitIsBit ==
  ASSUME TypeOK, n < Len(frame) * ByteBits
  PROVE  FrameBit(n + 1) \in {0, 1}
<1>1. frame \in Seq(Cell) /\ Len(frame) \in Nat /\ n \in Nat
  <2>1. frame \in Seq(Cell)
    <3>1. <<>> \in Seq(Cell)
      OBVIOUS
    <3>2. frame \in Frames \/ frame = <<>>
      BY DEF TypeOK, WiresOK, RegistersOK
    <3> QED  BY <3>1, <3>2, SpiAssumption
  <2>2. Len(frame) \in Nat
    BY <2>1
  <2>3. Len(frame) * ByteBits \in Nat
    BY <2>2, Widths
  <2> QED  BY <2>1, <2>2, <2>3 DEF TypeOK, WiresOK
<1>2. (n \div ByteBits) + 1 \in 1 .. Len(frame)
  BY <1>1, InFrame
<1>3. frame[(n \div ByteBits) + 1] \in Nat
  <2> DEFINE j == (n \div ByteBits) + 1
  <2>1. j \in 1 .. Len(frame)
    BY <1>2
  <2> HIDE DEF j
  <2>2. frame[j] \in Cell
    BY <1>1, <2>1
  <2> QED  BY <2>2, CellAssumption DEF j
<1>4. ByteBits - 1 - (n % ByteBits) \in 0 .. ByteBits
  BY <1>1, Widths, Remainder
<1>5. (n + 1) - 1 = n
  BY <1>1
<1> QED  BY <1>3, <1>4, <1>5, BitIsBit DEF FrameBit

LEMMA ByteFits ==
  ASSUME TypeOK, n < Len(frame) * ByteBits
  PROVE  /\ Byte \in Nat
         /\ rxCnt < ByteBits - 1 => Byte \in 0 .. (2 ^ (rxCnt + 1) - 1)
         /\ rxCnt = ByteBits - 1 => Byte \in Cell
<1>1. FrameBit(n + 1) \in {0, 1}
  BY FrameBitIsBit
<1>2. rxCnt \in 0 .. (ByteBits - 1) /\ rx \in 0 .. (2 ^ rxCnt - 1)
  BY DEF TypeOK, WiresOK, RegistersOK
<1>3. 2 ^ rxCnt \in Nat /\ 2 ^ (rxCnt + 1) = 2 * 2 ^ rxCnt
  BY <1>2, Widths
<1>4. Byte \in 0 .. (2 ^ (rxCnt + 1) - 1)
  BY <1>1, <1>2, <1>3 DEF Byte
<1>5. rxCnt = ByteBits - 1 => rxCnt + 1 = ByteBits
  BY Widths
<1> QED  BY <1>3, <1>4, <1>5, SpiAssumption, SMTT(20)

LEMMA AddrIntFits ==
  ASSUME Byte \in Nat, addrReg \in Nat
  PROVE  AddrInt \in 0 .. (AddrSpace - 1)
<1>1. 2 ^ ByteBits \in Nat
  BY Widths
<1>2. addrReg * 2 ^ ByteBits + Byte \in Nat
  BY <1>1
<1> QED  BY <1>2, Widths, Remainder DEF AddrInt

LEMMA PageEndFits ==
  ASSUME NEW a \in Nat
  PROVE  PageEnd(a) % AddrSpace \in 0 .. (AddrSpace - 1)
<1>1. PageEnd(a) \in Nat
  BY GeometryAssumption DEF PageEnd
<1> QED  BY <1>1, Widths, Remainder

LEMMA ArrayOps ==
  ASSUME NEW m \in [Addr -> Cell], NEW a \in Nat, NEW b \in Cell
  PROVE  /\ Programmed(m, a, <<b>>, 1) \in [Addr -> Cell]
         /\ Erased(m, a, SectorSize) \in [Addr -> Cell]
         /\ ErasedArray \in [Addr -> Cell]
<1>1. ASSUME NEW x \in Addr
      PROVE  (IF x \in a .. (a + 1 - 1) THEN BitAnd(m[x], <<b>>[x - a + 1]) ELSE m[x]) \in Cell
  <2>1. m[x] \in Cell
    OBVIOUS
  <2>2. CASE x \in a .. (a + 1 - 1)
    <3>1. x - a + 1 = 1
      BY <2>2
    <3>2. <<b>>[1] = b
      OBVIOUS
    <3> QED  BY <2>1, <2>2, <3>1, <3>2, CellAssumption
  <2> QED  BY <2>1, <2>2
<1>2. Programmed(m, a, <<b>>, 1) \in [Addr -> Cell]
  BY <1>1 DEF Programmed
<1>3. Erased(m, a, SectorSize) \in [Addr -> Cell]
  BY CellAssumption DEF Erased
<1>4. ErasedArray \in [Addr -> Cell]
  BY CellAssumption DEF ErasedArray
<1> QED  BY <1>2, <1>3, <1>4

-----------------------------------------------------------------------------
(* What a byte does to the registers and to the device.                    *)

LEMMA WholeByteType ==
  ASSUME SpiInv, n < Len(frame) * ByteBits, WholeByte
  PROVE  /\ RegistersOK'
         /\ mem' \in [Addr -> Cell] /\ wel' \in BOOLEAN
<1> USE DEF RegistersOK
<1>0. /\ ByteBits \in Nat /\ ByteBits >= 2 /\ AddrBytes \in Nat /\ AddrBytes >= 1
      /\ AddrSpace \in Nat /\ AddrSpace > 0
  BY Widths
<1>1. TypeOK /\ RegistersOK /\ DeviceOK
  BY DEF SpiInv, TypeOK
<1>2. Byte \in Cell /\ Byte \in Nat
  BY <1>1, ByteFits DEF WholeByte
<1>3. addrReg \in Nat /\ addrTmp \in Nat /\ AddrInt \in 0 .. (AddrSpace - 1)
  BY <1>1, <1>2, AddrIntFits, Widths
<1>4. (addrTmp + 1) % AddrSpace \in 0 .. (AddrSpace - 1)
  BY <1>3, Widths, Remainder
<1>5. PageEnd(AddrInt) % AddrSpace \in 0 .. (AddrSpace - 1)
  BY <1>3, Widths, PageEndFits, SMTT(20)
<1>6. /\ rxCnt' \in 0 .. (ByteBits - 1) /\ rx' \in 0 .. (2 ^ rxCnt' - 1)
  BY Widths DEF WholeByte
<1>7. CASE CommandByte
  <2>1. cmd' \in Cell /\ UNCHANGED <<addrTmp, pageLimit, txShift, programmed, mem>>
    BY <1>2, <1>7 DEF CommandByte
  <2>2. /\ st' \in States /\ wel' \in BOOLEAN /\ txIdx' \in 0 .. (ByteBits - 1)
        /\ addrReg' \in 0 .. (AddrSpace - 1) /\ addrLeft' \in 0 .. AddrBytes
        /\ st' = "ADDR" => addrLeft' > 0
    <3> USE <1>0, <1>1 DEF States, DeviceOK
    <3>1. CASE WrenByte
      BY <3>1 DEF WrenByte
    <3>2. CASE RdsrByte
      BY <3>2 DEF RdsrByte
    <3>3. CASE AddressedByte
      BY <3>3 DEF AddressedByte
    <3>4. CASE OtherByte
      BY <3>4 DEF OtherByte
    <3> QED  BY <1>7, <3>1, <3>2, <3>3, <3>4 DEF CommandByte
  <2> QED  BY <1>1, <1>6, <2>1, <2>2 DEF DeviceOK
<1>8. CASE AddressByte
  <2>1. /\ addrReg' \in 0 .. (AddrSpace - 1) /\ UNCHANGED <<cmd, programmed, mem, wel>>
        /\ addrLeft' \in 0 .. AddrBytes
    BY <1>0, <1>1, <1>3, <1>8 DEF AddressByte
  <2>2. /\ st' \in States \cup {"ABORT"} /\ (st' = "ADDR" => addrLeft' > 0)
        /\ txShift' \in Cell \cup {0} /\ txIdx' \in 0 .. (ByteBits - 1)
        /\ {addrTmp', pageLimit'} \subseteq 0 .. (AddrSpace - 1)
    <3> USE <1>0, <1>1, <1>3 DEF States
    <3>1. CASE addrLeft # 1
      BY <1>8, <3>1 DEF AddressByte
    <3>2. CASE addrLeft = 1 /\ StartRead
      <4>1. txShift' \in Cell \cup {0} /\ st' \in {"READ_DATA", "ABORT"}
        BY <3>2 DEF StartRead, Abort, DeviceOK
      <4> QED  BY <1>8, <3>2, <4>1 DEF AddressByte, StartRead
    <3>3. CASE addrLeft = 1 /\ StartProgram
      BY <1>5, <1>8, <3>3 DEF AddressByte, StartProgram
    <3>4. CASE addrLeft = 1 /\ StartEraseWait
      BY <1>8, <3>4 DEF AddressByte, StartEraseWait
    <3> QED  BY <1>8, <3>1, <3>2, <3>3, <3>4 DEF AddressByte
  <2> QED  BY <1>1, <1>6, <2>1, <2>2 DEF DeviceOK
<1>9. CASE ReadDataByte
  BY <1>1, <1>4, <1>6, <1>9, Widths DEF ReadDataByte, DeviceOK
<1>10. CASE ProgramByte
  <2>1. Programmed(mem, addrTmp, <<Byte>>, 1) \in [Addr -> Cell]
    BY <1>1, <1>2, <1>3, ArrayOps DEF DeviceOK
  <2>2. mem' \in [Addr -> Cell] /\ st' \in {st, "ABORT"} /\ programmed' \in Nat
        /\ addrTmp' \in 0 .. (AddrSpace - 1)
    BY <1>1, <1>4, <1>10, <2>1, SMTT(20) DEF ProgramByte, Abort, DeviceOK
  <2> QED  BY <1>1, <1>6, <1>10, <2>2, Widths DEF ProgramByte, DeviceOK
<1>11. CASE IgnoredByte
  BY <1>1, <1>6, <1>11 DEF IgnoredByte, regs, DeviceOK
<1> QED  BY <1>7, <1>8, <1>9, <1>10, <1>11 DEF WholeByte

-----------------------------------------------------------------------------
(* The invariant.                                                          *)

LEMMA NoFrame == 0 \in 0 .. Len(<<>>) * ByteBits
<1>1. ByteBits \in Nat
  BY Widths
<1>2. Len(<<>>) = 0
  OBVIOUS
<1> QED  BY <1>1, <1>2

(* The registers that a reset and the end of a transaction clear.          *)
LEMMA Cleared ==
  /\ ByteBits - 1 \in 0 .. (ByteBits - 1) /\ 0 \in 0 .. (ByteBits - 1)
  /\ 0 \in 0 .. (2 ^ 0 - 1) /\ 0 \in 0 .. AddrBytes /\ 0 \in 0 .. (AddrSpace - 1)
<1>1. /\ ByteBits \in Nat /\ ByteBits >= 2 /\ AddrBytes \in Nat
      /\ AddrSpace \in Nat /\ AddrSpace > 0
  BY Widths
<1>2. 2 ^ 0 \in Nat /\ 2 ^ 0 > 0
  <2>1. 0 \in 0 .. ByteBits
    BY <1>1
  <2> QED  BY <2>1, Widths
<1> QED  BY <1>1, <1>2

LEMMA SpiInvInit == Init => SpiInv
<1> SUFFICES ASSUME Init PROVE SpiInv
  OBVIOUS
<1>1. WiresOK
  BY NoFrame DEF Init, WiresOK
<1>2. RegistersOK
  BY Cleared DEF Init, RegistersOK, States
<1>3. DeviceOK
  <2>1. mem \in [Addr -> Cell] /\ memAt \in [Addr -> Cell]
    BY CellAssumption DEF Init, ErasedArray
  <2>2. /\ wel \in BOOLEAN /\ wip \in BOOLEAN /\ startProg \in BOOLEAN /\ startErase \in BOOLEAN
        /\ welAt \in BOOLEAN /\ wipAt \in BOOLEAN
    BY DEF Init
  <2>3. busyCnt \in Nat
    BY DEF Init
  <2>4. busyCnt <= ProgTicks
    BY TicksAssumption DEF Init
  <2> QED  BY <2>1, <2>2, <2>3, <2>4 DEF DeviceOK
<1> QED  BY <1>1, <1>2, <1>3
         DEF Init, SpiInv, TypeOK, LatchOff, GapKept, Deselected, StartPending

LEMMA ClkEdgeInv ==
  ASSUME SpiInv, ClkEdge
  PROVE  SpiInv'
<1>1. WiresOK' /\ RegistersOK'
  BY DEF SpiInv, TypeOK, WiresOK, RegistersOK, ClkEdge, master, regs
<1>2. DeviceOK'
  <2>1. /\ mem' \in [Addr -> Cell] /\ memAt' \in [Addr -> Cell] /\ wel' \in BOOLEAN
        /\ welAt' \in BOOLEAN /\ wipAt' \in BOOLEAN
    BY DEF SpiInv, TypeOK, DeviceOK, ClkEdge, history
  <2>2. wip' \in BOOLEAN /\ startProg' \in BOOLEAN /\ startErase' \in BOOLEAN
    BY DEF SpiInv, TypeOK, DeviceOK, ClkEdge, BusyStart, BusyCount, strobe
  <2>3. busyCnt' \in Nat /\ (busyCnt' <= ProgTicks \/ busyCnt' <= EraseTicks)
    <3>1. \/ busyCnt' = ProgTicks \/ busyCnt' = EraseTicks
          \/ busyCnt > 0 /\ busyCnt' = busyCnt - 1
      BY DEF ClkEdge, BusyStart, BusyCount
    <3>2. busyCnt \in Nat /\ (busyCnt <= ProgTicks \/ busyCnt <= EraseTicks)
      BY DEF SpiInv, TypeOK, DeviceOK
    <3> QED  BY <3>1, <3>2, TicksAssumption
  <2> QED  BY <2>1, <2>2, <2>3 DEF DeviceOK
<1> QED
  BY <1>1, <1>2
     DEF SpiInv, TypeOK, DeviceOK, LatchOff, GapKept, Deselected, ClkEdge, BusyStart,
         BusyCount, StartPending, strobe

LEMMA SclkRiseInv ==
  ASSUME SpiInv, SclkRise
  PROVE  SpiInv'
<1>1. n < Len(frame) * ByteBits /\ cs /\ UNCHANGED <<cs, miso, frame, timer, memAt, welAt>>
      /\ sclk' = TRUE /\ n' = n + 1 /\ (WholeByte \/ PartOfByte)
      /\ wipAt' \in {wip, wipAt}
  BY DEF SclkRise
<1>2. WiresOK'
  <2>1. Len(frame) \in Nat
    <3>1. frame \in Seq(Cell)
      <4>1. <<>> \in Seq(Cell)
        OBVIOUS
      <4> QED  BY <4>1, SpiAssumption DEF SpiInv, TypeOK, WiresOK
    <3> QED  BY <3>1
  <2>2. Len(frame) * ByteBits \in Nat
    BY <2>1, Widths
  <2> QED  BY <1>1, <2>2 DEF SpiInv, TypeOK, WiresOK
<1>3. RegistersOK' /\ mem' \in [Addr -> Cell] /\ wel' \in BOOLEAN
  <2>1. CASE WholeByte
    BY <1>1, <2>1, WholeByteType
  <2>2. CASE PartOfByte
    <3>1. Byte \in 0 .. (2 ^ (rxCnt + 1) - 1)
      BY <1>1, <2>2, ByteFits DEF SpiInv, TypeOK, PartOfByte
    <3> QED  BY <2>2, <3>1, Widths DEF SpiInv, TypeOK, RegistersOK, DeviceOK, PartOfByte, regs
  <2> QED  BY <1>1, <2>1, <2>2
<1>4. DeviceOK'
  BY <1>1, <1>3 DEF SpiInv, TypeOK, DeviceOK, timer
<1>5. wel' => wel \/ ~ wip
  BY <1>1
     DEF WholeByte, PartOfByte, CommandByte, WrenByte, RdsrByte, AddressedByte, OtherByte,
         AddressByte, ReadDataByte, ProgramByte, IgnoredByte
<1> QED
  BY <1>1, <1>2, <1>3, <1>4, <1>5
     DEF SpiInv, TypeOK, DeviceOK, LatchOff, GapKept, Deselected, StartPending, timer

LEMMA SclkFallInv ==
  ASSUME SpiInv, SclkFall
  PROVE  SpiInv'
<1>1. /\ ByteBits \in Nat /\ ByteBits >= 2 /\ AddrSpace \in Nat /\ AddrSpace > 0
  BY Widths
<1>2. (addrTmp + 1) % AddrSpace \in 0 .. (AddrSpace - 1)
  BY <1>1, Remainder DEF SpiInv, TypeOK, RegistersOK
<1>3. /\ miso' \in {"0", "1", "x", "z"} /\ txIdx' \in 0 .. (ByteBits - 1)
      /\ txShift' \in Cell \cup {0} /\ addrTmp' \in 0 .. (AddrSpace - 1)
      /\ st' \in {st, "ABORT"}
  <2> USE <1>1, <1>2 DEF SpiInv, TypeOK, WiresOK, RegistersOK, DeviceOK
  <2>1. CASE OutStatus
    BY <2>1 DEF OutStatus, StepTx, Level
  <2>2. CASE OutRead
    <3>1. txShift' \in Cell \cup {0}
      BY <2>2 DEF OutRead
    <3>2. miso' \in {"0", "1"} /\ UNCHANGED st
      BY <2>2 DEF OutRead, Level
    <3>3. txIdx' \in 0 .. (ByteBits - 1) /\ addrTmp' \in 0 .. (AddrSpace - 1)
      BY <2>2 DEF OutRead, StepTx
    <3> QED  BY <3>1, <3>2, <3>3
  <2>3. CASE OutReadPastEnd
    BY <2>3 DEF OutReadPastEnd, Abort
  <2>4. CASE OutNothing
    BY <2>4 DEF OutNothing, StepTx
  <2> QED  BY <2>1, <2>2, <2>3, <2>4 DEF SclkFall
<1>4. WiresOK' /\ RegistersOK'
  BY <1>3 DEF SpiInv, TypeOK, WiresOK, RegistersOK, SclkFall, master
<1> QED
  BY <1>4
     DEF SpiInv, TypeOK, DeviceOK, LatchOff, GapKept, Deselected, StartPending, SclkFall, timer,
         history

LEMMA CsFallInv ==
  ASSUME SpiInv, CsFall
  PROVE  SpiInv'
<1>1. WiresOK'
  <2>1. PICK f \in Frames : frame' = f
    BY DEF CsFall
  <2>2. Len(f) \in Nat
    BY SpiAssumption
  <2>3. Len(f) * ByteBits \in Nat
    BY <2>2, Widths
  <2> QED  BY <2>1, <2>3 DEF SpiInv, TypeOK, WiresOK, CsFall
<1>2. RegistersOK'
  BY Widths DEF SpiInv, TypeOK, RegistersOK, Deselected, CsFall, Running, regs
<1> QED
  BY <1>1, <1>2
     DEF SpiInv, TypeOK, DeviceOK, LatchOff, GapKept, Deselected, StartPending, CsFall, timer,
         history

LEMMA CsRiseInv ==
  ASSUME SpiInv, CsRise
  PROVE  SpiInv'
<1>1. WiresOK'
  BY NoFrame DEF SpiInv, TypeOK, WiresOK, CsRise
<1>2. RegistersOK'
  BY Cleared DEF SpiInv, TypeOK, RegistersOK, States, CsRise, regs
<1>3. mem' \in [Addr -> Cell] /\ memAt' = mem'
  <2>1. Erased(mem, addrReg, SectorSize) \in [Addr -> Cell]
    BY CellAssumption DEF SpiInv, TypeOK, DeviceOK, Erased
  <2> QED  BY <2>1 DEF SpiInv, TypeOK, DeviceOK, CsRise, EndProgram, EndErase, EndOther
<1>4. /\ UNCHANGED <<wip, busyCnt>> /\ ~ cs' /\ st' = "IDLE" /\ rx' = 0
      /\ \/ UNCHANGED <<wel, strobe>>
         \/ ~ wel' /\ startProg' = ~ wip /\ UNCHANGED startErase
         \/ ~ wel' /\ startErase' = ~ wip /\ UNCHANGED startProg
  BY DEF CsRise, EndProgram, EndErase, EndOther
<1>5. wel' \in BOOLEAN /\ startProg' \in BOOLEAN /\ startErase' \in BOOLEAN
  <2>1. wel \in BOOLEAN /\ startProg \in BOOLEAN /\ startErase \in BOOLEAN
    BY DEF SpiInv, TypeOK, DeviceOK
  <2>2. (~ wel') \in BOOLEAN /\ (~ wip) \in BOOLEAN
    OBVIOUS
  <2>3. wel' \in BOOLEAN
    BY <2>1 DEF CsRise, EndProgram, EndErase, EndOther
  <2> QED  BY <1>4, <2>1, <2>2, <2>3 DEF strobe
<1>6. DeviceOK'
  <2>1. welAt' = wel' /\ wipAt' = FALSE
    BY DEF CsRise
  <2> QED  BY <1>3, <1>4, <1>5, <2>1 DEF SpiInv, TypeOK, DeviceOK
<1>7. LatchOff'
  BY <1>4 DEF SpiInv, LatchOff, StartPending, strobe
<1> QED  BY <1>1, <1>2, <1>4, <1>6, <1>7 DEF SpiInv, TypeOK, GapKept, Deselected

LEMMA ResetInv ==
  ASSUME SpiInv, Reset
  PROVE  SpiInv'
<1>1. WiresOK'
  BY NoFrame DEF WiresOK, Reset
<1>2. RegistersOK'
  BY Cleared DEF SpiInv, TypeOK, RegistersOK, States, Reset
<1>3. DeviceOK'
  <2>1. mem' \in [Addr -> Cell] /\ memAt' \in [Addr -> Cell]
    BY CellAssumption DEF Reset, ErasedArray
  <2>2. /\ wel' \in BOOLEAN /\ wip' \in BOOLEAN /\ startProg' \in BOOLEAN /\ startErase' \in BOOLEAN
        /\ welAt' \in BOOLEAN /\ wipAt' \in BOOLEAN
    BY DEF Reset
  <2>3. busyCnt' \in Nat /\ busyCnt' <= ProgTicks
    BY TicksAssumption DEF Reset
  <2> QED  BY <2>1, <2>2, <2>3 DEF DeviceOK
<1> QED  BY <1>1, <1>2, <1>3
         DEF SpiInv, TypeOK, LatchOff, GapKept, Deselected, StartPending, Reset

LEMMA SpiInvStep == SpiInv /\ [Next]_vars => SpiInv'
<1> SUFFICES ASSUME SpiInv, [Next]_vars PROVE SpiInv'
  OBVIOUS
<1>1. CASE Next
  BY <1>1, ClkEdgeInv, SclkRiseInv, SclkFallInv, CsFallInv, CsRiseInv, ResetInv
     DEF Next, SpiEdge
<1>2. CASE UNCHANGED vars
  BY <1>2 DEF SpiInv, TypeOK, WiresOK, RegistersOK, DeviceOK, LatchOff, GapKept, Deselected,
              StartPending, vars, master, regs, timer, strobe, history
<1> QED  BY <1>1, <1>2

(* Every register keeps its width in every run, and the latch, the busy    *)
(* process and the state machine keep to each other.                       *)
THEOREM SpiInvariant == Spec => []SpiInv
<1>1. Init => SpiInv
  BY SpiInvInit
<1>2. SpiInv /\ [Next]_vars => SpiInv'
  BY SpiInvStep
<1> QED  BY <1>1, <1>2, PTL DEF Spec

(* Type correctness of the device (the ranges declared at                  *)
(* spi_flash.vhd:48-58 hold).                                              *)
THEOREM SpiTypeCorrect == Spec => []TypeOK
<1>1. SpiInv => TypeOK
  BY DEF SpiInv
<1> QED  BY <1>1, SpiInvariant, PTL

-----------------------------------------------------------------------------
(* The device implements NorChip.                                          *)

Busy == wip \/ StartPending

(* The aligned sector of an address is the addresses with its quotient.    *)
LEMMA SameSector ==
  ASSUME NEW a \in Nat, NEW x \in Addr
  PROVE  x \in EraseBase(a) .. (EraseBase(a) + SectorSize - 1)
           <=> x \div SectorSize = a \div SectorSize
<1> DEFINE q == a \div SectorSize
           p == x \div SectorSize
<1>1. SectorSize \in Nat /\ SectorSize > 0
  BY GeometryAssumption
<1>2. x \in Nat
  BY GeometryAssumption DEF Addr
<1>3. q \in Nat /\ p \in Nat /\ p * SectorSize <= x /\ x < p * SectorSize + SectorSize
  BY <1>1, <1>2
<1> HIDE DEF q, p
<1>4. q * SectorSize \in Nat /\ p * SectorSize \in Nat
  BY <1>1, <1>3
<1>5. CASE p = q
  BY <1>1, <1>2, <1>3, <1>4, <1>5 DEF EraseBase, q, p
<1>6. CASE p > q
  <2>1. p * SectorSize >= q * SectorSize + SectorSize
    BY <1>1, <1>3, <1>6
  <2> QED  BY <1>1, <1>2, <1>3, <1>4, <1>6, <2>1 DEF EraseBase, q, p
<1>7. CASE p < q
  <2>1. q * SectorSize >= p * SectorSize + SectorSize
    BY <1>1, <1>3, <1>7
  <2> QED  BY <1>1, <1>2, <1>3, <1>4, <1>7, <2>1 DEF EraseBase, q, p
<1> QED  BY <1>3, <1>5, <1>6, <1>7

(* A program that programs nothing.                                        *)
LEMMA ProgramNothing ==
  ASSUME TypeOK, wel, ~ Busy, mem' = mem, ~ wel', Busy'
  PROVE  Chip!Program
<1>1. mem' \in [Addr -> Cell]
  BY DEF TypeOK, DeviceOK
<1>2. \A x \in Addr : \E v \in Cell : mem'[x] \in {mem[x], BitAnd(mem[x], v)}
  BY CellAssumption
<1>3. DOMAIN mem' = Addr
  BY <1>1
<1> QED  BY <1>2, <1>3 DEF Chip!Program, Chip!Use, Chip!Taken, Chip!Addr, Addr, Busy

LEMMA ProgramByteRefines ==
  ASSUME SpiInv, n < Len(frame) * ByteBits, rxCnt = ByteBits - 1, ProgramByte,
         UNCHANGED timer
  PROVE  Chip!Program \/ UNCHANGED <<mem, wel, Busy>>
<1>1. UNCHANGED Busy /\ UNCHANGED wel
  BY DEF timer, Busy, StartPending, ProgramByte
<1>2. CASE mem' = mem
  BY <1>1, <1>2
<1>3. CASE mem' = Programmed(mem, addrTmp, <<Byte>>, 1) /\ wel /\ ~ wip
  <2>1. Byte \in Cell
    BY ByteFits DEF SpiInv
  <2>2. mem \in [Addr -> Cell] /\ addrTmp \in Nat
    BY Widths DEF SpiInv, TypeOK, DeviceOK, RegistersOK
  <2>3. ASSUME NEW x \in Addr
        PROVE  mem'[x] = IF x = addrTmp THEN BitAnd(mem[x], Byte) ELSE mem[x]
    <3>1. x \in Int
      BY GeometryAssumption DEF Addr
    <3>2. x \in addrTmp .. (addrTmp + 1 - 1) <=> x = addrTmp
      BY <2>2, <3>1
    <3>3. <<Byte>>[1] = Byte
      OBVIOUS
    <3>4. x = addrTmp => x - addrTmp + 1 = 1
      BY <2>2, <3>1
    <3> QED  BY <1>3, <3>2, <3>3, <3>4 DEF Programmed
  <2>4. DOMAIN mem' = Addr
    BY <1>3 DEF Programmed
  <2>5. \A x \in Addr : \E v \in Cell : mem'[x] \in {mem[x], BitAnd(mem[x], v)}
    BY <2>1, <2>3
  <2>6. \A x, y \in Addr :
          mem'[x] # mem[x] /\ mem'[y] # mem[y] => x \div PageSize = y \div PageSize
    BY <2>3
  <2>7. ~ Busy
    BY <1>3 DEF SpiInv, LatchOff, Busy
  <2> QED
    BY <1>1, <1>3, <2>4, <2>5, <2>6, <2>7 DEF Chip!Program, Chip!Use, Chip!Addr, Addr, Busy
<1> QED  BY <1>2, <1>3 DEF ProgramByte

LEMMA SclkRiseRefines ==
  ASSUME SpiInv, SclkRise
  PROVE  Chip!Enable \/ Chip!Program \/ UNCHANGED <<mem, wel, Busy>>
<1>1. n < Len(frame) * ByteBits /\ UNCHANGED timer /\ cs
  BY DEF SclkRise
<1>2. UNCHANGED Busy
  BY <1>1 DEF timer, Busy, StartPending
<1>3. wel \in BOOLEAN /\ ~ StartPending
  BY <1>1 DEF SpiInv, TypeOK, DeviceOK, GapKept
<1>4. CASE WholeByte /\ ProgramByte
  BY <1>1, <1>4, ProgramByteRefines DEF WholeByte
<1>5. CASE WholeByte /\ CommandByte
  <2>1. CASE WrenByte
    <3>1. CASE wip
      <4>1. wel' = wel
        BY <1>3, <2>1, <3>1 DEF WrenByte
      <4> QED  BY <1>2, <1>5, <4>1 DEF CommandByte
    <3>2. CASE ~ wip
      BY <1>2, <1>3, <1>5, <2>1, <3>2 DEF CommandByte, WrenByte, Chip!Enable, Busy
    <3> QED  BY <3>1, <3>2
  <2>2. CASE RdsrByte \/ AddressedByte \/ OtherByte
    BY <1>2, <1>5, <2>2 DEF CommandByte, RdsrByte, AddressedByte, OtherByte
  <2> QED  BY <1>5, <2>1, <2>2 DEF CommandByte
<1>6. CASE PartOfByte \/ AddressByte \/ ReadDataByte \/ IgnoredByte
  BY <1>2, <1>6 DEF PartOfByte, AddressByte, ReadDataByte, IgnoredByte
<1> QED  BY <1>4, <1>5, <1>6 DEF SclkRise, WholeByte

LEMMA EraseRefines ==
  ASSUME SpiInv, EndErase, UNCHANGED wip
  PROVE  Chip!EraseSector \/ Chip!Program
<1>1. wel /\ ~ Busy /\ ~ wel' /\ Busy'
  BY DEF SpiInv, LatchOff, EndErase, Busy, StartPending
<1>2. addrReg \in Nat /\ mem \in [Addr -> Cell]
  BY Widths DEF SpiInv, TypeOK, RegistersOK, DeviceOK
<1>3. mem' = [x \in Addr |-> IF x \div SectorSize = addrReg \div SectorSize
                               THEN Blank ELSE mem[x]]
  BY <1>2, SameSector DEF EndErase, Erased
<1>4. CASE \E a \in Addr : a \div SectorSize = addrReg \div SectorSize
  <2>1. PICK a \in Addr : a \div SectorSize = addrReg \div SectorSize
    BY <1>4
  <2>2. mem' = [x \in Addr |-> IF x \div SectorSize = a \div SectorSize
                                 THEN Blank ELSE mem[x]]
    BY <1>3, <2>1
  <2> QED  BY <1>1, <2>2 DEF Chip!EraseSector, Chip!Use, Chip!Taken, Chip!Addr, Addr, Busy
<1>5. CASE ~ \E a \in Addr : a \div SectorSize = addrReg \div SectorSize
  <2>1. mem' = mem
    BY <1>2, <1>3, <1>5
  <2> QED  BY <1>1, <2>1, ProgramNothing DEF SpiInv
<1> QED  BY <1>4, <1>5

LEMMA CsRiseRefines ==
  ASSUME SpiInv, CsRise
  PROVE  Chip!EraseSector \/ Chip!Program \/ UNCHANGED <<mem, wel, Busy>>
<1>1. UNCHANGED wip
  BY DEF CsRise
<1>2. CASE EndProgram
  <2>1. wel /\ ~ Busy /\ ~ wel' /\ Busy' /\ mem' = mem
    BY <1>1, <1>2 DEF SpiInv, LatchOff, EndProgram, Busy, StartPending
  <2> QED  BY <2>1, ProgramNothing DEF SpiInv
<1>3. CASE EndErase
  BY <1>1, <1>3, EraseRefines
<1>4. CASE EndOther
  BY <1>1, <1>4 DEF EndOther, strobe, Busy, StartPending
<1> QED  BY <1>2, <1>3, <1>4 DEF CsRise

LEMMA ClkEdgeRefines ==
  ASSUME SpiInv, ClkEdge
  PROVE  Chip!Ready \/ UNCHANGED <<mem, wel, Busy>>
<1>1. UNCHANGED <<mem, wel>>
  BY DEF ClkEdge
<1>2. CASE BusyStart
  BY <1>1, <1>2 DEF BusyStart, Busy, StartPending
<1>3. CASE BusyCount
  <2>1. ~ StartPending /\ ~ StartPending'
    BY <1>3 DEF BusyCount, StartPending, strobe
  <2>2. wip \in BOOLEAN /\ (wip' = FALSE \/ wip' = wip)
    BY <1>3 DEF BusyCount, SpiInv, TypeOK, DeviceOK
  <2> QED  BY <1>1, <2>1, <2>2 DEF Chip!Ready, Busy
<1> QED  BY <1>2, <1>3 DEF ClkEdge

(* Every step of the device is a step of the chip, or none.                *)
LEMMA StepRefines == SpiInv /\ [Next]_vars => [Chip!Next]_(Chip!vars)
<1> SUFFICES ASSUME SpiInv, [Next]_vars
             PROVE  Chip!Next \/ UNCHANGED <<mem, wel, Busy>>
  BY DEF Chip!vars, Busy
<1>1. CASE ClkEdge
  BY <1>1, ClkEdgeRefines DEF Chip!Next
<1>2. CASE SclkRise
  BY <1>2, SclkRiseRefines DEF Chip!Next
<1>3. CASE SclkFall \/ CsFall
  BY <1>3 DEF SclkFall, CsFall, timer, Busy, StartPending
<1>4. CASE CsRise
  BY <1>4, CsRiseRefines DEF Chip!Next
<1>5. CASE Reset
  BY <1>5 DEF Reset, Chip!Next, Chip!Reset, Chip!ErasedArray, ErasedArray, Chip!Addr, Addr,
              StartPending
<1>6. CASE UNCHANGED vars
  BY <1>6 DEF vars, timer, Busy, StartPending
<1> QED  BY <1>1, <1>2, <1>3, <1>4, <1>5, <1>6 DEF Next, SpiEdge

(* The device spi_flash.vhd describes is a chip as NorChip describes it:   *)
(* the array loses bits only through a program of one page and gets them   *)
(* back only through an erase of one sector, both need the latch and an    *)
(* idle chip, and the latch is never set while the chip is busy.           *)
THEOREM SpiImplementsChip == Spec => ImplementsChip
<1>1. Init => Chip!Init
  BY DEF Init, Chip!Init, Chip!ErasedArray, ErasedArray, Chip!Addr, Addr, StartPending
<1>2. SpiInv /\ [Next]_vars => [Chip!Next]_(Chip!vars)
  BY StepRefines
<1> QED  BY <1>1, <1>2, SpiInvariant, PTL DEF Spec, ImplementsChip, Chip!Spec
=============================================================================
