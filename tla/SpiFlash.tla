------------------------------ MODULE SpiFlash ------------------------------
(***************************************************************************)
(* The flash device of hdl/src/spi_flash.vhd, edge by edge: the process    *)
(* that shifts bits on SCLK and acts on the edges of CS, and the process   *)
(* that times busy periods on a clock of its own.  A step is one edge.     *)
(*                                                                         *)
(* The master is any master that speaks SPI mode 0: it starts a            *)
(* transaction, clocks the bits of a frame into the device and may raise   *)
(* CS after any of them.  It leaves CS high until the clock has ticked, as *)
(* hdl/README.md asks ("a small CS-high gap between transactions").        *)
(*                                                                         *)
(* PROG_BUSY_CYCLES and ERASE_BUSY_CYCLES are ProgTicks and EraseTicks.    *)
(***************************************************************************)
EXTENDS FlashSim

CONSTANTS
  ByteBits,     (* bits of a byte, 8 in the code                           *)
  AddrBytes,    (* bytes of an address, 3 in the code                      *)
  WREN, RDSR, READ, PP, SE,     (* the command bytes                       *)
  Frames        (* the byte sequences a master may send                    *)

(* The addresses that fit the address register.                            *)
AddrSpace == 2 ^ (ByteBits * AddrBytes)

ASSUME SpiAssumption ==
  /\ ByteBits \in Nat \ {0, 1} /\ AddrBytes \in Nat \ {0}
  /\ Cell = 0 .. (2 ^ ByteBits - 1)
  /\ {WREN, RDSR, READ, PP, SE} \subseteq Cell
  /\ WREN \notin {RDSR, READ, PP, SE} /\ RDSR \notin {READ, PP, SE}
  /\ READ \notin {PP, SE} /\ PP # SE
  /\ \A f \in Frames : f \in Seq(Cell) /\ f # <<>>

(* With a page that ends at AddrSpace page_limit_addr would wrap to 0; and *)
(* a device with no busy cycles would never clear WIP.                     *)
ASSUME DeviceAssumption ==
  /\ FlashSize < AddrSpace /\ FlashSize % PageSize = 0
  /\ ProgTicks > 0 /\ EraseTicks > 0

(* Facts of arithmetic, which the provers do not know of powers.           *)
ASSUME PowersOfTwo ==
  /\ 2 ^ 0 = 1
  /\ \A i \in 0 .. ByteBits * AddrBytes : 2 ^ i \in Nat \ {0} /\ 2 ^ (i + 1) = 2 * 2 ^ i

VARIABLES
  cs, sclk,             (* the wires: is the device selected, SCLK high    *)
  miso,                 (* "0" or "1", or "z" and "x" where nobody looks   *)
  frame, n,             (* the master's frame, and its bits sent so far    *)
  st, cmd,              (* st and cmd_reg                                  *)
  rx, rxCnt,            (* rx_shift since the last whole byte, rx_bitcnt   *)
  addrReg, addrLeft,    (* addr_reg, addr_bytes_left                       *)
  addrTmp, pageLimit,   (* addr_tmp, page_limit_addr                       *)
  txShift, txIdx,       (* tx_shift, tx_bitidx                             *)
  programmed,           (* bytes_programmed_in_txn                         *)
  mem, wel,
  wip, busyCnt,         (* of the busy process                             *)
  startProg, startErase,
  memAt, welAt,         (* history: the array and the latch when CS fell   *)
  wipAt                 (* history: WIP when the command byte was whole    *)

master == <<frame, n>>
regs   == <<cmd, addrReg, addrTmp, pageLimit, txShift>>
strobe == <<startProg, startErase>>
history == <<memAt, welAt, wipAt>>
timer  == <<wip, busyCnt, startProg, startErase>>
vars == <<cs, sclk, miso, master, st, rx, rxCnt, addrLeft, regs, txIdx, programmed,
          mem, wel, timer, history>>

States == {"IDLE", "ADDR", "READ_DATA", "PP_DATA", "RDSR_STREAM", "IGNORE"}

(* An index outside the memory ends the simulation.                        *)
Running == st # "ABORT"
Abort == st' = "ABORT"

Bit(v, i) == (v \div 2 ^ i) % 2

(* The same as a level of a wire.                                          *)
Level(v, i) == IF Bit(v, i) = 1 THEN "1" ELSE "0"

(* Bit i of the frame, the most significant bit of each byte first.        *)
FrameBit(i) ==
  Bit(frame[((i - 1) \div ByteBits) + 1], ByteBits - 1 - ((i - 1) % ByteBits))

-----------------------------------------------------------------------------
(* The clock: busy_proc.  When WIP rises, the SPI process clears both      *)
(* strobes in the next delta cycle.                                        *)

StartPending == startProg \/ startErase

BusyStart ==
  /\ StartPending
  /\ wip' = TRUE /\ busyCnt' = IF startProg THEN ProgTicks ELSE EraseTicks
  /\ startProg' = FALSE /\ startErase' = FALSE

BusyCountLate ==                                                (* mutant *)
  /\ ~ StartPending /\ busyCnt > 0
  /\ busyCnt' = busyCnt - 1 /\ UNCHANGED <<wip, strobe>>
BusyCountFree ==                                                (* mutant *)
  /\ ~ StartPending
  /\ busyCnt' = busyCnt - 1 /\ wip' = (wip /\ busyCnt # 1) /\ UNCHANGED strobe
BusyCount ==
  /\ ~ StartPending /\ busyCnt > 0
  /\ busyCnt' = busyCnt - 1 /\ wip' = (wip /\ busyCnt # 1)
  /\ UNCHANGED strobe

ClkEdge ==
  /\ Running /\ (BusyStart \/ BusyCount)
  /\ UNCHANGED <<cs, sclk, miso, master, st, rx, rxCnt, addrLeft, regs, txIdx,
                 programmed, mem, wel, history>>

-----------------------------------------------------------------------------
(* A byte has come in: what the state makes of it.  cmd, addrReg and what  *)
(* belongs to a read or a program are signals, so a condition sees their   *)
(* values before the edge; addrLeft is a process variable.                 *)

Byte == 2 * rx + FrameBit(n + 1)

WrenByteBusy ==                                                 (* mutant *)
  /\ Byte = WREN
  /\ wel' = TRUE
  /\ st' = "IGNORE" /\ UNCHANGED <<addrReg, addrLeft, txIdx>>
WrenByte ==
  /\ Byte = WREN
  /\ wel' = (wel \/ ~ wip)
  /\ st' = "IGNORE" /\ UNCHANGED <<addrReg, addrLeft, txIdx>>

RdsrByte ==
  /\ Byte = RDSR
  /\ st' = "RDSR_STREAM" /\ txIdx' = ByteBits - 1
  /\ UNCHANGED <<wel, addrReg, addrLeft>>

AddressedByte ==
  /\ Byte \in {READ, PP, SE}
  /\ st' = "ADDR" /\ addrReg' = 0 /\ addrLeft' = AddrBytes
  /\ UNCHANGED <<wel, txIdx>>

OtherByte ==
  /\ Byte \notin {WREN, RDSR, READ, PP, SE}
  /\ st' = "IGNORE" /\ UNCHANGED <<wel, addrReg, addrLeft, txIdx>>

CommandByte ==
  /\ st = "IDLE" /\ cmd' = Byte
  /\ WrenByte \/ RdsrByte \/ AddressedByte \/ OtherByte
  /\ UNCHANGED <<addrTmp, pageLimit, txShift, programmed, mem>>

(* addr_int: addr_reg as it will be.                                       *)
AddrInt == (addrReg * 2 ^ ByteBits + Byte) % AddrSpace

(* Where the page of an address ends.                                      *)
PageEndNone(a) == FlashSize                                     (* mutant *)
PageEnd(a) == (a \div PageSize) * PageSize + PageSize

StartRead ==
  /\ cmd = READ
  /\ IF AddrInt \in Addr THEN st' = "READ_DATA" /\ txShift' = mem[AddrInt]
                         ELSE Abort /\ UNCHANGED txShift
  /\ txIdx' = ByteBits - 1 /\ UNCHANGED pageLimit

StartProgram ==
  /\ cmd = PP
  /\ st' = "PP_DATA" /\ pageLimit' = PageEnd(AddrInt) % AddrSpace
  /\ UNCHANGED <<txShift, txIdx>>

StartEraseWait ==
  /\ cmd = SE
  /\ st' = "IGNORE" /\ UNCHANGED <<txShift, txIdx, pageLimit>>

AddressByte ==
  /\ st = "ADDR"
  /\ addrReg' = AddrInt /\ addrLeft' = addrLeft - 1
  /\ IF addrLeft = 1
       THEN addrTmp' = AddrInt /\ (StartRead \/ StartProgram \/ StartEraseWait)
       ELSE UNCHANGED <<st, addrTmp, pageLimit, txShift, txIdx>>
  /\ UNCHANGED <<cmd, programmed, mem, wel>>

ReadDataByte ==
  /\ st = "READ_DATA"
  /\ addrTmp' = IF txIdx = 0 THEN (addrTmp + 1) % AddrSpace ELSE addrTmp
  /\ UNCHANGED <<st, cmd, addrReg, addrLeft, pageLimit, txShift, txIdx, programmed, mem, wel>>

(* A byte is programmed at once, long before CS rises.                     *)
ProgramByte ==
  /\ st = "PP_DATA"
  /\ IF wel /\ ~ wip /\ addrTmp < pageLimit
       THEN IF addrTmp \in Addr
              THEN /\ mem' = Programmed(mem, addrTmp, <<Byte>>, 1)
                   /\ addrTmp' = (addrTmp + 1) % AddrSpace
                   /\ programmed' = programmed + 1
                   /\ UNCHANGED st
              ELSE Abort /\ UNCHANGED <<mem, addrTmp, programmed>>
       ELSE UNCHANGED <<st, mem, addrTmp, programmed>>
  /\ UNCHANGED <<cmd, addrReg, addrLeft, pageLimit, txShift, txIdx, wel>>

IgnoredByte ==
  /\ st \in {"RDSR_STREAM", "IGNORE"}
  /\ UNCHANGED <<st, addrLeft, regs, txIdx, programmed, mem, wel>>

WholeByte ==
  /\ rxCnt = ByteBits - 1 /\ rxCnt' = 0 /\ rx' = 0
  /\ CommandByte \/ AddressByte \/ ReadDataByte \/ ProgramByte \/ IgnoredByte

PartOfByte ==
  /\ rxCnt < ByteBits - 1 /\ rxCnt' = rxCnt + 1 /\ rx' = Byte
  /\ UNCHANGED <<st, addrLeft, regs, txIdx, programmed, mem, wel>>

SclkRise ==
  /\ Running /\ cs /\ ~ sclk /\ n < Len(frame) * ByteBits
  /\ sclk' = TRUE /\ n' = n + 1
  /\ WholeByte \/ PartOfByte
  /\ wipAt' = IF st = "IDLE" /\ rxCnt = ByteBits - 1 THEN wip ELSE wipAt
  /\ UNCHANGED <<cs, miso, frame, timer, memAt, welAt>>

-----------------------------------------------------------------------------
(* SCLK falls: the next bit goes out.                                      *)

StatusSwapped == (IF wel THEN 1 ELSE 0) + (IF wip THEN 2 ELSE 0)  (* mutant *)
Status == (IF wip THEN 1 ELSE 0) + (IF wel THEN 2 ELSE 0)

(* The bit counter steps back and wraps.                                   *)
StepTx == txIdx' = IF txIdx = 0 THEN ByteBits - 1 ELSE txIdx - 1

OutStatus ==
  /\ st = "RDSR_STREAM"
  /\ miso' = Level(Status, txIdx) /\ StepTx
  /\ UNCHANGED <<st, addrTmp, txShift>>

(* The first bit of a byte is looked up in the memory, the others come     *)
(* from the shift register; with the last one the address steps on.        *)
OutReadStuck ==                                                 (* mutant *)
  /\ st = "READ_DATA" /\ (txIdx = ByteBits - 1 => addrTmp \in Addr)
  /\ LET cur == IF txIdx = ByteBits - 1 THEN mem[addrTmp] ELSE txShift
     IN txShift' = cur /\ miso' = Level(cur, txIdx)
  /\ StepTx /\ UNCHANGED <<st, addrTmp>>
OutRead ==
  /\ st = "READ_DATA" /\ (txIdx = ByteBits - 1 => addrTmp \in Addr)
  /\ LET cur == IF txIdx = ByteBits - 1 THEN mem[addrTmp] ELSE txShift
     IN txShift' = cur /\ miso' = Level(cur, txIdx)
  /\ addrTmp' = IF txIdx = 0 THEN (addrTmp + 1) % AddrSpace ELSE addrTmp
  /\ StepTx /\ UNCHANGED st

(* The byte after the last one of the array: the index is out of range.    *)
OutReadPastEndEarly ==                                          (* mutant *)
  /\ st = "READ_DATA" /\ txIdx = ByteBits - 1 /\ addrTmp + 1 \notin Addr
  /\ Abort /\ UNCHANGED <<miso, addrTmp, txShift, txIdx>>
OutReadPastEnd ==
  /\ st = "READ_DATA" /\ txIdx = ByteBits - 1 /\ addrTmp \notin Addr
  /\ Abort /\ UNCHANGED <<miso, addrTmp, txShift, txIdx>>

(* In the other states the bits of tx_shift go out, which mean nothing.    *)
OutNothing ==
  /\ st \notin {"RDSR_STREAM", "READ_DATA"}
  /\ miso' = "x" /\ StepTx
  /\ txShift' = (IF txIdx = 0 THEN 0 ELSE txShift)
  /\ UNCHANGED <<st, addrTmp>>

SclkFall ==
  /\ Running /\ cs /\ sclk /\ sclk' = FALSE
  /\ OutStatus \/ OutRead \/ OutReadPastEnd \/ OutNothing
  /\ UNCHANGED <<cs, master, rx, rxCnt, cmd, addrReg, addrLeft, pageLimit, programmed,
                 mem, wel, timer, history>>

-----------------------------------------------------------------------------
(* CS and reset.                                                           *)

(* The master selects the device and will send a frame.                    *)
CsFall ==
  /\ Running /\ ~ cs /\ ~ StartPending
  /\ cs' = TRUE /\ (\E f \in Frames : frame' = f) /\ n' = 0
  /\ rxCnt' = 0 /\ txIdx' = ByteBits - 1 /\ addrLeft' = 0 /\ programmed' = 0
  /\ UNCHANGED <<sclk, miso, st, rx, regs, mem, wel, timer, history>>

(* A strobe is cleared at once when WIP is set already.                    *)
EndProgram ==
  /\ cmd = PP /\ wel /\ programmed > 0
  /\ wel' = FALSE /\ startProg' = ~ wip /\ UNCHANGED <<mem, startErase>>

EndErase ==
  /\ cmd = SE /\ wel
  /\ mem' = Erased(mem, addrReg, SectorSize)
  /\ wel' = FALSE /\ startErase' = ~ wip /\ UNCHANGED startProg

EndOther ==
  /\ ~ (cmd = PP /\ wel /\ programmed > 0) /\ ~ (cmd = SE /\ wel)
  /\ UNCHANGED <<mem, wel, strobe>>

(* It is deselected, perhaps in the middle of a byte.                      *)
CsRise ==
  /\ Running /\ cs /\ ~ sclk
  /\ cs' = FALSE
  /\ EndProgram \/ EndErase \/ EndOther
  /\ st' = "IDLE" /\ rx' = 0 /\ rxCnt' = 0 /\ addrLeft' = 0 /\ programmed' = 0
  /\ miso' = "z" /\ frame' = <<>> /\ n' = 0
  /\ memAt' = mem' /\ welAt' = wel' /\ wipAt' = FALSE
  /\ UNCHANGED <<sclk, regs, txIdx, wip, busyCnt>>

(* reset_n, at any moment: the master gives up its transaction.            *)
Reset ==
  /\ cs' = FALSE /\ sclk' = FALSE /\ miso' = "z" /\ frame' = <<>> /\ n' = 0
  /\ st' = "IDLE" /\ rx' = 0 /\ rxCnt' = 0 /\ txIdx' = ByteBits - 1
  /\ cmd' = 0 /\ addrReg' = 0 /\ txShift' = 0 /\ programmed' = 0
  /\ mem' = ErasedArray /\ memAt' = ErasedArray /\ wel' = FALSE
  /\ welAt' = FALSE /\ wipAt' = FALSE
  /\ wip' = FALSE /\ busyCnt' = 0 /\ startProg' = FALSE /\ startErase' = FALSE
  /\ UNCHANGED <<addrLeft, addrTmp, pageLimit>>

Init ==
  /\ cs = FALSE /\ sclk = FALSE /\ miso = "z" /\ frame = <<>> /\ n = 0
  /\ st = "IDLE" /\ rx = 0 /\ rxCnt = 0 /\ txIdx = ByteBits - 1
  /\ cmd = 0 /\ addrReg = 0 /\ txShift = 0 /\ programmed = 0
  /\ mem = ErasedArray /\ memAt = ErasedArray /\ wel = FALSE
  /\ welAt = FALSE /\ wipAt = FALSE
  /\ wip = FALSE /\ busyCnt = 0 /\ startProg = FALSE /\ startErase = FALSE
  /\ addrLeft = 0 /\ addrTmp = 0 /\ pageLimit = 0

SpiEdge == CsFall \/ SclkRise \/ SclkFall \/ CsRise

Next == SpiEdge \/ ClkEdge \/ (Running /\ Reset)

(* The clock runs whatever the master does.                                *)
Spec == Init /\ [][Next]_vars /\ WF_vars(ClkEdge)

-----------------------------------------------------------------------------
(* Properties                                                              *)

WiresOK ==
  /\ cs \in BOOLEAN /\ sclk \in BOOLEAN /\ miso \in {"0", "1", "x", "z"}
  /\ frame \in Frames \cup {<<>>} /\ n \in 0 .. Len(frame) * ByteBits

RegistersOK ==
  /\ st \in States \cup {"ABORT"} /\ cmd \in Cell \cup {0}
  /\ rxCnt \in 0 .. (ByteBits - 1) /\ rx \in 0 .. (2 ^ rxCnt - 1)
  /\ txIdx \in 0 .. (ByteBits - 1) /\ txShift \in Cell \cup {0}
  /\ addrLeft \in 0 .. AddrBytes /\ (st = "ADDR" => addrLeft > 0)
  /\ {addrReg, addrTmp, pageLimit} \subseteq 0 .. (AddrSpace - 1)
  /\ programmed \in Nat

DeviceOK ==
  /\ mem \in [Addr -> Cell] /\ memAt \in [Addr -> Cell]
  /\ wel \in BOOLEAN /\ wip \in BOOLEAN /\ welAt \in BOOLEAN /\ wipAt \in BOOLEAN
  /\ busyCnt \in Nat /\ (busyCnt <= ProgTicks \/ busyCnt <= EraseTicks)
  /\ startProg \in BOOLEAN /\ startErase \in BOOLEAN

(* Every register keeps its width, the counters stay in the ranges the     *)
(* VHDL declares for them (rx_bitcnt, tx_bitidx, addr_bytes_left).         *)
TypeOK == WiresOK /\ RegistersOK /\ DeviceOK

HeaderBits == ByteBits * (1 + AddrBytes)

(* The number the first j address bytes of a frame f make, the most        *)
(* significant byte first.                                                 *)
AddrPrefix(f) ==
  LET a[j \in 0 .. AddrBytes] == IF j = 0 THEN 0 ELSE a[j - 1] * 2 ^ ByteBits + f[1 + j]
  IN a

(* The address in the frame.                                               *)
FrameAddr == AddrPrefix(frame)[AddrBytes]

(* The command in the frame, once it is sent, and whether its address is.  *)
Sent(c) == frame # <<>> /\ frame[1] = c /\ n >= ByteBits
SentWithAddr(c) == Sent(c) /\ n >= HeaderBits

(* Bit i of what follows the address a read names.                         *)
MemBit(i) == Level(mem[FrameAddr + ((i - 1) \div ByteBits)],
                   ByteBits - 1 - ((i - 1) % ByteBits))

(* A read streams the array: bit after bit, and byte after byte, what the  *)
(* master samples when it raises SCLK is the array from the address on,    *)
(* the first bit right after the address ("first data byte is valid on the *)
(* very first SCLK after address phase", hdl/README.md).                   *)
ReadStreams ==
  [][SclkRise /\ SentWithAddr(READ) => miso = MemBit(n' - HeaderBits)]_vars

(* The test bench clocks one more bit after the address ("one extra SCLK   *)
(* cycle to align first MISO bit", tb_spi_flash.vhd:67) and takes the bits *)
(* after it for the byte.                                                  *)
TestbenchReads ==
  [][SclkRise /\ SentWithAddr(READ) /\ n > HeaderBits
       => miso = MemBit(n - HeaderBits)]_vars

(* A master that samples the ready bit of the status as 0 finds the device *)
(* idle, although the bit was put out earlier.                             *)
ReadyMeansIdle ==
  [][SclkRise /\ Sent(RDSR) /\ (n' % ByteBits = 0) /\ miso = "0" => ~ wip /\ ~ StartPending]_vars

(* The address of an erase when CS rises: what came of it, 0 at first.     *)
EraseAddr == AddrPrefix(frame)[Min({(n \div ByteBits) - 1, AddrBytes})]

(* What the C simulation makes of the command in one step.                 *)
AsSimulated ==
  LET device == [mem |-> memAt, wip |-> wip, wel |-> welAt, busy |-> busyCnt]
  IN CASE SentWithAddr(PP) ->
            PageProgram(device, FrameAddr, SubSeq(frame, 2 + AddrBytes, n \div ByteBits))
       [] Sent(SE)   -> EraseSector(device, EraseAddr)
       [] Sent(WREN) -> WriteEnable(device)
       [] OTHER      -> device

(* Neither description has a rule for an address outside the array.        *)
Judged == /\ SentWithAddr(PP) => FrameAddr \in Addr
          /\ Sent(SE) => EraseAddr \in Addr

SameArray == mem' = AsSimulated.mem /\ (wip' \/ StartPending') = AsSimulated.wip

(* What a transaction has done to the device when CS rises, bits and edges *)
(* and all, is what the C simulation does for the same command in one      *)
(* step: programs that end in the middle of a byte or have no byte, that   *)
(* reach past their page, or that meet a busy or locked device; erases,    *)
(* with part of an address or all of it; write enables; transactions cut   *)
(* short.  With one difference: a WREN that meets a busy device leaves its *)
(* latch clear (spi_flash.vhd:223), and sets it in the simulation          *)
(* (flash_sim.c:45).                                                       *)
LikeFlashSim ==
  [][CsRise /\ Judged
       => SameArray /\ wel' = (AsSimulated.wel /\ ~ (Sent(WREN) /\ wipAt))]_vars

(* The same without the exception: the simulation "mirrors the HDL model's *)
(* behavior" (sw/README.md:4) and has a "SPI flash model: byte array +     *)
(* WEL/WIP, same rules as HDL" (sw/flash_ll/README.md:43).                 *)
SameAsFlashSim == [][CsRise /\ Judged => SameArray /\ wel' = AsSimulated.wel]_vars

(* The simulation is ended by an index out of range only for a master that *)
(* reads up to the end of the array or beyond, or programs beyond it.      *)
AbortsOnlyPastEnd ==
  st = "ABORT" =>
    \/ Sent(READ) /\ FrameAddr + ((n - HeaderBits) \div ByteBits) >= FlashSize
    \/ Sent(PP) /\ FrameAddr >= FlashSize

(* A busy period ends.                                                     *)
BusyEnds == (wip \/ StartPending) ~> (~ wip /\ ~ StartPending) \/ ~ Running

(* The device is a chip as NorChip describes it, which is busy from the    *)
(* moment CS rises.                                                        *)
Chip == INSTANCE NorChip WITH busy <- wip \/ StartPending
ImplementsChip == Chip!Spec
=============================================================================
