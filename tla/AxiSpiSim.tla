------------------------------ MODULE AxiSpiSim ------------------------------
(***************************************************************************)
(* The simulated AXI-Lite SPI engine of sw/flash_ll/sim/src/axi_spi_sim.c: *)
(* two byte FIFOs in front of the flash device.  The engine and its device *)
(* are a record [dev, tx, rx].  The driver writes CMD, ADDR and LEN before *)
(* every START, so those registers are the arguments of the commands here, *)
(* and the STATUS bits are functions of the FIFOs.                         *)
(***************************************************************************)
EXTENDS FlashSim

CONSTANTS
  FifoCap,      (* capacity of each FIFO                                   *)
  PpBuf,        (* do_start moves at most so many bytes of TX to the flash *)
  AddrSpace     (* 2^24 in the code: addresses are sent in three bytes     *)

(* A status byte is a byte.                                                *)
ASSUME EngineAssumption ==
  /\ FifoCap \in Nat \ {0} /\ PpBuf \in Nat \ {0} /\ AddrSpace \in Nat \ {0}
  /\ 0 .. 3 \subseteq Cell

NewEngine == [dev |-> NewDevice, tx |-> <<>>, rx |-> <<>>]

OnBus(a) == a % AddrSpace

(* Bytes pushed into a full FIFO are dropped.                              *)
PushUnchecked(fifo, cells) == fifo \o cells                     (* mutant *)
PushAll(fifo, cells) ==
  fifo \o SubSeq(cells, 1, Min({Len(cells), FifoCap - Len(fifo)}))

RxAvail(s) == s.rx # <<>>
TxSpace(s) == Len(s.tx) < FifoCap

WriteDin(s, cell) == [s EXCEPT !.tx = PushAll(@, <<cell>>)]

(* Reading DOUT pops a byte, 0 if there is none.                           *)
Dout(s) == IF RxAvail(s) THEN Head(s.rx) ELSE 0
ReadDout(s) == [s EXCEPT !.rx = IF RxAvail(s) THEN Tail(@) ELSE @]

StartRead(s, a, n) == [s EXCEPT !.rx = PushAll(@, ReadCells(s.dev, OnBus(a), n))]

StartRdsr(s) == [s EXCEPT !.rx = PushAll(@, <<StatusByte(s.dev)>>)]

StartWren(s) == [s EXCEPT !.dev = WriteEnable(@)]

(* The bytes leave TX whether or not the device takes them, and START does *)
(* not report which it was.                                                *)
StartProgramAll(s, a, n) ==                                     (* mutant *)
  LET k == Min({PpBuf, Len(s.tx)})
  IN [s EXCEPT !.tx = SubSeq(@, k + 1, Len(@)),
               !.dev = PageProgram(@, OnBus(a), SubSeq(s.tx, 1, k))]
StartProgram(s, a, n) ==
  LET k == Min({PpBuf, n, Len(s.tx)})
  IN [s EXCEPT !.tx = SubSeq(@, k + 1, Len(@)),
               !.dev = PageProgram(@, OnBus(a), SubSeq(s.tx, 1, k))]

StartErase(s, a) == [s EXCEPT !.dev = EraseSector(@, OnBus(a))]

EngineTick(s) == [s EXCEPT !.dev = DeviceTick(@)]
=============================================================================
