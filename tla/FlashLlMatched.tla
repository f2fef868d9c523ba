---------------------------- MODULE FlashLlMatched ----------------------------
(***************************************************************************)
(* Theorems about FlashLl for a driver that is configured for its device:  *)
(* nothing it starts is ignored, OK means done, and it is a flash backend. *)
(***************************************************************************)
EXTENDS FlashLlProofs

(* What the driver is told and what it does not check: its array is inside *)
(* the one of the device and on the bus, its page is the device's and fits *)
(* the FIFO and the buffer of do_start, and it waits at least as long as   *)
(* the device is busy, which is for one tick or more.                      *)
Matched ==
  /\ MemSize <= FlashSize /\ MemSize <= AddrSpace
  /\ DrvPage = PageSize /\ PageSize <= FifoCap /\ PageSize <= PpBuf
  /\ ProgTicks \in 1 .. ProgBudget /\ EraseTicks \in 1 .. EraseBudget

(* The device is busy only while its status is polled, with polls enough.  *)
(* A program finds the latch set, and uses it up.                          *)
DeviceOK ==
  /\ hw.dev.wip => pc = "poll" /\ hw.dev.busy > 0 /\ hw.dev.busy <= budget
  /\ pc = "fill" => hw.dev.wel
  /\ pc = "erase" => EraseTicks <= budget
  /\ pc = "poll" /\ call.op # "wait" => ~ hw.dev.wel

(* TX holds the first bytes of the chunk, and there are turns for the rest.*)
TxOK ==
  IF pc = "fill" THEN /\ hw.tx = SubSeq(call.data, off + 1, off + moved)
                      /\ Chunk - moved <= budget
                 ELSE hw.tx = <<>>

(* The bytes of a program whose chunks have been started.                  *)
Behind == IF pc = "poll" THEN off + Chunk ELSE off

Cleared(i) ==
  LET cell == hw.dev.mem[call.addr + i - 1] IN BitAnd(cell, call.data[i]) = cell

DataOK == call.op = "program" => \A i \in 1 .. Behind : Cleared(i)

(* What a read has handed out, and what waits for it in RX, are the cells  *)
(* of the array in their order.  Other calls hand out nothing on the way.  *)
OutOK ==
  IF pc = "drain"
    THEN /\ Len(out) = moved
         /\ \A i \in 1 .. moved : out[i] = hw.dev.mem[call.addr + i - 1]
         /\ \A i \in 1 .. Len(hw.rx) : hw.rx[i] = hw.dev.mem[call.addr + moved + i - 1]
    ELSE pc # "idle" => out = <<>>

MatchInv == DeviceOK /\ TxOK /\ DataOK /\ OutOK

-----------------------------------------------------------------------------
(* What the commands do to an engine whose RX is empty, or whose TX holds  *)
(* what the command asks for.                                              *)

LEMMA BytePushed ==
  ASSUME NEW s \in Engine, NEW cell \in Cell, TxSpace(s)
  PROVE  WriteDin(s, cell).tx = Append(s.tx, cell)
<1> DEFINE room == FifoCap - Len(s.tx)
<1>1. s.tx \in Seq(Cell) /\ room \in Int /\ 1 \in Int /\ 1 <= room
  BY EngineAssumption DEF Engine, Fifo, TxSpace
<1>2. <<cell>> \in Seq(Cell) /\ Len(<<cell>>) = 1
  OBVIOUS
<1> HIDE DEF room
<1>3. Min({1, room}) = 1
  BY <1>1, MinFirst, Zenon
<1>4. SubSeq(<<cell>>, 1, 1) = <<cell>>
  BY <1>2, SubSeqFull
<1>5. PushAll(s.tx, <<cell>>) = s.tx \o <<cell>>
  BY <1>2, <1>3, <1>4 DEF PushAll, room
<1>6. s.tx \o <<cell>> = Append(s.tx, cell)
  BY <1>1
<1> QED  BY <1>5, <1>6 DEF WriteDin, Engine

(* A program with exactly its bytes in TX, all in one page.                *)
LEMMA WholeProgram ==
  ASSUME NEW s \in Engine, NEW a \in Nat, NEW n \in Nat \ {0}, Len(s.tx) = n, n <= PpBuf,
         a < AddrSpace, Accepts(s.dev, a), n <= PageSize - (a % PageSize)
  PROVE  StartProgram(s, a, n) =
           [s EXCEPT !.tx = <<>>,
                     !.dev = StartBusy(s.dev, Programmed(s.dev.mem, a, s.tx, n), ProgTicks)]
<1>1. s.tx \in Seq(Cell) /\ s.tx # <<>> /\ OnBus(a) = a
  BY BusAddress DEF Engine, Fifo
<1>2. Min({PpBuf, n, Len(s.tx)}) = n
  <2>1. PpBuf \in Int /\ n \in Int
    BY EngineAssumption
  <2>2. Min({PpBuf, n, n}) \in {PpBuf, n, n} /\ Min({PpBuf, n, n}) <= n
    BY <2>1, MinOfThree
  <2> QED  BY <2>1, <2>2
<1>3. Min({n, PageSize - (a % PageSize)}) = n
  <2> DEFINE rest == PageSize - (a % PageSize)
  <2>1. n \in Int /\ rest \in Int /\ n <= rest
    BY GeometryAssumption
  <2> HIDE DEF rest
  <2>2. Min({n, rest}) = n
    BY <2>1, MinFirst, Zenon
  <2> QED  BY <2>2 DEF rest
<1>4. SubSeq(s.tx, 1, n) = s.tx /\ SubSeq(s.tx, n + 1, Len(s.tx)) = <<>>
  <2>1. SubSeq(s.tx, 1, n) = s.tx
    BY <1>1, SubSeqFull
  <2>2. SubSeq(s.tx, n + 1, n) = <<>>
    BY <1>1
  <2> QED  BY <2>1, <2>2
<1>5. PageProgram(s.dev, a, s.tx) =
        StartBusy(s.dev, Programmed(s.dev.mem, a, s.tx, n), ProgTicks)
  BY <1>1, <1>3 DEF PageProgram
<1> QED  BY <1>1, <1>2, <1>4, <1>5 DEF StartProgram, Engine

LEMMA WholeErase ==
  ASSUME NEW s \in Engine, NEW a \in Nat, a < AddrSpace, a < FlashSize, ~ s.dev.wip,
         NEW t, t = StartErase(StartWren(s), a)
  PROVE  /\ t.tx = s.tx /\ t.dev.mem = Erased(s.dev.mem, a, SectorSize)
         /\ t.dev.wip /\ ~ t.dev.wel /\ t.dev.busy = EraseTicks
<1> DEFINE d == WriteEnable(s.dev)
<1>1. /\ d.mem = s.dev.mem /\ ~ d.wip /\ d.wel /\ DOMAIN d = {"mem", "wip", "wel", "busy"}
  <2>1. s.dev \in Device
    BY DEF Engine
  <2> QED  BY <2>1 DEF WriteEnable, Device
<1>2. OnBus(a) = a
  BY BusAddress
<1>3. StartWren(s).dev = d /\ StartWren(s).tx = s.tx
  BY DEF StartWren, Engine
<1>4. EraseSector(d, a) = StartBusy(d, Erased(s.dev.mem, a, SectorSize), EraseTicks)
  BY <1>1 DEF EraseSector, Accepts
<1> HIDE DEF d
<1>5. t.tx = s.tx /\ t.dev = EraseSector(d, a)
  BY <1>2, <1>3 DEF StartErase, StartWren, Engine
<1> QED  BY <1>1, <1>4, <1>5 DEF StartBusy

(* The cells of a read come in the order of the array, the last ones are   *)
(* lost when the FIFO is full.                                             *)
LEMMA ReadInOrder ==
  ASSUME NEW s \in Engine, s.rx = <<>>, NEW a \in Nat, NEW n \in Nat,
         a < AddrSpace, a + n <= FlashSize
  PROVE  \A i \in 1 .. Len(StartRead(s, a, n).rx) :
           StartRead(s, a, n).rx[i] = s.dev.mem[a + i - 1]
<1> DEFINE c == ReadCells(s.dev, OnBus(a), n)
           room == FifoCap - Len(<<>>)
           k == Min({Len(c), room})
<1>1. c \in Seq(Cell) /\ Len(c) \in Nat
  BY BusAddress, ReadCellsEffect DEF Engine
<1>2. \A i \in 1 .. Len(c) : c[i] = s.dev.mem[a + i - 1]
  <2> DEFINE m == Min({n, Max({FlashSize - a, 0})})
  <2>1. OnBus(a) = a
    BY BusAddress
  <2>2. c = [i \in 1 .. m |-> s.dev.mem[a + i - 1]]
    BY <2>1 DEF ReadCells
  <2>3. 1 .. Len(c) = DOMAIN c
    BY <1>1
  <2> HIDE DEF m
  <2> QED  BY <2>2, <2>3
<1> HIDE DEF c
<1>3. k \in Nat /\ k <= Len(c)
  <2> DEFINE len == Len(c)
  <2>1. room \in Nat /\ len \in Nat /\ room \in Int /\ len \in Int
    BY <1>1, EngineAssumption
  <2> HIDE DEF room, len
  <2>2. Min({len, room}) \in {len, room} /\ Min({len, room}) <= len
    BY <2>1, MinOfTwo, Zenon
  <2>3. Min({len, room}) \in Nat
    BY <2>1, <2>2
  <2> QED  BY <2>2, <2>3 DEF len
<1> HIDE DEF k
<1>4. /\ SubSeq(c, 1, k) \in Seq(Cell) /\ Len(SubSeq(c, 1, k)) = k
      /\ \A i \in 1 .. k : SubSeq(c, 1, k)[i] = c[i]
  <2>1. \A i \in 1 .. k : c[i] \in Cell
    BY <1>1, <1>3
  <2> QED  BY <1>3, <2>1, SubSeqProperties
<1>5. StartRead(s, a, n).rx = SubSeq(c, 1, k)
  <2>1. PushAll(<<>>, c) = <<>> \o SubSeq(c, 1, k)
    BY DEF PushAll, k, room
  <2>2. <<>> \o SubSeq(c, 1, k) = SubSeq(c, 1, k)
    BY <1>4, ConcatEmptySeq
  <2> QED  BY <2>1, <2>2 DEF StartRead, Engine, c
<1> QED  BY <1>2, <1>3, <1>4, <1>5

-----------------------------------------------------------------------------
(* The chunk that is being filled or programmed lies in the device's array *)
(* and in one of its pages.                                                *)
LEMMA ChunkInPage ==
  ASSUME Matched, LlInv, pc \in {"wren", "fill"} \/ (pc = "poll" /\ call.op = "program")
  PROVE  /\ At + Chunk <= MemSize /\ At < AddrSpace /\ At < FlashSize
         /\ Chunk <= PageSize - (At % PageSize) /\ Chunk <= FifoCap /\ Chunk <= PpBuf
         /\ OnBus(At) = At
<1>1. /\ call \in Calls /\ call.op = "program" /\ ~ Refused(call)
      /\ off \in Nat /\ off < Len(call.data)
      /\ Chunk \in Nat /\ Chunk > 0 /\ off + Chunk <= Len(call.data) /\ At \in Nat
  BY Programming
<1>2. call.addr \in Nat /\ Len(call.data) \in Nat /\ call.addr + Len(call.data) <= MemSize
  BY <1>1, CallTypes, NotRefused
<1>3. /\ MemSize \in Nat /\ AddrSpace \in Nat /\ FlashSize \in Nat /\ PageSize \in Nat
      /\ PageSize > 0 /\ FifoCap \in Nat /\ PpBuf \in Nat
      /\ MemSize <= FlashSize /\ MemSize <= AddrSpace /\ DrvPage = PageSize
      /\ PageSize <= FifoCap /\ PageSize <= PpBuf
  BY DriverAssumption, EngineAssumption, GeometryAssumption DEF Matched
<1>4. At = call.addr + off
  BY DEF At
<1>5. At + Chunk <= MemSize /\ At < AddrSpace /\ At < FlashSize
  BY <1>1, <1>2, <1>3, <1>4, SMTT(20)
<1>6. Chunk <= PageSize - (At % PageSize)
  <2> DEFINE rest == Len(call.data) - off
             page == DrvPage - (At % DrvPage)
  <2>1. rest \in Int /\ page \in Int
    BY <1>1, <1>2, <1>3
  <2>2. Chunk = Min({rest, page})
    BY DEF Chunk
  <2>3. page = PageSize - (At % PageSize)
    BY <1>3
  <2> HIDE DEF rest, page
  <2>4. Min({rest, page}) <= page
    BY <2>1, MinOfTwo, Zenon
  <2> QED  BY <2>2, <2>3, <2>4
<1>7. At % PageSize >= 0
  BY <1>1, <1>3
<1>8. At % PageSize \in Int
  BY <1>1, <1>3
<1>9. Chunk <= PageSize
  BY <1>1, <1>3, <1>6, <1>7, <1>8
<1>10. OnBus(At) = At
  BY <1>1, <1>5, BusAddress
<1>11. Chunk <= FifoCap /\ Chunk <= PpBuf
  BY <1>1, <1>3, <1>9
<1> QED  BY <1>5, <1>6, <1>10, <1>11

-----------------------------------------------------------------------------
(* The invariant.                                                          *)

LEMMA MatchInvInit == Init => MatchInv
BY DEF Init, MatchInv, NewEngine, NewDevice, NoCall, DeviceOK, TxOK, DataOK, OutOK

(* Between two calls nothing but the device and TX is left to speak of.    *)
LEMMA Idle ==
  ASSUME pc' = "idle", call'.op = "none", ~ hw'.dev.wip, hw'.tx = <<>>
  PROVE  MatchInv'
BY DEF MatchInv, DeviceOK, TxOK, DataOK, OutOK

LEMMA MatchClient ==
  ASSUME Matched, LlInv, MatchInv, Client
  PROVE  MatchInv'
<1>1. PICK c \in Calls :
        \/ Refuse(c) \/ Program(c) \/ SectorErase(c) \/ Read(c) \/ WaitBusy(c)
        \/ Rdsr(c) \/ Wren(c)
  BY DEF Client
<1>2. pc = "idle"
  BY <1>1 DEF Refuse, Program, SectorErase, Read, WaitBusy, Rdsr, Wren, Enter
<1>3. /\ hw \in Engine /\ hw.rx = <<>> /\ hw.tx = <<>> /\ ~ hw.dev.wip
      /\ c.addr \in Nat /\ c.n \in Nat
  BY <1>2, CallTypes DEF LlInv, HwOK, RxOK, MatchInv, TxOK, DeviceOK
<1>4. CASE Refuse(c)
  BY <1>3, <1>4, Idle DEF Refuse, Return, NoCall
<1>5. CASE Program(c) \/ SectorErase(c) \/ WaitBusy(c)
  <2>1. hw' = hw /\ pc' \in {"wren", "erase", "poll"} /\ off' = 0 /\ out' = <<>>
    BY <1>5 DEF Program, SectorErase, WaitBusy, Enter
  <2>2. /\ pc' = "poll" => call'.op = "wait"
        /\ pc' = "erase" => budget' = EraseBudget
    BY <1>5 DEF Program, SectorErase, WaitBusy, Enter
  <2>3. EraseTicks <= EraseBudget
    BY DriverAssumption DEF Matched
  <2> QED  BY <1>3, <2>1, <2>2, <2>3 DEF MatchInv, DeviceOK, TxOK, DataOK, OutOK, Behind
<1>6. CASE Read(c)
  <2>1. /\ hw' = StartRead(hw, c.addr, c.n) /\ pc' = "drain" /\ moved' = 0 /\ out' = <<>>
        /\ call' = c /\ c.op = "read" /\ ~ Refused(c)
    BY <1>6 DEF Read, Enter
  <2>2. c.addr < AddrSpace /\ c.addr + c.n <= FlashSize
    <3>1. MemSize \in Nat /\ AddrSpace \in Nat /\ FlashSize \in Nat
          /\ MemSize <= AddrSpace /\ MemSize <= FlashSize
      BY DriverAssumption, EngineAssumption, GeometryAssumption DEF Matched
    <3>2. ~ OutOfBounds(c)
      BY <2>1 DEF Refused
    <3> QED  BY <1>3, <3>1, <3>2 DEF OutOfBounds
  <2>3. hw'.dev = hw.dev /\ hw'.tx = hw.tx
    BY <1>3, <2>1 DEF StartRead, Engine
  <2>4. \A i \in 1 .. Len(hw'.rx) : hw'.rx[i] = hw.dev.mem[c.addr + i - 1]
    BY <1>3, <2>1, <2>2, ReadInOrder
  <2>5. OutOK'
    BY <1>3, <2>1, <2>3, <2>4 DEF OutOK
  <2> QED  BY <1>3, <2>1, <2>3, <2>5 DEF MatchInv, DeviceOK, TxOK, DataOK
<1>7. CASE Rdsr(c)
  <2>1. hw' = hw
    BY <1>3, <1>7, PollIsPure DEF Rdsr
  <2> QED  BY <1>3, <1>7, <2>1, Idle DEF Rdsr, Return, NoCall
<1>8. CASE Wren(c)
  <2>1. hw'.tx = hw.tx /\ hw'.dev.wip = hw.dev.wip
    BY <1>3, <1>8 DEF Wren, StartWren, WriteEnable, Engine, Device
  <2> QED  BY <1>3, <1>8, <2>1, Idle DEF Wren, Return, NoCall
<1> QED  BY <1>1, <1>4, <1>5, <1>6, <1>7, <1>8

(* The chunk grows by the next byte of the data.                           *)
LEMMA NextByte ==
  ASSUME call \in Calls, off \in Nat, moved \in Nat, off + moved < Len(call.data)
  PROVE  /\ call.data[off + moved + 1] \in Cell
         /\ Append(SubSeq(call.data, off + 1, off + moved), call.data[off + moved + 1])
              = SubSeq(call.data, off + 1, off + (moved + 1))
<1> DEFINE d == call.data
           n == off + moved + 1
<1>1. d \in Seq(Cell) /\ n \in off + 1 .. Len(d) /\ off + 1 \in 1 .. Len(d) /\ n \in 1 .. Len(d)
  BY CallTypes
<1>2. n - 1 = off + moved /\ n = off + (moved + 1)
  OBVIOUS
<1> HIDE DEF d, n
<1>3. d[n] \in Cell
  BY <1>1, ElementOfSeq
<1>4. SubSeq(d, off + 1, n) = SubSeq(d, off + 1, n - 1) \o <<d[n]>>
  BY <1>1, SubSeqRecursiveSecond
<1>5. SubSeq(d, off + 1, n - 1) \in Seq(Cell)
  <2>1. \A i \in off + 1 .. n - 1 : d[i] \in Cell
    BY <1>1
  <2>2. off + 1 \in Int /\ n - 1 \in Int
    BY <1>1
  <2> QED  BY <2>1, <2>2, SubSeqProperties
<1>6. Append(SubSeq(d, off + 1, n - 1), d[n]) = SubSeq(d, off + 1, n)
  BY <1>3, <1>4, <1>5, AppendIsConcat
<1>7. Append(SubSeq(d, off + 1, off + moved), d[n]) = SubSeq(d, off + 1, off + (moved + 1))
  BY <1>2, <1>6
<1> QED  BY <1>3, <1>7 DEF d, n

LEMMA MatchEnable ==
  ASSUME Matched, LlInv, MatchInv, ProgramEnable
  PROVE  MatchInv'
<1>1. /\ pc = "wren" /\ pc' = "fill" /\ hw' = StartWren(hw) /\ moved' = 0
      /\ budget' = FifoTurns(Chunk) /\ UNCHANGED <<call, off, out, ret>>
  BY DEF ProgramEnable
<1>2. hw \in Engine /\ Chunk \in Nat /\ off \in Nat /\ call \in Calls
  BY <1>1, Programming
<1>3. hw'.dev.wel /\ hw'.dev.wip = hw.dev.wip /\ hw'.dev.mem = hw.dev.mem /\ hw'.tx = hw.tx
  BY <1>1, <1>2 DEF StartWren, WriteEnable, Engine, Device
<1>4. DeviceOK'
  BY <1>1, <1>3 DEF MatchInv, DeviceOK
<1>5. TxOK'
  <2>1. hw'.tx = <<>> /\ Chunk' = Chunk
    BY <1>1, <1>3 DEF MatchInv, TxOK, Chunk, At
  <2>2. SubSeq(call.data, off + 1, off + 0) = <<>>
    BY <1>2, SubSeqEmpty
  <2>3. FifoTurns(Chunk) >= Chunk /\ FifoTurns(Chunk) \in Nat
    BY <1>2, TurnsEnough
  <2>4. hw'.tx = SubSeq(call'.data, off' + 1, off' + moved')
    BY <1>1, <2>1, <2>2
  <2>5. Chunk' - moved' <= budget'
    BY <1>1, <1>2, <2>1, <2>3
  <2> QED  BY <1>1, <2>4, <2>5 DEF TxOK
<1>6. DataOK' /\ OutOK'
  BY <1>1, <1>3 DEF MatchInv, DataOK, OutOK, Behind, Cleared
<1> QED  BY <1>4, <1>5, <1>6 DEF MatchInv

(* While TX is being filled it has room.                                   *)
LEMMA Filling ==
  ASSUME Matched, LlInv, MatchInv, pc = "fill"
  PROVE  /\ Len(hw.tx) = moved /\ (moved < Chunk => TxSpace(hw) /\ budget > 0)
         /\ ~ hw.dev.wip /\ hw.dev.wel
<1>1. /\ call \in Calls /\ off \in Nat /\ Chunk \in Nat /\ off + Chunk <= Len(call.data)
      /\ moved \in Nat /\ moved <= Chunk /\ budget \in Nat
  BY Programming DEF LlInv, CountersOK
<1>2. hw.tx = SubSeq(call.data, off + 1, off + moved) /\ Chunk - moved <= budget
  BY DEF MatchInv, TxOK
<1>3. Len(hw.tx) = moved
  <2>1. \A i \in off + 1 .. off + moved : call.data[i] \in Cell
    BY <1>1, CallTypes
  <2>2. Len(hw.tx) = IF off + 1 <= off + moved THEN off + moved - (off + 1) + 1 ELSE 0
    BY <1>1, <1>2, <2>1, SubSeqProperties
  <2> QED  BY <1>1, <2>2
<1>4. Chunk <= FifoCap /\ FifoCap \in Nat
  BY ChunkInPage, EngineAssumption
<1>5. moved < Chunk => TxSpace(hw) /\ budget > 0
  BY <1>1, <1>2, <1>3, <1>4 DEF TxSpace
<1> QED  BY <1>3, <1>5 DEF MatchInv, DeviceOK

LEMMA MatchFill ==
  ASSUME Matched, LlInv, MatchInv, FillByte \/ FillTick \/ FillFails
  PROVE  MatchInv'
<1>1. pc = "fill" /\ moved < Chunk
  BY DEF FillByte, FillTick, FillLoop, FillFails
<1>2. TxSpace(hw) /\ budget > 0
  BY <1>1, Filling
<1>3. FillByte
  BY <1>2 DEF FillTick, FillFails
<1>4. /\ pc' = "fill" /\ hw' = WriteDin(hw, call.data[off + moved + 1]) /\ moved' = moved + 1
      /\ budget' = budget - 1 /\ UNCHANGED <<call, off, out, ret>>
  BY <1>1, <1>3 DEF FillByte, FillLoop
<1>5. /\ hw \in Engine /\ Chunk \in Nat /\ off \in Nat /\ call \in Calls
      /\ off + Chunk <= Len(call.data) /\ moved \in Nat /\ budget \in Nat
  BY <1>1, Programming DEF LlInv, CountersOK
<1>6. off + moved < Len(call.data)
  BY <1>1, <1>5, CallTypes
<1>7. /\ hw'.tx = SubSeq(call.data, off + 1, off + (moved + 1))
      /\ hw'.dev = hw.dev
  <2>1. call.data[off + moved + 1] \in Cell
    BY <1>5, <1>6, NextByte
  <2>2. hw'.tx = Append(hw.tx, call.data[off + moved + 1]) /\ hw'.dev = hw.dev
    BY <1>2, <1>4, <1>5, <2>1, BytePushed, WriteDinEffect
  <2>3. hw.tx = SubSeq(call.data, off + 1, off + moved)
    BY <1>1 DEF MatchInv, TxOK
  <2> QED  BY <1>5, <1>6, <2>2, <2>3, NextByte
<1>8. TxOK'
  <2>1. Chunk' = Chunk
    BY <1>4 DEF Chunk, At
  <2>2. Chunk - moved <= budget
    BY <1>1 DEF MatchInv, TxOK
  <2>3. Chunk' - moved' <= budget'
    BY <1>4, <1>5, <2>1, <2>2
  <2>4. hw'.tx = SubSeq(call'.data, off' + 1, off' + moved')
    BY <1>4, <1>7
  <2> QED  BY <2>3, <2>4, <1>4 DEF TxOK
<1>9. DeviceOK' /\ DataOK' /\ OutOK'
  BY <1>1, <1>4, <1>7 DEF MatchInv, DeviceOK, DataOK, OutOK, Behind, Cleared
<1> QED  BY <1>8, <1>9 DEF MatchInv

(* The chunk, and all of it, is what the device programs.                  *)
LEMMA ChunkSent ==
  ASSUME Matched, LlInv, MatchInv, ProgramChunk
  PROVE  /\ hw'.tx = <<>> /\ hw'.dev.wip /\ ~ hw'.dev.wel /\ hw'.dev.busy = ProgTicks
         /\ hw'.dev.mem =
              Programmed(hw.dev.mem, At, SubSeq(call.data, off + 1, off + Chunk), Chunk)
<1>1. pc = "fill" /\ moved = Chunk /\ hw' = StartProgram(hw, At, Chunk)
  BY DEF ProgramChunk
<1>2. /\ hw \in Engine /\ At \in Nat /\ Chunk \in Nat \ {0} /\ Len(hw.tx) = Chunk
      /\ hw.tx = SubSeq(call.data, off + 1, off + Chunk) /\ ~ hw.dev.wip /\ hw.dev.wel
  BY <1>1, Programming, Filling DEF MatchInv, TxOK
<1>3. /\ Chunk <= PpBuf /\ At < AddrSpace /\ Accepts(hw.dev, At)
      /\ Chunk <= PageSize - (At % PageSize)
  BY <1>1, <1>2, ChunkInPage DEF Accepts
<1> DEFINE m == Programmed(hw.dev.mem, At, hw.tx, Chunk)
<1>4. hw' = [hw EXCEPT !.tx = <<>>, !.dev = StartBusy(hw.dev, m, ProgTicks)]
  BY <1>1, <1>2, <1>3, WholeProgram, ZenonT(30)
<1>5. m = Programmed(hw.dev.mem, At, SubSeq(call.data, off + 1, off + Chunk), Chunk)
  BY <1>2
<1> HIDE DEF m
<1>6. hw'.tx = <<>> /\ hw'.dev = StartBusy(hw.dev, m, ProgTicks)
  BY <1>2, <1>4 DEF Engine
<1>7. hw.dev \in Device
  BY <1>2 DEF Engine
<1>8. /\ hw'.dev.mem = m /\ hw'.dev.wip = TRUE /\ hw'.dev.wel = FALSE
      /\ hw'.dev.busy = ProgTicks
  BY <1>6, <1>7 DEF StartBusy, Device
<1> QED  BY <1>5, <1>6, <1>8

LEMMA MatchChunk ==
  ASSUME Matched, LlInv, MatchInv, ProgramChunk
  PROVE  MatchInv'
<1>1. /\ pc = "fill" /\ pc' = "poll" /\ budget' = ProgBudget
      /\ UNCHANGED <<call, off, moved, out, ret>>
  BY DEF ProgramChunk
<1>2. /\ call \in Calls /\ call.op = "program" /\ off \in Nat /\ hw \in Engine
      /\ Chunk \in Nat /\ off + Chunk <= Len(call.data) /\ At \in Nat
      /\ call.addr \in Nat /\ call.data \in Seq(Cell) /\ At = call.addr + off
  BY <1>1, Programming, CallTypes DEF At
<1> DEFINE sub == SubSeq(call.data, off + 1, off + Chunk)
<1>3. /\ hw'.tx = <<>> /\ hw'.dev.wip /\ ~ hw'.dev.wel /\ hw'.dev.busy = ProgTicks
      /\ hw'.dev.mem = Programmed(hw.dev.mem, At, sub, Chunk)
  BY ChunkSent
<1>4. DeviceOK'
  <2>1. ProgTicks > 0 /\ ProgTicks <= ProgBudget
    BY DriverAssumption DEF Matched
  <2> QED  BY <1>1, <1>3, <2>1 DEF DeviceOK
<1>5. TxOK' /\ OutOK'
  BY <1>1, <1>3 DEF MatchInv, TxOK, OutOK
<1>6. Behind' = off + Chunk
  BY <1>1 DEF Behind, Chunk, At
<1>7. \A i \in off + 1 .. off + Chunk : call.data[i] \in Cell
  BY <1>2
<1>8. \A j \in 1 .. Chunk : sub[j] = call.data[off + j]
  <2>1. \A j \in 1 .. (off + Chunk) - (off + 1) + 1 : sub[j] = call.data[(off + 1) + j - 1]
    BY <1>2, <1>7, SubSeqProperties
  <2> QED  BY <1>2, <2>1
<1>9. At + Chunk <= FlashSize
  BY <1>1, <1>2, ChunkInPage, DriverAssumption, GeometryAssumption DEF Matched
<1> HIDE DEF sub
<1>10. ASSUME NEW i \in 1 .. off + Chunk PROVE Cleared(i)'
  <2> DEFINE x == call.addr + i - 1
  <2>1. x \in Int /\ 0 <= x /\ x < At + Chunk /\ x - At + 1 = i - off
    <3>1. call.addr \in Nat /\ off \in Nat /\ Chunk \in Nat /\ At = call.addr + off
      BY <1>2
    <3>2. i \in Int /\ 1 <= i /\ i <= off + Chunk
      BY <3>1
    <3> QED  BY <3>1, <3>2
  <2>2. x \in Addr
    BY <1>2, <1>9, <2>1, GeometryAssumption, SMTT(20) DEF Addr
  <2>3. CASE i <= off
    <3>1. x \notin At .. (At + Chunk - 1)
      BY <1>2, <2>3
    <3>2. hw'.dev.mem[x] = hw.dev.mem[x]
      BY <1>3, <2>2, <3>1 DEF Programmed
    <3>3. Cleared(i)
      BY <1>1, <1>2, <2>3 DEF MatchInv, DataOK, Behind
    <3> QED  BY <1>1, <3>2, <3>3 DEF Cleared
  <2>4. CASE i > off
    <3>1. x \in At .. (At + Chunk - 1) /\ i - off \in 1 .. Chunk /\ off + (i - off) = i
          /\ i \in off + 1 .. off + Chunk
      BY <1>2, <2>4
    <3>2. hw'.dev.mem[x] = BitAnd(hw.dev.mem[x], sub[i - off])
      BY <1>3, <2>2, <2>1, <3>1 DEF Programmed
    <3>3. sub[i - off] = call.data[i] /\ call.data[i] \in Cell
      BY <1>7, <1>8, <3>1
    <3>4. hw.dev.mem[x] \in Cell
      BY <1>2, <2>2 DEF Engine, Device
    <3>5. BitAnd(BitAnd(hw.dev.mem[x], call.data[i]), call.data[i])
            = BitAnd(hw.dev.mem[x], call.data[i])
      BY <3>3, <3>4, CellAssumption, Zenon
    <3>6. BitAnd(hw'.dev.mem[x], call.data[i]) = hw'.dev.mem[x]
      BY <3>2, <3>3, <3>5, Zenon
    <3> QED  BY <1>1, <3>6 DEF Cleared
  <2> QED  BY <1>2, <2>3, <2>4
<1>11. DataOK'
  BY <1>6, <1>10 DEF DataOK
<1> QED  BY <1>4, <1>5, <1>11 DEF MatchInv

(* The erase is carried out.                                               *)
LEMMA SectorErased ==
  ASSUME Matched, LlInv, MatchInv, EraseStart
  PROVE  /\ hw'.tx = <<>> /\ hw'.dev.wip /\ ~ hw'.dev.wel /\ hw'.dev.busy = EraseTicks
         /\ hw'.dev.mem = Erased(hw.dev.mem, call.addr, SectorSize)
<1>1. pc = "erase" /\ hw' = StartErase(StartWren(hw), call.addr)
  BY DEF EraseStart
<1>2. /\ call \in Calls /\ call.op = "erase" /\ ~ Refused(call) /\ hw \in Engine
      /\ hw.tx = <<>> /\ ~ hw.dev.wip
  BY <1>1 DEF LlInv, HwOK, CallOK, OpsAt, MatchInv, DeviceOK, TxOK
<1>3. call.addr \in Nat /\ call.addr < AddrSpace /\ call.addr < FlashSize
  <2>1. call.addr \in Nat /\ call.addr < MemSize
    BY <1>2, CallTypes, NotRefused
  <2> QED  BY <2>1, DriverAssumption, EngineAssumption, GeometryAssumption DEF Matched
<1> QED  BY <1>1, <1>2, <1>3, WholeErase

LEMMA MatchErase ==
  ASSUME Matched, LlInv, MatchInv, EraseStart
  PROVE  MatchInv'
<1>1. pc = "erase" /\ pc' = "poll" /\ UNCHANGED <<call, off, moved, budget, out, ret>>
  BY DEF EraseStart, locals, progress
<1>2. call.op = "erase"
  BY <1>1 DEF LlInv, CallOK, OpsAt
<1>3. hw'.tx = <<>> /\ hw'.dev.wip /\ ~ hw'.dev.wel /\ hw'.dev.busy = EraseTicks
  BY SectorErased
<1>4. DeviceOK'
  <2>1. EraseTicks > 0 /\ EraseTicks <= budget
    BY <1>1, DriverAssumption DEF Matched, MatchInv, DeviceOK
  <2> QED  BY <1>1, <1>3, <2>1 DEF DeviceOK
<1> QED  BY <1>1, <1>2, <1>3, <1>4 DEF MatchInv, TxOK, DataOK, OutOK

LEMMA MatchPoll ==
  ASSUME Matched, LlInv, MatchInv, PollReady \/ PollAgain \/ PollTimeout
  PROVE  MatchInv'
<1>1. pc = "poll"
  BY DEF PollReady, PollAgain, PollTimeout
<1>2. hw \in Engine /\ hw.rx = <<>> /\ hw.tx = <<>> /\ hw.dev \in Device /\ budget \in Nat
  BY <1>1 DEF LlInv, HwOK, RxOK, CountersOK, Engine, MatchInv, TxOK
<1>3. Polled = hw /\ (PolledBusy <=> hw.dev.wip)
  BY <1>2, PollIsPure DEF Polled, PolledBusy
<1>4. ASSUME Return("OK") \/ Return("ETIME"), hw' = hw, ~ hw.dev.wip
      PROVE  MatchInv'
  BY <1>2, <1>4, Idle DEF Return, NoCall
<1>5. CASE PollTimeout
  <2>1. hw.dev.wip /\ budget = 0
    BY <1>3, <1>5 DEF PollTimeout
  <2>2. hw.dev.busy > 0 /\ hw.dev.busy <= budget /\ hw.dev.busy \in Nat
    BY <1>2, <2>1, BusyRange DEF MatchInv, DeviceOK, Device
  <2> QED  BY <1>2, <2>1, <2>2
<1>6. CASE PollReady /\ Return("OK")
  BY <1>3, <1>4, <1>6 DEF PollReady
<1>7. CASE PollReady /\ call.op = "program" /\ off + Chunk < Len(call.data)
  <2>1. pc' = "wren" /\ off' = off + Chunk /\ hw' = hw /\ ~ hw.dev.wip
        /\ UNCHANGED <<call, moved, budget, ret, out>>
    BY <1>3, <1>7 DEF PollReady
  <2>2. Behind' = Behind
    BY <1>1, <2>1 DEF Behind
  <2>3. DataOK'
    BY <2>1, <2>2 DEF MatchInv, DataOK, Cleared
  <2> QED  BY <1>1, <1>2, <2>1, <2>3 DEF MatchInv, DeviceOK, TxOK, OutOK
<1>8. CASE PollAgain
  <2>1. /\ pc' = "poll" /\ hw' = EngineTick(hw) /\ budget' = budget - 1 /\ hw.dev.wip
        /\ UNCHANGED <<call, off, moved, out, ret>>
    BY <1>1, <1>3, <1>8 DEF PollAgain
  <2>2. hw'.tx = hw.tx /\ hw'.dev = DeviceTick(hw.dev) /\ hw'.dev.mem = hw.dev.mem
    BY <1>2, <2>1, DeviceStep DEF EngineTick, Engine
  <2>3. hw.dev.busy > 0 /\ hw.dev.busy <= budget /\ hw.dev.busy \in Nat
    BY <1>2, <2>1, BusyRange DEF MatchInv, DeviceOK, Device
  <2>4. /\ hw'.dev.wel = hw.dev.wel
        /\ hw'.dev.wip => hw'.dev.busy > 0 /\ hw'.dev.busy <= budget'
    <3>1. CASE hw.dev.busy > 1
      <4>1. hw'.dev = [hw.dev EXCEPT !.busy = @ - 1]
        BY <2>2, <3>1 DEF DeviceTick
      <4>2. hw'.dev.wel = hw.dev.wel /\ hw'.dev.busy = hw.dev.busy - 1
        BY <1>2, <4>1 DEF Device
      <4> QED  BY <1>2, <2>1, <2>3, <3>1, <4>2
    <3>2. CASE hw.dev.busy = 1
      <4>1. hw'.dev = [hw.dev EXCEPT !.busy = 0, !.wip = FALSE]
        BY <2>2, <3>2 DEF DeviceTick
      <4> QED  BY <1>2, <4>1 DEF Device
    <3> QED  BY <2>3, <3>1, <3>2
  <2>5. Behind' = Behind
    BY <1>1, <2>1 DEF Behind, Chunk, At
  <2>6. DeviceOK'
    BY <1>1, <2>1, <2>4 DEF MatchInv, DeviceOK
  <2>7. TxOK' /\ DataOK' /\ OutOK'
    BY <1>1, <1>2, <2>1, <2>2, <2>5 DEF MatchInv, TxOK, DataOK, OutOK, Cleared
  <2> QED  BY <2>6, <2>7 DEF MatchInv
<1> QED  BY <1>5, <1>6, <1>7, <1>8 DEF PollReady

LEMMA MatchDrain ==
  ASSUME Matched, LlInv, MatchInv, DrainByte \/ DrainTick \/ DrainEnd
  PROVE  MatchInv'
<1>1. pc = "drain"
  BY DEF DrainByte, DrainTick, DrainLoop, DrainEnd
<1>2. /\ call.op = "read" /\ hw \in Engine /\ hw.tx = <<>> /\ ~ hw.dev.wip
      /\ out \in Seq(Cell) /\ moved \in Nat
  BY <1>1 DEF LlInv, HwOK, CallOK, CountersOK, OpsAt, MatchInv, DeviceOK, TxOK
<1>3. /\ Len(out) = moved
      /\ \A i \in 1 .. moved : out[i] = hw.dev.mem[call.addr + i - 1]
      /\ \A i \in 1 .. Len(hw.rx) : hw.rx[i] = hw.dev.mem[call.addr + moved + i - 1]
  BY <1>1 DEF MatchInv, OutOK
<1>4. CASE DrainEnd
  BY <1>2, <1>4, Idle DEF DrainEnd, Return, NoCall
<1>5. CASE DrainByte
  <2>1. /\ pc' = "drain" /\ UNCHANGED <<call, off, ret>> /\ RxAvail(hw) /\ hw' = ReadDout(hw)
        /\ out' = Append(out, Dout(hw)) /\ moved' = moved + 1
    BY <1>1, <1>5 DEF DrainByte, DrainLoop
  <2>2. hw.rx \in Seq(Cell) /\ hw.rx # <<>> /\ Len(hw.rx) \in Nat /\ Len(hw.rx) >= 1
    BY <1>2, <2>1, EmptySeq DEF Engine, Fifo, RxAvail
  <2>3. hw'.tx = hw.tx /\ hw'.dev = hw.dev /\ hw'.rx = Tail(hw.rx) /\ Dout(hw) = Head(hw.rx)
    BY <1>2, <2>1 DEF ReadDout, Dout, Engine
  <2>4. Dout(hw) = hw.dev.mem[call.addr + moved]
    <3>1. hw.rx[1] = hw.dev.mem[call.addr + moved + 1 - 1]
      BY <1>3, <2>2
    <3>2. call.addr \in Nat
      BY <1>1, CallTypes DEF LlInv, CallOK
    <3>3. call.addr + moved + 1 - 1 = call.addr + moved
      BY <1>2, <3>2
    <3> QED  BY <2>2, <2>3, <3>1, <3>3
  <2>5. \A i \in 1 .. Len(hw'.rx) : hw'.rx[i] = hw.dev.mem[call.addr + moved' + i - 1]
    <3>1. /\ Len(hw'.rx) = Len(hw.rx) - 1
          /\ \A i \in 1 .. Len(hw'.rx) : hw'.rx[i] = hw.rx[i + 1]
      BY <2>2, <2>3, HeadTailProperties
    <3>2. call.addr \in Nat
      BY <1>1, CallTypes DEF LlInv, CallOK
    <3> SUFFICES ASSUME NEW i \in 1 .. Len(hw'.rx)
                 PROVE  hw'.rx[i] = hw.dev.mem[call.addr + moved' + i - 1]
      OBVIOUS
    <3>3. i + 1 \in 1 .. Len(hw.rx) /\ i \in Int
      BY <2>2, <3>1
    <3>4. call.addr + moved' + i - 1 = call.addr + moved + (i + 1) - 1
      <4> DEFINE a == call.addr
      <4>1. moved \in Int /\ moved' = moved + 1 /\ a \in Int /\ i \in Int
        BY <1>2, <2>1, <3>2, <3>3
      <4> HIDE DEF a
      <4>2. a + moved' + i - 1 = a + moved + (i + 1) - 1
        BY <4>1
      <4> QED  BY <4>2 DEF a
    <3> QED  BY <1>3, <3>1, <3>3, <3>4
  <2>6. Len(out') = moved' /\ \A i \in 1 .. moved' : out'[i] = hw.dev.mem[call.addr + i - 1]
    <3>1. Dout(hw) \in Cell
      BY <2>2, <2>3, HeadTailProperties
    <3>2. /\ Len(out') = Len(out) + 1
          /\ \A i \in 1 .. Len(out) : out'[i] = out[i]
          /\ out'[Len(out) + 1] = Dout(hw)
      BY <1>2, <2>1, <3>1, AppendProperties
    <3>3. call.addr \in Nat
      BY <1>1, CallTypes DEF LlInv, CallOK
    <3>4. CASE moved' = moved + 1
      <4> SUFFICES ASSUME NEW i \in 1 .. moved'
                   PROVE  out'[i] = hw.dev.mem[call.addr + i - 1]
        BY <1>3, <2>1, <3>2
      <4>1. i \in 1 .. moved \/ i = moved + 1
        BY <1>2, <2>1
      <4>2. call.addr + (moved + 1) - 1 = call.addr + moved
        BY <1>2, <3>3
      <4> QED  BY <1>3, <2>4, <3>2, <4>1, <4>2
    <3> QED  BY <2>1, <3>4
  <2>7. OutOK'
    BY <2>1, <2>3, <2>5, <2>6 DEF OutOK
  <2> QED  BY <1>1, <1>2, <2>1, <2>3, <2>7 DEF MatchInv, DeviceOK, TxOK, DataOK
<1>6. CASE DrainTick
  <2>1. /\ pc' = "drain" /\ UNCHANGED <<call, off, ret, out, moved>> /\ hw' = EngineTick(hw)
    BY <1>1, <1>6 DEF DrainTick, DrainLoop
  <2>2. /\ hw'.tx = hw.tx /\ hw'.rx = hw.rx /\ hw'.dev.mem = hw.dev.mem
        /\ ~ hw'.dev.wip
    <3>1. hw.dev \in Device
      BY <1>2 DEF Engine
    <3>2. hw'.dev = DeviceTick(hw.dev) /\ hw'.tx = hw.tx /\ hw'.rx = hw.rx
      BY <1>2, <2>1 DEF EngineTick, Engine
    <3>3. DeviceTick(hw.dev).mem = hw.dev.mem
      BY <3>1, DeviceStep
    <3>4. ~ DeviceTick(hw.dev).wip
      BY <1>2, <3>1 DEF DeviceTick, Device
    <3> QED  BY <3>2, <3>3, <3>4
  <2> QED  BY <1>1, <1>2, <1>3, <2>1, <2>2 DEF MatchInv, DeviceOK, TxOK, DataOK, OutOK
<1> QED  BY <1>4, <1>5, <1>6

LEMMA MatchInvStep ==
  ASSUME Matched
  PROVE  LlInv /\ MatchInv /\ [Next]_vars => MatchInv'
<1> SUFFICES ASSUME LlInv, MatchInv, [Next]_vars PROVE MatchInv'
  OBVIOUS
<1>1. CASE Next
  BY <1>1, MatchClient, MatchEnable, MatchFill, MatchChunk, MatchErase, MatchPoll, MatchDrain
     DEF Next, Driver
<1>2. CASE UNCHANGED vars
  BY <1>2 DEF vars, MatchInv, DeviceOK, TxOK, DataOK, OutOK, Behind, Cleared, Chunk, At
<1> QED  BY <1>1, <1>2

(* In every run of a driver that matches its device, the device is busy    *)
(* only under a poll that outlasts it, TX holds what the next START is to  *)
(* send, and data is where the call's counters say it is.                  *)
THEOREM MatchedInvariant ==
  ASSUME Matched
  PROVE  Spec => [](LlInv /\ MatchInv)
<1>1. Init => MatchInv
  BY MatchInvInit
<1>2. LlInv /\ MatchInv /\ [Next]_vars => MatchInv'
  BY MatchInvStep
<1> QED  BY <1>1, <1>2, LlInvariant, PTL DEF Spec

-----------------------------------------------------------------------------
(* What the driver promises.                                               *)

(* No program and no erase is ever started that the device would ignore,   *)
(* or with other bytes in TX than its own (axi_spi_sim.c:86, :88).         *)
THEOREM StartsAreTaken ==
  ASSUME Matched
  PROVE  Spec => []NothingIgnored
<1>1. LlInv /\ MatchInv => NothingIgnored
  <2> SUFFICES ASSUME LlInv, MatchInv PROVE NothingIgnored
    OBVIOUS
  <2>1. CASE pc = "fill"
    BY <2>1, Filling, ChunkInPage DEF NothingIgnored, Accepts
  <2>2. CASE pc # "fill"
    BY <2>2 DEF NothingIgnored, MatchInv, DeviceOK
  <2> QED  BY <2>1, <2>2
<1> QED  BY <1>1, MatchedInvariant, PTL

(* A program or an erase that returns OK returns from the poll that saw WIP*)
(* clear, and changes nothing.                                             *)
LEMMA OkReturn ==
  ASSUME Matched, LlInv, MatchInv, Next, pc # "idle", pc' = "idle", ret' = "OK",
         call.op \in {"program", "erase"}
  PROVE  /\ pc = "poll" /\ hw' = hw /\ ~ hw.dev.wip /\ ~ hw.dev.wel
         /\ hw.tx = <<>> /\ hw.rx = <<>>
         /\ call.op = "program" => off + Chunk >= Len(call.data)
<1>1. ~ Client
  BY DEF Client, Refuse, Program, SectorErase, Read, WaitBusy, Rdsr, Wren, Enter
<1>2. ~ ProgramEnable /\ ~ FillByte /\ ~ FillTick /\ ~ ProgramChunk /\ ~ EraseStart
      /\ ~ PollAgain /\ ~ DrainByte /\ ~ DrainTick
  BY DEF ProgramEnable, FillByte, FillTick, FillLoop, ProgramChunk, EraseStart, PollAgain,
         DrainByte, DrainTick, DrainLoop
<1>3. ~ FillFails /\ ~ PollTimeout
  BY DEF FillFails, PollTimeout, Return
<1>4. ~ DrainEnd
  BY DEF DrainEnd, LlInv, CallOK, OpsAt
<1>5. PollReady
  BY <1>1, <1>2, <1>3, <1>4 DEF Next, Driver
<1>6. pc = "poll" /\ ~ PolledBusy /\ hw' = Polled
      /\ ~ (call.op = "program" /\ off + Chunk < Len(call.data))
  BY <1>5 DEF PollReady
<1>7. hw \in Engine /\ hw.rx = <<>> /\ hw.tx = <<>> /\ ~ hw.dev.wel
  BY <1>6 DEF LlInv, HwOK, RxOK, MatchInv, DeviceOK, TxOK
<1>8. hw' = hw /\ ~ hw.dev.wip
  BY <1>6, <1>7, PollIsPure DEF Polled, PolledBusy
<1>9. call.op = "program" => off + Chunk >= Len(call.data)
  <2> SUFFICES ASSUME call.op = "program" PROVE off + Chunk >= Len(call.data)
    OBVIOUS
  <2>1. off \in Nat /\ Chunk \in Nat /\ Len(call.data) \in Nat
    BY <1>6, Programming, CallTypes
  <2> QED  BY <1>6, <2>1
<1> QED  BY <1>6, <1>7, <1>8, <1>9

(* OK leaves the device idle and disabled, and both FIFOs empty            *)
(* (flash_ll.c:113, :128).                                                 *)
THEOREM OkIsClean ==
  ASSUME Matched
  PROVE  Spec => CleanAfterOk
<1>1. LlInv /\ MatchInv /\ [Next]_vars
        => [pc # "idle" /\ pc' = "idle" /\ ret' = "OK" /\ call.op \in {"program", "erase"} =>
              ~ hw'.dev.wip /\ ~ hw'.dev.wel /\ hw'.tx = <<>> /\ hw'.rx = <<>>]_vars
  BY OkReturn
<1> QED  BY <1>1, MatchedInvariant, PTL DEF Spec, CleanAfterOk

(* OK after a program means that every bit its data clears is clear        *)
(* (flash_ll.c:118).                                                       *)
THEOREM OkIsProgrammed ==
  ASSUME Matched
  PROVE  Spec => OkMeansProgrammed
<1>1. LlInv /\ MatchInv /\ [Next]_vars
        => [pc = "poll" /\ pc' = "idle" /\ ret' = "OK" /\ call.op = "program" =>
              \A i \in 1 .. Len(call.data) :
                LET cell == hw'.dev.mem[call.addr + i - 1]
                IN BitAnd(cell, call.data[i]) = cell]_vars
  <2> SUFFICES ASSUME LlInv, MatchInv, Next, pc = "poll", pc' = "idle", ret' = "OK",
                      call.op = "program", NEW i \in 1 .. Len(call.data)
               PROVE  LET cell == hw'.dev.mem[call.addr + i - 1]
                      IN BitAnd(cell, call.data[i]) = cell
    OBVIOUS
  <2>1. hw' = hw /\ off + Chunk >= Len(call.data)
    BY OkReturn
  <2>2. off \in Nat /\ Chunk \in Nat /\ Len(call.data) \in Nat
    BY Programming, CallTypes
  <2>3. Cleared(i)
    <3>1. i \in 1 .. off + Chunk
      BY <2>1, <2>2
    <3> QED  BY <3>1 DEF MatchInv, DataOK, Behind
  <2> QED  BY <2>1, <2>3 DEF Cleared
<1> QED  BY <1>1, MatchedInvariant, PTL DEF Spec, OkMeansProgrammed

-----------------------------------------------------------------------------
(* Every step of the driver is a step of NorDevice, or none.               *)

(* Steps of which the client of a flash sees nothing.                      *)
Unseen == UNCHANGED <<hw.dev.mem, Serving, DoneSoFar, Result(ret), Got>>

LEMMA NorInit == Init => Nor!Init
<1> SUFFICES ASSUME Init PROVE Nor!Init
  OBVIOUS
<1>1. hw.dev.mem = ErasedArray
  BY DEF Init, NewEngine, NewDevice
<1>2. Serving = {} /\ DoneSoFar = 0 /\ Got = <<>> /\ Result(ret) = "Ok"
  BY DEF Init, NoCall, Serving, DoneSoFar, Got, Result
<1> QED  BY <1>1, <1>2 DEF Nor!Init, Nor!ErasedArray, ErasedArray, Nor!Addr, Addr

LEMMA NorClient ==
  ASSUME Matched, LlInv, MatchInv, Client
  PROVE  Nor!Ask \/ Nor!NoEffect
<1>1. PICK c \in Calls :
        \/ Refuse(c) \/ Program(c) \/ SectorErase(c) \/ Read(c) \/ WaitBusy(c)
        \/ Rdsr(c) \/ Wren(c)
  BY DEF Client
<1>2. pc = "idle" /\ ~ ProgramChunk /\ ~ EraseStart
  BY <1>1 DEF Refuse, Program, SectorErase, Read, WaitBusy, Rdsr, Wren, Enter,
              ProgramChunk, EraseStart
<1>3. hw'.dev.mem = hw.dev.mem /\ Serving = {} /\ DoneSoFar = 0
  <2>1. Next
    BY DEF Next
  <2>2. hw'.dev.mem = hw.dev.mem
    BY <1>2, <2>1, OthersLeaveArray
  <2>3. call.op = "none"
    BY <1>2 DEF LlInv, CallOK, OpsAt
  <2> QED  BY <1>2, <2>2, <2>3 DEF Serving, DoneSoFar
<1>4. CASE Program(c) \/ SectorErase(c) \/ Read(c)
  <2>1. /\ call' = c /\ ret' = ret /\ off' = 0 /\ c.op \in {"program", "erase", "read"}
        /\ pc' \in {"wren", "erase", "drain"}
    BY <1>4 DEF Program, SectorErase, Read, Enter
  <2>2. Serving' = {c} /\ DoneSoFar' = 0 /\ Got' = <<>> /\ Result(ret') = Result(ret)
    BY <2>1 DEF Serving, DoneSoFar, Got
  <2> QED  BY <1>3, <2>2 DEF Nor!Ask
<1>5. CASE WaitBusy(c)
  <2>1. call' = c /\ ret' = ret /\ c.op = "wait" /\ pc' = "poll"
    BY <1>5 DEF WaitBusy, Enter
  <2>2. /\ Serving' = {} /\ DoneSoFar' = 0 /\ Got' \in Seq(Cell)
        /\ Result(ret') \in {"Ok", "Err"}
    BY <2>1 DEF Serving, DoneSoFar, Got, Result
  <2> QED  BY <1>3, <2>2 DEF Nor!NoEffect
<1>6. CASE Refuse(c) \/ Rdsr(c) \/ Wren(c)
  <2>1. pc' = "idle" /\ call'.op = "none"
    BY <1>6 DEF Refuse, Rdsr, Wren, Return, NoCall
  <2>2. out' \in Seq(Cell)
    <3>1. LlInv'
      BY ClientInv
    <3> QED  BY <3>1 DEF LlInv, CountersOK
  <2>3. Serving' = {} /\ DoneSoFar' = 0
    BY <2>1 DEF Serving, DoneSoFar
  <2>4. Got' \in Seq(Cell) /\ Result(ret') \in {"Ok", "Err"}
    <3>1. <<>> \in Seq(Cell)
      OBVIOUS
    <3> QED  BY <2>2, <3>1, Zenon DEF Got, Result
  <2> QED  BY <1>3, <2>3, <2>4 DEF Nor!NoEffect
<1> QED  BY <1>1, <1>4, <1>5, <1>6

LEMMA NorProgram ==
  ASSUME Matched, LlInv, MatchInv, ProgramChunk
  PROVE  Nor!ProgramMore
<1>1. /\ pc = "fill" /\ pc' = "poll" /\ UNCHANGED <<call, off, ret>>
  BY DEF ProgramChunk
<1>2. /\ call.op = "program" /\ Chunk \in Nat /\ Chunk > 0 /\ off \in Nat
      /\ off + Chunk <= Len(call.data) /\ Len(call.data) \in Nat /\ At = call.addr + off
  BY <1>1, Programming, CallTypes DEF At
<1>3. Serving = {call} /\ Serving' = {call} /\ Got = <<>> /\ Got' = <<>>
  BY <1>1, <1>2 DEF Serving, Got
<1>4. DoneSoFar = off /\ DoneSoFar' = off + Chunk
  BY <1>1, <1>2 DEF DoneSoFar, Chunk, At
<1>5. hw'.dev.mem = Programmed(hw.dev.mem, At, SubSeq(call.data, off + 1, off + Chunk), Chunk)
  BY ChunkSent
<1>6. hw'.dev.mem = Nor!Programmed(hw.dev.mem, call.addr + DoneSoFar,
                      SubSeq(call.data, DoneSoFar + 1, DoneSoFar + Chunk), Chunk)
  BY <1>2, <1>4, <1>5 DEF Programmed, Nor!Programmed, Addr, Nor!Addr
<1>7. Chunk \in 1 .. (Len(call.data) - DoneSoFar)
  BY <1>2, <1>4
<1>8. Result(ret') = Result(ret)
  BY <1>1
<1> QED  BY <1>2, <1>3, <1>4, <1>6, <1>7, <1>8 DEF Nor!ProgramMore

LEMMA NorErase ==
  ASSUME Matched, LlInv, MatchInv, EraseStart
  PROVE  Nor!EraseNow
<1>1. pc = "erase" /\ pc' = "poll" /\ UNCHANGED <<call, off, ret>>
  BY DEF EraseStart, locals, progress
<1>2. call.op = "erase"
  BY <1>1 DEF LlInv, CallOK, OpsAt
<1>3. /\ Serving = {call} /\ Serving' = {call} /\ Got = <<>> /\ Got' = <<>>
      /\ DoneSoFar = 0 /\ DoneSoFar' = 1 /\ Result(ret') = Result(ret)
  BY <1>1, <1>2 DEF Serving, Got, DoneSoFar
<1>4. hw'.dev.mem = Nor!Erased(hw.dev.mem, call.addr, SectorSize)
  BY SectorErased DEF Erased, Nor!Erased, Addr, Nor!Addr, EraseBase, Nor!EraseBase
<1> QED  BY <1>2, <1>3, <1>4 DEF Nor!EraseNow

(* A call that is served comes to its end with its work done, or fails.    *)
LEMMA NorReturn ==
  ASSUME Matched, LlInv, MatchInv, Next, ~ Client, pc' = "idle"
  PROVE  Nor!Succeed \/ Nor!Fail \/ Nor!NoEffect
<1>1. FillFails \/ PollReady \/ PollTimeout \/ DrainEnd
  BY DEF Next, Driver, ProgramEnable, FillByte, FillTick, FillLoop, ProgramChunk, EraseStart,
         PollAgain, DrainByte, DrainTick, DrainLoop
<1>2. pc \in {"fill", "poll", "drain"} /\ ~ ProgramChunk /\ ~ EraseStart /\ out' = out
  BY <1>1 DEF FillFails, PollReady, PollTimeout, DrainEnd, ProgramChunk, EraseStart
<1>3. hw'.dev.mem = hw.dev.mem
  BY <1>2, OthersLeaveArray
<1>4. /\ Serving' = {} /\ DoneSoFar' = 0
      /\ Got' = IF ret' = "OK" THEN out ELSE <<>>
      /\ Result(ret') = IF ret' = "OK" THEN "Ok" ELSE "Err"
  <2>1. Serving' = {} /\ DoneSoFar' = 0
    <3>1. call'.op = "none"
      BY <1>1, <1>2 DEF FillFails, PollReady, PollTimeout, DrainEnd, Return, NoCall
    <3> QED  BY <3>1 DEF Serving, DoneSoFar
  <2>2. Got' = IF ret' = "OK" THEN out ELSE <<>>
    BY <1>2 DEF Got
  <2>3. Result(ret') = IF ret' = "OK" THEN "Ok" ELSE "Err"
    BY DEF Result
  <2> QED  BY <2>1, <2>2, <2>3
<1>5. out \in Seq(Cell) /\ call.op \in OpsAt[pc]
  BY DEF LlInv, CallOK, CountersOK
<1>6. CASE call.op = "wait"
  <2>1. Serving = {} /\ DoneSoFar = 0
    BY <1>6 DEF Serving, DoneSoFar
  <2>2. Got' \in Seq(Cell) /\ Result(ret') \in {"Ok", "Err"}
    <3>1. <<>> \in Seq(Cell)
      OBVIOUS
    <3> QED  BY <1>4, <1>5, <3>1, Zenon
  <2> QED  BY <1>3, <1>4, <2>1, <2>2 DEF Nor!NoEffect
<1>7. CASE call.op # "wait" /\ ret' # "OK"
  <2>1. Serving = {call}
    BY <1>2, <1>7 DEF Serving
  <2> QED  BY <1>3, <1>4, <1>7, <2>1 DEF Nor!Fail
<1>8. CASE call.op \in {"program", "erase"} /\ ret' = "OK"
  <2>1. Serving = {call} /\ pc # "idle"
    BY <1>2, <1>8 DEF Serving
  <2>2. pc = "poll" /\ (call.op = "program" => off + Chunk >= Len(call.data))
    BY <1>8, <2>1, OkReturn
  <2>3. DoneSoFar = Nor!Work(call)
    <3>1. CASE call.op = "program"
      <4>1. off + Chunk = Len(call.data)
        <5>1. /\ off \in Nat /\ Chunk \in Nat /\ off + Chunk <= Len(call.data)
              /\ Len(call.data) \in Nat
          BY <2>2, <3>1, Programming, CallTypes
        <5> QED  BY <2>2, <3>1, <5>1
      <4> QED  BY <2>2, <3>1, <4>1 DEF DoneSoFar, Nor!Work
    <3>2. CASE call.op = "erase"
      BY <2>2, <3>2 DEF DoneSoFar, Nor!Work
    <3> QED  BY <1>8, <3>1, <3>2
  <2>4. out = <<>>
    BY <2>2 DEF MatchInv, OutOK
  <2> QED  BY <1>3, <1>4, <1>8, <2>1, <2>3, <2>4 DEF Nor!Succeed
<1>9. CASE call.op = "read" /\ ret' = "OK"
  <2>1. pc = "drain" /\ DrainEnd /\ Drained
    BY <1>1, <1>5, <1>9
       DEF FillFails, PollReady, PollTimeout, DrainEnd, Return, OpsAt
  <2>2. Serving = {call} /\ DoneSoFar = 0 /\ Nor!Work(call) = 0
    BY <1>9, <2>1 DEF Serving, DoneSoFar, Nor!Work
  <2>3. out = [i \in 1 .. call.n |-> hw.dev.mem[call.addr + i - 1]]
    <3>1. Len(out) = call.n /\ \A i \in 1 .. call.n : out[i] = hw.dev.mem[call.addr + i - 1]
      BY <2>1 DEF MatchInv, OutOK, Drained
    <3>2. out = [i \in 1 .. Len(out) |-> out[i]]
      BY <1>5
    <3> QED  BY <3>1, <3>2
  <2> QED  BY <1>3, <1>4, <1>9, <2>2, <2>3 DEF Nor!Succeed
<1> QED  BY <1>2, <1>5, <1>6, <1>7, <1>8, <1>9 DEF OpsAt

(* What happens between the start of a call and its work, in its loops,    *)
(* and between two of its chunks.                                          *)
LEMMA NorUnseen ==
  ASSUME Matched, LlInv, MatchInv, Next, ~ Client, ~ ProgramChunk, ~ EraseStart, pc' # "idle"
  PROVE  Unseen
<1>1. hw'.dev.mem = hw.dev.mem
  BY OthersLeaveArray
<1>2. pc # "idle" /\ ret' = ret /\ call' = call
  BY DEF Next, Driver, ProgramEnable, FillByte, FillTick, FillLoop, FillFails, PollReady,
         PollAgain, PollTimeout, DrainByte, DrainTick, DrainLoop, DrainEnd, Return
<1>3. Serving' = Serving /\ Got' = Got /\ Result(ret') = Result(ret)
  BY <1>2 DEF Serving, Got
<1>4. DoneSoFar' = DoneSoFar
  <2>1. CASE off' = off /\ (pc' = "poll" <=> pc = "poll")
    <3>1. Chunk' = Chunk
      BY <1>2, <2>1 DEF Chunk, At
    <3> QED  BY <1>2, <2>1, <3>1 DEF DoneSoFar
  <2>2. CASE PollReady
    BY <1>2, <2>2 DEF PollReady, Return, DoneSoFar
  <2>3. PollReady \/ (off' = off /\ (pc' = "poll" <=> pc = "poll"))
    BY DEF Next, Driver, ProgramEnable, FillByte, FillTick, FillLoop, FillFails,
           PollAgain, PollTimeout, DrainByte, DrainTick, DrainLoop, DrainEnd, Return
  <2> QED  BY <2>1, <2>2, <2>3
<1> QED  BY <1>1, <1>3, <1>4 DEF Unseen

LEMMA NorStep ==
  ASSUME Matched
  PROVE  LlInv /\ MatchInv /\ [Next]_vars => [Nor!Next]_(Nor!vars)
<1> SUFFICES ASSUME LlInv, MatchInv, [Next]_vars
             PROVE  Nor!Next \/ Unseen
  BY DEF Nor!vars, Unseen
<1>1. CASE Next
  BY <1>1, NorClient, NorProgram, NorErase, NorReturn, NorUnseen DEF Nor!Next
<1>2. CASE UNCHANGED vars
  BY <1>2 DEF vars, Unseen, Serving, DoneSoFar, Got, Chunk, At
<1> QED  BY <1>1, <1>2

(* A driver that matches its device is a flash backend: its programs reach *)
(* the array chunk by chunk and in order, its erases whole, its reads      *)
(* return what is there, and it says Ok only when all of it was done.      *)
THEOREM DriverIsNor ==
  ASSUME Matched
  PROVE  Spec => ImplementsNor
<1>1. Init => Nor!Init
  BY NorInit
<1>2. LlInv /\ MatchInv /\ [Next]_vars => [Nor!Next]_(Nor!vars)
  BY NorStep
<1> QED  BY <1>1, <1>2, MatchedInvariant, PTL DEF Spec, ImplementsNor, Nor!Safety
=============================================================================
