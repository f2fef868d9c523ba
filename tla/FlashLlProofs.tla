---------------------------- MODULE FlashLlProofs ----------------------------
(***************************************************************************)
(* Theorems about FlashLl, for every geometry of the device and of the     *)
(* driver, every capacity of a FIFO and of the engine's buffer, every      *)
(* budget and busy time, and every set of calls.                           *)
(***************************************************************************)
EXTENDS FlashLl, SequenceTheorems, TLAPS

(* The records the engine and its device are.                              *)
Device == [mem : [Addr -> Cell], wip : BOOLEAN, wel : BOOLEAN,
           busy : 0 .. Max({ProgTicks, EraseTicks})]
Fifo   == {f \in Seq(Cell) : Len(f) <= FifoCap}
Engine == [dev : Device, tx : Fifo, rx : Fifo]

HwOK == hw \in Engine

(* Which calls are served where, and that none of them was to be refused.  *)
OpsAt ==
  [idle |-> {"none"}, wren |-> {"program"}, fill |-> {"program"}, erase |-> {"erase"},
   poll |-> {"program", "erase", "wait"}, drain |-> {"read"}]

CallOK ==
  /\ pc \in DOMAIN OpsAt /\ call.op \in OpsAt[pc]
  /\ IF pc = "idle" THEN call = NoCall ELSE call \in Calls /\ ~ Refused(call)
  /\ ret \in Codes

(* How far the call is.  A chunk is never left, nor the data.              *)
CountersOK ==
  /\ off \in Nat /\ moved \in Nat /\ budget \in Nat /\ out \in Seq(Cell)
  /\ IF call.op = "program" THEN off < Len(call.data) ELSE off = 0
  /\ pc = "fill" => moved <= Chunk

(* RX holds bytes only while a read drains it, at most those it asked for; *)
(* and there are turns enough to take them all.                            *)
RxOK ==
  IF pc = "drain" THEN Len(hw.rx) <= budget /\ moved + Len(hw.rx) <= call.n
                  ELSE hw.rx = <<>>

LlInv == HwOK /\ CallOK /\ CountersOK /\ RxOK

-----------------------------------------------------------------------------
(* The smaller and the larger of two or three numbers.                     *)

LEMMA MinOfTwo ==
  ASSUME NEW a \in Int, NEW b \in Int
  PROVE  Min({a, b}) \in {a, b} /\ Min({a, b}) <= a /\ Min({a, b}) <= b
<1>1. \E x \in {a, b} : \A y \in {a, b} : x <= y
  <2>1. CASE a <= b
    BY <2>1
  <2>2. CASE b <= a
    BY <2>2
  <2> QED  BY <2>1, <2>2
<1> QED  BY <1>1 DEF Min

LEMMA MinFirst ==
  ASSUME NEW a \in Int, NEW b \in Int, a <= b
  PROVE  Min({a, b}) = a
<1>1. Min({a, b}) \in {a, b} /\ Min({a, b}) <= a
  BY MinOfTwo, Zenon
<1> QED  BY <1>1

LEMMA MinOfThree ==
  ASSUME NEW a \in Int, NEW b \in Int, NEW c \in Int
  PROVE  /\ Min({a, b, c}) \in {a, b, c}
         /\ Min({a, b, c}) <= a /\ Min({a, b, c}) <= b /\ Min({a, b, c}) <= c
<1>1. \E x \in {a, b, c} : \A y \in {a, b, c} : x <= y
  <2>1. CASE a <= b /\ a <= c
    BY <2>1
  <2>2. CASE b <= a /\ b <= c
    BY <2>2
  <2>3. CASE c <= a /\ c <= b
    BY <2>3
  <2> QED  BY <2>1, <2>2, <2>3
<1> QED  BY <1>1 DEF Min

LEMMA MaxOfTwo ==
  ASSUME NEW a \in Int, NEW b \in Int
  PROVE  Max({a, b}) \in {a, b} /\ Max({a, b}) >= a /\ Max({a, b}) >= b
<1>1. \E x \in {a, b} : \A y \in {a, b} : x >= y
  <2>1. CASE a <= b
    BY <2>1
  <2>2. CASE b <= a
    BY <2>2
  <2> QED  BY <2>1, <2>2
<1> QED  BY <1>1 DEF Max

LEMMA BusyRange ==
  /\ Max({ProgTicks, EraseTicks}) \in Nat
  /\ {0, ProgTicks, EraseTicks} \subseteq 0 .. Max({ProgTicks, EraseTicks})
BY MaxOfTwo, TicksAssumption

-----------------------------------------------------------------------------
(* The device.  What a program changes lies among the cells it was sent,   *)
(* what an erase changes in the sector of its address.                     *)

LEMMA DeviceStep ==
  ASSUME NEW d \in Device
  PROVE  /\ DeviceTick(d) \in Device /\ DeviceTick(d).mem = d.mem
         /\ WriteEnable(d) \in Device /\ WriteEnable(d).mem = d.mem
         /\ StatusByte(d) \in Cell
<1>1. d.busy \in 0 .. Max({ProgTicks, EraseTicks}) /\ d.busy \in Nat
  BY BusyRange DEF Device
<1>2. DeviceTick(d) \in Device /\ DeviceTick(d).mem = d.mem
  <2>1. CASE d.busy > 1
    BY <1>1, <2>1, BusyRange DEF Device, DeviceTick
  <2>2. CASE d.busy = 1
    <3>1. DeviceTick(d) = [d EXCEPT !.busy = 0, !.wip = FALSE]
      BY <2>2 DEF DeviceTick
    <3>2. 0 \in 0 .. Max({ProgTicks, EraseTicks})
      BY BusyRange
    <3> QED  BY <3>1, <3>2 DEF Device
  <2>3. CASE d.busy = 0
    BY <1>1, <2>3 DEF Device, DeviceTick
  <2> QED  BY <1>1, <2>1, <2>2, <2>3
<1>3. WriteEnable(d) \in Device /\ WriteEnable(d).mem = d.mem
  BY DEF Device, WriteEnable
<1>4. StatusByte(d) \in 0 .. 3
  BY DEF StatusByte
<1> QED  BY <1>2, <1>3, <1>4, EngineAssumption

LEMMA ProgramEffect ==
  ASSUME NEW d \in Device, NEW a \in Nat, NEW cells \in Seq(Cell)
  PROVE  /\ PageProgram(d, a, cells) \in Device
         /\ \A x \in Addr \ (a .. (a + Len(cells) - 1)) :
              PageProgram(d, a, cells).mem[x] = d.mem[x]
<1> DEFINE k == Min({Len(cells), PageSize - (a % PageSize)})
           m == Programmed(d.mem, a, cells, k)
<1>1. Len(cells) \in Nat /\ PageSize - (a % PageSize) \in Int
  BY GeometryAssumption
<1>2. k \in Int /\ k <= Len(cells)
  <2> DEFINE rest == PageSize - (a % PageSize)
  <2>1. rest \in Int /\ Len(cells) \in Int
    BY <1>1
  <2> HIDE DEF rest
  <2>2. Min({Len(cells), rest}) \in Int /\ Min({Len(cells), rest}) <= Len(cells)
    BY <2>1, MinOfTwo
  <2> QED  BY <2>2 DEF rest
<1> HIDE DEF k
<1>3. d.mem \in [Addr -> Cell]
  BY DEF Device
<1>4. \A x \in Addr : x \in Int
  BY GeometryAssumption DEF Addr
<1>5. m \in [Addr -> Cell]
  <2>1. ASSUME NEW x \in Addr, x \in a .. (a + k - 1)
        PROVE  BitAnd(d.mem[x], cells[x - a + 1]) \in Cell
    <3>1. x - a + 1 \in 1 .. Len(cells)
      BY <1>1, <1>2, <1>4, <2>1
    <3>2. cells[x - a + 1] \in Cell
      BY <3>1
    <3> QED  BY <1>3, <3>2, CellAssumption
  <2> QED  BY <1>3, <2>1 DEF Programmed
<1>6. \A x \in Addr \ (a .. (a + Len(cells) - 1)) : m[x] = d.mem[x]
  BY <1>1, <1>2, <1>4 DEF Programmed
<1>7. StartBusy(d, m, ProgTicks) \in Device /\ StartBusy(d, m, ProgTicks).mem = m
  <2> HIDE DEF m
  <2> QED  BY <1>5, BusyRange DEF StartBusy, Device
<1> QED  BY <1>6, <1>7 DEF PageProgram, k

LEMMA EraseEffect ==
  ASSUME NEW d \in Device, NEW a \in Nat
  PROVE  /\ EraseSector(d, a) \in Device
         /\ \A x \in Addr \ (EraseBase(a) .. (EraseBase(a) + SectorSize - 1)) :
              EraseSector(d, a).mem[x] = d.mem[x]
<1> DEFINE m == Erased(d.mem, a, SectorSize)
<1>1. d.mem \in [Addr -> Cell]
  BY DEF Device
<1>2. m \in [Addr -> Cell]
  BY <1>1, CellAssumption DEF Erased
<1>3. \A x \in Addr \ (EraseBase(a) .. (EraseBase(a) + SectorSize - 1)) : m[x] = d.mem[x]
  BY DEF Erased
<1>4. StartBusy(d, m, EraseTicks) \in Device /\ StartBusy(d, m, EraseTicks).mem = m
  <2> HIDE DEF m
  <2> QED  BY <1>2, BusyRange DEF StartBusy, Device
<1> QED  BY <1>3, <1>4 DEF EraseSector

-----------------------------------------------------------------------------
(* The engine.                                                             *)

(* Bytes are pushed as far as there is room.                               *)
LEMMA PushEffect ==
  ASSUME NEW f \in Fifo, NEW cells \in Seq(Cell)
  PROVE  /\ PushAll(f, cells) \in Fifo
         /\ Len(PushAll(f, cells)) <= Len(f) + Len(cells)
<1> DEFINE room == FifoCap - Len(f)
           k == Min({Len(cells), room})
<1>1. f \in Seq(Cell) /\ Len(f) \in Nat /\ Len(cells) \in Nat /\ room \in Nat
  BY EngineAssumption DEF Fifo
<1>2. k \in Nat /\ k <= Len(cells) /\ k <= room
  <2> DEFINE len == Len(cells)
  <2>1. len \in Nat /\ room \in Nat /\ len \in Int /\ room \in Int
    BY <1>1
  <2> HIDE DEF room, len
  <2>2. Min({len, room}) \in {len, room} /\ Min({len, room}) <= len /\ Min({len, room}) <= room
    BY <2>1, MinOfTwo, Zenon
  <2> QED  BY <2>1, <2>2 DEF len
<1> HIDE DEF k
<1>3. SubSeq(cells, 1, k) \in Seq(Cell) /\ Len(SubSeq(cells, 1, k)) = k
  <2>1. \A i \in 1 .. k : cells[i] \in Cell
    BY <1>1, <1>2
  <2> QED  BY <1>2, <2>1, SubSeqProperties
<1>4. /\ f \o SubSeq(cells, 1, k) \in Seq(Cell)
      /\ Len(f \o SubSeq(cells, 1, k)) = Len(f) + k
  BY <1>1, <1>3, ConcatProperties
<1>5. PushAll(f, cells) = f \o SubSeq(cells, 1, k)
  BY DEF PushAll, k
<1> QED  BY <1>1, <1>2, <1>4, <1>5, EngineAssumption DEF Fifo

LEMMA ReadCellsEffect ==
  ASSUME NEW d \in Device, NEW a \in Nat, NEW n \in Nat
  PROVE  ReadCells(d, a, n) \in Seq(Cell) /\ Len(ReadCells(d, a, n)) <= n
<1> DEFINE rest == Max({FlashSize - a, 0})
           k == Min({n, rest})
<1>1. rest \in Nat /\ rest \in {FlashSize - a, 0}
  <2> DEFINE above == FlashSize - a
  <2>1. above \in Int /\ 0 \in Int
    BY GeometryAssumption
  <2> HIDE DEF above
  <2>2. Max({above, 0}) \in {above, 0} /\ Max({above, 0}) >= 0
    BY <2>1, MaxOfTwo, Zenon
  <2> QED  BY <2>1, <2>2 DEF above
<1>2. k \in Nat /\ k <= n /\ k <= rest
  <2> HIDE DEF rest
  <2>1. Min({n, rest}) \in {n, rest} /\ Min({n, rest}) <= n /\ Min({n, rest}) <= rest
    BY <1>1, MinOfTwo
  <2> QED  BY <1>1, <2>1
<1> HIDE DEF k, rest
<1>3. \A i \in 1 .. k : a + i - 1 \in Addr
  BY <1>1, <1>2, GeometryAssumption DEF Addr
<1>4. \A i \in 1 .. k : d.mem[a + i - 1] \in Cell
  BY <1>3 DEF Device
<1>5. ReadCells(d, a, n) = [i \in 1 .. k |-> d.mem[a + i - 1]]
  BY DEF ReadCells, k, rest
<1>6. [i \in 1 .. k |-> d.mem[a + i - 1]] \in Seq(Cell)
  <2>1. [i \in 1 .. k |-> d.mem[a + i - 1]] \in [1 .. k -> Cell]
    BY <1>4
  <2> QED  BY <1>2, <2>1, SeqDef
<1>7. Len([i \in 1 .. k |-> d.mem[a + i - 1]]) = k
  BY <1>2
<1> QED  BY <1>2, <1>5, <1>6, <1>7

LEMMA BusAddress ==
  ASSUME NEW a \in Nat
  PROVE  OnBus(a) \in Nat /\ (a < AddrSpace => OnBus(a) = a)
BY EngineAssumption DEF OnBus

(* What the commands leave of the FIFOs and of the array.                  *)
LEMMA EngineStep ==
  ASSUME NEW s \in Engine
  PROVE  /\ EngineTick(s) \in Engine /\ EngineTick(s).dev.mem = s.dev.mem
         /\ EngineTick(s).rx = s.rx
         /\ StartWren(s) \in Engine /\ StartWren(s).dev.mem = s.dev.mem
         /\ StartWren(s).rx = s.rx
<1>1. s.dev \in Device
  BY DEF Engine
<1> QED  BY <1>1, DeviceStep DEF Engine, EngineTick, StartWren

LEMMA WriteDinEffect ==
  ASSUME NEW s \in Engine, NEW cell \in Cell
  PROVE  /\ WriteDin(s, cell) \in Engine
         /\ WriteDin(s, cell).dev = s.dev /\ WriteDin(s, cell).rx = s.rx
<1>1. s.tx \in Fifo /\ <<cell>> \in Seq(Cell)
  BY DEF Engine
<1>2. PushAll(s.tx, <<cell>>) \in Fifo
  BY <1>1, PushEffect
<1> QED  BY <1>2 DEF Engine, WriteDin

LEMMA ReadDoutEffect ==
  ASSUME NEW s \in Engine
  PROVE  /\ ReadDout(s) \in Engine /\ ReadDout(s).dev = s.dev
         /\ RxAvail(s) => Dout(s) \in Cell /\ Len(ReadDout(s).rx) = Len(s.rx) - 1
         /\ ~ RxAvail(s) => ReadDout(s).rx = s.rx
<1>1. s.rx \in Fifo /\ s.rx \in Seq(Cell) /\ Len(s.rx) \in Nat
  BY DEF Engine, Fifo
<1>2. CASE RxAvail(s)
  <2>1. Head(s.rx) \in Cell /\ Tail(s.rx) \in Seq(Cell) /\ Len(Tail(s.rx)) = Len(s.rx) - 1
    BY <1>1, <1>2, HeadTailProperties DEF RxAvail
  <2>2. Tail(s.rx) \in Fifo
    BY <1>1, <2>1, EngineAssumption DEF Fifo
  <2> QED  BY <1>2, <2>1, <2>2 DEF Engine, ReadDout, Dout
<1>3. CASE ~ RxAvail(s)
  BY <1>3 DEF Engine, ReadDout
<1> QED  BY <1>2, <1>3

(* A poll takes the byte it asked for and leaves everything as it was.     *)
LEMMA PollIsPure ==
  ASSUME NEW s \in Engine, s.rx = <<>>
  PROVE  /\ ReadDout(StartRdsr(s)) = s
         /\ (Dout(StartRdsr(s)) % 2 = 1) <=> s.dev.wip
         /\ Dout(StartRdsr(s)) = StatusByte(s.dev)
<1> DEFINE b == StatusByte(s.dev)
           t == StartRdsr(s)
<1>1. s.dev \in Device /\ s.dev.wip \in BOOLEAN /\ s.dev.wel \in BOOLEAN
  BY DEF Engine, Device
<1>2. b \in Cell
  BY <1>1, DeviceStep
<1>3. (b % 2 = 1) <=> s.dev.wip
  BY <1>1 DEF StatusByte
<1> HIDE DEF b
<1>4. <<b>> \in Seq(Cell) /\ Len(<<b>>) = 1
  BY <1>2
<1>5. PushAll(<<>>, <<b>>) = <<b>>
  <2> DEFINE room == FifoCap - Len(<<>>)
  <2>1. room \in Int /\ 1 \in Int /\ 1 <= room
    BY EngineAssumption
  <2> HIDE DEF room
  <2>2. Min({1, room}) = 1
    BY <2>1, MinFirst, Zenon
  <2>3. SubSeq(<<b>>, 1, 1) = <<b>>
    BY <1>4, SubSeqFull
  <2>4. PushAll(<<>>, <<b>>) = <<>> \o <<b>>
    BY <1>4, <2>2, <2>3 DEF PushAll, room
  <2> QED  BY <1>4, <2>4, ConcatEmptySeq
<1>6. t = [s EXCEPT !.rx = <<b>>]
  BY <1>5 DEF StartRdsr, b
<1>7. t.rx = <<b>> /\ t.dev = s.dev /\ t.tx = s.tx
  BY <1>6 DEF Engine
<1> HIDE DEF t
<1>8. RxAvail(t) /\ Dout(t) = b
  BY <1>4, <1>7 DEF RxAvail, Dout
<1>9. ReadDout(t) = [t EXCEPT !.rx = <<>>]
  <2>1. Tail(<<b>>) = <<>>
    OBVIOUS
  <2> QED  BY <1>7, <1>8, <2>1 DEF ReadDout
<1>10. ReadDout(t) = s
  BY <1>6, <1>9 DEF Engine
<1> QED  BY <1>3, <1>8, <1>10 DEF t, b

LEMMA PollEffect ==
  ASSUME NEW s \in Engine, s.rx = <<>>
  PROVE  /\ Dout(StartRdsr(s)) \in Cell
         /\ ReadDout(StartRdsr(s)) \in Engine
         /\ ReadDout(StartRdsr(s)).dev = s.dev /\ ReadDout(StartRdsr(s)).rx = <<>>
<1>1. StatusByte(s.dev) \in Cell
  BY DeviceStep DEF Engine
<1> QED  BY <1>1, PollIsPure

LEMMA StartReadEffect ==
  ASSUME NEW s \in Engine, s.rx = <<>>, NEW a \in Nat, NEW n \in Nat
  PROVE  /\ StartRead(s, a, n) \in Engine
         /\ StartRead(s, a, n).dev = s.dev /\ Len(StartRead(s, a, n).rx) <= n
<1> DEFINE c == ReadCells(s.dev, OnBus(a), n)
<1>1. c \in Seq(Cell) /\ Len(c) <= n /\ Len(c) \in Nat
  BY BusAddress, ReadCellsEffect DEF Engine
<1> HIDE DEF c
<1>2. s.rx \in Fifo /\ Len(s.rx) = 0
  BY DEF Engine
<1>3. PushAll(s.rx, c) \in Fifo /\ Len(PushAll(s.rx, c)) <= 0 + Len(c)
  BY <1>1, <1>2, PushEffect
<1>4. Len(PushAll(s.rx, c)) \in Nat
  BY <1>3 DEF Fifo
<1>5. Len(PushAll(s.rx, c)) <= n
  BY <1>1, <1>3, <1>4
<1> QED  BY <1>3, <1>5 DEF Engine, StartRead, c

(* At most the n bytes of the command go to the device.                    *)
LEMMA StartProgramEffect ==
  ASSUME NEW s \in Engine, NEW a \in Nat, NEW n \in Nat
  PROVE  /\ StartProgram(s, a, n) \in Engine
         /\ StartProgram(s, a, n).rx = s.rx
         /\ \A x \in Addr \ (OnBus(a) .. (OnBus(a) + n - 1)) :
              StartProgram(s, a, n).dev.mem[x] = s.dev.mem[x]
<1> DEFINE k == Min({PpBuf, n, Len(s.tx)})
           sent == SubSeq(s.tx, 1, k)
           left == SubSeq(s.tx, k + 1, Len(s.tx))
           d == PageProgram(s.dev, OnBus(a), sent)
<1>1. s.tx \in Seq(Cell) /\ Len(s.tx) \in Nat /\ Len(s.tx) <= FifoCap /\ s.dev \in Device
  BY DEF Engine, Fifo
<1>2. k \in Nat /\ k <= n /\ k <= Len(s.tx)
  <2> DEFINE len == Len(s.tx)
             m == Min({PpBuf, n, len})
  <2>1. PpBuf \in Nat /\ len \in Nat /\ PpBuf \in Int /\ len \in Int /\ n \in Int
    BY <1>1, EngineAssumption
  <2> HIDE DEF len
  <2>2. m \in {PpBuf, n, len} /\ m <= PpBuf /\ m <= n /\ m <= len
    BY <2>1, MinOfThree, Zenon
  <2> HIDE DEF m
  <2>3. m \in Nat /\ m <= n /\ m <= len
    BY <2>1, <2>2
  <2> QED  BY <2>3 DEF m, len, k
<1> HIDE DEF k
<1>3. sent \in Seq(Cell) /\ Len(sent) = k
  <2>1. \A i \in 1 .. k : s.tx[i] \in Cell
    BY <1>1, <1>2
  <2> QED  BY <1>2, <2>1, SubSeqProperties
<1>4. left \in Fifo
  <2>1. \A i \in k + 1 .. Len(s.tx) : s.tx[i] \in Cell
    BY <1>1, <1>2
  <2>2. /\ left \in Seq(Cell)
        /\ Len(left) = IF k + 1 <= Len(s.tx) THEN Len(s.tx) - (k + 1) + 1 ELSE 0
    BY <1>1, <1>2, <2>1, SubSeqProperties
  <2> QED  BY <1>1, <1>2, <2>2, EngineAssumption DEF Fifo
<1> HIDE DEF sent, left
<1>5. OnBus(a) \in Nat
  BY BusAddress
<1>6. /\ d \in Device
      /\ \A x \in Addr \ (OnBus(a) .. (OnBus(a) + k - 1)) : d.mem[x] = s.dev.mem[x]
  BY <1>1, <1>3, <1>5, ProgramEffect
<1>7. \A x \in Addr \ (OnBus(a) .. (OnBus(a) + n - 1)) : d.mem[x] = s.dev.mem[x]
  <2>1. OnBus(a) .. (OnBus(a) + k - 1) \subseteq OnBus(a) .. (OnBus(a) + n - 1)
    BY <1>2, <1>5
  <2> QED  BY <1>6, <2>1
<1>8. StartProgram(s, a, n) = [s EXCEPT !.tx = left, !.dev = d]
  BY DEF StartProgram, k, sent, left
<1> HIDE DEF d
<1> QED  BY <1>4, <1>6, <1>7, <1>8 DEF Engine

LEMMA StartEraseEffect ==
  ASSUME NEW s \in Engine, NEW a \in Nat
  PROVE  /\ StartErase(s, a) \in Engine
         /\ StartErase(s, a).rx = s.rx
         /\ \A x \in Addr \ (EraseBase(OnBus(a)) .. (EraseBase(OnBus(a)) + SectorSize - 1)) :
              StartErase(s, a).dev.mem[x] = s.dev.mem[x]
<1>1. s.dev \in Device /\ OnBus(a) \in Nat
  BY BusAddress DEF Engine
<1> DEFINE d == EraseSector(s.dev, OnBus(a))
<1>2. /\ d \in Device
      /\ \A x \in Addr \ (EraseBase(OnBus(a)) .. (EraseBase(OnBus(a)) + SectorSize - 1)) :
           d.mem[x] = s.dev.mem[x]
  BY <1>1, EraseEffect
<1> HIDE DEF d
<1> QED  BY <1>2 DEF Engine, StartErase, d

-----------------------------------------------------------------------------
(* The call.                                                               *)

LEMMA CallTypes ==
  ASSUME NEW c \in Calls
  PROVE  /\ c.op \in Ops /\ c.addr \in Nat /\ c.n \in Nat /\ c.data \in Seq(Cell)
         /\ Len(c.data) \in Nat /\ (c.op = "program" => c.n = Len(c.data))
BY DriverAssumption

(* The bounds that the argument checks have established.                   *)
LEMMA NotRefused ==
  ASSUME NEW c \in Calls, ~ Refused(c)
  PROVE  /\ c.op = "program" => Len(c.data) > 0 /\ c.addr + Len(c.data) <= MemSize
         /\ c.op = "erase" => c.addr < MemSize
<1>1. MemSize \in Nat
  BY DriverAssumption
<1>2. CASE c.op = "program"
  <2>1. c.n # 0 /\ ~ OutOfBounds(c)
    BY <1>2 DEF Refused
  <2> QED  BY <1>1, <1>2, <2>1, CallTypes DEF OutOfBounds
<1>3. CASE c.op = "erase"
  BY <1>1, <1>3, CallTypes DEF Refused
<1> QED  BY <1>2, <1>3

(* A chunk is not empty and ends inside the data.                          *)
LEMMA ChunkBounds ==
  ASSUME call \in Calls, off \in Nat, off < Len(call.data)
  PROVE  Chunk \in Nat /\ Chunk > 0 /\ off + Chunk <= Len(call.data) /\ At \in Nat
<1> DEFINE rest == Len(call.data) - off
           page == DrvPage - (At % DrvPage)
<1>1. At \in Nat
  BY CallTypes DEF At
<1>2. rest \in Nat /\ rest > 0 /\ rest \in Int
  BY CallTypes
<1>3. page \in Nat /\ page > 0 /\ page \in Int
  <2>1. DrvPage \in Nat /\ DrvPage > 0
    BY DriverAssumption
  <2> HIDE DEF page
  <2>2. At % DrvPage \in Nat /\ At % DrvPage < DrvPage
    BY <1>1, <2>1
  <2> QED  BY <2>1, <2>2 DEF page
<1>4. Chunk = Min({rest, page})
  BY DEF Chunk
<1> HIDE DEF rest, page
<1>5. Min({rest, page}) \in {rest, page} /\ Min({rest, page}) <= rest
  BY <1>2, <1>3, MinOfTwo, Zenon
<1>6. Chunk \in Nat /\ Chunk > 0 /\ Chunk <= rest
  BY <1>2, <1>3, <1>4, <1>5
<1> QED  BY <1>1, <1>6, CallTypes DEF rest

LEMMA TurnsEnough ==
  ASSUME NEW n \in Nat
  PROVE  FifoTurns(n) \in Nat /\ FifoTurns(n) >= n
<1>1. FifoFactor \in Nat /\ FifoFactor >= 1 /\ FifoSlack \in Nat
  BY DriverAssumption
<1>2. n * FifoFactor \in Nat /\ n * FifoFactor >= n * 1
  BY <1>1
<1> QED  BY <1>1, <1>2 DEF FifoTurns

-----------------------------------------------------------------------------
(* The invariant.                                                          *)

LEMMA LlInvInit == Init => LlInv
<1> SUFFICES ASSUME Init PROVE LlInv
  OBVIOUS
<1>1. NewDevice \in Device
  <2>1. ErasedArray \in [Addr -> Cell]
    BY CellAssumption DEF ErasedArray
  <2>2. 0 \in 0 .. Max({ProgTicks, EraseTicks})
    BY BusyRange
  <2> QED  BY <2>1, <2>2 DEF NewDevice, Device
<1>2. <<>> \in Fifo
  BY EngineAssumption DEF Fifo
<1>3. HwOK
  BY <1>1, <1>2 DEF Init, HwOK, NewEngine, Engine
<1>4. CallOK
  BY DEF Init, CallOK, OpsAt, NoCall, Codes
<1>5. CountersOK
  BY DEF Init, CountersOK, NoCall
<1>6. RxOK
  BY DEF Init, RxOK, NewEngine
<1> QED  BY <1>3, <1>4, <1>5, <1>6 DEF LlInv

(* A call that returns leaves nothing but what it did to the engine.       *)
LEMMA Returned ==
  ASSUME NEW rc \in Codes, Return(rc), hw' \in Engine, hw'.rx = <<>>, out' \in Seq(Cell)
  PROVE  LlInv'
<1>1. CallOK'
  BY DEF Return, CallOK, OpsAt, NoCall
<1>2. CountersOK'
  BY DEF Return, CountersOK, NoCall
<1>3. RxOK'
  BY DEF Return, RxOK
<1> QED  BY <1>1, <1>2, <1>3 DEF LlInv, HwOK

(* A call that is taken has been found to be within bounds.                *)
LEMMA Entered ==
  ASSUME LlInv, NEW c \in Calls, NEW op, NEW start, NEW turns \in Nat,
         Enter(c, op, start, turns),
         start \in {"wren", "erase", "poll", "drain"}, op \in OpsAt[start],
         hw' \in Engine, RxOK'
  PROVE  LlInv'
<1>1. call' = c /\ c.op = op /\ ~ Refused(c) /\ pc' = start /\ ret' = ret
      /\ off' = 0 /\ moved' = 0 /\ budget' = turns /\ out' = <<>>
  BY DEF Enter
<1>2. CallOK'
  <2>1. ~ Refused(call')
    BY <1>1
  <2> QED  BY <1>1, <2>1 DEF LlInv, CallOK, OpsAt
<1>3. CountersOK'
  <2>1. c.op = "program" => 0 < Len(c.data)
    BY <1>1, NotRefused, CallTypes
  <2> QED  BY <1>1, <2>1 DEF CountersOK
<1> QED  BY <1>2, <1>3 DEF LlInv, HwOK

LEMMA ClientInv ==
  ASSUME LlInv, Client
  PROVE  LlInv'
<1>1. PICK c \in Calls :
        \/ Refuse(c) \/ Program(c) \/ SectorErase(c) \/ Read(c) \/ WaitBusy(c)
        \/ Rdsr(c) \/ Wren(c)
  BY DEF Client
<1>2. hw \in Engine /\ (pc = "idle" => hw.rx = <<>>)
  BY DEF LlInv, HwOK, RxOK
<1>3. c.addr \in Nat /\ c.n \in Nat
  BY CallTypes
<1>4. CASE Refuse(c)
  <2>1. hw' = hw /\ out' = <<>> /\ pc = "idle"
    BY <1>4 DEF Refuse
  <2>2. Return("EINVAL") \/ Return("EOOB")
    BY <1>4 DEF Refuse
  <2>3. hw' \in Engine /\ hw'.rx = <<>> /\ out' \in Seq(Cell)
    BY <1>2, <2>1
  <2> QED  BY <2>2, <2>3, Returned DEF Codes
<1>5. CASE Program(c)
  <2>1. Enter(c, "program", "wren", 0) /\ hw' = hw /\ pc = "idle" /\ pc' = "wren"
    BY <1>5 DEF Program, Enter
  <2>2. RxOK'
    BY <1>2, <2>1 DEF RxOK
  <2> QED  BY <1>2, <2>1, <2>2, Entered DEF OpsAt
<1>6. CASE SectorErase(c)
  <2>1. Enter(c, "erase", "erase", EraseBudget) /\ hw' = hw /\ pc = "idle" /\ pc' = "erase"
    BY <1>6 DEF SectorErase, Enter
  <2>2. RxOK'
    BY <1>2, <2>1 DEF RxOK
  <2>3. EraseBudget \in Nat
    BY DriverAssumption
  <2> QED  BY <1>2, <2>1, <2>2, <2>3, Entered DEF OpsAt
<1>7. CASE Read(c)
  <2>1. Enter(c, "read", "drain", FifoTurns(c.n)) /\ hw' = StartRead(hw, c.addr, c.n)
    BY <1>7 DEF Read
  <2>2. pc = "idle" /\ pc' = "drain" /\ call' = c /\ moved' = 0 /\ budget' = FifoTurns(c.n)
    BY <2>1 DEF Enter
  <2>3. hw' \in Engine /\ Len(hw'.rx) <= c.n /\ Len(hw'.rx) \in Nat
    BY <1>2, <1>3, <2>1, <2>2, StartReadEffect DEF Engine, Fifo
  <2>4. FifoTurns(c.n) \in Nat /\ FifoTurns(c.n) >= c.n
    BY <1>3, TurnsEnough
  <2>5. RxOK'
    BY <1>3, <2>2, <2>3, <2>4 DEF RxOK
  <2> QED  BY <2>1, <2>3, <2>4, <2>5, Entered DEF OpsAt
<1>8. CASE WaitBusy(c)
  <2>1. Enter(c, "wait", "poll", c.n) /\ hw' = hw /\ pc = "idle" /\ pc' = "poll"
    BY <1>8 DEF WaitBusy, Enter
  <2>2. RxOK'
    BY <1>2, <2>1 DEF RxOK
  <2> QED  BY <1>2, <1>3, <2>1, <2>2, Entered DEF OpsAt
<1>9. CASE Rdsr(c)
  <2>1. pc = "idle" /\ hw' = ReadDout(StartRdsr(hw)) /\ out' = <<Dout(StartRdsr(hw))>>
        /\ Return("OK")
    BY <1>9 DEF Rdsr
  <2>2. hw' \in Engine /\ hw'.rx = <<>> /\ Dout(StartRdsr(hw)) \in Cell
    BY <1>2, <2>1, PollEffect
  <2>3. out' \in Seq(Cell)
    BY <2>1, <2>2
  <2> QED  BY <2>1, <2>2, <2>3, Returned DEF Codes
<1>10. CASE Wren(c)
  <2>1. pc = "idle" /\ hw' = StartWren(hw) /\ out' = <<>> /\ Return("OK")
    BY <1>10 DEF Wren
  <2>2. hw' \in Engine /\ hw'.rx = <<>> /\ out' \in Seq(Cell)
    BY <1>2, <2>1, EngineStep
  <2> QED  BY <2>1, <2>2, Returned DEF Codes
<1> QED  BY <1>1, <1>4, <1>5, <1>6, <1>7, <1>8, <1>9, <1>10

(* What holds while a program is being served.                             *)
LEMMA Programming ==
  ASSUME LlInv, pc \in {"wren", "fill"} \/ (pc = "poll" /\ call.op = "program")
  PROVE  /\ call \in Calls /\ call.op = "program" /\ ~ Refused(call)
         /\ off \in Nat /\ off < Len(call.data) /\ hw \in Engine /\ hw.rx = <<>>
         /\ Chunk \in Nat /\ Chunk > 0 /\ off + Chunk <= Len(call.data) /\ At \in Nat
<1>1. /\ call \in Calls /\ call.op = "program" /\ ~ Refused(call)
      /\ off \in Nat /\ off < Len(call.data) /\ hw \in Engine /\ hw.rx = <<>>
  BY DEF LlInv, HwOK, CallOK, CountersOK, RxOK, OpsAt
<1> QED  BY <1>1, ChunkBounds

LEMMA ProgramInv ==
  ASSUME LlInv, ProgramEnable \/ FillByte \/ FillTick \/ FillFails \/ ProgramChunk
  PROVE  LlInv'
<1>1. pc \in {"wren", "fill"}
  BY DEF ProgramEnable, FillByte, FillTick, FillLoop, FillFails, ProgramChunk
<1>2. /\ call \in Calls /\ call.op = "program" /\ ~ Refused(call)
      /\ off \in Nat /\ off < Len(call.data) /\ hw \in Engine /\ hw.rx = <<>>
      /\ Chunk \in Nat /\ Chunk > 0 /\ off + Chunk <= Len(call.data) /\ At \in Nat
  BY <1>1, Programming
<1>3. ret \in Codes /\ moved \in Nat /\ budget \in Nat /\ out \in Seq(Cell)
  BY DEF LlInv, CallOK, CountersOK
<1>4. CASE FillFails
  BY <1>2, <1>3, <1>4, Returned DEF FillFails, Codes
<1>5. ASSUME UNCHANGED <<call, off, out, ret>>, pc' \in {"fill", "poll"}, moved' \in Nat,
             budget' \in Nat, moved' <= Chunk, hw' \in Engine, hw'.rx = <<>>
      PROVE  LlInv'
  <2>1. CallOK'
    <3>1. ~ Refused(call')
      BY <1>2, <1>5
    <3> QED  BY <1>2, <1>3, <1>5, <3>1 DEF CallOK, OpsAt
  <2>2. Chunk' = Chunk
    BY <1>5 DEF Chunk, At
  <2>3. CountersOK' /\ RxOK'
    BY <1>2, <1>3, <1>5, <2>2 DEF CountersOK, RxOK
  <2> QED  BY <1>5, <2>1, <2>3 DEF LlInv, HwOK
<1>6. CASE ProgramEnable
  <2>1. hw' \in Engine /\ hw'.rx = <<>>
    BY <1>2, <1>6, EngineStep DEF ProgramEnable
  <2>2. budget' \in Nat
    BY <1>2, <1>6, TurnsEnough DEF ProgramEnable
  <2> QED  BY <1>2, <1>5, <1>6, <2>1, <2>2 DEF ProgramEnable
<1>7. CASE FillByte
  <2>1. moved < Chunk /\ hw' = WriteDin(hw, call.data[off + moved + 1]) /\ moved' = moved + 1
        /\ budget > 0 /\ budget' = budget - 1 /\ pc' = "fill"
        /\ UNCHANGED <<call, off, out, ret>>
    BY <1>7 DEF FillByte, FillLoop
  <2>2. call.data[off + moved + 1] \in Cell
    <3>1. off + moved + 1 \in 1 .. Len(call.data)
      BY <1>2, <1>3, <2>1, CallTypes
    <3> QED  BY <1>2, <3>1, CallTypes, ElementOfSeq
  <2>3. hw' \in Engine /\ hw'.rx = <<>>
    BY <1>2, <2>1, <2>2, WriteDinEffect
  <2> QED  BY <1>2, <1>3, <1>5, <2>1, <2>3
<1>8. CASE FillTick
  <2>1. moved < Chunk /\ hw' = EngineTick(hw) /\ moved' = moved
        /\ budget > 0 /\ budget' = budget - 1 /\ pc' = "fill"
        /\ UNCHANGED <<call, off, out, ret>>
    BY <1>8 DEF FillTick, FillLoop
  <2>2. hw' \in Engine /\ hw'.rx = <<>>
    BY <1>2, <2>1, EngineStep
  <2> QED  BY <1>2, <1>3, <1>5, <2>1, <2>2
<1>9. CASE ProgramChunk
  <2>1. hw' = StartProgram(hw, At, Chunk) /\ moved' = moved /\ moved = Chunk
        /\ pc' = "poll" /\ budget' = ProgBudget /\ UNCHANGED <<call, off, out, ret>>
    BY <1>9 DEF ProgramChunk
  <2>2. hw' \in Engine /\ hw'.rx = <<>>
    BY <1>2, <2>1, StartProgramEffect
  <2>3. ProgBudget \in Nat
    BY DriverAssumption
  <2> QED  BY <1>2, <1>3, <1>5, <2>1, <2>2, <2>3
<1> QED  BY <1>4, <1>6, <1>7, <1>8, <1>9

LEMMA EraseInv ==
  ASSUME LlInv, EraseStart
  PROVE  LlInv'
<1>1. pc = "erase" /\ pc' = "poll" /\ hw' = StartErase(StartWren(hw), call.addr)
      /\ UNCHANGED <<call, off, moved, budget, out, ret>>
  BY DEF EraseStart, locals, progress
<1>2. /\ call \in Calls /\ call.op = "erase" /\ ~ Refused(call) /\ hw \in Engine
      /\ hw.rx = <<>>
  BY <1>1 DEF LlInv, HwOK, CallOK, RxOK, OpsAt
<1>3. hw' \in Engine /\ hw'.rx = <<>>
  <2>1. StartWren(hw) \in Engine /\ StartWren(hw).rx = <<>>
    BY <1>2, EngineStep
  <2> QED  BY <1>1, <1>2, <2>1, CallTypes, StartEraseEffect
<1>4. CallOK'
  <2>1. ~ Refused(call')
    BY <1>1, <1>2
  <2> QED  BY <1>1, <1>2, <2>1 DEF LlInv, CallOK, OpsAt
<1>5. CountersOK' /\ RxOK'
  BY <1>1, <1>2, <1>3 DEF LlInv, CountersOK, RxOK
<1> QED  BY <1>3, <1>4, <1>5 DEF LlInv, HwOK

LEMMA PollInv ==
  ASSUME LlInv, PollReady \/ PollAgain \/ PollTimeout
  PROVE  LlInv'
<1>1. pc = "poll"
  BY DEF PollReady, PollAgain, PollTimeout
<1>2. /\ call \in Calls /\ call.op \in {"program", "erase", "wait"} /\ ~ Refused(call)
      /\ hw \in Engine /\ hw.rx = <<>> /\ ret \in Codes
      /\ off \in Nat /\ moved \in Nat /\ budget \in Nat /\ out \in Seq(Cell)
  BY <1>1 DEF LlInv, HwOK, CallOK, CountersOK, RxOK, OpsAt
<1>3. Polled \in Engine /\ Polled.rx = <<>>
  BY <1>2, PollEffect DEF Polled
<1>4. CASE PollTimeout
  BY <1>2, <1>3, <1>4, Returned DEF PollTimeout, Codes
<1>5. CASE PollReady /\ Return("OK")
  BY <1>2, <1>3, <1>5, Returned DEF PollReady, Codes
<1>6. CASE PollReady /\ call.op = "program" /\ off + Chunk < Len(call.data)
  <2>1. pc' = "wren" /\ off' = off + Chunk /\ hw' = Polled
        /\ UNCHANGED <<call, moved, budget, ret, out>>
    BY <1>6 DEF PollReady
  <2>2. Chunk \in Nat
    BY <1>1, <1>6, Programming
  <2>3. CallOK'
    <3>1. ~ Refused(call')
      BY <1>2, <2>1
    <3> QED  BY <1>2, <1>6, <2>1, <3>1 DEF CallOK, OpsAt
  <2>4. CountersOK' /\ RxOK'
    BY <1>2, <1>3, <1>6, <2>1, <2>2 DEF CountersOK, RxOK
  <2> QED  BY <1>3, <2>1, <2>3, <2>4 DEF LlInv, HwOK
<1>7. CASE PollAgain
  <2>1. pc' = "poll" /\ hw' = EngineTick(Polled) /\ budget > 0 /\ budget' = budget - 1
        /\ UNCHANGED <<call, off, moved, out, ret>>
    BY <1>1, <1>7 DEF PollAgain
  <2>2. hw' \in Engine /\ hw'.rx = <<>>
    BY <1>3, <2>1, EngineStep
  <2>3. CallOK'
    <3>1. ~ Refused(call')
      BY <1>2, <2>1
    <3> QED  BY <1>2, <2>1, <3>1 DEF CallOK, OpsAt
  <2>4. CountersOK' /\ RxOK'
    BY <1>2, <2>1, <2>2 DEF LlInv, CountersOK, RxOK
  <2> QED  BY <2>2, <2>3, <2>4 DEF LlInv, HwOK
<1> QED  BY <1>4, <1>5, <1>6, <1>7 DEF PollReady

LEMMA DrainInv ==
  ASSUME LlInv, DrainByte \/ DrainTick \/ DrainEnd
  PROVE  LlInv'
<1>1. pc = "drain"
  BY DEF DrainByte, DrainTick, DrainLoop, DrainEnd
<1>2. /\ call \in Calls /\ call.op = "read" /\ ~ Refused(call) /\ call.n \in Nat
      /\ hw \in Engine /\ ret \in Codes
      /\ off = 0 /\ moved \in Nat /\ budget \in Nat /\ out \in Seq(Cell)
  BY <1>1, CallTypes DEF LlInv, HwOK, CallOK, CountersOK, OpsAt
<1>3. Len(hw.rx) \in Nat /\ Len(hw.rx) <= budget /\ moved + Len(hw.rx) <= call.n
  BY <1>1, <1>2 DEF LlInv, RxOK, Engine, Fifo
<1>4. CASE DrainEnd
  <2>1. Len(hw.rx) = 0
    BY <1>2, <1>3, <1>4 DEF DrainEnd, Drained
  <2>2. hw.rx = <<>>
    BY <1>2, <2>1, EmptySeq DEF Engine, Fifo
  <2>3. Return("OK") \/ Return("EIO")
    BY <1>4 DEF DrainEnd
  <2> QED  BY <1>2, <1>4, <2>2, <2>3, Returned DEF DrainEnd, Codes
<1>5. ASSUME DrainLoop, hw' \in Engine, moved' \in Nat, out' \in Seq(Cell),
             Len(hw'.rx) <= budget', moved' + Len(hw'.rx) <= call.n
      PROVE  LlInv'
  <2>1. UNCHANGED <<pc, call, off, ret>> /\ budget' = budget - 1 /\ budget > 0
    BY <1>5 DEF DrainLoop
  <2>2. CallOK'
    <3>1. ~ Refused(call')
      BY <1>2, <2>1
    <3> QED  BY <1>1, <1>2, <2>1, <3>1 DEF CallOK, OpsAt
  <2>3. CountersOK' /\ RxOK'
    BY <1>1, <1>2, <1>5, <2>1 DEF CountersOK, RxOK
  <2> QED  BY <1>5, <2>2, <2>3 DEF LlInv, HwOK
<1>6. CASE DrainByte
  <2>1. /\ DrainLoop /\ RxAvail(hw) /\ hw' = ReadDout(hw) /\ out' = Append(out, Dout(hw))
        /\ moved' = moved + 1 /\ budget' = budget - 1
    BY <1>6 DEF DrainByte, DrainLoop
  <2>2. hw' \in Engine /\ Dout(hw) \in Cell /\ Len(hw'.rx) = Len(hw.rx) - 1
    BY <1>2, <2>1, ReadDoutEffect
  <2>3. out' \in Seq(Cell)
    BY <1>2, <2>1, <2>2
  <2>4. Len(hw'.rx) <= budget' /\ moved' + Len(hw'.rx) <= call.n /\ moved' \in Nat
    <3> DEFINE l == Len(hw.rx)
               m == Len(hw'.rx)
    <3>1. l \in Nat /\ l <= budget /\ moved + l <= call.n /\ m = l - 1
      BY <1>3, <2>2
    <3> HIDE DEF l, m
    <3>2. budget' = budget - 1 /\ moved' = moved + 1
      BY <2>1
    <3>3. m <= budget' /\ moved' + m <= call.n /\ moved' \in Nat
      BY <1>2, <3>1, <3>2
    <3> QED  BY <3>3 DEF m
  <2> QED  BY <1>5, <2>1, <2>2, <2>3, <2>4
<1>7. CASE DrainTick
  <2>1. /\ DrainLoop /\ ~ RxAvail(hw) /\ hw' = EngineTick(hw) /\ out' = out
        /\ moved' = moved /\ budget > 0 /\ budget' = budget - 1
    BY <1>7 DEF DrainTick, DrainLoop
  <2>2. hw' \in Engine /\ hw'.rx = hw.rx /\ Len(hw.rx) = 0
    BY <1>2, <2>1, EngineStep DEF RxAvail
  <2> QED  BY <1>2, <1>3, <1>5, <2>1, <2>2
<1> QED  BY <1>4, <1>6, <1>7

LEMMA LlInvStep == LlInv /\ [Next]_vars => LlInv'
<1> SUFFICES ASSUME LlInv, [Next]_vars PROVE LlInv'
  OBVIOUS
<1>1. CASE Next
  BY <1>1, ClientInv, ProgramInv, EraseInv, PollInv, DrainInv DEF Next, Driver
<1>2. CASE UNCHANGED vars
  BY <1>2 DEF vars, LlInv, HwOK, CallOK, CountersOK, RxOK, Chunk, At, Refused, OutOfBounds
<1> QED  BY <1>1, <1>2

(* In every run a call is where its operation belongs and within its data, *)
(* and RX holds at most what a read has still to take and turns to take.   *)
THEOREM LlInvariant == Spec => []LlInv
<1>1. Init => LlInv
  BY LlInvInit
<1>2. LlInv /\ [Next]_vars => LlInv'
  BY LlInvStep
<1> QED  BY <1>1, <1>2, PTL DEF Spec

(* The registers of the driver and of the engine keep their types, FIFOs   *)
(* their capacity, and only bytes are handed to the client.                *)
THEOREM LlTypeCorrect == Spec => []TypeOK
<1>1. LlInv => TypeOK
  <2> SUFFICES ASSUME LlInv PROVE TypeOK
    OBVIOUS
  <2>1. /\ hw.dev \in Device /\ hw.tx \in Seq(Cell) /\ Len(hw.tx) <= FifoCap
        /\ hw.rx \in Seq(Cell) /\ Len(hw.rx) <= FifoCap
    BY DEF LlInv, HwOK, Engine, Fifo
  <2>2. /\ pc \in {"idle", "wren", "fill", "erase", "poll", "drain"}
        /\ call.op \in Ops \cup {"none"} /\ ret \in Codes
    BY DEF LlInv, CallOK, OpsAt, Ops
  <2>3. moved \in Nat /\ budget \in Nat /\ out \in Seq(Cell)
    BY DEF LlInv, CountersOK
  <2>4. off \in 0 .. Len(call.data)
    <3>1. Len(call.data) \in Nat
      <4>1. CASE pc = "idle"
        BY <4>1 DEF LlInv, CallOK, NoCall
      <4>2. CASE pc # "idle"
        BY <4>2, CallTypes DEF LlInv, CallOK
      <4> QED  BY <4>1, <4>2
    <3> QED  BY <3>1 DEF LlInv, CountersOK
  <2> QED  BY <2>1, <2>2, <2>3, <2>4 DEF TypeOK, Device
<1> QED  BY <1>1, LlInvariant, PTL

(* Whatever a read left undone, no byte of it is there when a call begins  *)
(* or the status is polled: a poll's answer is the status (flash_ll.c:31). *)
THEOREM StatusNeverStale == Spec => []RxDrained
<1>1. LlInv => RxDrained
  BY DEF LlInv, RxOK, RxDrained
<1> QED  BY <1>1, LlInvariant, PTL

-----------------------------------------------------------------------------
(* The cells a call may change.                                            *)

Kept == \A x \in Addr \ Footprint : hw'.dev.mem[x] = hw.dev.mem[x]

(* The one step of a program that reaches the array.                       *)
LEMMA ChunkKeeps ==
  ASSUME MemSize <= AddrSpace, LlInv, ProgramChunk
  PROVE  Kept
<1>1. pc = "fill" /\ hw' = StartProgram(hw, At, Chunk)
  BY DEF ProgramChunk
<1>2. /\ call \in Calls /\ call.op = "program" /\ ~ Refused(call)
      /\ off \in Nat /\ off < Len(call.data) /\ hw \in Engine
      /\ Chunk \in Nat /\ Chunk > 0 /\ off + Chunk <= Len(call.data) /\ At \in Nat
  BY <1>1, Programming
<1>3. call.addr \in Nat /\ call.n = Len(call.data) /\ Len(call.data) \in Nat
  BY <1>2, CallTypes
<1>4. OnBus(At) = At
  <2>1. call.addr + Len(call.data) <= MemSize
    BY <1>2, NotRefused
  <2>2. MemSize \in Nat /\ AddrSpace \in Nat
    BY DriverAssumption, EngineAssumption
  <2>3. At < AddrSpace
    BY <1>2, <1>3, <2>1, <2>2 DEF At
  <2> QED  BY <1>2, <2>3, BusAddress
<1>5. At .. (At + Chunk - 1) \subseteq Footprint
  <2>1. Footprint = call.addr .. (call.addr + call.n - 1)
    BY <1>2 DEF Footprint
  <2>2. At = call.addr + off
    BY DEF At
  <2> QED  BY <1>2, <1>3, <2>1, <2>2, SMTT(20)
<1>6. \A x \in Addr \ (At .. (At + Chunk - 1)) : hw'.dev.mem[x] = hw.dev.mem[x]
  <2>1. \A x \in Addr \ (OnBus(At) .. (OnBus(At) + Chunk - 1)) :
          StartProgram(hw, At, Chunk).dev.mem[x] = hw.dev.mem[x]
    BY <1>2, StartProgramEffect
  <2> QED  BY <1>1, <1>4, <2>1
<1> QED  BY <1>5, <1>6 DEF Kept

LEMMA EraseKeeps ==
  ASSUME MemSize <= AddrSpace, LlInv, EraseStart
  PROVE  Kept
<1>1. pc = "erase" /\ hw' = StartErase(StartWren(hw), call.addr)
  BY DEF EraseStart
<1>2. call \in Calls /\ call.op = "erase" /\ ~ Refused(call) /\ hw \in Engine
  BY <1>1 DEF LlInv, HwOK, CallOK, OpsAt
<1>3. call.addr \in Nat /\ OnBus(call.addr) = call.addr
  <2>1. call.addr < MemSize /\ call.addr \in Nat
    BY <1>2, CallTypes, NotRefused
  <2>2. MemSize \in Nat /\ AddrSpace \in Nat
    BY DriverAssumption, EngineAssumption
  <2> QED  BY <2>1, <2>2, BusAddress
<1>4. StartWren(hw) \in Engine /\ StartWren(hw).dev.mem = hw.dev.mem
  BY <1>2, EngineStep
<1>5. \A x \in Addr \ (EraseBase(call.addr) .. (EraseBase(call.addr) + SectorSize - 1)) :
        hw'.dev.mem[x] = hw.dev.mem[x]
  BY <1>1, <1>3, <1>4, StartEraseEffect
<1>6. Footprint = EraseBase(call.addr) .. (EraseBase(call.addr) + SectorSize - 1)
  BY <1>2 DEF Footprint
<1> QED  BY <1>5, <1>6 DEF Kept

(* All other steps leave the array alone.                                  *)
LEMMA OthersLeaveArray ==
  ASSUME LlInv, Next, ~ ProgramChunk, ~ EraseStart
  PROVE  hw'.dev.mem = hw.dev.mem
<1>1. hw \in Engine
  BY DEF LlInv, HwOK
<1>2. CASE Client
  <2>1. PICK c \in Calls :
          \/ Refuse(c) \/ Program(c) \/ SectorErase(c) \/ Read(c) \/ WaitBusy(c)
          \/ Rdsr(c) \/ Wren(c)
    BY <1>2 DEF Client
  <2>2. CASE Read(c)
    <3>1. hw' = StartRead(hw, c.addr, c.n)
      BY <2>2 DEF Read
    <3> QED  BY <3>1 DEF StartRead, Engine
  <2>3. CASE Rdsr(c)
    <3>1. hw' = ReadDout(StartRdsr(hw)) /\ hw.rx = <<>>
      BY <2>3 DEF Rdsr, LlInv, RxOK
    <3> QED  BY <1>1, <3>1, PollEffect
  <2>4. CASE Wren(c)
    BY <1>1, <2>4, EngineStep DEF Wren
  <2>5. CASE Refuse(c) \/ Program(c) \/ SectorErase(c) \/ WaitBusy(c)
    BY <2>5 DEF Refuse, Program, SectorErase, WaitBusy
  <2> QED  BY <2>1, <2>2, <2>3, <2>4, <2>5
<1>3. CASE ProgramEnable
  BY <1>1, <1>3, EngineStep DEF ProgramEnable
<1>4. CASE FillByte
  BY <1>1, <1>4 DEF FillByte, WriteDin, Engine
<1>5. CASE FillTick \/ DrainTick
  BY <1>1, <1>5, EngineStep DEF FillTick, DrainTick
<1>6. CASE FillFails \/ DrainEnd
  BY <1>6 DEF FillFails, DrainEnd
<1>7. CASE PollReady \/ PollAgain \/ PollTimeout
  <2>1. pc = "poll"
    BY <1>7 DEF PollReady, PollAgain, PollTimeout
  <2>2. hw.rx = <<>>
    BY <2>1 DEF LlInv, RxOK
  <2>3. Polled \in Engine /\ Polled.dev = hw.dev
    BY <1>1, <2>2, PollEffect DEF Polled
  <2>4. EngineTick(Polled).dev.mem = Polled.dev.mem
    BY <2>3, EngineStep
  <2> QED  BY <1>7, <2>3, <2>4 DEF PollReady, PollAgain, PollTimeout
<1>8. CASE DrainByte
  BY <1>1, <1>8, ReadDoutEffect DEF DrainByte
<1> QED  BY <1>2, <1>3, <1>4, <1>5, <1>6, <1>7, <1>8 DEF Next, Driver

(* A call changes no cell but those it programs, or the sector it erases:  *)
(* with FIFOs and buffers of any size, with bytes a failed program left    *)
(* behind, on a device that is late, or of another geometry.               *)
THEOREM FootprintKept ==
  ASSUME MemSize <= AddrSpace
  PROVE  Spec => OthersKept
<1>1. LlInv /\ [Next]_vars
        => [\A x \in Addr \ Footprint : hw'.dev.mem[x] = hw.dev.mem[x]]_vars
  <2> SUFFICES ASSUME LlInv, Next
               PROVE  \A x \in Addr \ Footprint : hw'.dev.mem[x] = hw.dev.mem[x]
    OBVIOUS
  <2>1. Kept
    BY ChunkKeeps, EraseKeeps, OthersLeaveArray DEF Kept
  <2> QED  BY <2>1 DEF Kept
<1> QED  BY <1>1, LlInvariant, PTL DEF Spec, OthersKept
=============================================================================
