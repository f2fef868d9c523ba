------------------------------- MODULE FlashLl -------------------------------
(***************************************************************************)
(* The low-level driver of sw/flash_ll/src/flash_ll.c on its simulated SPI *)
(* engine.  A call of the API runs to its end before the next one; a step  *)
(* is one turn of a loop of the driver, or the code between two loops.     *)
(* Time passes only where the driver calls tick.                           *)
(***************************************************************************)
EXTENDS AxiSpiSim

CONSTANTS
  MemSize, DrvPage,   (* cfg.mem_size and cfg.page_size of the driver,     *)
                      (* which may differ from those of the device         *)
  ProgBudget,         (* polls of WIP after a program, 100000 in the code  *)
  EraseBudget,        (* and after an erase, 1000000                       *)
  FifoFactor, FifoSlack,   (* a FIFO loop of n bytes takes at most         *)
                      (* n * 8 + 1024 turns                                *)
  Calls               (* the calls a client may make, [op, addr, data, n]  *)

Ops == {"program", "erase", "read", "rdsr", "wren", "wait"}

ASSUME DriverAssumption ==
  /\ MemSize \in Nat \ {0} /\ DrvPage \in Nat \ {0}
  /\ ProgBudget \in Nat /\ EraseBudget \in Nat
  /\ FifoFactor \in Nat \ {0} /\ FifoSlack \in Nat
  /\ \A c \in Calls : /\ c.op \in Ops /\ c.addr \in Nat /\ c.n \in Nat
                      /\ c.data \in Seq(Cell) /\ (c.op = "program" => c.n = Len(c.data))

VARIABLES
  hw,           (* the engine and the device                               *)
  pc,           (* where the driver is; idle between two calls             *)
  call,         (* the call being served                                   *)
  off,          (* bytes of a program that are behind us (addr, p)         *)
  moved,        (* bytes of this chunk, or of a read, through the FIFO     *)
  budget,       (* turns left in the loop                                  *)
  out,          (* the bytes handed to the client                          *)
  ret           (* the last return code                                    *)

vars == <<hw, pc, call, off, moved, budget, out, ret>>
progress == <<off, moved, budget>>
locals == <<call, progress>>

Codes == {"OK", "EINVAL", "EIO", "ETIME", "EOOB"}

NoCall == [op |-> "none", addr |-> 0, data |-> <<>>, n |-> 0]

(* flash_ll_init on a fresh engine.                                        *)
Init ==
  /\ hw = NewEngine /\ pc = "idle" /\ call = NoCall
  /\ off = 0 /\ moved = 0 /\ budget = 0
  /\ out = <<>> /\ ret = "OK"

(* The call returns, and its locals are gone.                              *)
Return(rc) ==
  /\ pc' = "idle" /\ ret' = rc
  /\ call' = NoCall /\ off' = 0 /\ moved' = 0 /\ budget' = 0

OutOfBounds(c) == c.addr >= MemSize \/ c.n > MemSize - c.addr

-----------------------------------------------------------------------------
(* Entry of a call.                                                        *)

(* A call whose arguments are refused has no other effect.                 *)
Refused(c) ==
  CASE c.op \in {"program", "read"} -> c.n = 0 \/ OutOfBounds(c)
    [] c.op = "erase"               -> c.addr >= MemSize
    [] OTHER                        -> FALSE

Refuse(c) ==
  /\ pc = "idle" /\ Refused(c)
  /\ Return(IF c.op # "erase" /\ c.n = 0 THEN "EINVAL" ELSE "EOOB")
  /\ out' = <<>> /\ UNCHANGED hw

(* A call is taken: its op, the place it starts at, and its loop's budget. *)
Enter(c, op, start, turns) ==
  /\ pc = "idle" /\ c.op = op /\ ~ Refused(c)
  /\ call' = c /\ pc' = start
  /\ off' = 0 /\ moved' = 0 /\ budget' = turns
  /\ out' = <<>> /\ UNCHANGED ret

FifoTurns(n) == n * FifoFactor + FifoSlack

Program(c) == Enter(c, "program", "wren", 0) /\ UNCHANGED hw

SectorErase(c) == Enter(c, "erase", "erase", EraseBudget) /\ UNCHANGED hw

Read(c) ==
  /\ Enter(c, "read", "drain", FifoTurns(c.n))
  /\ hw' = StartRead(hw, c.addr, c.n)

WaitBusy(c) == Enter(c, "wait", "poll", c.n) /\ UNCHANGED hw

Rdsr(c) ==
  /\ pc = "idle" /\ c.op = "rdsr"
  /\ hw' = ReadDout(StartRdsr(hw)) /\ out' = <<Dout(StartRdsr(hw))>>
  /\ Return("OK")

Wren(c) ==
  /\ pc = "idle" /\ c.op = "wren"
  /\ hw' = StartWren(hw) /\ out' = <<>>
  /\ Return("OK")

-----------------------------------------------------------------------------
(* flash_ll_program, chunk by chunk.                                       *)

At == call.addr + off

ChunkWholePage == Min({Len(call.data) - off, DrvPage})          (* mutant *)
Chunk == Min({Len(call.data) - off, DrvPage - (At % DrvPage)})

ProgramEnableOnce ==                                            (* mutant *)
  /\ pc = "wren" /\ pc' = "fill"
  /\ hw' = IF off = 0 THEN StartWren(hw) ELSE hw
  /\ moved' = 0 /\ budget' = FifoTurns(Chunk)
  /\ UNCHANGED <<call, off, out, ret>>
ProgramEnable ==
  /\ pc = "wren" /\ pc' = "fill"
  /\ hw' = StartWren(hw)
  /\ moved' = 0 /\ budget' = FifoTurns(Chunk)
  /\ UNCHANGED <<call, off, out, ret>>

FillLoop == pc = "fill" /\ moved < Chunk /\ budget > 0
            /\ budget' = budget - 1 /\ UNCHANGED <<pc, call, off, out, ret>>

FillByte == FillLoop /\ TxSpace(hw)
            /\ hw' = WriteDin(hw, call.data[off + moved + 1]) /\ moved' = moved + 1
FillTick == FillLoop /\ ~ TxSpace(hw)
            /\ hw' = EngineTick(hw) /\ UNCHANGED moved

(* The engine never took all the bytes: the ones it took stay in TX.       *)
FillFails == /\ pc = "fill" /\ moved < Chunk /\ budget = 0
             /\ Return("EIO") /\ UNCHANGED <<hw, out>>

ProgramNoWait ==                                                (* mutant *)
  /\ pc = "fill" /\ moved = Chunk
  /\ hw' = StartProgram(hw, At, Chunk)
  /\ IF off + Chunk < Len(call.data)
       THEN pc' = "wren" /\ off' = off + Chunk /\ UNCHANGED <<call, moved, budget, ret>>
       ELSE Return("OK")
  /\ UNCHANGED out
ProgramChunk ==
  /\ pc = "fill" /\ moved = Chunk
  /\ hw' = StartProgram(hw, At, Chunk)
  /\ pc' = "poll" /\ budget' = ProgBudget
  /\ UNCHANGED <<call, off, moved, out, ret>>

-----------------------------------------------------------------------------
(* flash_ll_sector_erase: the device aligns the address.                   *)

EraseStart ==
  /\ pc = "erase" /\ pc' = "poll"
  /\ hw' = StartErase(StartWren(hw), call.addr)
  /\ UNCHANGED <<locals, out, ret>>

-----------------------------------------------------------------------------
(* flash_ll_wait_busy: one poll of the status register.                    *)

Polled == ReadDout(StartRdsr(hw))
PolledBusy == Dout(StartRdsr(hw)) % 2 = 1

(* WIP is clear: the call ends, or its program goes on with the next page. *)
PollReady ==
  /\ pc = "poll" /\ ~ PolledBusy
  /\ hw' = Polled
  /\ IF call.op = "program" /\ off + Chunk < Len(call.data)
       THEN pc' = "wren" /\ off' = off + Chunk /\ UNCHANGED <<call, moved, budget, ret>>
       ELSE Return("OK")
  /\ UNCHANGED out

PollNoTick ==                                                   (* mutant *)
  /\ pc = "poll" /\ PolledBusy
  /\ hw' = Polled /\ UNCHANGED <<pc, locals, out, ret>>
PollAgain ==
  /\ pc = "poll" /\ PolledBusy /\ budget > 0
  /\ hw' = EngineTick(Polled) /\ budget' = budget - 1
  /\ UNCHANGED <<pc, call, off, moved, out, ret>>

PollTimeout ==
  /\ pc = "poll" /\ PolledBusy /\ budget = 0
  /\ hw' = Polled /\ Return("ETIME") /\ UNCHANGED out

-----------------------------------------------------------------------------
(* flash_ll_read: draining RX.                                             *)

DrainedOneShort == moved >= call.n - 1                          (* mutant *)
Drained == moved = call.n

DrainLoop == pc = "drain" /\ ~ Drained /\ budget > 0
             /\ budget' = budget - 1 /\ UNCHANGED <<pc, call, off, ret>>

DrainByte == DrainLoop /\ RxAvail(hw)
             /\ hw' = ReadDout(hw) /\ out' = Append(out, Dout(hw)) /\ moved' = moved + 1
DrainTick == DrainLoop /\ ~ RxAvail(hw)
             /\ hw' = EngineTick(hw) /\ UNCHANGED <<out, moved>>

DrainEnd == /\ pc = "drain" /\ (Drained \/ budget = 0)
            /\ Return(IF Drained THEN "OK" ELSE "EIO")
            /\ UNCHANGED <<hw, out>>

-----------------------------------------------------------------------------
Client == \E c \in Calls :
  Refuse(c) \/ Program(c) \/ SectorErase(c) \/ Read(c) \/ WaitBusy(c) \/ Rdsr(c) \/ Wren(c)

Driver == \/ ProgramEnable \/ FillByte \/ FillTick \/ FillFails \/ ProgramChunk
          \/ EraseStart \/ PollReady \/ PollAgain \/ PollTimeout
          \/ DrainByte \/ DrainTick \/ DrainEnd

Next == Client \/ Driver

(* A call that has been made keeps running; no client is obliged to call.  *)
Spec == Init /\ [][Next]_vars /\ WF_vars(Driver)

-----------------------------------------------------------------------------
(* Properties.                                                             *)

TypeOK ==
  /\ hw.dev \in [mem : [Addr -> Cell], wip : BOOLEAN, wel : BOOLEAN,
                 busy : 0 .. Max({ProgTicks, EraseTicks})]
  /\ hw.tx \in Seq(Cell) /\ Len(hw.tx) <= FifoCap
  /\ hw.rx \in Seq(Cell) /\ Len(hw.rx) <= FifoCap
  /\ pc \in {"idle", "wren", "fill", "erase", "poll", "drain"}
  /\ call.op \in Ops \cup {"none"} /\ ret \in Codes
  /\ off \in 0 .. Len(call.data) /\ moved \in Nat /\ budget \in Nat
  /\ out \in Seq(Cell)

(* The byte a status poll takes from DOUT is the status it asked for, never*)
(* a byte some earlier read left in the FIFO (flash_ll.c:31).              *)
RxDrained == pc \in {"idle", "poll"} => hw.rx = <<>>

(* The driver never starts a program or an erase that the device ignores,  *)
(* nor with other bytes in TX than those of the chunk: the engine would    *)
(* not tell (axi_spi_sim.c:86, :88).                                       *)
NothingIgnored ==
  /\ pc = "fill" => Accepts(hw.dev, OnBus(At)) /\ Len(hw.tx) = moved
  /\ pc = "erase" => ~ hw.dev.wip

(* After a program or erase that returns OK the device is idle, the write  *)
(* latch is clear, and nothing is left in a FIFO for the next call to find *)
(* (flash_ll.c:113, :128).                                                 *)
CleanAfterOk ==
  [][pc # "idle" /\ pc' = "idle" /\ ret' = "OK" /\ call.op \in {"program", "erase"} =>
       ~ hw'.dev.wip /\ ~ hw'.dev.wel /\ hw'.tx = <<>> /\ hw'.rx = <<>>]_vars

(* A program that returns OK has cleared every bit its data clears         *)
(* (flash_ll.c:118).                                                       *)
OkMeansProgrammed ==
  [][pc = "poll" /\ pc' = "idle" /\ ret' = "OK" /\ call.op = "program" =>
       \A i \in 1 .. Len(call.data) :
         LET cell == hw'.dev.mem[call.addr + i - 1]
         IN BitAnd(cell, call.data[i]) = cell]_vars

(* Whatever the configuration and whatever was left in the FIFOs, as long  *)
(* as the bus can address the array, a call changes no cell outside the    *)
(* bytes it programs or the sector it erases (flash_ll.c:102, :110).       *)
Footprint ==
  CASE call.op = "program" -> call.addr .. (call.addr + call.n - 1)
    [] call.op = "erase"   -> EraseBase(call.addr) .. (EraseBase(call.addr) + SectorSize - 1)
    [] OTHER               -> {}
OthersKept == [][\A x \in Addr \ Footprint : hw'.dev.mem[x] = hw.dev.mem[x]]_vars

(* Every call of the driver returns: its loops are bounded.                *)
EveryCallReturns == pc # "idle" ~> pc = "idle"

(* The wrapper of sw/rust/flash_ll turns every code but OK into an error.  *)
Result(rc) == IF rc = "OK" THEN "Ok" ELSE "Err"

(* The driver and its engine are a flash backend.  The chunk whose program *)
(* has started counts as done.                                             *)
Serving == IF pc # "idle" /\ call.op # "wait" THEN {call} ELSE {}

DoneSoFar ==
  CASE call.op = "program" -> IF pc = "poll" THEN off + Chunk ELSE off
    [] call.op = "erase"   -> IF pc = "poll" THEN 1 ELSE 0
    [] OTHER               -> 0

Got == IF pc = "idle" /\ ret = "OK" THEN out ELSE <<>>

Nor == INSTANCE NorDevice WITH
  mem <- hw.dev.mem, serving <- Serving, done <- DoneSoFar, answer <- Result(ret), got <- Got

(* What sw/rust/flash_core asks of a backend, and what the EEPROM assumes  *)
(* of its flash: programs whole or in part, erases, reads that return what *)
(* the array holds, and no answer that is not true.                        *)
ImplementsNor == Nor!Safety

(* And every program, erase and read that a client asks for is answered.   *)
AnswersAsNor == Nor!Answers
=============================================================================
