# A verification project for the EEPROM emulation and its flash stack

This directory models the repository's flash stack in TLA+, checks the models
with TLC and proves theorems about the EEPROM emulation, the driver, the VHDL
flash device and the demo program with TLAPS. It is meant to be read beside the
code: `PROJECT.json` names, for every definition, the lines it stands for.

## 1. The system

    app/src/main.rs                 demo CLI and REPL
      └─ sw/rust/eeprom_emul        EEPROM emulation: byte array over a two-sector log
           └─ trait Flash (sw/rust/flash_core)
                ├─ sw/rust/flash_mock         array in memory
                └─ sw/rust/flash_ll           safe wrapper
                     └─ sw/flash_ll/src       C driver: WREN, RDSR, READ, PP, SE
                          └─ sw/flash_ll/sim  AXI-Lite SPI engine + flash device, in C
    hdl/src/spi_flash.vhd           the flash device as VHDL, tested on its own

Everything down to the simulated device is synchronous and single-threaded: a
call runs to its end before the next one starts. What makes the system hard is
not threads. It is that a flash call can fail after any part of its work, that
power can go at any instant and the next mount has to cope with what is left on
flash, that cells can only lose bits until their sector is erased, that a device
stays busy after a call and silently ignores what it is sent meanwhile, and that
layers communicate through FIFOs in which bytes can be left behind. Only the HDL
device has real concurrency: its busy counter runs on a clock of its own while
bits are shifted on the clock of the SPI master.

| component | state | operations | what makes it correct |
|---|---|---|---|
| EEPROM emulation | flash; in RAM: active and scratch base, `seq`, `state`, `wptr` | mount (`init_or_format`, `replay_log`), `read`, `write` (`ensure_space`, `compact`, append) | a write is atomic for the client; a mount recovers what was acknowledged; a program stays in its sector and off the acknowledged log; the newer sector can always be told; a mount never fails or formats without need; every call ends |
| Flash trait | the array | `read`, `program`, `sector_erase` | Ok means done, an error means some first part was done |
| mock flash | the array | same | AND on program, erase of the aligned sector, error out of bounds |
| C driver | the call being served and its loop budgets | init, read, program, sector erase, rdsr, wren, wait_busy | implements the trait; never issues a command the device ignores; leaves FIFOs and latch clean; loops end |
| SPI engine | TX and RX FIFO | START of a command, DIN, DOUT, tick | FIFO bytes belong to the command they were meant for |
| flash device (C) | array, WIP, WEL, busy ticks | WREN, RDSR, READ, PP, SE, tick | accepts only when enabled and idle; page bound; busy ends |
| flash device (HDL) | the same, plus SPI shift state and start strobes | edges of CS, SCLK and clk, reset | a transaction does what the same command does in C; a read puts out every bit once; a sampled status is not stale; no other way into the array |
| demo app | layout of boot counter and settings in the EEPROM; the command in hand and its writes | the commands of the shell and of the command line | a get shows what was set; a format cut short has reset a first part of the fields; every command is answered |

`PROJECT.json` lists the hazards of each with their lines.

## 2. The modules

| module | models | kind |
|---|---|---|
| `NorFlash` | the array: programming ANDs, erasing blanks, with a length that says how far a call got | operators and the assumptions on cells and geometry |
| `Eeprom` | `eeprom_emul/src/lib.rs` on such an array, with faults | state machine |
| `EepromStore` | what the EEPROM promises a client | abstract specification |
| `EepromProofs` | theorems about `Eeprom`: structure, under all faults | proofs |
| `EepromRecovery` | that `Eeprom` implements `EepromStore` as far as mounts recover; mounts after a loss of power | proofs |
| `EepromRestart` | that clean restarts lose nothing before a record is rejected, whatever the checksum | proofs |
| `FlashSim` | `flash_sim.c` | operators on device records |
| `AxiSpiSim` | `axi_spi_sim.c` | operators on the engine and its device |
| `FlashLl` | `flash_ll.c` driving them | state machine |
| `FlashLlProofs` | theorems about `FlashLl`, any configuration | proofs |
| `FlashLlMatched` | theorems about a driver that matches its device | proofs |
| `NorDevice` | what the trait `Flash` promises | abstract specification |
| `SpiFlash` | `spi_flash.vhd`, edge by edge | state machine |
| `NorChip` | what a flash chip promises whoever commands it | abstract specification |
| `SpiFlashProofs` | theorems about `SpiFlash`: registers and the two processes | proofs |
| `SpiFlashFrames` | theorems about what `SpiFlash` makes of the bits of a frame | proofs |
| `DemoApp` | `app/src/main.rs` on an EEPROM as `EepromStore` promises it | state machine |
| `DemoAppProofs` | theorems about `DemoApp` | proofs |
| `MCEeprom`, `MCFlashLl`, `MCSpiFlash`, `MCDemoApp` | small instances for TLC | |

`Eeprom` sees its flash as `NorFlash` operators whose call may fail after any
first part of its cells. That is what `NorDevice` allows a backend, and
`FlashLl` is shown to implement `NorDevice`, so the driver stack is a backend of
the kind `Eeprom` was checked on. One floor up, `Eeprom` is shown to implement
`EepromStore`, and `DemoApp` runs on `EepromStore`. One floor down, `SpiFlash`
is shown to do, transaction by transaction, what `FlashSim` does command by
command, a WREN while busy excepted (`LikeFlashSim`), and to be a `NorChip`; the
two device models of the repository are written independently and no test
compares them.

    DemoApp ──on──> EepromStore <──implements── Eeprom ──on──> NorFlash with faults
                                                                   ^ allows
                          NorDevice <──implements── FlashLl on AxiSpiSim on FlashSim
                                                                              | agrees with
                                             NorChip <──implements── SpiFlash

### Eeprom

A step is everything the library does between two calls on the flash; `pc`
names the flash call that comes next.

| code | actions |
|---|---|
| `new_with_flash`, `init_or_format` | `Open`, `OpenFails`, `FormatEraseA`, `FormatEraseB`, `FormatHeader` |
| `replay_log` | `ReplayRecord` (one turn of the loop), `ReplayEnd`, `ReplayFails` |
| `write` up to `ensure_space` | `Write(r)`, which goes to the append or to the compaction |
| `compact` | `CompactErase`, `CompactHeader`, `CompactRecord`, `CompactSnapshot` (last program and swap of roles) |
| rest of `write` | `AppendHeader`, `AppendData` |
| `read` | `Read` |
| the `?` on a flash call | `Fails`: after k of the call's cells, the error goes to the client (from `write`) or ends the constructor |
| drop and re-open | `Restart` |
| loss of power | `PowerLoss`: between calls (`crash`), or after k cells of one (`tear`) |

The write with an address out of range is an early return that changes nothing
and is not a step. The record header is built in `Write`, before a compaction
changes `seq`, as in the code; the compaction returns into the append without a
second look at the space, as in the code.

*Units.* One cell holds a 32-bit header field or a data byte, so a sector header
has two cells (its two reserved words are never read back) and a record header
five. What is lost is a tear inside a 32-bit field and the exact sizes; the
order of fields, the padding, and every comparison with a size are kept.
Unwritten memory decodes to `Blank`, larger than any array, as 0xFFFFFFFF is.

*History.* `store` is the contents the client has been promised: those of the
last acknowledged write, or those found at the last mount.

*Checksum.* `Crc` is a constant. The code computes it over a header with a zero
in the checksum field when it writes, and over the header as stored when it
replays. `MCEeprom` has two values: `SelfCrc` depends on the field, as the
CRC-32 of the code does, and `FieldCrc` does not. With `SelfCrc` no record is
ever replayed (finding 1), so what lies behind the checksum could never go
wrong; `FieldCrc` is the guard the log is designed around and shows that the
rest of the recovery is right. The theorems hold for every `Crc`.

### FlashLl, AxiSpiSim, FlashSim

A step of `FlashLl` is one turn of a loop of the driver or the code between two
loops; the client may make any call of the API when the driver is idle. Time
passes only where the driver calls `tick`, as in the simulation.

| code | actions |
|---|---|
| argument checks, `check_oob` | `Refuse` |
| `flash_ll_program` | `Program`, then per chunk `ProgramEnable`, `FillByte`/`FillTick`/`FillFails` (`tx_write_all`), `ProgramChunk` |
| `flash_ll_sector_erase` | `SectorErase`, `EraseStart` |
| `flash_ll_wait_busy` | `WaitBusy` when called by the client; `PollReady`, `PollAgain`, `PollTimeout` |
| `flash_ll_read` | `Read`, `DrainByte`, `DrainTick`, `DrainEnd` |
| `flash_ll_rdsr`, `flash_ll_wren` | `Rdsr`, `Wren` |

The driver's own geometry (`MemSize`, `DrvPage`) and the device's (`FlashSize`,
`PageSize`) are separate constants, as they are separate structures in the code.

### SpiFlash

A step is one edge: of CS, of SCLK, of clk, or of `reset_n`.

| code | actions |
|---|---|
| `spi_proc`, CS falls | `CsFall` |
| rising SCLK, `rx_bitcnt` not at the last bit | `PartOfByte` in `SclkRise` |
| rising SCLK, a whole byte: the `case st` | `CommandByte` (`WrenByte`, `RdsrByte`, `AddressedByte`, `OtherByte`), `AddressByte` (`StartRead`, `StartProgram`, `StartEraseWait`), `ReadDataByte`, `ProgramByte`, `IgnoredByte` |
| falling SCLK | `OutStatus`, `OutRead`, `OutReadPastEnd`, `OutNothing` in `SclkFall` |
| CS rises | `CsRise` with `EndProgram`, `EndErase` or `EndOther` |
| `busy_proc` | `ClkEdge` with `BusyStart` or `BusyCount` |
| `reset_n` | `Reset`, at any moment |

Which of the code's names are signals and which are process variables matters:
a condition on a signal sees its value before the edge, one on a variable sees
the assignment above it. Where WIP rises the strobes are cleared one delta
cycle later, which is the same step here. An index outside `mem` ends a VHDL
simulation: `st = "ABORT"`, and nothing happens any more; the runs of this
module therefore do not ask for a successor of every state.

*History.* `memAt` and `welAt` are the array and the latch as they were when CS
fell, `wipAt` is WIP as it was when the command byte was whole. With them, a
whole transaction can be compared with one step of the C simulation, write
latch included.

The master is not in the repository (only a test bench is), so it is any master
that speaks SPI mode 0 with the given frames and raises CS after whatever bit it
likes. It does one thing for the device: it leaves CS high until clk has ticked,
which `hdl/README.md` asks of it.

### DemoApp

A process starts with a fresh mock flash, formatted, and either carries out one
command or becomes the shell. A command is a sequence of writes; each is asked
of the EEPROM and succeeds or fails, and the first failure ends the command.
Bytes are digits of base `Blank + 1`, so that erased bytes decode as they do in
the code (`u32::MAX` for a boot counter never set), lines that do not parse are
one command, and what is printed is the bytes printed.

| code | actions |
|---|---|
| `main`, `run_repl`, `readline` | `Cli`, `Repl`, `NewMockFails`, `Type`, `Exit`, `Quit` |
| `info`, `help`, unknown or malformed lines | `PrintFixed`, `Bad` |
| `read`, `kv get`, `boot` | `ReadCmd`, `Get`, `Boot` |
| `dump`, with a length or without | `Dump`, `DumpUnderflow` (`DumpPanics`, `DumpWraps`) |
| `write`, `kv set`, `boot --inc`, `format` | `Write`, `SetName`, `SetBaud`, `SetMode`, `BootInc`, `FormatNew`, `FormatFields`, and for each write `AskWrite`, `RefuseWrite`, `WriteOk`, `WriteFails` |

The default length of a dump is the argument of an `unwrap_or`, so the
subtraction is made for every dump. Where it underflows, the build decides: with
overflow checks the process panics, without them the length wraps.

*History.* `promised` holds for each field what its user expects to get back,
nothing for a field that a raw `write` touched or a failed `format` left
unclear; `before` is the contents when the command began.

## 3. What is checked

All instances are exhaustive. "Faults" are the kinds of fault enabled.

| run | instance | shows |
|---|---|---|
| `eeprom_session` | 22-cell sectors, `Size` 3, two writes, `MaxSeq` 2, device errors | `TypeOK`, `IInv`, `WriteStaysInSector`, `LogKept`, `ImplementsStore`, `AnswersAsStore` while any flash call may fail anywhere and the client goes on |
| `eeprom_clean` | 28-cell sectors, the array ending with the second, two writes, `MaxSeq` 4, restarts, `FieldCrc` | `RestartRecovers`, `AppendsOnBlank`, `MountFailsOnlyAtEnd`, `EveryCallReturns`, `ImplementsStore` across restarts |
| `eeprom_tear` | 26-cell sectors, one write, `MaxSeq` 3, restarts, power loss between calls and inside them | `IInv`, `HeadersDistinct`, `RestartPicksActive`, `NeverReformatted`, `MountFailsOnlyTorn` |
| `ll_session` | 8-byte device, 2-byte pages, 4-byte sectors, matching driver | `NothingIgnored`, `CleanAfterOk`, `OkMeansProgrammed`, `ImplementsNor`, `AnswersAsNor` over every sequence of 16 calls |
| `ll_narrow` | FIFO of 3 for pages of 4, engine buffer of 2, driver configured for 10 bytes, programs slower than the time-out | `TypeOK`, `RxDrained`, `OthersKept`, `EveryCallReturns` on the error paths |
| `spi_session` | 3-bit bytes, 2-byte addresses, 16-byte array, 2-byte pages, 8-byte sectors, busy 1 and 2 ticks, 11 frames | `TypeOK`, `ReadStreams`, `ReadyMeansIdle`, `LikeFlashSim`, `AbortsOnlyPastEnd`, `BusyEnds`, `ImplementsChip` |
| `app_session` | 8-byte EEPROM where the default is 6, words and names of 2 bytes, a free byte between counter and fields, dumps inside and beyond both sizes | `TypeOK`, `ShowsPromised`, `FormatInOrder`, `CommandAnswered` with writes that fail anywhere |

The sizes are small but every case happens. A sector holds a snapshot and two or
three records, so append, the full sector, compaction, compaction of the
compacted sector and the swap back to the first sector all occur; `MaxSeq` is at
least 2, so both sectors have been active, and 3 or 4 where restarts compare
sequence numbers. In `eeprom_clean` two records and the snapshot fill a sector
to less than a header before its end, so that replay does run into the end of
the array. A tear after 0 cells is a loss of power before the call, so that
`eeprom_tear` has power lost at every instant a cell can tell. `Size` 3 is not a
multiple of 4 and the two writes have different lengths, so the padding matters.
In the driver's instance programs stay in a page, cross into a second and a
third, overlap, and run past the end. The frames of the HDL instance program a
page, program over it, run past a page's end and past the array, erase both
sectors, read two bytes and read over the end; each may be cut after any of its
bits, so programs without data, erases without an address and half bytes are
among them. Three bits hold the command codes and two status bits with one to
spare; two address bytes are enough for an address to be incomplete. Where the
app's EEPROM is 8 bytes, a raw write can touch one field, two fields, or none,
and a name can be short, full or too long.

*Bounds.* `MaxSeq` stops `Write` from starting a compaction beyond that sequence
number. Nothing else is bounded: replayed logs, FIFOs and budgets are finite by
themselves, a frame has so many bits, a command at most four writes. In
`eeprom_session` the compaction bound is reached with errors interrupting it
anywhere.

*Fairness.* `WF(Running)`: once the library has been called, its code keeps
running until the call returns. `WF(Driver)` is the same for the driver and
`WF(Program)` for the demo program. `WF(ClkEdge)` says that the clock of the HDL
device runs, whatever the master does. No fairness is asked of the client, the
SPI master, the user, of restarts or of faults. The C and Rust code is
synchronous, with nothing to wait for except the device, whose ticks are the
driver's own steps. `EveryCallReturns` then rests on the program's loops being
bounded: replay always advances, polls and FIFO loops count down.

*Refinement.* `EepromStore` is a byte array with atomic writes: `val` is the
contents in RAM while the object exists and the promised contents while it does
not. A failed write must leave `val` alone, and a mount must bring it back.
`eeprom_session` checks it with errors and without restarts, `eeprom_clean` with
restarts; with power loss it fails for the reasons in the next section.
`NorDevice` serves one call at a time, whose work takes effect piece by piece;
`ImplementsNor` maps a chunk to done when its program has started. Both
specifications have a safety and a liveness part: `Implements...` is the first,
which is also proved, `AnswersAs...` (every request is answered) the second.
`NorChip` is an array behind a write latch that is set only while the chip is
idle and used up by a program within one page or an erase of one sector;
`ImplementsChip` maps its `busy` to "WIP, or a strobe that waits for the clock",
so it says that the window between CS rising and the next tick is never used.

### What the code does otherwise

| run | property | what happens |
|---|---|---|
| `eeprom_crc_restart` | `RestartRecovers` | the checksum is stored over a zero field and compared over the filled one, so a restart finds no record and the contents come up blank |
| `eeprom_torn_header` | `MountSucceeds` | a record header cut after its magic announces 0xFFFFFFFF bytes; reading them fails, and so does every mount from then on |
| `eeprom_half_compaction` | `FreshSectorHasSnapshot` | the new sector's header is valid before its snapshot is there; a power loss in between makes the next mount choose it, empty |
| `spi_wren_busy` | `SameAsFlashSim` | a WREN that comes while the device is busy sets the latch in the C simulation and not in the HDL, though `sw/README.md` says that the simulation "mirrors the HDL model's behavior" and `sw/flash_ll/README.md` "same rules as HDL" |
| `spi_testbench` | `TestbenchReads` | the device puts the first bit of a read out right after the address, as `hdl/README.md` says; the test bench clocks it away and reads every byte one bit late |

The first one is why power-loss recovery of *data* is not stated as a property
that holds: with the code's checksum nothing is recovered, and the third shows
that with a repaired checksum a compaction cut short would still lose the log.
What does hold under power loss is the structure: valid headers, distinct
numbers, no spurious format, bounds. The last one is not a fault of the device:
`ReadStreams`, the device's own documentation, holds; and the wave file in
`src/hdl` ends at the assertion that follows from it.

Some properties hold only where a configuration or a caller keeps a rule the
code does not enforce. Except for the shell's dump, the repository promises
nothing else there, so these are limits, not findings; each can be seen by
changing a run:

- *Sizes.* `new_with_flash` accepts sizes up to two sectors (`lib.rs:55`), but a
  compacted sector must hold a snapshot and a record. With `Size = 8` in
  `eeprom_session`, `WriteStaysInSector` fails.
- *Empty writes.* `write` accepts an empty slice and appends a record of length
  0, at which replay stops (`lib.rs:129`): the records behind it are lost at the
  next restart, with the repaired checksum as well.
- *The end of the array.* Replay reads a whole record header wherever the log
  ends (`lib.rs:123`). If the second sector is the last of the array, as it is
  for every array the repository makes (`new_mock`, the wrapper's 8192 bytes),
  and fewer cells than a header are left behind its log, that read is out of
  bounds and the mount fails. `eeprom_clean` has such an array, the mount does
  fail there, and `MountFailsOnlyAtEnd` says that in clean restarts this is the
  one way to fail. With the code's checksum, replay never gets that far.
- *Errors in a compaction.* After a device error between the new sector's header
  and the swap of roles the object goes on in the old sector while a mount would
  pick the new one. `RestartPicksActive` is checked and proved for power losses;
  with `"ioerr"` in the `Faults` of `eeprom_tear` it fails.
- *Time-outs.* After a program that timed out the device is still busy; the next
  one is dropped by the device (`axi_spi_sim.c:86`), the driver waits for WIP to
  clear and returns OK. With `ProgTicks = 4` in `ll_session`, `NothingIgnored`
  and `OkMeansProgrammed` fail.
- *Erases with an incomplete address.* The HDL device erases the sector of
  whatever address bytes it got. `LikeFlashSim` compares this with an erase in C
  at the address those bytes make (`EraseAddr`); the engine in C cannot be given
  such a command.
- *The last byte.* Reading the HDL array to the end of its last byte looks up
  the byte after it and ends the simulation; `AbortsOnlyPastEnd` says that
  nothing else does.
- *No busy cycles.* With 0 busy cycles WIP never clears, in C and in VHDL.
- *The shell's dump.* It takes the default size for the size of the EEPROM
  (`main.rs:256`), although `app/README.md` calls the shell an "Interactive shell
  providing the same commands" and offers `--size` "to any command". With a larger
  EEPROM it leaves out the end when no length is given, and an offset beyond the
  default underflows, whether a length is given or not, although the bytes are
  there; on the command line (`main.rs:99`) an offset beyond the size does. What
  follows is a panic or a wrapped length, depending on the build. The model does
  all of this; there is no property about what a dump shows, as it would only
  repeat the subtraction.
- *The first boot.* On a fresh EEPROM the counter reads `u32::MAX` and the first
  `boot --inc` makes it 0. Every command of the command line has a fresh EEPROM,
  so what one invocation sets no other one gets; `promised` begins anew with
  each process.

### Mutants

Definitions marked `(* mutant *)` are broken variants of the definition below
them (a guard dropped, a length not padded, a wait left out). `PROJECT.json`
pairs each checked property with one that breaks it.

## 4. What is proved

### The EEPROM

`EepromProofs` proves, for every geometry, checksum, AND, set of requests and
set of faults:

| theorem | statement |
|---|---|
| `Inductive` | `Spec => []IInv` |
| `TypeCorrect` | `Spec => []TypeOK` |
| `SectorBounds` | `Spec => []WriteStaysInSector` |
| `DistinctHeaders` | `Spec => []HeadersDistinct` |
| `LogIsKept` | `Spec => LogKept` |
| `HeaderSurvives` | `Spec => NeverReformatted` |
| `RestartFindsActive` | `Spec => []RestartPicksActive`, if the device has no errors of its own |

*Assumptions.* `WellConfigured`: the layout fits (`Fits`: aligned sectors inside
the array, room in a sector for header, snapshot and one record of any size),
and `Crc` yields a cell. The code checks neither; that the first is needed is
seen in section 3. Of AND only three facts are used, in
`CellAssumption`: it yields a cell, an erased cell takes the value, and a value
programmed a second time stays.

*Argument.* `IInv` adds to the type invariant what each property needs of the
states in which it is not visible:

- `MountedInv`: while an object exists the active sector's header is valid and
  holds `seq`, and `wptr` is behind the header;
- `CompactInv`: the scratch header is blank when it is about to be programmed
  and holds `seq + 1` afterwards;
- `FormatInv`: a format runs only while no header is valid;
- `RequestInv`: an append has its space;
- `SeqBounded`: a sequence field is erased or at most `MaxSeq`, so `seq + 1` is
  never mistaken for blank;
- `HeadersDistinct` itself.

One lemma, `CallEffect`, says what k cells of any flash call do to the two
headers; completion, failure and power loss are the cases k = all and k = any.
One lemma per group of actions then shows that it keeps `IInv`, `NextInv`
collects them, and the theorems follow. `RestartFindsActive` needs one more
invariant, `ScratchOlder`: outside a compaction the scratch header is invalid
or older. A device error in the middle of a compaction breaks it, since the
object then goes on in the old sector while the scratch header is newer; hence
its hypothesis. A power loss does not, because the object is gone.

`EepromRecovery` proves the refinement of the store, and mounts under the
checksum the code has:

| theorem | statement |
|---|---|
| `RecoveryImplementsStore` | `Spec /\ []RestartRecovers => ImplementsStore`, for all faults and no other hypothesis |
| `SessionImplementsStore` | `Spec => ImplementsStore`, if the configuration fits (`WellConfigured`) and the faults are at most device errors |
| `MountsAfterPowerLoss` | `Spec /\ []NonePasses => []MountSucceeds`, if the faults are at most restarts and power losses between calls (`PowerLossOnly`, and `"tear" \notin Faults`) |
| `FailsOnlyTorn` | `Spec /\ []NonePasses => MountFailsOnlyTorn`, if power may be lost inside calls as well (`PowerLossOnly`) |

The first says that a mount is the one place where the promise to the client can
be broken: errors, power losses and compactions at any point keep it. `Promised`
(inside a session the contents in RAM are those promised) is all it needs. In
the second there is one mount, of a flash just formatted: `FirstMount` follows
it from the erased sector to a replay that ends at once, with blank contents,
whatever the checksum is.

`MountsAfterPowerLoss` and `FailsOnlyTorn` are about the code as it is.
`NonePasses` says that no record replay looks at passes the checksum, which the
code computes over a header that already holds it (section 3, first finding). A
header would pass by chance, one in 2^32; none does in any state of
`eeprom_tear`. `PowerLossOnly` adds that AND does not make a length longer
(`LengthAnd`), which holds of bitwise AND. What could go wrong is that replay
finds a length that leads out of the array. The first record of a sector is
written again by every object that mounts, so its fields are an AND of fields of
several records, each perhaps cut short; `MountInv` keeps that the length there
is either erased or at most `Size`, that it is erased only along with the magic
word if no call was ever cut (`FirstRecord`), and that replay, which no record
passes, never gets to another record. The one length that leads out is then the
erased one behind a magic word, which is `MountFailsOnlyTorn`.

`EepromRestart` proves the recovery itself, under `CleanRestarts`: the
configuration fits, no call fails and power is not lost, and writes are not
empty. Nothing is assumed of the checksum. Instead the theorems say how far the
log holds: `Rejects` is the step in which replay has read a whole record and
the check refuses it, and `UntilRejected` describes all behaviours up to the
first such step (`Init /\ [][Next /\ ~Rejects]_vars`).

| theorem | statement |
|---|---|
| `CleanRestartsRecover` | `UntilRejected => [](RestartRecovers \/ Rejects)` |
| `CleanImplementsStore` | `UntilRejected => ImplementsStore` |
| `WritesOnBlank` | `UntilRejected => []AppendsOnBlank` |
| `FailsOnlyAtEnd` | `UntilRejected => MountFailsOnlyAtEnd` |

So on a device that keeps its word, the check is the only thing that can lose
what was written: a mount brings the contents back or its replay stands at a
record it rejects. **With the checksum of the code that happens at the first
mount that finds a record** (section 3, first finding); what the theorems cover
there is everything up to and including that mount. With a checksum such as
`FieldCrc` no record is rejected in any state of `eeprom_clean`, and the lemma
`NoneRejected` (`Spec /\ []~Rejects => UntilRejected`) turns each theorem into one
about every behaviour. `FailsOnlyAtEnd` needs no spare cells behind the second
sector: it says of every array where alone a mount can fail.

*Argument.* What replay computes is a recursion over the log. The invariant,
`RestartInv`, needs no induction over it: a *point* is an offset and the
contents replay has there; a record at a point *leads* to the next one; a log is
a set of points that holds the start and the end, and a successor for each of
its points but the end (`Log`). Replay walks such a set one step at a time: each
turn of its loop goes from a point of the set to the one its record leads to
(`Leads` has one value, because the header determines the length and the data).
An append adds a point and one link to it, a compaction starts a new set with
two points, and a program or an erase elsewhere leaves a log alone. At the end
behind which all is erased replay finds no record, and the contents there are
the promised ones.

### The driver

`FlashLlProofs` proves, for every geometry of device and driver, FIFO capacity,
engine buffer, time-out, busy time and set of calls:

| theorem | statement |
|---|---|
| `LlInvariant` | `Spec => []LlInv` |
| `LlTypeCorrect` | `Spec => []TypeOK` |
| `StatusNeverStale` | `Spec => []RxDrained` |
| `FootprintKept` | `Spec => OthersKept`, if `MemSize <= AddrSpace` |

*Assumptions.* Only those of the constants' types, and that a status byte is a
byte. `FootprintKept` needs that the bus can address what the driver is
configured for (the code does not check it: the address is cut to 24 bits at
`flash_ll.c:23`). A driver whose pages, size or time-outs do not match
its device is included, and so are bytes that a failed program left in TX.

*Argument.* RX is empty between two calls because a read's loop has at least as
many turns as it asked for bytes, and every turn takes a byte as long as there
is one: `RxOK` keeps "bytes in RX <= turns left" and "taken + in RX <= asked
for". So when the loop ends, by either end, RX is empty, and a poll, which
pushes one byte and takes one, finds its own. For the footprint, `StartProgram`
hands the device at most `Chunk` bytes whatever TX holds, and `CountersOK` keeps
chunks inside the data.

`FlashLlMatched` proves, for a driver that is configured for its device:

| theorem | statement |
|---|---|
| `MatchedInvariant` | `Spec => []MatchInv` |
| `StartsAreTaken` | `Spec => NothingIgnored` |
| `OkIsClean` | `Spec => CleanAfterOk` |
| `OkIsProgrammed` | `Spec => OkMeansProgrammed` |
| `DriverIsNor` | `Spec => ImplementsNor` |

*Assumptions.* `Matched`: the driver's array lies inside the device and on the
bus, its page is the device's and fits the FIFO and the engine's buffer, and its
time-outs are at least the busy times, which are at least one tick. The code
checks none of it; `sim_main.c` and the Rust wrapper's defaults satisfy it
(pages and buffer of 256 bytes, FIFOs of 1024; 4 and 64 ticks against budgets of
100000 and 1000000).

*Argument.* `DeviceOK` counts down the device's busy ticks against the driver's
remaining polls, so a poll never times out and the device is idle when a chunk
begins; it also keeps the latch: set while a chunk is put into TX, used up by
its program. `TxOK` says that TX holds exactly the first bytes of the chunk in
hand, hence that the engine programs this chunk and nothing else; `DataOK`
collects the chunks. Its step uses the third fact about AND (programming twice
changes nothing more). For the refinement, each step of the driver is mapped to
`Ask`, `ProgramMore`, `EraseNow`, `Succeed`, `Fail`, `NoEffect` or a stutter of
`NorDevice`.

### The HDL device

`SpiFlashProofs` proves, for every width of a byte and of an address, every
geometry, every AND, every set of frames and every number of busy cycles:

| theorem | statement |
|---|---|
| `SpiInvariant` | `Spec => []SpiInv` |
| `SpiTypeCorrect` | `Spec => []TypeOK`: every register keeps its width, counters stay in their VHDL ranges |
| `SpiImplementsChip` | `Spec => ImplementsChip` |

*Assumptions.* `SpiAssumption` (the five command bytes differ, frames are
sequences of bytes), `DeviceAssumption` (no page ends at the top of the address
space, there are busy cycles), the assumptions of `NorFlash`, and `PowersOfTwo`:
the provers know nothing of powers, so that 2^0 is 1 and 2^i is a positive number
that doubles with i is stated, for the exponents that occur, and TLC evaluates
it.

*Argument.* `SpiInv` is the type invariant and three facts that tie the two
processes together: `LatchOff` (the write latch is never set while the device is
busy or about to be), `GapKept` (no transaction runs while a strobe waits) and
`Deselected` (between transactions the state machine is back at IDLE).
`LatchOff` is what makes the chip's guard hold: a byte that is programmed and an
erase are under the latch, hence not while busy. It is kept because WREN looks
at WIP and because, by `GapKept`, WIP tells the whole truth while a transaction
runs; the test of WIP in `ProgramByte` is then redundant and the missing one in
`EndErase` harmless, which is not obvious from the code. `SpiInvStep` has one
lemma per edge. For the refinement one lemma per edge says which step of the
chip it is; `SameSector` is the arithmetic that turns the device's range of
addresses into the sector of the chip.

`SpiFlashFrames` proves, from the same assumptions, what the device makes of a
frame:

| theorem | statement |
|---|---|
| `FrameInvariant` | `Spec => []FrameInv` |
| `AbortsPastEnd` | `Spec => []AbortsOnlyPastEnd` |
| `ReadyIsIdle` | `Spec => ReadyMeansIdle` |
| `ReadsStreamArray` | `Spec => ReadStreams` |
| `TransactionsAsSimulated` | `Spec => LikeFlashSim` |

*Argument.* `FrameInv` gives every register as a function of the frame and of the
number of bits sent. `BitsInv`: the shift register holds the leading bits of the
byte in hand, so the eighth edge sees the byte. `StateInv`: the state follows
from the first byte and the number of bytes. `AddrInv`: the address register
holds the address bytes so far, modulo the address space; that three of them
come to `FrameAddr` exactly, though the register drops its top byte with each
shift, is `BytePowers` and the lemmas after it. `StreamInv` ties the index of the
bit that goes out to the count of those that come in, for both levels of SCLK;
`ReadInv` and `StatusInv` say what is on the wire, the latter that a ready bit is
still true half a period after it was put out, which holds because by `LatchOff`
and `GapKept` nothing can start while the transaction runs. `ProgramInv` gives
the array while a page is programmed: the first bytes of the data, at most what
the page has room for, each ANDed once into what was there. A transaction may
end at any bit; `TransactionsAsSimulated` compares what is there then, array,
busy flag and latch, with what `FlashSim` makes of the array and the latch at the
start of the transaction: `PageProgram`, `EraseSector` with as much address as
there was, or `WriteEnable`. `LatchInv` says how the latch follows from these. A
WREN that found the device busy is the one case in which the two differ, so the
statement has that case as an exception, and `spi_wren_busy` shows that it
cannot do without.

Facts about an address of any number of bytes need an induction. The induction
rules of the library take an operator and cannot be used by the installed
provers; `NatSet` replaces them: a *set* that holds 0 and the successor of each
of its members holds all naturals. It follows from the library's theorem that <
is well founded, and the sets are defined by comprehension.

### The demo program

`DemoAppProofs` proves, for every size, every place of the fields behind the
boot counter, every width of words and names and every set of commands:

| theorem | statement |
|---|---|
| `AppInvariant` | `Spec => []AppInv` |
| `AppTypeOK` | `Spec => []TypeOK` |
| `GetShowsPromised` | `Spec => ShowsPromised` |
| `FormatResetsInOrder` | `Spec => FormatInOrder` |

*Assumptions.* `AppAssumption` types the constants and says that a command is
one of those a line can parse to (`CommandType`). `PowersOfBase` states the two
equations of powers for the exponents that occur, as `PowersOfTwo` does. That
words and their little-endian bytes are one to one, for every width of a word,
is proved (`Encodings`), by induction over the bytes with `NatSet`.

*Argument.* `WritesInv` says which writes may be in hand: the one write of the
command, as computed from the contents when it began, or the writes of a format
from the j-th on, the first j fields being reset and all other bytes unchanged
(`ResetTo`). `PromiseInv` says that between commands every field that fits
decodes to what its user expects (`Kept`). That it is kept rests on the layout
(`FieldUntouched`, `OtherField`: a write of one field leaves the bytes of the
others) and on the encodings (`FieldDatas`; `NameRoundTrip`: a name filled up
with zeros comes back as it was, whatever longer name was there before). A
field that does not fit the EEPROM is never shown, so nothing is promised of it.

### Only model-checked

- Liveness: `EveryCallReturns`, `AnswersAsNor`, `AnswersAsStore`, `BusyEnds`,
  `CommandAnswered`. The prover has no rule for fairness that applies here.

- Recovery when no record is rejected: that `FieldCrc` rejects none is a fact of
  the run `eeprom_clean`; the theorems stop at the first rejected record.

Nothing is stated of a repaired checksum with power losses: mixed records may
then pass or not, which is a property of the CRC-32 and not of the log.

## 5. What is not modelled

- Bytes inside a header field, hence a tear inside one; the CRC-32 algorithm.
- 32-bit wrap of `addr + len` and of sequence numbers.
- An EEPROM `base` that is not a sector boundary (`Fits` excludes it).
- In the driver: NULL arguments, a backend without `tick`, `mem_size` above
  16 MiB (the address mask is there, no instance exceeds it).
- In the HDL: metavalues on the wires, report statements, `page_limit_addr` of
  the page that ends at 2^24 (excluded by `DeviceAssumption`), a master that
  gives the device no clk edge between two transactions.
- In the test bench: its fixed scenario, which is one behaviour of `SpiFlash`.
- In the demo program: the text of commands and messages; a shell line is split
  at white space, so a name with a space in it cannot be set there.
- Ownership of the simulated environment in the Rust wrapper (`Driver`,
  `SimEnv`), `geometry()`, which nothing calls; bindings and build scripts,
  which have no behaviour; the tests, whose scenarios are behaviours of the
  models.

## 6. Plan

1. Recovery under a repaired checksum when power is lost between two calls: what
   must be assumed of a checksum so that a record that was cut short, or two that
   were written over each other, does not pass.
2. The driver on the HDL device: `LikeFlashSim` and `ImplementsNor` meet at
   `FlashSim`; a statement that joins them needs the SPI master in hardware,
   which the repository does not have.
