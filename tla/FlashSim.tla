------------------------------ MODULE FlashSim ------------------------------
(***************************************************************************)
(* The simulated flash device of sw/flash_ll/sim/src/flash_sim.c: a NOR    *)
(* array behind a write-enable latch, which is busy for some ticks after   *)
(* every program and erase.  A device is a record [mem, wip, wel, busy],   *)
(* and every command is an operator from devices to devices.               *)
(***************************************************************************)
EXTENDS NorFlash, FiniteSetsExt

CONSTANTS
  ProgTicks,    (* prog_busy_ticks                                         *)
  EraseTicks    (* erase_busy_ticks                                        *)

ASSUME TicksAssumption == ProgTicks \in Nat /\ EraseTicks \in Nat

NewDevice == [mem |-> ErasedArray, wip |-> FALSE, wel |-> FALSE, busy |-> 0]

StatusByte(d) == (IF d.wip THEN 1 ELSE 0) + (IF d.wel THEN 2 ELSE 0)

(* One tick: the last one of a busy period clears WIP.                     *)
DeviceTick(d) ==
  CASE d.busy > 1 -> [d EXCEPT !.busy = @ - 1]
    [] d.busy = 1 -> [d EXCEPT !.busy = 0, !.wip = FALSE]
    [] OTHER      -> d

(* The latch is set whether the device is busy or not.                     *)
WriteEnable(d) == [d EXCEPT !.wel = TRUE]

ReadCells(d, a, n) ==
  [i \in 1 .. Min({n, Max({FlashSize - a, 0})}) |-> d.mem[a + i - 1]]

(* A program or an erase is carried out only by an enabled, idle device.   *)
Accepts(d, a) == ~ d.wip /\ d.wel /\ a < FlashSize

StartBusy(d, mem, ticks) ==
  [d EXCEPT !.mem = mem, !.wip = TRUE, !.wel = FALSE, !.busy = ticks]

(* The cells of one page; what reaches past its end is dropped.            *)
PageProgram(d, a, cells) ==
  IF Accepts(d, a) /\ cells # <<>>
    THEN StartBusy(d, Programmed(d.mem, a, cells, Min({Len(cells), PageSize - (a % PageSize)})),
                   ProgTicks)
    ELSE d

EraseSector(d, a) ==
  IF Accepts(d, a) THEN StartBusy(d, Erased(d.mem, a, SectorSize), EraseTicks) ELSE d
=============================================================================
