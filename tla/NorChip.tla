------------------------------ MODULE NorChip ------------------------------
(***************************************************************************)
(* What the flash chip is to whoever commands it: an array behind a write  *)
(* latch, which is set only while the chip is idle, and which every        *)
(* program and erase needs and uses up.  The array changes in no other     *)
(* way.  The HDL device is such a chip.                                    *)
(***************************************************************************)
EXTENDS NorFlash

VARIABLES
  mem,          (* the array                                               *)
  wel,          (* the write enable latch                                  *)
  busy          (* a program or an erase is under way                      *)

vars == <<mem, wel, busy>>

Init == mem = ErasedArray /\ ~ wel /\ ~ busy

Enable == ~ busy /\ wel' /\ UNCHANGED <<mem, busy>>

Use == wel /\ ~ busy

Taken == ~ wel' /\ busy'

(* Some cells of one page lose bits, in one step or in several, of which   *)
(* the last one uses up the latch.  An erase outside the array is a        *)
(* program of nothing.                                                     *)
Program ==
  /\ Use
  /\ \A x \in Addr : \E v \in Cell : mem'[x] \in {mem[x], BitAnd(mem[x], v)}
  /\ \A x, y \in Addr :
       mem'[x] # mem[x] /\ mem'[y] # mem[y] => x \div PageSize = y \div PageSize
  /\ DOMAIN mem' = Addr
  /\ Taken \/ UNCHANGED <<wel, busy>>

EraseSector ==
  /\ Use /\ Taken
  /\ \E a \in Addr : mem' =
       [x \in Addr |-> IF x \div SectorSize = a \div SectorSize THEN Blank ELSE mem[x]]

Ready == busy /\ ~ busy' /\ UNCHANGED <<mem, wel>>

Reset == mem' = ErasedArray /\ ~ wel' /\ ~ busy'

Next == Enable \/ Program \/ EraseSector \/ Ready \/ Reset

Spec == Init /\ [][Next]_vars
=============================================================================
