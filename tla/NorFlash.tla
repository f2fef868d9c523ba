------------------------------ MODULE NorFlash ------------------------------
(***************************************************************************)
(* A NOR flash array as the code sees it: a cell can lose 1 bits when it   *)
(* is programmed (the new value is ANDed into it) and gets them back only  *)
(* when the whole sector is erased.                                        *)
(*                                                                         *)
(* A cell holds one byte for the driver and the flash simulation; for the  *)
(* EEPROM it holds one item of the on-flash format, a 32-bit header field  *)
(* or one data byte.  The array is [Addr -> Cell]; programming and erasing *)
(* are operators from arrays to arrays, with a length k that says how far  *)
(* the call got, so that the same operator serves a call that completes,   *)
(* one that fails part-way and one cut by a power loss.                    *)
(***************************************************************************)
EXTENDS Integers, Sequences

CONSTANTS
  FlashSize,    (* number of cells of the array (geometry.mem_size)        *)
  PageSize,     (* page of the program loop (geometry.page_size)           *)
  SectorSize,   (* erase unit (geometry.sector_size)                       *)
  Cell,         (* the values a cell can hold                              *)
  Blank,        (* the erased value, all bits one                          *)
  BitAnd(_, _)  (* bitwise AND of two cell values                          *)

ASSUME GeometryAssumption ==
  /\ FlashSize \in Nat \ {0}
  /\ PageSize \in Nat \ {0}
  /\ SectorSize \in Nat \ {0}

(* All that is assumed of AND: it stays among the cell values, an erased   *)
(* cell takes the programmed value, and programming a value twice is       *)
(* programming it once.                                                    *)
ASSUME CellAssumption ==
  /\ Cell \subseteq Nat
  /\ Blank \in Cell
  /\ \A a, b \in Cell : BitAnd(a, b) \in Cell
  /\ \A a \in Cell : BitAnd(Blank, a) = a /\ BitAnd(a, a) = a
  /\ \A a, b \in Cell : BitAnd(BitAnd(a, b), b) = BitAnd(a, b)

Addr == 0 .. (FlashSize - 1)

ErasedArray == [a \in Addr |-> Blank]

(* Is a call for n cells at a inside the array?                            *)
InArray(a, n) == a + n <= FlashSize

(* The array after the first k cells of a program call at a.               *)
Programmed(mem, a, cells, k) ==
  [x \in Addr |-> IF x \in a .. (a + k - 1)
                    THEN BitAnd(mem[x], cells[x - a + 1])
                    ELSE mem[x]]

(* An address is erased with the aligned sector it lies in.                *)
EraseBase(a) == (a \div SectorSize) * SectorSize

(* The array after the first k cells of that sector have been erased.      *)
Erased(mem, a, k) ==
  [x \in Addr |-> IF x \in EraseBase(a) .. (EraseBase(a) + k - 1)
                    THEN Blank
                    ELSE mem[x]]

(* How far the page loop of the mock gets with n cells at a: it programs   *)
(* page by page and bails out at the first chunk that ends outside.        *)
PagesInArray(a, n) ==
  LET lastPageEnd == (FlashSize \div PageSize) * PageSize
  IN IF InArray(a, n) THEN n
     ELSE IF lastPageEnd > a THEN lastPageEnd - a ELSE 0
=============================================================================
