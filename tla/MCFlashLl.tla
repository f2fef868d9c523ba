----------------------------- MODULE MCFlashLl -----------------------------
(***************************************************************************)
(* Small instances of FlashLl: two-bit bytes and an array of eight.        *)
(***************************************************************************)
EXTENDS FlashLl, Bitwise

MCCell == 0 .. 3
MCBlank == 3
MCAnd(a, b) == a & b

Asked(op, addr, data, n) == [op |-> op, addr |-> addr, data |-> data, n |-> n]
ProgramOf(addr, data) == Asked("program", addr, data, Len(data))

(* Programs inside a page and across two and three pages, over each other; *)
(* calls at the end of the array, beyond it, and of length zero.           *)
MCCalls ==
  { ProgramOf(1, <<1, 2, 1, 2>>), ProgramOf(2, <<2>>), ProgramOf(6, <<1, 1>>),
    ProgramOf(7, <<1, 1>>), ProgramOf(0, <<>>),
    Asked("erase", 5, <<>>, 0), Asked("erase", 1, <<>>, 0), Asked("erase", 8, <<>>, 0),
    Asked("read", 0, <<>>, 4), Asked("read", 5, <<>>, 3), Asked("read", 5, <<>>, 4),
    Asked("read", 0, <<>>, 0),
    Asked("rdsr", 0, <<>>, 0), Asked("wren", 0, <<>>, 0),
    Asked("wait", 0, <<>>, 0), Asked("wait", 0, <<>>, 2) }
=============================================================================
