----------------------------- MODULE MCSpiFlash -----------------------------
(***************************************************************************)
(* A small instance of SpiFlash: three-bit bytes, two address bytes, an    *)
(* array of sixteen.                                                       *)
(***************************************************************************)
EXTENDS SpiFlash, Bitwise

MCCell == 0 .. 7
MCBlank == 7
MCAnd(a, b) == a & b

At(a) == <<a \div 8, a % 8>>

(* Programs of a page, over it again, across a page's end and beyond the   *)
(* array; erases of either sector; reads of two bytes, of the last one and *)
(* beyond; a byte that is no command.                                      *)
MCFrames ==
  { <<WREN>>, <<1>>, <<RDSR, 0, 0>>,
    <<PP>> \o At(8) \o <<5, 6>>, <<PP>> \o At(9) \o <<3, 1>>, <<PP>> \o At(16) \o <<0>>,
    <<SE>> \o At(10), <<SE>> \o At(1),
    <<READ>> \o At(8) \o <<0, 0>>, <<READ>> \o At(15) \o <<0>>, <<READ>> \o At(16) \o <<0>> }
=============================================================================
