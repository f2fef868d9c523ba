------------------------------ MODULE MCEeprom ------------------------------
(***************************************************************************)
(* Small instances of Eeprom.  Cells are numbers: 0 .. Blank are bit       *)
(* patterns with the real AND, larger ones are tokens (the magics and the  *)
(* checksums) of which only equality and being erased matter.              *)
(***************************************************************************)
EXTENDS Eeprom, Bitwise, SequencesExt

MCBlank == 63
MCSectorMagic == 64
MCRecMagic == 65
Garbage == 66       (* what is left of two different tokens                *)
MCCell == 0 .. 1023

(* AND of two cells: patterns by bits, equal tokens unchanged, a token     *)
(* over an erased cell unchanged, any other mixture is garbage.            *)
MCAnd(a, b) ==
  CASE a = b                        -> a
    [] a = MCBlank                  -> b
    [] b = MCBlank                  -> a
    [] a < MCBlank /\ b < MCBlank   -> a & b
    [] OTHER                        -> Garbage

Hash(cells) == 67 + (FoldLeft(LAMBDA h, c : (h * 31 + c + 1) % 953, 7, cells))

(* The checksum over everything, its own field included, as the code has   *)
(* it.  A CRC-32 taken again over a header that now holds it differs       *)
(* from it, except for the records whose checksum is zero; no input of     *)
(* these instances is one of those.                                        *)
SelfCrc(cells) == Hash(cells)

(* The checksum of a header and its data that leaves out its own field:    *)
(* the guard the log is designed around.                                   *)
FieldCrc(cells) ==
  IF Len(cells) < RecLen THEN Hash(cells) ELSE Hash([cells EXCEPT ![5] = 0])

TwoWrites == {[addr |-> 0, data |-> <<1>>], [addr |-> 1, data |-> <<2, 63>>]}
OneWrite  == {[addr |-> 1, data |-> <<5, 2>>]}
=============================================================================
