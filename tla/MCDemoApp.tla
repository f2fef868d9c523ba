----------------------------- MODULE MCDemoApp -----------------------------
(***************************************************************************)
(* A small instance of DemoApp: three byte values, words and names of two  *)
(* bytes, one free byte between the boot counter and the fields.  --size   *)
(* is not the default size: a dump at 7 lies within the EEPROM, and beyond *)
(* the size that the shell takes it to have.                               *)
(***************************************************************************)
EXTENDS DemoApp

MCCommands ==
  { [op |-> o] : o \in {"info", "help", "bad", "quit", "format"} }
  \cup { [op |-> "read", addr |-> a, n |-> 2] : a \in {4, 7} }
  \cup { [op |-> "dump", addr |-> a, n |-> 1] : a \in {2, 7, 9} }
  \cup { [op |-> "dumprest", addr |-> a] : a \in {4, 8, 9} }
  \cup { [op |-> "boot", inc |-> b] : b \in BOOLEAN }
  \cup { [op |-> "get", key |-> k] : k \in {"name", "baud", "mode"} }
  \cup { [op |-> "setname", name |-> s] : s \in {<<1>>, <<2, 1>>, <<1, 1, 1>>} }
  \cup { [op |-> "set", key |-> "baud", value |-> 4], [op |-> "set", key |-> "mode", value |-> 1] }
  \cup { [op |-> "write", addr |-> a, data |-> <<1, 1>>] : a \in {1, 7} }
=============================================================================
