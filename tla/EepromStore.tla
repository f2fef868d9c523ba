----------------------------- MODULE EepromStore -----------------------------
(***************************************************************************)
(* What the EEPROM promises its client: a byte array that a write changes  *)
(* in one piece, when it succeeds, or not at all, when it fails; that      *)
(* keeps its contents while it is down; and that answers every write.      *)
(***************************************************************************)
EXTENDS Integers, Sequences

CONSTANTS
  Size,         (* number of bytes                                         *)
  Requests,     (* the writes a client may ask for                         *)
  Blank         (* the value of a byte that was never written              *)

VARIABLES
  up,           (* is the store mounted                                    *)
  val,          (* its contents                                            *)
  pending       (* the set of writes asked for and not yet answered        *)

vars == <<up, val, pending>>

Updated(v, r) ==
  [i \in 0 .. (Size - 1) |->
     IF i \in r.addr .. (r.addr + Len(r.data) - 1) THEN r.data[i - r.addr + 1] ELSE v[i]]

Init == ~ up /\ val = [i \in 0 .. (Size - 1) |-> Blank] /\ pending = {}

MountOk   == ~ up /\ up' /\ UNCHANGED <<val, pending>>
Unmount   == up /\ ~ up' /\ pending' = {} /\ UNCHANGED val
Request   == up /\ pending = {} /\ \E r \in Requests :
               pending' = {r} /\ UNCHANGED <<up, val>>
Succeed   == up /\ \E r \in pending : val' = Updated(val, r) /\ pending' = {} /\ UNCHANGED up
Fail      == up /\ pending # {} /\ pending' = {} /\ UNCHANGED <<up, val>>

Next == MountOk \/ Unmount \/ Request \/ Succeed \/ Fail

Safety  == Init /\ [][Next]_vars
Answers == WF_vars(Succeed \/ Fail)

Spec == Safety /\ Answers
=============================================================================
