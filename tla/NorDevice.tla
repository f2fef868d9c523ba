------------------------------ MODULE NorDevice ------------------------------
(***************************************************************************)
(* What a flash backend promises the code above it (the trait Flash of     *)
(* sw/rust/flash_core): calls are served one at a time; a program that     *)
(* returns Ok has programmed all its bytes, one that returns an error some *)
(* first part of them; an erase is done or not done; a read that returns   *)
(* Ok returns what the array holds; and every call returns.                *)
(***************************************************************************)
EXTENDS NorFlash

CONSTANT Calls  (* what may be asked for: [op, addr, data, n] records      *)

VARIABLES
  mem,          (* the array                                               *)
  serving,      (* the set of calls that have not returned                 *)
  done,         (* its cells programmed, or erases done, so far             *)
  answer,       (* "Ok" or "Err", the result of the last call              *)
  got           (* the bytes it returned, if it was Ok                     *)

vars == <<mem, serving, done, answer, got>>

Work(c) == CASE c.op = "program" -> Len(c.data)
             [] c.op = "erase"   -> 1
             [] OTHER            -> 0

Init == mem = ErasedArray /\ serving = {} /\ done = 0 /\ answer = "Ok" /\ got = <<>>

Ask == /\ serving = {} /\ (\E c \in Calls : serving' = {c})
       /\ got' = <<>>
       /\ UNCHANGED <<mem, done, answer>>

ProgramMore ==
  \E c \in serving :
    /\ c.op = "program"
    /\ \E k \in 1 .. (Len(c.data) - done) :
         /\ mem' = Programmed(mem, c.addr + done, SubSeq(c.data, done + 1, done + k), k)
         /\ done' = done + k
    /\ UNCHANGED <<serving, answer, got>>

EraseNow ==
  \E c \in serving :
    /\ c.op = "erase" /\ done = 0
    /\ mem' = Erased(mem, c.addr, SectorSize) /\ done' = 1
    /\ UNCHANGED <<serving, answer, got>>

Succeed ==
  \E c \in serving :
    /\ done = Work(c) /\ done' = 0
    /\ serving' = {} /\ answer' = "Ok"
    /\ got' = IF c.op = "read" THEN [i \in 1 .. c.n |-> mem[c.addr + i - 1]] ELSE <<>>
    /\ UNCHANGED mem

Fail == /\ serving # {} /\ serving' = {} /\ done' = 0
        /\ answer' = "Err" /\ got' = <<>>
        /\ UNCHANGED mem

(* A call that is turned down at once, or that only asks for the status.   *)
NoEffect == /\ serving = {} /\ answer' \in {"Ok", "Err"} /\ got' \in Seq(Cell)
            /\ UNCHANGED <<mem, serving, done>>

Next == Ask \/ ProgramMore \/ EraseNow \/ Succeed \/ Fail \/ NoEffect

Safety == Init /\ [][Next]_vars

(* A call that has been asked for is answered.                             *)
Answers == WF_vars(Succeed \/ Fail)

Spec == Safety /\ Answers
=============================================================================
