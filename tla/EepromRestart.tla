---------------------------- MODULE EepromRestart ----------------------------
(***************************************************************************)
(* Clean restarts lose the contents in one way only: the replay rejects a  *)
(* record.  For every geometry that fits, every set of non-empty writes    *)
(* and every checksum, the one of the code included, all that happens up   *)
(* to the first rejected record keeps the log, the contents and the mount. *)
(* The check of the code rejects every record that write() makes, as it is *)
(* taken over a header that holds it already (lib.rs:134, :136), so there  *)
(* the first mount that finds a record is where this ends; a check that    *)
(* accepts what was written would extend it to all restarts.               *)
(***************************************************************************)
EXTENDS EepromRecovery

(* The device has no errors of its own and power is never lost.  A write   *)
(* of no bytes is not asked for: its record would end every later replay.  *)
CleanRestarts ==
  /\ WellConfigured
  /\ Faults \subseteq {"restart"}
  /\ \A r \in Requests : r.data # <<>>

(* The replay has read a whole record and its check fails (lib.rs:136).    *)
Rejects ==
  /\ pc = "replay" /\ wptr < SectorSize /\ HeaderInArray
  /\ ~ LogAtEnd /\ DataInArray /\ ~ ChecksumOk

(* The behaviours up to the first record that a replay rejects: every      *)
(* behaviour in which none is, and of any other one what comes before it.  *)
UntilRejected == Init /\ [][Next /\ ~ Rejects]_vars

-----------------------------------------------------------------------------
(* The log.  A point is a place of the replay: the offset it has come to   *)
(* and the contents it has so far.  The records of a log link its points,  *)
(* from the one the replay starts at to the one it must end at; that the   *)
(* links form a path needs no recursion to say.                            *)

Points == [off : Nat, val : [0 .. (Size - 1) -> Cell]]

StartPoint == [off |-> HdrLen, val |-> BlankState]

HeaderAt(mem, x, hdr)  == \A i \in 1 .. RecLen : mem[x + i - 1] = hdr[i]
DataAt(mem, x, data)   == \A i \in 1 .. Len(data) : mem[x + RecLen + i - 1] = data[i]

(* A record that a write or a compaction makes.                            *)
IsRecord(n, a, data) ==
  /\ n \in Cell /\ a \in Nat /\ data \in Seq(Cell)
  /\ data # <<>> /\ a + Len(data) <= Size

PointAfter(p, a, data) ==
  [off |-> p.off + Pad4(RecLen + Len(data)), val |-> Overwrite(p.val, a, data)]

(* The record at point p of the sector at b leads to point q.              *)
Leads(mem, b, p, q) ==
  \E n, a, data :
    /\ IsRecord(n, a, data)
    /\ HeaderAt(mem, b + p.off, RecordHeader(n, a, data)) /\ DataAt(mem, b + p.off, data)
    /\ q = PointAfter(p, a, data)

Log(mem, b, P, end) ==
  /\ P \subseteq Points /\ StartPoint \in P /\ end \in P /\ end.off <= SectorSize
  /\ \A p \in P : p.off <= end.off
  /\ \A p \in P \ {end} : \E q \in P : Leads(mem, b, p, q)

BlankFrom(mem, b, o) == \A x \in Addr : b + o <= x /\ x < b + SectorSize => mem[x] = Blank

(* A log that ends with the given contents and has erased cells behind it. *)
Holds(mem, b, contents) ==
  \E P : \E end \in P : Log(mem, b, P, end) /\ BlankFrom(mem, b, end.off) /\ end.val = contents

Here == [off |-> wptr, val |-> state]

DownInvariant ==
  /\ pc \in {"off", "failed"} \cup FormatPcs /\ Unformatted(flash) => store = BlankState
  /\ pc \in {"off", "failed"} /\ ~ Unformatted(flash) => Holds(flash, Picked(flash), store)
  /\ pc \in {"fEraseB", "fHdr"} => BlankFrom(flash, BaseA, 0)

ReplayInvariant ==
  pc = "replay" =>
    \E P : \E end \in P : /\ Log(flash, active, P, end) /\ BlankFrom(flash, active, end.off)
                          /\ end.val = store /\ Here \in P

LogInvariant ==
  /\ pc \in {"ready"} \cup AppendPcs => \E P : Log(flash, active, P, Here)
  /\ pc \in {"ready", "aHdr"} => BlankFrom(flash, active, wptr)
  /\ pc = "aData" => /\ BlankFrom(flash, active, wptr + RecLen)
                     /\ HeaderAt(flash, active + wptr, req.hdr)

ScratchInvariant ==
  /\ pc = "cHdr" => BlankFrom(flash, scratch, 0)
  /\ pc = "cRecHdr" => BlankFrom(flash, scratch, HdrLen)
  /\ pc = "cSnap" => /\ BlankFrom(flash, scratch, HdrLen + RecLen)
                     /\ HeaderAt(flash, scratch + HdrLen, RecordHeader(NextSeq, 0, Snapshot))

RequestRecord ==
  pc \in WritePcs =>
    \E n : IsRecord(n, req.addr, req.data) /\ req.hdr = RecordHeader(n, req.addr, req.data)

(* The invariant of the proofs, on top of those that hold in general.      *)
RestartInv ==
  /\ IInv /\ ScratchOlder /\ Promised
  /\ DownInvariant /\ ReplayInvariant /\ LogInvariant /\ ScratchInvariant /\ RequestRecord

-----------------------------------------------------------------------------
(* Records and logs.                                                       *)

LEMMA RecordFields ==
  ASSUME CleanRestarts, NEW n, NEW a, NEW data, IsRecord(n, a, data)
  PROVE  /\ RecordHeader(n, a, data)[1] = RecMagic
         /\ RecordHeader(n, a, data)[3] = a
         /\ RecordHeader(n, a, data)[4] = Len(data)
         /\ Len(data) \in Nat \ {0}
<1>1. data \in Seq(Cell) /\ data # <<>>
  BY DEF IsRecord
<1>2. Len(data) \in Nat /\ Len(data) # 0
  BY <1>1
<1> QED
  BY <1>2 DEF RecordHeader, RecordCells

(* A record takes up some cells, and its padding at most what is left.     *)
LEMMA RecordExtent ==
  ASSUME NEW o \in Nat, NEW len \in Nat
  PROVE  /\ o + Pad4(RecLen + len) \in Nat
         /\ o + RecLen + len <= o + Pad4(RecLen + len)
<1>1. RecLen + len \in Nat
  BY DEF RecLen
<1>2. RecLen + len <= Pad4(RecLen + len) /\ Pad4(RecLen + len) \in Nat
  BY <1>1, Pad4Bounds
<1> QED  BY <1>1, <1>2 DEF RecLen

(* What is known of a point that is not the last one.                      *)
LEMMA InnerPoint ==
  ASSUME CleanRestarts, NEW mem, NEW b, NEW P, NEW end, Log(mem, b, P, end),
         NEW p \in P, p # end
  PROVE  \E n, a, data :
           /\ IsRecord(n, a, data)
           /\ HeaderAt(mem, b + p.off, RecordHeader(n, a, data))
           /\ DataAt(mem, b + p.off, data)
           /\ PointAfter(p, a, data) \in P
           /\ p.off + RecLen + Len(data) <= end.off
<1>1. PICK q \in P : Leads(mem, b, p, q)
  BY DEF Log
<1>2. PICK n, a, data : /\ IsRecord(n, a, data)
                        /\ HeaderAt(mem, b + p.off, RecordHeader(n, a, data))
                        /\ DataAt(mem, b + p.off, data)
                        /\ q = PointAfter(p, a, data)
  BY <1>1 DEF Leads
<1>3. p \in Points /\ end \in Points /\ q \in P /\ q.off <= end.off
  BY DEF Log
<1>4. Len(data) \in Nat /\ p.off \in Nat /\ end.off \in Nat
  BY <1>2, <1>3 DEF IsRecord, Points
<1>5. q.off = p.off + Pad4(RecLen + Len(data))
  BY <1>2 DEF PointAfter
<1>6. p.off + RecLen + Len(data) <= end.off
  <2> DEFINE pad == Pad4(RecLen + Len(data))
  <2>1. /\ p.off + pad \in Nat /\ p.off + RecLen + Len(data) <= p.off + pad
    BY <1>4, RecordExtent
  <2>2. p.off + pad <= end.off
    BY <1>3, <1>5
  <2> HIDE DEF pad
  <2>3. p.off + RecLen + Len(data) \in Nat
    BY <1>4 DEF RecLen
  <2> QED  BY <1>4, <2>1, <2>2, <2>3
<1> QED
  BY <1>2, <1>6

(* A log is made of the cells between the header and its end.              *)
LEMMA LogFrame ==
  ASSUME CleanRestarts, NEW mem, NEW mem2, NEW b \in {BaseA, BaseB}, NEW P, NEW end,
         Log(mem, b, P, end),
         \A x \in Addr : b <= x /\ x < b + end.off => mem2[x] = mem[x]
  PROVE  Log(mem2, b, P, end)
<1>0. /\ P \subseteq Points /\ StartPoint \in P /\ end \in P /\ end.off <= SectorSize
      /\ \A p \in P : p.off <= end.off
  BY DEF Log
<1>1. /\ b \in Nat /\ SectorSize \in Nat /\ b + SectorSize <= FlashSize
      /\ \A x : x \in Addr <=> (x \in Nat /\ x < FlashSize)
      /\ FlashSize \in Nat
  BY Geometry DEF CleanRestarts
<1>2. SUFFICES ASSUME NEW p \in P \ {end}
               PROVE  \E q \in P : Leads(mem2, b, p, q)
  BY <1>0 DEF Log
<1>3. PICK n, a, data : /\ IsRecord(n, a, data)
                        /\ HeaderAt(mem, b + p.off, RecordHeader(n, a, data))
                        /\ DataAt(mem, b + p.off, data)
                        /\ PointAfter(p, a, data) \in P
                        /\ p.off + RecLen + Len(data) <= end.off
  BY InnerPoint
<1>4. /\ p.off \in Nat /\ end.off \in Nat /\ Len(data) \in Nat
  BY <1>0, <1>3 DEF Points, IsRecord
<1> DEFINE o == p.off
           e == end.off
           len == Len(data)
<1>5. o \in Nat /\ e \in Nat /\ len \in Nat /\ o + RecLen + len <= e /\ e <= SectorSize
  BY <1>0, <1>3, <1>4
<1>6. \A x \in Addr : b <= x /\ x < b + e => mem2[x] = mem[x]
  OBVIOUS
<1>7. HeaderAt(mem2, b + o, RecordHeader(n, a, data))
  <2> SUFFICES ASSUME NEW i \in 1 .. RecLen
               PROVE  mem2[b + o + i - 1] = RecordHeader(n, a, data)[i]
    BY DEF HeaderAt
  <2>1. mem[b + o + i - 1] = RecordHeader(n, a, data)[i]
    BY <1>3 DEF HeaderAt
  <2> HIDE DEF o, e, len
  <2>2. b + o + i - 1 \in Addr /\ b <= b + o + i - 1 /\ b + o + i - 1 < b + e
    BY <1>1, <1>5 DEF RecLen
  <2> QED  BY <1>6, <2>1, <2>2
<1>8. DataAt(mem2, b + o, data)
  <2> SUFFICES ASSUME NEW i \in 1 .. len
               PROVE  mem2[b + o + RecLen + i - 1] = data[i]
    BY DEF DataAt
  <2>1. mem[b + o + RecLen + i - 1] = data[i]
    BY <1>3 DEF DataAt
  <2> HIDE DEF o, e, len
  <2>2. /\ b + o + RecLen + i - 1 \in Addr /\ b <= b + o + RecLen + i - 1
        /\ b + o + RecLen + i - 1 < b + e
    BY <1>1, <1>5 DEF RecLen
  <2> QED  BY <1>6, <2>1, <2>2
<1> QED
  BY <1>3, <1>7, <1>8 DEF Leads

(* A record at the end of a log makes a longer one.                        *)
LEMMA LogGrows ==
  ASSUME CleanRestarts, NEW mem, NEW b, NEW P, NEW end, Log(mem, b, P, end),
         NEW n, NEW a, NEW data, IsRecord(n, a, data),
         HeaderAt(mem, b + end.off, RecordHeader(n, a, data)), DataAt(mem, b + end.off, data),
         end.off + Pad4(RecLen + Len(data)) <= SectorSize
  PROVE  LET after == PointAfter(end, a, data)
         IN  Log(mem, b, P \cup {after}, after)
<1> DEFINE after == PointAfter(end, a, data)
           Q == P \cup {after}
<1>0. /\ P \subseteq Points /\ StartPoint \in P /\ end \in P
      /\ \A p \in P : p.off <= end.off
      /\ \A p \in P \ {end} : \E q \in P : Leads(mem, b, p, q)
  BY DEF Log
<1>1. end.off \in Nat /\ end.val \in [0 .. (Size - 1) -> Cell] /\ Len(data) \in Nat
      /\ data \in Seq(Cell) /\ a \in Nat
  BY <1>0 DEF Points, IsRecord
<1>2. after.off = end.off + Pad4(RecLen + Len(data)) /\ after.off \in Nat
      /\ end.off <= after.off
  BY <1>1, RecordExtent, SMTT(20) DEF PointAfter, RecLen
<1>3. after \in Points
  <2>1. Overwrite(end.val, a, data) \in [0 .. (Size - 1) -> Cell]
    BY <1>1, OverwriteType
  <2> QED  BY <1>2, <2>1 DEF PointAfter, Points
<1>4. Leads(mem, b, end, after)
  BY DEF Leads
<1> HIDE DEF after
<1>5. \A p \in Q : p.off <= after.off
  <2>1. ASSUME NEW p \in P PROVE p.off <= after.off
    <3>1. p.off \in Nat /\ p.off <= end.off
      BY <1>0 DEF Points
    <3> QED  BY <1>1, <1>2, <3>1
  <2> QED  BY <1>2, <2>1
<1>6. \A p \in Q \ {after} : \E q \in Q : Leads(mem, b, p, q)
  <2>1. ASSUME NEW p \in Q \ {after} PROVE \E q \in Q : Leads(mem, b, p, q)
    <3>1. CASE p = end
      BY <1>4, <3>1
    <3>2. CASE p # end
      BY <1>0, <3>2
    <3> QED  BY <3>1, <3>2
  <2> QED  BY <2>1
<1>7. Log(mem, b, Q, after)
  BY <1>0, <1>2, <1>3, <1>5, <1>6 DEF Log
<1> QED
  BY <1>7 DEF after

(* The log of a sector that has nothing but its header.                    *)
LEMMA EmptyLog ==
  ASSUME CleanRestarts, NEW mem, NEW b
  PROVE  Log(mem, b, {StartPoint}, StartPoint)
<1>1. StartPoint \in Points /\ StartPoint.off = HdrLen /\ HdrLen \in Nat
  BY BlankStateType DEF StartPoint, Points, HdrLen
<1>2. HdrLen <= SectorSize
  BY Geometry DEF CleanRestarts, HdrLen, RecLen
<1> QED
  BY <1>1, <1>2 DEF Log

-----------------------------------------------------------------------------
(* The replay.                                                             *)

(* The replay reads a record as it was written.                            *)
LEMMA ReadsRecord ==
  ASSUME CleanRestarts, IInv, NEW n, NEW a, NEW data, IsRecord(n, a, data),
         HeaderAt(flash, active + wptr, RecordHeader(n, a, data)),
         DataAt(flash, active + wptr, data)
  PROVE  /\ ~ LogAtEnd /\ RecField(2) = a /\ RecField(3) = Len(data)
         /\ RecData(RecField(3)) = data
<1> DEFINE hdr == RecordHeader(n, a, data)
<1>0. /\ hdr[1] = RecMagic /\ hdr[3] = a /\ hdr[4] = Len(data)
      /\ Len(data) \in Nat \ {0} /\ data \in Seq(Cell)
  BY RecordFields DEF IsRecord
<1> HIDE DEF hdr
<1>1. active \in Nat /\ wptr \in Nat
  BY Geometry DEF IInv, TypeOK, CleanRestarts
<1>2. \A i \in 1 .. RecLen : RecField(i - 1) = hdr[i]
  <2> SUFFICES ASSUME NEW i \in 1 .. RecLen PROVE RecField(i - 1) = hdr[i]
    OBVIOUS
  <2>1. flash[active + wptr + i - 1] = hdr[i]
    BY DEF HeaderAt, hdr
  <2>2. active + wptr + i - 1 = active + wptr + (i - 1)
    BY <1>1 DEF RecLen
  <2> QED  BY <2>1, <2>2 DEF RecField
<1>3. RecField(0) = RecMagic /\ RecField(2) = a /\ RecField(3) = Len(data)
  <2>1. 1 \in 1 .. RecLen /\ 3 \in 1 .. RecLen /\ 4 \in 1 .. RecLen
    BY DEF RecLen
  <2>2. RecField(1 - 1) = hdr[1] /\ RecField(3 - 1) = hdr[3] /\ RecField(4 - 1) = hdr[4]
    BY <1>2, <2>1
  <2> QED  BY <1>0, <2>2
<1>4. RecData(RecField(3)) = data
  <2>1. \A i \in 1 .. Len(data) : RecField(RecLen + i - 1) = data[i]
    <3> SUFFICES ASSUME NEW i \in 1 .. Len(data) PROVE RecField(RecLen + i - 1) = data[i]
      OBVIOUS
    <3>1. flash[active + wptr + RecLen + i - 1] = data[i]
      BY DEF DataAt
    <3>2. active + wptr + RecLen + i - 1 = active + wptr + (RecLen + i - 1)
      BY <1>0, <1>1 DEF RecLen
    <3> QED  BY <3>1, <3>2 DEF RecField
  <2>2. RecData(Len(data)) = [i \in 1 .. Len(data) |-> data[i]]
    BY <2>1 DEF RecData
  <2>3. data = [i \in 1 .. Len(data) |-> data[i]]
    BY <1>0
  <2> QED  BY <1>3, <2>2, <2>3
<1>5. ~ LogAtEnd
  BY <1>0, <1>3 DEF LogAtEnd
<1> QED
  BY <1>3, <1>4, <1>5

(* At a point of the log that is not its end there is a record, all of it  *)
(* inside the sector, and it leads to another point.                       *)
LEMMA ReplayInside ==
  ASSUME CleanRestarts, IInv, NEW P, NEW end \in P, Log(flash, active, P, end),
         Here \in P, Here # end
  PROVE  /\ wptr < SectorSize /\ HeaderInArray /\ DataInArray /\ ~ LogAtEnd
         /\ RecField(2) + RecField(3) <= Size
         /\ [off |-> wptr + Consumed(RecField(3)),
             val |-> Overwrite(state, RecField(2), RecData(RecField(3)))] \in P
<1>1. Here.off = wptr /\ Here.val = state
  BY DEF Here
<1>2. PICK n, a, data : /\ IsRecord(n, a, data)
                        /\ HeaderAt(flash, active + wptr, RecordHeader(n, a, data))
                        /\ DataAt(flash, active + wptr, data)
                        /\ PointAfter(Here, a, data) \in P
                        /\ wptr + RecLen + Len(data) <= end.off
  BY <1>1, InnerPoint
<1>3. /\ ~ LogAtEnd /\ RecField(2) = a /\ RecField(3) = Len(data)
      /\ RecData(RecField(3)) = data
  BY <1>2, ReadsRecord
<1>4. /\ active \in Nat /\ wptr \in Nat /\ active + SectorSize <= FlashSize
      /\ SectorSize \in Nat /\ FlashSize \in Nat
  BY Geometry DEF IInv, TypeOK, CleanRestarts
<1>5. end.off \in Nat /\ end.off <= SectorSize /\ Len(data) \in Nat
  BY <1>2 DEF Log, Points, IsRecord
<1>6. /\ wptr < SectorSize /\ (active + wptr) + RecLen <= FlashSize
      /\ (active + wptr + RecLen) + Len(data) <= FlashSize
  BY <1>2, <1>4, <1>5 DEF RecLen
<1>7. HeaderInArray /\ DataInArray
  BY <1>3, <1>6 DEF HeaderInArray, DataInArray, InArray
<1>8. RecField(2) + RecField(3) <= Size
  BY <1>2, <1>3 DEF IsRecord
<1>9. PointAfter(Here, a, data)
        = [off |-> wptr + Consumed(RecField(3)),
           val |-> Overwrite(state, RecField(2), RecData(RecField(3)))]
  BY <1>1, <1>3 DEF PointAfter, Consumed
<1> QED
  BY <1>2, <1>3, <1>6, <1>7, <1>8, <1>9

(* The replay stops at the end of the log and, if it rejects no record,    *)
(* nowhere else.                                                           *)
LEMMA ReplayAtEnd ==
  ASSUME CleanRestarts, IInv, pc = "replay", NEW P, NEW end \in P, Log(flash, active, P, end),
         BlankFrom(flash, active, end.off), Here \in P
  PROVE  /\ ReplayStops => Here = end \/ Rejects
         /\ wptr < SectorSize /\ HeaderInArray /\ ~ LogAtEnd => Here # end
<1>1. ASSUME ReplayStops, Here # end PROVE Rejects
  <2>1. wptr < SectorSize /\ HeaderInArray /\ DataInArray /\ ~ LogAtEnd
    BY <1>1, ReplayInside
  <2>2. wptr \in Nat /\ SectorSize \in Nat
    BY Geometry DEF IInv, TypeOK, CleanRestarts
  <2> QED  BY <1>1, <2>1, <2>2 DEF ReplayStops, Rejects
<1>2. ASSUME wptr < SectorSize, HeaderInArray, ~ LogAtEnd, Here = end
      PROVE  FALSE
  <2>1. /\ active \in Nat /\ wptr \in Nat /\ active + SectorSize <= FlashSize
        /\ SectorSize \in Nat /\ FlashSize \in Nat
        /\ \A x : x \in Addr <=> (x \in Nat /\ x < FlashSize)
    BY Geometry DEF IInv, TypeOK, CleanRestarts
  <2>2. active + wptr \in Addr /\ active + wptr < active + SectorSize /\ end.off = wptr
    BY <1>2, <2>1 DEF Here
  <2>3. active + end.off <= active + wptr
    BY <2>1, <2>2
  <2>4. flash[active + wptr] = Blank
    BY <2>2, <2>3 DEF BlankFrom
  <2>5. active + wptr = active + wptr + 0
    BY <2>1
  <2>6. RecField(0) = Blank
    BY <2>4, <2>5 DEF RecField
  <2> QED  BY <1>2, <2>6, EepromAssumption DEF LogAtEnd
<1> QED
  BY <1>1, <1>2

-----------------------------------------------------------------------------
(* The induction step, action by action.  LogParts is what RestartInv adds *)
(* to the invariants that are known to be kept.                            *)

LogParts ==
  DownInvariant /\ ReplayInvariant /\ LogInvariant /\ ScratchInvariant /\ RequestRecord

LEMMA PickedActive ==
  ASSUME WellConfigured, IInv, ScratchOlder, pc \in {"replay", "ready"}
  PROVE  Picked(flash) = active /\ ~ Unformatted(flash)
<1>1. /\ active # scratch /\ ValidHeader(flash, active) /\ seq = flash[active + 1]
      /\ active \in {BaseA, BaseB} /\ scratch \in {BaseA, BaseB}
      /\ ValidHeader(flash, scratch) => flash[scratch + 1] < seq
  BY PcSets DEF IInv, TypeOK, MountedInv, ScratchOlder
<1>2. /\ BaseA + 1 \in Addr /\ BaseB + 1 \in Addr /\ Cell \subseteq Nat
      /\ flash \in [Addr -> Cell]
  BY HeaderAddresses, CellAssumption DEF IInv, TypeOK
<1>3. flash[BaseA + 1] \in Nat /\ flash[BaseB + 1] \in Nat
  BY <1>2
<1> QED  BY <1>1, <1>3 DEF Picked, Unformatted

(* A program over erased cells leaves its payload there.                   *)
LEMMA BlankProgram ==
  ASSUME WellConfigured, IInv, pc \in CallPcs, ~ Erasing, NEW next, Completes(next),
         \A x \in Addr : Target <= x /\ x < Target + CallLen => flash[x] = Blank
  PROVE  /\ Target \in Nat /\ Payload \in Seq(Cell) /\ CallLen = Len(Payload)
         /\ \A x \in Addr : x < Target \/ Target + CallLen <= x => flash'[x] = flash[x]
         /\ \A i \in 1 .. CallLen : flash'[Target + i - 1] = Payload[i]
<1>1. Target \in Nat /\ Payload \in Seq(Cell) /\ CallLen = Len(Payload)
  BY ProgramCalls
<1>2. flash' = Programmed(flash, Target, Payload, CallLen) /\ Target + CallLen <= FlashSize
  BY DEF Completes, After, InArray
<1>3. CallLen \in 0 .. Len(Payload) /\ CallLen \in Nat
  BY <1>1
<1>4. flash \in [Addr -> Cell]
  BY DEF IInv, TypeOK
<1>5. \A x \in Addr : x < Target \/ Target + CallLen <= x =>
        Programmed(flash, Target, Payload, CallLen)[x] = flash[x]
  BY <1>1, <1>3, <1>4, ProgramEffect, ZenonT(30)
<1>6. \A x \in Addr : Target <= x /\ x < Target + CallLen /\ flash[x] = Blank =>
        Programmed(flash, Target, Payload, CallLen)[x] = Payload[x - Target + 1]
  BY <1>1, <1>3, <1>4, ProgramEffect, ZenonT(30)
<1>7. ASSUME NEW i \in 1 .. CallLen PROVE flash'[Target + i - 1] = Payload[i]
  <2>1. /\ Target + i - 1 \in Addr /\ Target <= Target + i - 1
        /\ Target + i - 1 < Target + CallLen /\ (Target + i - 1) - Target + 1 = i
    BY <1>1, <1>2, <1>3, GeometryAssumption DEF Addr
  <2>2. flash[Target + i - 1] = Blank
    BY <2>1
  <2>3. Programmed(flash, Target, Payload, CallLen)[Target + i - 1]
          = Payload[(Target + i - 1) - Target + 1]
    BY <1>6, <2>1, <2>2
  <2> QED  BY <1>2, <2>1, <2>3
<1> QED
  BY <1>1, <1>2, <1>5, <1>7

(* What is erased behind a program stays erased.                           *)
LEMMA BlankStays ==
  ASSUME NEW mem, NEW mem2, NEW b \in Nat, NEW o \in Nat, NEW o2 \in Nat, o <= o2,
         BlankFrom(mem, b, o), \A x \in Addr : b + o2 <= x => mem2[x] = mem[x]
  PROVE  BlankFrom(mem2, b, o2)
<1> SUFFICES ASSUME NEW x \in Addr, b + o2 <= x, x < b + SectorSize
             PROVE  mem2[x] = Blank
  BY DEF BlankFrom
<1>1. x \in Nat
  BY GeometryAssumption DEF Addr
<1>2. b + o <= x
  BY <1>1
<1> QED
  BY <1>2 DEF BlankFrom

LEMMA OpenRestart ==
  ASSUME CleanRestarts, RestartInv, Open
  PROVE  LogParts'
<1>0. pc \in {"off", "failed"} /\ UNCHANGED <<flash, store>> /\ DownInvariant
  BY DEF Open, RestartInv
<1>1. CASE Unformatted(flash)
  <2>1. pc' = "fEraseA" /\ store' = BlankState
    BY <1>0, <1>1 DEF Open, DownInvariant
  <2> QED
    BY <2>1, PcSets DEF LogParts, DownInvariant, ReplayInvariant, LogInvariant, ScratchInvariant,
                        RequestRecord, AppendPcs
<1>2. CASE ~ Unformatted(flash)
  <2>1. pc' = "replay" /\ active' = Picked(flash) /\ wptr' = HdrLen /\ state' = BlankState
    BY <1>2 DEF Open, StartReplay
  <2>2. Here' = StartPoint
    BY <2>1 DEF Here, StartPoint
  <2>3. PICK P : \E end \in P : /\ Log(flash, Picked(flash), P, end)
                                /\ BlankFrom(flash, Picked(flash), end.off) /\ end.val = store
    BY <1>0, <1>2 DEF DownInvariant, Holds
  <2>4. PICK end \in P : /\ Log(flash, Picked(flash), P, end)
                         /\ BlankFrom(flash, Picked(flash), end.off) /\ end.val = store
    BY <2>3
  <2>5. StartPoint \in P
    BY <2>4 DEF Log
  <2>6. ReplayInvariant'
    BY <1>0, <2>1, <2>2, <2>4, <2>5 DEF ReplayInvariant
  <2> QED
    BY <2>1, <2>6, PcSets DEF LogParts, DownInvariant, LogInvariant, ScratchInvariant,
                              RequestRecord, AppendPcs, FormatPcs
<1> QED
  BY <1>1, <1>2

LEMMA FormatRestart ==
  ASSUME CleanRestarts, RestartInv, FormatEraseA \/ FormatEraseB \/ FormatHeader
  PROVE  LogParts'
<1>0. /\ flash \in [Addr -> Cell] /\ BaseA \in Nat /\ BaseB \in Nat /\ SectorSize \in Nat
      /\ IInv /\ DownInvariant /\ WellConfigured
      /\ EraseBase(BaseA) = BaseA /\ EraseBase(BaseB) = BaseB
      /\ \A x : x \in Addr <=> (x \in Nat /\ x < FlashSize)
  BY Geometry DEF RestartInv, IInv, TypeOK, CleanRestarts, WellConfigured, Fits
<1>1. store = BlankState /\ UNCHANGED store
  BY <1>0 DEF FormatEraseA, FormatEraseB, FormatHeader, DownInvariant, IInv, FormatInv, FormatPcs
<1>s. SectorSize \in 0 .. SectorSize
  BY <1>0
<1>2. CASE FormatEraseA
  <2>1. pc' = "fEraseB" /\ flash' = Erased(flash, BaseA, SectorSize)
    BY <1>2 DEF FormatEraseA, Completes, After, CallLen, Erasing, Target
  <2>2. \A x \in Addr : BaseA <= x /\ x < BaseA + SectorSize => flash'[x] = Blank
    BY <1>0, <1>s, <2>1, EraseEffect
  <2>3. BlankFrom(flash', BaseA, 0)
    BY <1>0, <2>2 DEF BlankFrom
  <2> QED
    BY <1>1, <2>1, <2>3, PcSets DEF LogParts, DownInvariant, ReplayInvariant, LogInvariant,
                                   ScratchInvariant, RequestRecord, AppendPcs
<1>3. CASE FormatEraseB
  <2>1. pc = "fEraseB" /\ pc' = "fHdr" /\ flash' = Erased(flash, BaseB, SectorSize)
    BY <1>3 DEF FormatEraseB, Completes, After, CallLen, Erasing, Target
  <2>2. \A x \in Addr : flash'[x] = flash[x] \/ flash'[x] = Blank
    BY <1>0, <1>s, <2>1, EraseEffect
  <2>3. BlankFrom(flash', BaseA, 0)
    BY <1>0, <2>1, <2>2 DEF BlankFrom, DownInvariant
  <2> QED
    BY <1>1, <2>1, <2>3, PcSets DEF LogParts, DownInvariant, ReplayInvariant, LogInvariant,
                                   ScratchInvariant, RequestRecord, AppendPcs
<1>4. CASE FormatHeader
  <2>1. /\ pc = "fHdr" /\ pc' = "replay" /\ pc \in CallPcs /\ ~ Erasing
        /\ Completes("replay") /\ active' = BaseA /\ wptr' = HdrLen /\ state' = BlankState
    BY <1>4, PcSets DEF FormatHeader, StartReplay, Completes, Erasing
  <2>2. Target = BaseA /\ CallLen = HdrLen
    <3>1. Target = BaseA /\ Payload = <<SectorMagic, 1>> /\ CallLen = Len(Payload)
      BY <1>0, <2>1, ProgramCalls
    <3> QED  BY <3>1 DEF HdrLen
  <2>3. BlankFrom(flash, BaseA, 0) /\ HdrLen <= SectorSize
    BY <1>0, <2>1, Geometry DEF DownInvariant, HdrLen, RecLen
  <2>4. \A x \in Addr : Target <= x /\ x < Target + CallLen => flash[x] = Blank
    BY <1>0, <2>2, <2>3 DEF BlankFrom, HdrLen
  <2>5. \A x \in Addr : x < Target \/ Target + CallLen <= x => flash'[x] = flash[x]
    BY <1>0, <2>1, <2>4, BlankProgram
  <2>6. BlankFrom(flash', BaseA, HdrLen)
    BY <1>0, <2>2, <2>3, <2>5 DEF BlankFrom, HdrLen
  <2>7. Log(flash', BaseA, {StartPoint}, StartPoint) /\ Here' = StartPoint
        /\ StartPoint.off = HdrLen /\ StartPoint.val = BlankState
    BY <2>1, EmptyLog DEF Here, StartPoint
  <2>8. ReplayInvariant'
    BY <1>1, <2>1, <2>6, <2>7 DEF ReplayInvariant
  <2> QED
    BY <2>1, <2>8, PcSets DEF LogParts, DownInvariant, LogInvariant, ScratchInvariant,
                              RequestRecord, AppendPcs, FormatPcs
<1> QED
  BY <1>2, <1>3, <1>4

LEMMA ReplayRestart ==
  ASSUME CleanRestarts, RestartInv, ~ Rejects, ReplayRecord \/ ReplayEnd \/ ReplayFails
  PROVE  LogParts'
<1>0. /\ pc = "replay" /\ IInv /\ UNCHANGED flash /\ WellConfigured /\ ScratchOlder
  BY DEF RestartInv, ReplayRecord, ReplayEnd, ReplayFails, CleanRestarts
<1>1. PICK P : \E end \in P : /\ Log(flash, active, P, end) /\ BlankFrom(flash, active, end.off)
                              /\ end.val = store /\ Here \in P
  BY <1>0 DEF RestartInv, ReplayInvariant
<1>2. PICK end \in P : /\ Log(flash, active, P, end) /\ BlankFrom(flash, active, end.off)
                       /\ end.val = store /\ Here \in P
  BY <1>1
<1>3. CASE ReplayRecord
  <2>1. /\ wptr < SectorSize /\ HeaderInArray /\ ~ LogAtEnd
        /\ UNCHANGED <<pc, active, store>>
    BY <1>3 DEF ReplayRecord
  <2>2. Here # end
    BY <1>0, <1>2, <2>1, ReplayAtEnd
  <2>3. /\ RecField(2) + RecField(3) <= Size
        /\ [off |-> wptr + Consumed(RecField(3)),
            val |-> Overwrite(state, RecField(2), RecData(RecField(3)))] \in P
    BY <1>0, <1>2, <2>2, ReplayInside
  <2>4. Here' \in P
    BY <1>3, <2>3 DEF ReplayRecord, Here
  <2>5. ReplayInvariant'
    BY <1>0, <1>2, <2>1, <2>4 DEF ReplayInvariant
  <2> QED
    BY <1>0, <2>1, <2>5, PcSets DEF LogParts, DownInvariant, LogInvariant, ScratchInvariant,
                              RequestRecord, AppendPcs, FormatPcs
<1>4. CASE ReplayEnd
  <2>1. ReplayStops /\ pc' = "ready" /\ UNCHANGED <<active, wptr, state>>
    BY <1>4 DEF ReplayEnd, object
  <2>2. Here = end /\ Here' = Here
    BY <1>0, <1>2, <2>1, ReplayAtEnd DEF Here
  <2>3. end.off = wptr
    BY <2>2 DEF Here
  <2>4. LogInvariant'
    BY <1>0, <1>2, <2>1, <2>2, <2>3 DEF LogInvariant, AppendPcs
  <2> QED
    BY <2>1, <2>4, PcSets DEF LogParts, DownInvariant, ReplayInvariant, ScratchInvariant,
                              RequestRecord, FormatPcs
<1>5. CASE ReplayFails
  <2>1. pc' = "failed" /\ UNCHANGED store
    BY <1>5 DEF ReplayFails
  <2>2. Picked(flash) = active /\ ~ Unformatted(flash)
    BY <1>0, PickedActive
  <2>3. Holds(flash', Picked(flash'), store')
    BY <1>0, <1>2, <2>1, <2>2 DEF Holds
  <2>4. DownInvariant'
    BY <1>0, <2>1, <2>2, <2>3 DEF DownInvariant
  <2> QED
    BY <2>1, <2>4, PcSets DEF LogParts, ReplayInvariant, LogInvariant, ScratchInvariant,
                              RequestRecord, AppendPcs
<1> QED
  BY <1>3, <1>4, <1>5

LEMMA WriteRestart ==
  ASSUME CleanRestarts, RestartInv, NEW r \in Requests, Write(r)
  PROVE  LogParts'
<1>0. /\ pc = "ready" /\ pc' \in {"aHdr", "cErase"} /\ InRange(r)
      /\ UNCHANGED <<flash, active, state, wptr>>
      /\ req' = [addr |-> r.addr, data |-> r.data, hdr |-> RecordHeader(seq, r.addr, r.data)]
      /\ IInv /\ LogInvariant /\ WellConfigured
  BY DEF Write, RestartInv, CleanRestarts
<1>1. r \in [addr : Nat, data : Seq(Cell)] /\ r.data # <<>>
  BY EepromAssumption DEF CleanRestarts
<1>2. seq \in Cell
  <2>1. seq = flash[active + 1] /\ active \in {BaseA, BaseB} /\ flash \in [Addr -> Cell]
    BY <1>0, PcSets DEF IInv, TypeOK, MountedInv
  <2> QED  BY <1>0, <2>1, HeaderAddresses
<1>3. IsRecord(seq, r.addr, r.data)
  BY <1>0, <1>1, <1>2 DEF IsRecord, InRange
<1>4. RequestRecord'
  <2>1. req'.addr = r.addr /\ req'.data = r.data /\ req'.hdr = RecordHeader(seq, r.addr, r.data)
    BY <1>0
  <2> QED  BY <1>3, <2>1 DEF RequestRecord
<1>5. LogInvariant'
  <2>1. Here' = Here
    BY <1>0 DEF Here
  <2> QED  BY <1>0, <2>1 DEF LogInvariant, AppendPcs
<1> QED
  BY <1>0, <1>4, <1>5, PcSets DEF LogParts, DownInvariant, ReplayInvariant, ScratchInvariant,
                                 FormatPcs

(* A compaction builds its sector on erased cells.                         *)
LEMMA CompactRestart ==
  ASSUME CleanRestarts, RestartInv, CompactErase \/ CompactHeader \/ CompactRecord
  PROVE  LogParts'
<1>0. /\ flash \in [Addr -> Cell] /\ scratch \in Nat /\ SectorSize \in Nat
      /\ IInv /\ WellConfigured /\ ScratchInvariant /\ RequestRecord
      /\ EraseBase(scratch) = scratch /\ scratch + SectorSize <= FlashSize
      /\ HdrLen + RecLen <= SectorSize
      /\ \A x : x \in Addr <=> (x \in Nat /\ x < FlashSize)
  BY Geometry, SMTT(20)
     DEF RestartInv, IInv, TypeOK, CleanRestarts, WellConfigured, Fits, HdrLen, RecLen
<1>1. UNCHANGED object /\ pc \in WritePcs
  BY PcSets DEF CompactErase, CompactHeader, CompactRecord
<1>2. RequestRecord'
  BY <1>0, <1>1 DEF RequestRecord, object
<1>3. CASE CompactErase
  <2>1. pc' = "cHdr" /\ flash' = Erased(flash, scratch, SectorSize)
    BY <1>3 DEF CompactErase, Completes, After, CallLen, Erasing, Target
  <2>2. \A x \in Addr : scratch <= x /\ x < scratch + SectorSize => flash'[x] = Blank
    <3>1. SectorSize \in 0 .. SectorSize
      BY <1>0
    <3> QED  BY <1>0, <2>1, <3>1, EraseEffect
  <2>3. BlankFrom(flash', scratch, 0)
    BY <1>0, <2>2 DEF BlankFrom
  <2> QED
    BY <1>1, <1>2, <2>1, <2>3, PcSets
    DEF LogParts, DownInvariant, ReplayInvariant, LogInvariant, ScratchInvariant, FormatPcs,
        AppendPcs, object
<1>4. CASE CompactHeader
  <2>1. pc = "cHdr" /\ pc' = "cRecHdr" /\ pc \in CallPcs /\ ~ Erasing /\ Completes("cRecHdr")
    BY <1>4, PcSets DEF CompactHeader, Completes, Erasing
  <2>2. Target = scratch /\ CallLen = 2
    <3>1. Target = scratch /\ Payload = <<SectorMagic, seq + 1>> /\ CallLen = Len(Payload)
      BY <1>0, <2>1, ProgramCalls
    <3> QED  BY <3>1
  <2>3. BlankFrom(flash, scratch, 0)
    BY <1>0, <2>1 DEF ScratchInvariant
  <2>4. \A x \in Addr : Target <= x /\ x < Target + CallLen => flash[x] = Blank
    BY <1>0, <2>2, <2>3 DEF BlankFrom, HdrLen, RecLen
  <2>5. \A x \in Addr : x < Target \/ Target + CallLen <= x => flash'[x] = flash[x]
    BY <1>0, <2>1, <2>4, BlankProgram
  <2>6. BlankFrom(flash', scratch, HdrLen)
    BY <1>0, <2>2, <2>3, <2>5 DEF BlankFrom, HdrLen
  <2> QED
    BY <1>1, <1>2, <2>1, <2>6, PcSets
    DEF LogParts, DownInvariant, ReplayInvariant, LogInvariant, ScratchInvariant, FormatPcs,
        AppendPcs, object
<1>5. CASE CompactRecord
  <2> DEFINE hdr == RecordHeader(NextSeq, 0, Snapshot)
  <2>1. pc = "cRecHdr" /\ pc' = "cSnap" /\ pc \in CallPcs /\ ~ Erasing /\ Completes("cSnap")
    BY <1>5, PcSets DEF CompactRecord, Completes, Erasing
  <2>2. Target = scratch + HdrLen /\ Payload = hdr
    BY <2>1 DEF Target, Payload
  <2>3. BlankFrom(flash, scratch, HdrLen)
    BY <1>0, <2>1 DEF ScratchInvariant
  <2>4. CallLen = RecLen
    <3>1. NextSeq \in Cell /\ 0 \in Cell /\ Size \in Cell
      <4>1. NextSeq \in 0 .. MaxSeq
        BY <1>0, <2>1, EepromAssumption DEF IInv, TypeOK, CompactInv, CompactPcs, NextSeq
      <4> QED  BY <4>1, EepromAssumption
    <3>2. Snapshot \in Seq(Cell) /\ Len(Snapshot) = Size
      BY <1>0, SnapshotType DEF IInv
    <3>3. Len(hdr) = RecLen
      BY <1>0, <3>1, <3>2, RecordHeaderType
    <3> QED  BY <2>1, <2>2, <3>3 DEF CallLen
  <2>5. \A x \in Addr : Target <= x /\ x < Target + CallLen => flash[x] = Blank
    BY <1>0, <2>2, <2>3, <2>4 DEF BlankFrom, HdrLen, RecLen
  <2>6. /\ \A x \in Addr : x < Target \/ Target + CallLen <= x => flash'[x] = flash[x]
        /\ \A i \in 1 .. CallLen : flash'[Target + i - 1] = Payload[i]
    BY <1>0, <2>1, <2>5, BlankProgram
  <2>7. BlankFrom(flash', scratch, HdrLen + RecLen)
    BY <1>0, <2>2, <2>3, <2>4, <2>6 DEF BlankFrom, HdrLen, RecLen
  <2>8. HeaderAt(flash', scratch + HdrLen, hdr)
    BY <2>2, <2>4, <2>6 DEF HeaderAt
  <2>9. NextSeq' = NextSeq /\ Snapshot' = Snapshot /\ scratch' = scratch
    BY <1>1 DEF NextSeq, Snapshot, object
  <2>10. ScratchInvariant'
    BY <2>1, <2>7, <2>8, <2>9 DEF ScratchInvariant
  <2> QED
    BY <1>1, <1>2, <2>1, <2>10, PcSets
    DEF LogParts, DownInvariant, ReplayInvariant, LogInvariant, FormatPcs, AppendPcs
<1> QED
  BY <1>3, <1>4, <1>5

(* The snapshot ends the log of the new sector, with the contents in RAM.  *)
LEMMA SnapshotRestart ==
  ASSUME CleanRestarts, RestartInv, CompactSnapshot
  PROVE  LogParts'
<1>0. /\ flash \in [Addr -> Cell] /\ scratch \in Nat /\ SectorSize \in Nat /\ Size \in Nat \ {0}
      /\ IInv /\ WellConfigured /\ ScratchInvariant /\ RequestRecord
      /\ scratch + SectorSize <= FlashSize /\ HdrLen + RecLen + Size <= SectorSize
      /\ FlashSize \in Nat
      /\ state \in [0 .. (Size - 1) -> Cell]
      /\ \A x : x \in Addr <=> (x \in Nat /\ x < FlashSize)
  <2>1. IInv /\ TypeOK /\ WellConfigured /\ ScratchInvariant /\ RequestRecord
    BY DEF RestartInv, IInv, CleanRestarts
  <2> QED  BY <2>1, Geometry DEF TypeOK
<1>1. /\ pc = "cSnap" /\ pc' = "aHdr" /\ pc \in CallPcs /\ ~ Erasing /\ Completes("aHdr")
      /\ active' = scratch /\ wptr' = LogAfterSnapshot /\ UNCHANGED <<state, req>>
      /\ pc \in WritePcs
  BY PcSets DEF CompactSnapshot, Completes, Erasing
<1>2. Target = scratch + HdrLen + RecLen /\ Payload = Snapshot
  BY <1>1 DEF Target, Payload
<1>3. Snapshot \in Seq(Cell) /\ Len(Snapshot) = Size
  BY <1>0, SnapshotType DEF IInv
<1>4. CallLen = Size
  BY <1>1, <1>2, <1>3 DEF CallLen
<1>5. /\ BlankFrom(flash, scratch, HdrLen + RecLen)
      /\ HeaderAt(flash, scratch + HdrLen, RecordHeader(NextSeq, 0, Snapshot))
  BY <1>0, <1>1 DEF ScratchInvariant
<1>6. \A x \in Addr : Target <= x /\ x < Target + CallLen => flash[x] = Blank
  BY <1>0, <1>2, <1>4, <1>5 DEF BlankFrom, HdrLen, RecLen
<1>7. /\ \A x \in Addr : x < Target \/ Target + CallLen <= x => flash'[x] = flash[x]
      /\ \A i \in 1 .. CallLen : flash'[Target + i - 1] = Payload[i]
  BY <1>0, <1>1, <1>6, BlankProgram
<1>8. HeaderAt(flash', scratch + HdrLen, RecordHeader(NextSeq, 0, Snapshot))
  <2> SUFFICES ASSUME NEW i \in 1 .. RecLen
               PROVE  flash'[scratch + HdrLen + i - 1] = flash[scratch + HdrLen + i - 1]
    BY <1>5 DEF HeaderAt
  <2>1. /\ scratch + HdrLen + i - 1 \in Addr
        /\ scratch + HdrLen + i - 1 < scratch + HdrLen + RecLen
    BY <1>0 DEF HdrLen, RecLen
  <2> QED  BY <1>2, <1>7, <2>1
<1>9. DataAt(flash', scratch + HdrLen, Snapshot)
  BY <1>2, <1>3, <1>4, <1>7 DEF DataAt
<1>10. IsRecord(NextSeq, 0, Snapshot)
  <2>1. NextSeq \in 0 .. MaxSeq
    BY <1>0, <1>1, EepromAssumption DEF IInv, TypeOK, CompactInv, CompactPcs, NextSeq
  <2>2. NextSeq \in Cell /\ Snapshot # <<>>
    BY <1>0, <1>3, <2>1, EepromAssumption
  <2> QED  BY <1>0, <1>3, <2>2 DEF IsRecord
<1>11. Overwrite(BlankState, 0, Snapshot) = state
  <2>1. \A i \in 0 .. (Size - 1) : i \in 0 .. (0 + Size - 1) /\ Snapshot[i - 0 + 1] = state[i]
    BY <1>0 DEF Snapshot
  <2>2. Overwrite(BlankState, 0, Snapshot) = [i \in 0 .. (Size - 1) |-> state[i]]
    BY <1>3, <2>1 DEF Overwrite
  <2> QED  BY <1>0, <2>2
<1>12. PointAfter(StartPoint, 0, Snapshot) = Here'
  BY <1>1, <1>3, <1>11 DEF PointAfter, StartPoint, Here, LogAfterSnapshot
<1>13. StartPoint.off = HdrLen
  BY DEF StartPoint
<1>14. /\ HdrLen + Pad4(RecLen + Size) <= SectorSize /\ HdrLen + Pad4(RecLen + Size) \in Nat
       /\ HdrLen + RecLen + Size <= HdrLen + Pad4(RecLen + Size)
  <2>1. RecLen + Size \in Nat /\ HdrLen \in Nat
    BY <1>0 DEF RecLen, HdrLen
  <2>2. Pad4(RecLen + Size) \in Nat
    BY <2>1, Pad4Bounds
  <2>3. HdrLen + 2 * Pad4(RecLen + Size) <= SectorSize
    BY <1>0 DEF WellConfigured, Fits
  <2> DEFINE pad == Pad4(RecLen + Size)
  <2>4. pad \in Nat /\ HdrLen + 2 * pad <= SectorSize
    BY <2>2, <2>3
  <2> HIDE DEF pad
  <2>5. HdrLen + pad <= SectorSize /\ HdrLen + pad \in Nat
    BY <1>0, <2>1, <2>4
  <2> QED  BY <1>0, <2>1, <2>5, RecordExtent DEF pad
<1>15. Log(flash', scratch, {StartPoint} \cup {Here'}, Here')
  <2>1. Log(flash', scratch, {StartPoint}, StartPoint)
    BY EmptyLog
  <2> QED
    BY <1>3, <1>8, <1>9, <1>10, <1>12, <1>13, <1>14, <2>1, LogGrows
<1>16. BlankFrom(flash', scratch, wptr')
  <2> DEFINE w == LogAfterSnapshot
  <2>1. w \in Nat /\ HdrLen + RecLen + Size <= w
    BY <1>14 DEF LogAfterSnapshot
  <2> HIDE DEF w
  <2>2. BlankFrom(flash', scratch, w)
    BY <1>0, <1>2, <1>4, <1>5, <1>7, <2>1 DEF BlankFrom, HdrLen, RecLen
  <2> QED  BY <1>1, <2>2 DEF w
<1>17. LogInvariant'
  BY <1>1, <1>15, <1>16 DEF LogInvariant
<1>18. RequestRecord'
  BY <1>0, <1>1 DEF RequestRecord
<1> QED
  BY <1>1, <1>17, <1>18, PcSets
  DEF LogParts, DownInvariant, ReplayInvariant, ScratchInvariant, FormatPcs

(* An append lands behind the log; its data make it part of the log.       *)
LEMMA AppendRestart ==
  ASSUME CleanRestarts, RestartInv, AppendHeader \/ AppendData
  PROVE  LogParts'
<1>0. /\ flash \in [Addr -> Cell] /\ active \in Nat /\ wptr \in Nat /\ SectorSize \in Nat
      /\ active \in {BaseA, BaseB} /\ FlashSize \in Nat
      /\ IInv /\ WellConfigured /\ LogInvariant /\ RequestRecord
      /\ active + SectorSize <= FlashSize /\ req.data \in Seq(Cell)
      /\ \A x : x \in Addr <=> (x \in Nat /\ x < FlashSize)
  BY Geometry DEF RestartInv, IInv, TypeOK, CleanRestarts
<1>1. pc \in AppendPcs /\ pc \in WritePcs /\ pc \in CallPcs /\ ~ Erasing
  BY PcSets DEF AppendHeader, AppendData, AppendPcs, Erasing
<1>2. PICK P : Log(flash, active, P, Here)
  BY <1>0, <1>1 DEF LogInvariant
<1>3. Len(req.data) \in Nat /\ Len(req.hdr) = RecLen
      /\ wptr + Pad4(RecLen + Len(req.data)) <= SectorSize
  BY <1>0, <1>1 DEF IInv, RequestInv, HasSpace
<1> DEFINE len == Len(req.data)
           after == wptr + Pad4(RecLen + len)
<1>4. after \in Nat /\ wptr + RecLen + len <= after /\ after <= SectorSize /\ len \in Nat
  BY <1>0, <1>3, RecordExtent
<1> HIDE DEF len, after
<1>5. Here.off = wptr
  BY DEF Here
<1>6. CASE AppendHeader
  <2>1. /\ pc = "aHdr" /\ pc' = "aData" /\ Completes("aData")
        /\ UNCHANGED <<active, wptr, state, req>>
    BY <1>6 DEF AppendHeader, Completes, object
  <2>2. Target = active + wptr /\ Payload = req.hdr /\ CallLen = RecLen
    BY <1>1, <1>3, <2>1 DEF Target, Payload, CallLen
  <2>3. BlankFrom(flash, active, wptr)
    BY <1>0, <2>1 DEF LogInvariant
  <2>4. \A x \in Addr : Target <= x /\ x < Target + CallLen => flash[x] = Blank
    BY <1>0, <1>4, <2>2, <2>3 DEF BlankFrom, RecLen
  <2>5. /\ \A x \in Addr : x < Target \/ Target + CallLen <= x => flash'[x] = flash[x]
        /\ \A i \in 1 .. CallLen : flash'[Target + i - 1] = Payload[i]
    BY <1>0, <1>1, <2>1, <2>4, BlankProgram
  <2>6. BlankFrom(flash', active, wptr + RecLen)
    <3>1. wptr + RecLen \in Nat /\ wptr <= wptr + RecLen
      BY <1>0 DEF RecLen
    <3>2. \A x \in Addr : active + (wptr + RecLen) <= x => Target + CallLen <= x
      BY <1>0, <2>2 DEF RecLen
    <3> QED  BY <1>0, <2>3, <2>5, <3>1, <3>2, BlankStays
  <2>7. HeaderAt(flash', active + wptr, req.hdr)
    BY <2>2, <2>5 DEF HeaderAt
  <2>8. Log(flash', active, P, Here)
    BY <1>0, <1>2, <1>5, <2>2, <2>5, LogFrame
  <2>9. Here' = Here /\ RequestRecord'
    BY <1>0, <1>1, <2>1 DEF Here, RequestRecord
  <2>10. LogInvariant'
    BY <2>1, <2>6, <2>7, <2>8, <2>9 DEF LogInvariant
  <2> QED
    BY <2>1, <2>9, <2>10, PcSets
    DEF LogParts, DownInvariant, ReplayInvariant, ScratchInvariant, FormatPcs
<1>7. CASE AppendData
  <2>1. /\ pc = "aData" /\ pc' = "ready" /\ Completes("ready") /\ UNCHANGED active
        /\ wptr' = after /\ state' = Overwrite(state, req.addr, req.data)
    BY <1>7 DEF AppendData, Completes, after, len
  <2>2. Target = active + wptr + RecLen /\ Payload = req.data /\ CallLen = len
    BY <1>1, <2>1 DEF Target, Payload, CallLen, len
  <2>3. BlankFrom(flash, active, wptr + RecLen) /\ HeaderAt(flash, active + wptr, req.hdr)
    BY <1>0, <2>1 DEF LogInvariant
  <2>4. \A x \in Addr : Target <= x /\ x < Target + CallLen => flash[x] = Blank
    BY <1>0, <1>4, <2>2, <2>3 DEF BlankFrom, RecLen
  <2>5. /\ \A x \in Addr : x < Target \/ Target + CallLen <= x => flash'[x] = flash[x]
        /\ \A i \in 1 .. CallLen : flash'[Target + i - 1] = Payload[i]
    BY <1>0, <1>1, <2>1, <2>4, BlankProgram
  <2>6. PICK n : IsRecord(n, req.addr, req.data) /\ req.hdr = RecordHeader(n, req.addr, req.data)
    BY <1>0, <1>1 DEF RequestRecord
  <2>7. HeaderAt(flash', active + wptr, RecordHeader(n, req.addr, req.data))
    <3> SUFFICES ASSUME NEW i \in 1 .. RecLen
                 PROVE  flash'[active + wptr + i - 1] = flash[active + wptr + i - 1]
      BY <2>3, <2>6 DEF HeaderAt
    <3>1. active + wptr + i - 1 \in Addr /\ active + wptr + i - 1 < active + wptr + RecLen
      BY <1>0, <1>4 DEF RecLen
    <3> QED  BY <2>2, <2>5, <3>1
  <2>8. DataAt(flash', active + wptr, req.data)
    BY <2>2, <2>5 DEF DataAt, len
  <2>9. Log(flash', active, P, Here)
    <3>1. \A x \in Addr : active <= x /\ x < active + wptr => flash'[x] = flash[x]
      BY <1>0, <2>2, <2>5 DEF RecLen
    <3> QED  BY <1>0, <1>2, <1>5, <3>1, LogFrame
  <2>10. PointAfter(Here, req.addr, req.data) = Here'
    BY <2>1 DEF PointAfter, Here, after, len
  <2>11. Log(flash', active, P \cup {Here'}, Here')
    <3>1. Here.off + Pad4(RecLen + Len(req.data)) <= SectorSize
      BY <1>3, <1>5
    <3> QED  BY <1>5, <2>6, <2>7, <2>8, <2>9, <2>10, <3>1, LogGrows
  <2>12. BlankFrom(flash', active, after)
    <3>1. wptr + RecLen \in Nat /\ wptr + RecLen <= after
      BY <1>0, <1>4 DEF RecLen
    <3>2. \A x \in Addr : active + after <= x => Target + CallLen <= x
      BY <1>0, <1>4, <2>2 DEF RecLen
    <3> QED  BY <1>0, <1>4, <2>3, <2>5, <3>1, <3>2, BlankStays
  <2>13. LogInvariant'
    BY <2>1, <2>11, <2>12 DEF LogInvariant, AppendPcs
  <2> QED
    BY <2>1, <2>13, PcSets
    DEF LogParts, DownInvariant, ReplayInvariant, ScratchInvariant, RequestRecord, FormatPcs
<1> QED
  BY <1>6, <1>7

LEMMA DownRestart ==
  ASSUME CleanRestarts, RestartInv, OpenFails \/ Restart
  PROVE  LogParts'
<1>1. CASE OpenFails
  <2>1. pc = "off" /\ pc' = "failed" /\ UNCHANGED <<flash, store>> /\ DownInvariant
    BY <1>1 DEF OpenFails, RestartInv
  <2>2. DownInvariant'
    BY <2>1 DEF DownInvariant, FormatPcs
  <2> QED
    BY <2>1, <2>2, PcSets DEF LogParts, ReplayInvariant, LogInvariant, ScratchInvariant,
                              RequestRecord, AppendPcs
<1>2. CASE Restart
  <2>1. /\ pc = "ready" /\ pc' = "off" /\ UNCHANGED <<flash, store>>
        /\ state = store /\ LogInvariant
    BY <1>2, PcSets DEF Restart, RestartInv, Promised
  <2>2. Picked(flash) = active /\ ~ Unformatted(flash)
    BY <2>1, PickedActive DEF RestartInv, CleanRestarts
  <2>3. PICK P : Log(flash, active, P, Here)
    BY <2>1 DEF LogInvariant
  <2>4. Here \in P /\ Here.off = wptr /\ Here.val = store /\ BlankFrom(flash, active, wptr)
    BY <2>1, <2>3 DEF Log, Here, LogInvariant
  <2>5. Holds(flash, active, store)
    BY <2>3, <2>4 DEF Holds
  <2>6. DownInvariant'
    BY <2>1, <2>2, <2>5 DEF DownInvariant
  <2> QED
    BY <2>1, <2>6, PcSets DEF LogParts, ReplayInvariant, LogInvariant, ScratchInvariant,
                              RequestRecord, AppendPcs
<1> QED
  BY <1>1, <1>2

LEMMA SameRestart ==
  ASSUME RestartInv, UNCHANGED vars
  PROVE  LogParts'
<1>1. Here' = Here /\ NextSeq' = NextSeq /\ Snapshot' = Snapshot
  BY DEF Here, NextSeq, Snapshot, vars
<1>2. /\ UNCHANGED <<flash, pc, active, scratch, wptr, req, store>>
      /\ DownInvariant /\ ReplayInvariant /\ LogInvariant /\ ScratchInvariant /\ RequestRecord
  BY DEF vars, RestartInv
<1>3. DownInvariant' /\ ReplayInvariant' /\ RequestRecord'
  BY <1>1, <1>2 DEF DownInvariant, ReplayInvariant, RequestRecord
<1>4. LogInvariant' /\ ScratchInvariant'
  BY <1>1, <1>2 DEF LogInvariant, ScratchInvariant
<1> QED
  BY <1>3, <1>4 DEF LogParts

LEMMA RestartStep ==
  ASSUME CleanRestarts, RestartInv, [Next /\ ~ Rejects]_vars
  PROVE  RestartInv'
<1>0. WellConfigured /\ "ioerr" \notin Faults /\ "crash" \notin Faults /\ "tear" \notin Faults
      /\ IInv /\ ScratchOlder /\ Promised
  BY DEF CleanRestarts, RestartInv
<1>1. IInv' /\ ScratchOlder' /\ Promised'
  <2>1. [Next]_vars
    OBVIOUS
  <2> QED  BY <1>0, <2>1, NextInv, ScratchOlderStep, PromisedStep
<1>2. LogParts'
  <2>1. ~ Fails /\ ~ PowerLoss
    BY <1>0, NoFailure DEF PowerLoss
  <2>2. CASE Open
    BY <2>2, OpenRestart
  <2>3. CASE FormatEraseA \/ FormatEraseB \/ FormatHeader
    BY <2>3, FormatRestart
  <2>4. CASE ~ Rejects /\ (ReplayRecord \/ ReplayEnd \/ ReplayFails)
    BY <2>4, ReplayRestart
  <2>5. CASE \E r \in Requests : Write(r)
    BY <2>5, WriteRestart
  <2>6. CASE CompactErase \/ CompactHeader \/ CompactRecord
    BY <2>6, CompactRestart
  <2>7. CASE CompactSnapshot
    BY <2>7, SnapshotRestart
  <2>8. CASE AppendHeader \/ AppendData
    BY <2>8, AppendRestart
  <2>9. CASE OpenFails \/ Restart
    BY <2>9, DownRestart
  <2>10. CASE Read \/ UNCHANGED vars
    BY <2>10, SameRestart DEF Read
  <2> QED
    BY <2>1, <2>2, <2>3, <2>4, <2>5, <2>6, <2>7, <2>8, <2>9, <2>10
    DEF Next, Running, Mounting, Compacting, Appending
<1> QED
  BY <1>1, <1>2 DEF RestartInv, LogParts

LEMMA RestartInit ==
  ASSUME CleanRestarts, Init
  PROVE  RestartInv
<1>1. IInv
  BY InitInv DEF CleanRestarts
<1>2. ScratchOlder /\ Promised
  BY PcSets DEF Init, ScratchOlder, Promised, AppendPcs
<1>3. Unformatted(flash)
  BY HeaderAddresses, EepromAssumption
  DEF Init, ErasedArray, Unformatted, ValidHeader, CleanRestarts
<1>4. LogParts
  BY <1>3, PcSets DEF Init, LogParts, DownInvariant, ReplayInvariant, LogInvariant,
                      ScratchInvariant, RequestRecord, AppendPcs, FormatPcs
<1> QED
  BY <1>1, <1>2, <1>4 DEF RestartInv, LogParts

-----------------------------------------------------------------------------
(* The theorems.                                                           *)

(* The log of the active sector, or the sector a compaction is building,   *)
(* leads from blank contents to the promised ones, in every state.         *)
LEMMA RestartInvariant ==
  ASSUME CleanRestarts
  PROVE  UntilRejected => []RestartInv
<1>1. Init => RestartInv
  BY RestartInit
<1>2. RestartInv /\ [Next /\ ~ Rejects]_vars => RestartInv'
  BY RestartStep
<1> QED
  BY <1>1, <1>2, PTL DEF UntilRejected

(* Where no record is ever rejected, what follows is about all of Spec.    *)
LEMMA NoneRejected ==
  Spec /\ []~ Rejects => UntilRejected
<1>1. [Next]_vars /\ ~ Rejects => [Next /\ ~ Rejects]_vars
  OBVIOUS
<1> QED
  BY <1>1, PTL DEF Spec, UntilRejected

LEMMA RestartInvRecovers ==
  ASSUME CleanRestarts, RestartInv
  PROVE  RestartRecovers \/ Rejects
<1> SUFFICES ASSUME pc = "replay", ReplayStops, ~ Rejects PROVE state = store
  BY DEF RestartRecovers
<1>1. PICK P : \E end \in P : /\ Log(flash, active, P, end) /\ BlankFrom(flash, active, end.off)
                              /\ end.val = store /\ Here \in P
  BY DEF RestartInv, ReplayInvariant
<1>2. PICK end \in P : /\ Log(flash, active, P, end) /\ BlankFrom(flash, active, end.off)
                       /\ end.val = store /\ Here \in P
  BY <1>1
<1>3. Here = end
  BY <1>2, ReplayAtEnd DEF RestartInv
<1> QED
  BY <1>2, <1>3 DEF Here

(* After any number of writes, compactions and restarts a mount ends with  *)
(* the contents the client was promised, or by rejecting a record: nothing *)
(* but the check can lose them (lib.rs:119, :136).                         *)
THEOREM CleanRestartsRecover ==
  ASSUME CleanRestarts
  PROVE  UntilRejected => [](RestartRecovers \/ Rejects)
<1>1. RestartInv => RestartRecovers \/ Rejects
  BY RestartInvRecovers
<1> QED
  BY <1>1, RestartInvariant, PTL

(* Up to there the log is the store, with its restarts: what succeeds      *)
(* stays, and a restart changes nothing.                                   *)
THEOREM CleanImplementsStore ==
  ASSUME CleanRestarts
  PROVE  UntilRejected => ImplementsStore
<1>1. Init => Store!Init
  BY PcSets DEF Init, Store!Init, BlankState
<1>2. RestartInv /\ [Next /\ ~ Rejects]_vars => [Store!Next]_(Store!vars)
  <2> SUFFICES ASSUME RestartInv, [Next /\ ~ Rejects]_vars
               PROVE  [Store!Next]_(Store!vars)
    OBVIOUS
  <2>1. CASE Next /\ ~ Rejects
    <3>1. Promised /\ RestartRecovers
      BY <2>1, RestartInvRecovers DEF RestartInv
    <3> QED  BY <2>1, <3>1, StoreStep
  <2>2. CASE UNCHANGED vars
    BY <2>2 DEF vars, Store!vars
  <2> QED  BY <2>1, <2>2
<1> QED
  BY <1>1, <1>2, RestartInvariant, PTL DEF UntilRejected, ImplementsStore, Store!Safety

(* And up to there every program call of the library falls on erased       *)
(* cells: no record is ANDed into another one, in a session with all its   *)
(* compactions, for one (lib.rs:168-179, :209).                            *)
THEOREM WritesOnBlank ==
  ASSUME CleanRestarts
  PROVE  UntilRejected => []AppendsOnBlank
<1>1. RestartInv => AppendsOnBlank
  <2> SUFFICES ASSUME RestartInv, pc \in CallPcs, ~ Erasing, NEW x \in Addr,
                      Target <= x, x < Target + CallLen
               PROVE  flash[x] = Blank
    <3>1. ASSUME RestartInv, pc \in CallPcs, ~ Erasing
          PROVE  \A x \in Target .. (Target + CallLen - 1) :
                   x \in Addr => Target <= x /\ x < Target + CallLen
      <4>1. Target \in Nat /\ Payload \in Seq(Cell) /\ CallLen = Len(Payload)
        BY <3>1, ProgramCalls DEF RestartInv, CleanRestarts
      <4>2. CallLen \in Nat
        BY <4>1
      <4> QED  BY <4>1, <4>2
    <3> QED  BY <3>1, ZenonT(30) DEF AppendsOnBlank
  <2>0. /\ IInv /\ TypeOK /\ WellConfigured /\ DownInvariant /\ LogInvariant /\ ScratchInvariant
    BY DEF RestartInv, IInv, CleanRestarts
  <2>1. /\ BaseA \in Nat /\ SectorSize \in Nat /\ x \in Nat /\ active \in Nat /\ scratch \in Nat
        /\ wptr \in Nat /\ HdrLen <= SectorSize
    BY <2>0, Geometry, SMTT(20) DEF TypeOK, HdrLen, RecLen
  <2>2. Target \in Nat /\ Payload \in Seq(Cell) /\ CallLen = Len(Payload) /\ CallLen \in Nat
    BY <2>0, ProgramCalls
  <2>3. CASE pc = "fHdr"
    <3>1. Target = BaseA /\ Payload = <<SectorMagic, 1>>
      BY <2>0, <2>3, ProgramCalls
    <3>2. CallLen = 2
      BY <2>2, <3>1
    <3> QED  BY <2>0, <2>1, <2>3, <3>1, <3>2 DEF DownInvariant, BlankFrom, HdrLen
  <2>4. CASE pc = "cHdr"
    <3>1. Target = scratch /\ Payload = <<SectorMagic, seq + 1>>
      BY <2>0, <2>4, ProgramCalls
    <3>2. CallLen = 2
      BY <2>2, <3>1
    <3> QED  BY <2>0, <2>1, <2>4, <3>1, <3>2 DEF ScratchInvariant, BlankFrom, HdrLen
  <2>5. CASE pc \in {"cRecHdr", "cSnap"}
    <3>1. Target + CallLen <= scratch + SectorSize
      BY <2>0, <2>2, <2>5, ProgramCalls
    <3>2. /\ pc = "cRecHdr" => Target = scratch + HdrLen /\ BlankFrom(flash, scratch, HdrLen)
          /\ pc = "cSnap" => /\ Target = scratch + HdrLen + RecLen
                             /\ BlankFrom(flash, scratch, HdrLen + RecLen)
      BY <2>0, <2>5 DEF Target, ScratchInvariant
    <3> QED  BY <2>1, <2>2, <2>5, <3>1, <3>2 DEF BlankFrom, HdrLen, RecLen
  <2>6. CASE pc \in AppendPcs
    <3>1. Target + CallLen <= active + SectorSize
      BY <2>0, <2>2, <2>6, ProgramCalls
    <3>2. /\ pc = "aHdr" => Target = active + wptr /\ BlankFrom(flash, active, wptr)
          /\ pc = "aData" => /\ Target = active + wptr + RecLen
                             /\ BlankFrom(flash, active, wptr + RecLen)
      BY <2>0, <2>6 DEF Target, LogInvariant, AppendPcs
    <3> QED  BY <2>1, <2>2, <2>6, <3>1, <3>2 DEF BlankFrom, RecLen, AppendPcs
  <2> QED
    BY <2>3, <2>4, <2>5, <2>6 DEF CallPcs, FormatPcs, WritePcs, CompactPcs, AppendPcs, Erasing
<1> QED
  BY <1>1, RestartInvariant, PTL

(* Up to there a mount fails in one case: everything is replayed, and the  *)
(* log of the second sector ends too near the end of the array for another *)
(* header to be read (lib.rs:123).                                         *)
THEOREM FailsOnlyAtEnd ==
  ASSUME CleanRestarts
  PROVE  UntilRejected => MountFailsOnlyAtEnd
<1>1. RestartInv /\ [Next /\ ~ Rejects]_vars =>
        [pc # "failed" /\ pc' = "failed" =>
           /\ pc = "replay" /\ state = store
           /\ active = BaseB /\ active + wptr + RecLen > FlashSize]_vars
  <2> SUFFICES ASSUME RestartInv, Next, pc # "failed", pc' = "failed"
               PROVE  /\ pc = "replay" /\ state = store
                      /\ active = BaseB /\ active + wptr + RecLen > FlashSize
    BY DEF vars
  <2>0. /\ IInv /\ TypeOK /\ WellConfigured /\ ReplayInvariant /\ "ioerr" \notin Faults
    BY DEF RestartInv, IInv, CleanRestarts
  <2>1. /\ BaseA \in Nat /\ BaseB \in Nat /\ SectorSize \in Nat /\ FlashSize \in Nat
        /\ active \in {BaseA, BaseB} /\ wptr \in Nat /\ HdrLen + RecLen <= SectorSize
        /\ BaseB = BaseA + SectorSize /\ BaseB + SectorSize <= FlashSize
    BY <2>0, Geometry, EepromAssumption DEF TypeOK
  <2>2. ~ OpenFails
    <3>1. BaseA + HdrLen <= FlashSize /\ BaseB + HdrLen <= FlashSize
      BY <2>1 DEF HdrLen, RecLen
    <3> QED  BY <2>0, <3>1 DEF OpenFails, OpenSizesOk, InArray
  <2>3. ReplayFails
    <3>1. ~ Fails
      BY <2>0, NoFailure
    <3>2. ASSUME ~ ReplayFails PROVE pc' # "failed"
      BY <2>2, <3>1, <3>2
      DEF Next, Running, Mounting, Compacting, Appending, Open, Write, Read, Restart, PowerLoss,
          FormatEraseA, FormatEraseB, FormatHeader, ReplayRecord, ReplayEnd, CompactErase,
          CompactHeader, CompactRecord, CompactSnapshot, AppendHeader, AppendData, Completes, vars
    <3> QED  BY <3>2
  <2>4. pc = "replay" /\ wptr < SectorSize
    BY <2>3 DEF ReplayFails
  <2>5. PICK P : \E end \in P : /\ Log(flash, active, P, end)
                                /\ BlankFrom(flash, active, end.off)
                                /\ end.val = store /\ Here \in P
    BY <2>0, <2>4 DEF ReplayInvariant
  <2>6. PICK end \in P : /\ Log(flash, active, P, end) /\ BlankFrom(flash, active, end.off)
                         /\ end.val = store /\ Here \in P
    BY <2>5
  <2>7. Here = end /\ ~ HeaderInArray
    <3>1. Here # end => HeaderInArray /\ DataInArray
      BY <2>0, <2>6, ReplayInside
    <3>2. HeaderInArray /\ ~ LogAtEnd => Here # end
      BY <2>0, <2>4, <2>6, ReplayAtEnd
    <3> QED  BY <2>0, <2>3, <3>1, <3>2 DEF ReplayFails
  <2>8. state = store
    BY <2>6, <2>7 DEF Here
  <2>9. active + wptr + RecLen > FlashSize
    BY <2>1, <2>7 DEF HeaderInArray, InArray, RecLen
  <2>10. active # BaseA
    BY <2>1, <2>4, <2>9 DEF HdrLen, RecLen
  <2> QED  BY <2>1, <2>4, <2>8, <2>9, <2>10
<1> QED
  BY <1>1, RestartInvariant, PTL DEF UntilRejected, MountFailsOnlyAtEnd
=============================================================================
