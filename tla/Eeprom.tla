------------------------------- MODULE Eeprom -------------------------------
(***************************************************************************)
(* The EEPROM emulation of sw/rust/eeprom_emul: a byte array of Size bytes *)
(* kept in RAM and logged, record by record, into one of two flash         *)
(* sectors; a full sector is compacted into the other one.                 *)
(*                                                                         *)
(* Everything the library does between two calls on the flash is one step, *)
(* and pc names the flash call that comes next, so that a call that fails  *)
(* or a loss of power can fall between any two calls and inside each one.  *)
(*                                                                         *)
(* Units: a 32-bit header field is one cell and a data byte is one cell.   *)
(* A sector header is <<magic, seq>> (its two reserved words are never     *)
(* read back), a record header <<magic, seq, addr, len, crc32>>.           *)
(***************************************************************************)
EXTENDS NorFlash

CONSTANTS
  Base,         (* flash address of the first of the two sectors           *)
  Size,         (* logical size of the EEPROM                              *)
  Requests,     (* the writes a client may ask for: [addr, data] records   *)
  Crc(_),       (* checksum of a sequence of cells                         *)
  SectorMagic, RecMagic,
  MaxSeq,       (* bound: no compaction beyond this sequence number        *)
  Faults        (* what may go wrong, a subset of FaultKinds               *)

(* "ioerr"   a flash call returns an error after any number of its cells   *)
(* "restart" the object is dropped and mounted again between two calls     *)
(* "crash"   power is lost between two flash calls                         *)
(* "tear"    power is lost inside a flash call, after any number of cells  *)
FaultKinds == {"ioerr", "restart", "crash", "tear"}

HdrLen == 2     (* size_of::<SectorHeader>(), in fields                    *)
RecLen == 5     (* size_of::<RecHeader>(), in fields                       *)

(* Blank is what an erased field decodes to, 0xFFFFFFFF: a length larger   *)
(* than any array.                                                         *)
ASSUME EepromAssumption ==
  /\ Blank > FlashSize
  /\ Base \in Nat
  /\ Size \in Nat \ {0} /\ Size <= 2 * SectorSize
  /\ SectorSize >= HdrLen + RecLen
  /\ Requests \subseteq [addr : Nat, data : Seq(Cell)]
  /\ SectorMagic \in Cell /\ SectorMagic # Blank
  /\ RecMagic \in Cell /\ RecMagic # Blank
  /\ MaxSeq \in Nat \ {0} /\ MaxSeq < Blank
  /\ 0 .. MaxSeq \subseteq Cell /\ 0 .. Size \subseteq Cell
  /\ Faults \subseteq FaultKinds

VARIABLES
  flash,        (* the cells of the array                                  *)
  pc,           (* the flash call that comes next, or off, failed, ready   *)
  active, scratch,  (* base addresses of the two sectors' roles            *)
  seq,          (* sequence number of the active sector                    *)
  state,        (* contents of the EEPROM, in RAM                          *)
  wptr,         (* end of the log in the active sector; the replay's off   *)
  req,          (* the write being served, with its record header          *)
  store         (* history: the contents the client has been promised      *)

vars == <<flash, pc, active, scratch, seq, state, wptr, req, store>>
object == <<active, scratch, seq, state, wptr, req>>

FormatPcs  == {"fEraseA", "fEraseB", "fHdr"}
CompactPcs == {"cErase", "cHdr", "cRecHdr", "cSnap"}
AppendPcs  == {"aHdr", "aData"}
WritePcs   == CompactPcs \cup AppendPcs       (* inside write()            *)
Session    == WritePcs \cup {"ready"}         (* the object exists         *)
CallPcs    == FormatPcs \cup WritePcs         (* a call that changes flash *)

-----------------------------------------------------------------------------
(* Layout.                                                                 *)

BaseA == Base
BaseB == Base + SectorSize

Pad4(x) == ((x + 3) \div 4) * 4

SectorHeader(n) == <<SectorMagic, n>>

(* The record header as it is written: the checksum is taken over the      *)
(* header with a zero in the checksum field, followed by the data.         *)
RecordCells(n, a, len, crc) == <<RecMagic, n, a, len, crc>>
RecordHeader(n, a, data) ==
  RecordCells(n, a, Len(data), Crc(RecordCells(n, a, Len(data), 0) \o data))

BlankStateShort == [i \in 0 .. (Size - 2) |-> Blank]            (* mutant *)
BlankState == [i \in 0 .. (Size - 1) |-> Blank]

Overwrite(st, a, data) ==
  [i \in 0 .. (Size - 1) |->
     IF i \in a .. (a + Len(data) - 1) THEN data[i - a + 1] ELSE st[i]]

InRange(r) == r.addr + Len(r.data) <= Size

Snapshot == [i \in 1 .. Size |-> state[i - 1]]

NoRequest == [addr |-> 0, data |-> <<>>, hdr |-> SectorHeader(0)]

-----------------------------------------------------------------------------
(* The flash call that pc stands for: an erase of the sector of Target, or *)
(* a program of Payload at Target.                                         *)

Erasing == pc \in {"fEraseA", "fEraseB", "cErase"}

NextSeqSame == seq                                              (* mutant *)
NextSeq == seq + 1

TargetActive ==                                                 (* mutant *)
  CASE pc \in {"fEraseA", "fHdr"}  -> BaseA
    [] pc = "fEraseB"              -> BaseB
    [] pc \in {"cErase"}           -> active
    [] pc = "cHdr"                 -> scratch
    [] pc = "cRecHdr"              -> scratch + HdrLen
    [] pc = "cSnap"                -> scratch + HdrLen + RecLen
    [] pc = "aHdr"                 -> active + wptr
    [] pc = "aData"                -> active + wptr + RecLen

Target ==
  CASE pc \in {"fEraseA", "fHdr"}  -> BaseA
    [] pc = "fEraseB"              -> BaseB
    [] pc \in {"cErase", "cHdr"}   -> scratch
    [] pc = "cRecHdr"              -> scratch + HdrLen
    [] pc = "cSnap"                -> scratch + HdrLen + RecLen
    [] pc = "aHdr"                 -> active + wptr
    [] pc = "aData"                -> active + wptr + RecLen

Payload ==
  CASE pc = "fHdr"     -> SectorHeader(1)
    [] pc = "cHdr"     -> SectorHeader(NextSeq)
    [] pc = "cRecHdr"  -> RecordHeader(NextSeq, 0, Snapshot)
    [] pc = "cSnap"    -> Snapshot
    [] pc = "aHdr"     -> req.hdr
    [] pc = "aData"    -> req.data

CallLen == IF Erasing THEN SectorSize ELSE Len(Payload)

(* The array when the call has done its first k cells.                     *)
After(k) == IF Erasing THEN Erased(flash, Target, k)
                       ELSE Programmed(flash, Target, Payload, k)

(* The call returns Ok and the library goes on to `next`.                  *)
Completes(next) ==
  /\ Erasing \/ InArray(Target, CallLen)
  /\ flash' = After(CallLen)
  /\ pc' = next

-----------------------------------------------------------------------------
(* Mounting: new_with_flash, init_or_format, replay_log.                   *)

ValidHeader(mem, b) == mem[b] = SectorMagic /\ mem[b + 1] # Blank

(* The sector a mount takes as the active one, if either header is valid.  *)
PickedOldest(mem) ==                                            (* mutant *)
  IF /\ ValidHeader(mem, BaseB)
     /\ ValidHeader(mem, BaseA) => mem[BaseA + 1] >= mem[BaseB + 1]
    THEN BaseB ELSE BaseA
Picked(mem) ==
  IF /\ ValidHeader(mem, BaseB)
     /\ ValidHeader(mem, BaseA) => mem[BaseA + 1] < mem[BaseB + 1]
    THEN BaseB ELSE BaseA

UnformattedEither(mem) ==                                       (* mutant *)
  ~ (ValidHeader(mem, BaseA) /\ ValidHeader(mem, BaseB))
Unformatted(mem) == ~ ValidHeader(mem, BaseA) /\ ~ ValidHeader(mem, BaseB)

(* The object as the constructor builds it; also what is left of it when   *)
(* the constructor fails or the power goes.                                *)
Fresh == /\ active' = BaseA /\ scratch' = BaseB
         /\ seq' = 0 /\ wptr' = 0
         /\ state' = BlankState /\ req' = NoRequest

(* The object enters the replay of sector b, whose sequence number is n.   *)
StartReplay(b, n) ==
  /\ active' = b /\ scratch' = IF b = BaseA THEN BaseB ELSE BaseA
  /\ seq' = n /\ wptr' = HdrLen
  /\ state' = BlankState /\ req' = NoRequest

OpenSizesOk == InArray(BaseA, HdrLen) /\ InArray(BaseB, HdrLen)

Open ==
  /\ pc \in {"off", "failed"} /\ OpenSizesOk
  /\ IF Unformatted(flash)
       THEN pc' = "fEraseA" /\ Fresh
       ELSE pc' = "replay" /\ StartReplay(Picked(flash), flash[Picked(flash) + 1])
  /\ UNCHANGED <<flash, store>>

(* A header read fails: out of the array, or an error of the device.       *)
OpenFails ==
  /\ pc = "off" /\ (~ OpenSizesOk \/ "ioerr" \in Faults)
  /\ pc' = "failed" /\ Fresh
  /\ UNCHANGED <<flash, store>>

FormatEraseA == pc = "fEraseA" /\ Completes("fEraseB") /\ UNCHANGED <<object, store>>
FormatEraseB == pc = "fEraseB" /\ Completes("fHdr") /\ UNCHANGED <<object, store>>
FormatHeader == /\ pc = "fHdr" /\ Completes("replay")
                /\ StartReplay(BaseA, 1) /\ UNCHANGED store

(* One iteration of the replay loop looks at the record at active + wptr.  *)
RecField(i) == flash[active + wptr + i]
RecData(n)  == [i \in 1 .. n |-> RecField(RecLen + i - 1)]

HeaderInArray == InArray(active + wptr, RecLen)
DataInArray   == InArray(active + wptr + RecLen, RecField(3))

LogAtEndZero == RecField(0) = 0                                 (* mutant *)
(* Blank or invalid magic, or an empty record: the replay stops here.      *)
LogAtEnd == RecField(0) # RecMagic \/ RecField(3) = 0

(* The check is taken over the header as it was read, checksum included.   *)
ChecksumOk ==
  Crc([i \in 1 .. RecLen |-> RecField(i - 1)] \o RecData(RecField(3))) = RecField(4)

ConsumedNothing(len) == 0                                       (* mutant *)
ConsumedUnpadded(len) == RecLen + len                           (* mutant *)
Consumed(len) == Pad4(RecLen + len)

ReplayRecord ==
  /\ pc = "replay" /\ wptr < SectorSize /\ HeaderInArray
  /\ ~ LogAtEnd /\ DataInArray /\ ChecksumOk
  /\ LET a == RecField(2) len == RecField(3)
     IN /\ state' = IF a + len <= Size THEN Overwrite(state, a, RecData(len)) ELSE state
        /\ wptr' = wptr + Consumed(len)
  /\ UNCHANGED <<flash, pc, active, scratch, seq, req, store>>

ReplayStops ==
  \/ wptr >= SectorSize
  \/ HeaderInArray /\ (LogAtEnd \/ (DataInArray /\ ~ ChecksumOk))

(* The mount is done: the client finds the contents that were recovered.   *)
ReplayEnd ==
  /\ pc = "replay" /\ ReplayStops
  /\ pc' = "ready" /\ store' = state
  /\ UNCHANGED <<flash, object>>

(* A read of the loop fails and with it the constructor: the record header *)
(* or the data its len announces lies outside the array, or a device error.*)
ReplayFails ==
  /\ pc = "replay" /\ wptr < SectorSize
  /\ \/ ~ HeaderInArray
     \/ HeaderInArray /\ ~ LogAtEnd /\ ~ DataInArray
     \/ "ioerr" \in Faults
  /\ pc' = "failed" /\ Fresh
  /\ UNCHANGED <<flash, store>>

-----------------------------------------------------------------------------
(* write(), ensure_space() and compact().                                  *)

HasSpaceDataOnly(data) == wptr + Pad4(Len(data)) <= SectorSize  (* mutant *)
HasSpace(data) == wptr + Pad4(RecLen + Len(data)) <= SectorSize

(* The header is built here, before a compaction changes seq.              *)
Write(r) ==
  /\ pc = "ready" /\ InRange(r)
  /\ HasSpace(r.data) \/ NextSeq <= MaxSeq
  /\ pc' = IF HasSpace(r.data) THEN "aHdr" ELSE "cErase"
  /\ req' = [addr |-> r.addr, data |-> r.data,
             hdr |-> RecordHeader(seq, r.addr, r.data)]
  /\ UNCHANGED <<flash, active, scratch, seq, state, wptr, store>>

CompactErase  == pc = "cErase" /\ Completes("cHdr") /\ UNCHANGED <<object, store>>
CompactHeader == pc = "cHdr" /\ Completes("cRecHdr") /\ UNCHANGED <<object, store>>
CompactRecord == pc = "cRecHdr" /\ Completes("cSnap") /\ UNCHANGED <<object, store>>

LogAfterSnapshotDataOnly == HdrLen + Pad4(Size)                 (* mutant *)
LogAfterSnapshot == HdrLen + Pad4(RecLen + Size)

(* The last call of compact(), the swap of the roles, and the return into  *)
(* write(), which appends its record without looking at the space again.   *)
CompactSnapshot ==
  /\ pc = "cSnap" /\ Completes("aHdr")
  /\ active' = scratch /\ scratch' = active
  /\ seq' = NextSeq /\ wptr' = LogAfterSnapshot
  /\ UNCHANGED <<state, req, store>>

AppendHeaderEager ==                                            (* mutant *)
  /\ pc = "aHdr" /\ Completes("aData")
  /\ state' = Overwrite(state, req.addr, req.data)
  /\ UNCHANGED <<active, scratch, seq, wptr, req, store>>
AppendHeader == pc = "aHdr" /\ Completes("aData") /\ UNCHANGED <<object, store>>

AppendDataAgain ==                                              (* mutant *)
  pc = "aData" /\ Completes("aHdr") /\ UNCHANGED <<object, store>>
AppendDataNoState ==                                            (* mutant *)
  /\ pc = "aData" /\ Completes("ready")
  /\ wptr' = wptr + Pad4(RecLen + Len(req.data))
  /\ req' = NoRequest
  /\ store' = Overwrite(state, req.addr, req.data)
  /\ UNCHANGED <<active, scratch, seq, state>>

(* The data, the new write pointer, the contents; write() returns Ok.      *)
AppendData ==
  /\ pc = "aData" /\ Completes("ready")
  /\ wptr' = wptr + Pad4(RecLen + Len(req.data))
  /\ state' = Overwrite(state, req.addr, req.data)
  /\ store' = state'
  /\ req' = NoRequest
  /\ UNCHANGED <<active, scratch, seq>>

(* read() answers from RAM and changes nothing.                            *)
Read == pc = "ready" /\ UNCHANGED vars

-----------------------------------------------------------------------------
(* Failures.                                                               *)

(* A flash call returns an error after k of its cells.  Out of the array,  *)
(* a program fails where the page loop of the mock stops; a device error   *)
(* can come anywhere.  Inside write() the error is handed to the client    *)
(* and the object stays as it is; in the constructor there is no object.   *)
CallFails(k) ==
  /\ \/ "ioerr" \in Faults
     \/ ~ Erasing /\ ~ InArray(Target, CallLen) /\ k = PagesInArray(Target, CallLen)
  /\ flash' = After(k)
  /\ IF pc \in WritePcs
       THEN /\ pc' = "ready" /\ req' = NoRequest
            /\ UNCHANGED <<active, scratch, seq, state, wptr>>
       ELSE pc' = "failed" /\ Fresh
  /\ UNCHANGED store

Fails == pc \in CallPcs /\ \E k \in 0 .. CallLen : CallFails(k)

Restart ==
  /\ pc = "ready" /\ "restart" \in Faults
  /\ pc' = "off" /\ Fresh
  /\ UNCHANGED <<flash, store>>

PowerLoss ==
  /\ pc \in CallPcs
  /\ \E k \in 0 .. CallLen : /\ "tear" \in Faults \/ ("crash" \in Faults /\ k = 0)
                             /\ flash' = After(k)
  /\ pc' = "off" /\ Fresh
  /\ UNCHANGED store

-----------------------------------------------------------------------------
Init ==
  /\ flash = ErasedArray /\ pc = "off"
  /\ active = BaseA /\ scratch = BaseB
  /\ seq = 0 /\ wptr = 0
  /\ state = BlankState /\ req = NoRequest
  /\ store = BlankState

Mounting   == FormatEraseA \/ FormatEraseB \/ FormatHeader
                \/ ReplayRecord \/ ReplayEnd \/ ReplayFails
Compacting == CompactErase \/ CompactHeader \/ CompactRecord \/ CompactSnapshot
Appending  == AppendHeader \/ AppendData

(* What the library does on its own once it has been called.               *)
Running == Mounting \/ Compacting \/ Appending \/ Fails

Next ==
  \/ Open \/ OpenFails
  \/ (\E r \in Requests : Write(r)) \/ Read
  \/ Running
  \/ Restart \/ PowerLoss

(* The library is synchronous code: a call that has been made keeps        *)
(* running.  Nothing obliges a client to call, or a fault to happen.       *)
Spec == Init /\ [][Next]_vars /\ WF_vars(Running)

-----------------------------------------------------------------------------
(* Properties.                                                             *)

TypeOK ==
  /\ flash \in [Addr -> Cell]
  /\ pc \in CallPcs \cup {"off", "failed", "replay", "ready"}
  /\ active \in {BaseA, BaseB} /\ scratch \in {BaseA, BaseB}
  /\ seq \in Nat /\ wptr \in Nat
  /\ state \in [0 .. (Size - 1) -> Cell] /\ store \in [0 .. (Size - 1) -> Cell]
  /\ req \in [addr : Nat, data : Seq(Cell), hdr : Seq(Cell)]

(* The geometry the layout needs and the constructor does not ask for: the *)
(* two sectors are whole erase units inside the array, and a sector holds  *)
(* its header, a snapshot, and any one record after the snapshot.          *)
Fits ==
  /\ EraseBase(BaseA) = BaseA /\ EraseBase(BaseB) = BaseB
  /\ BaseB + SectorSize <= FlashSize
  /\ HdrLen + 2 * Pad4(RecLen + Size) <= SectorSize

(* No program call reaches outside the sector it is meant for: appends     *)
(* stay behind the sector header and inside the active sector, whatever    *)
(* ensure_space decided and whatever compact() left (lib.rs:152, :183).    *)
WriteStaysInSector ==
  /\ pc \in AppendPcs => /\ Target >= active + HdrLen
                         /\ Target + CallLen <= active + SectorSize
  /\ pc \in {"cHdr", "cRecHdr", "cSnap"} => Target + CallLen <= scratch + SectorSize

(* While an object exists, no step of it and no failure in it changes a    *)
(* cell of the active sector below its write pointer: header and records   *)
(* that are part of the log stay as they were acknowledged (lib.rs:209).   *)
LogCells == {x \in Addr : active <= x /\ x < active + wptr /\ x < active + SectorSize}
LogKept ==
  [][(pc \in Session) => \A x \in LogCells : flash'[x] = flash[x]]_vars

(* Once the EEPROM is formatted some sector has a valid header for ever,   *)
(* through compactions, errors and loss of power in any flash call: it is  *)
(* never formatted a second time (lib.rs:100, :160).                       *)
NeverReformatted == [][~ Unformatted(flash) => ~ Unformatted(flash')]_vars

(* Two valid sector headers never carry the same sequence number, so a     *)
(* mount can always tell the newer sector (lib.rs:95, :161).               *)
HeadersDistinct ==
  ValidHeader(flash, BaseA) /\ ValidHeader(flash, BaseB)
    => flash[BaseA + 1] # flash[BaseB + 1]

(* A sector that was made by a compaction, and that a mount may pick, has  *)
(* the snapshot record that goes with its header (lib.rs:159, "Write a     *)
(* fresh sector: header(seq+1) + snapshot record of full state").          *)
FreshSectorHasSnapshot ==
  pc \in {"ready", "off"} =>
    \A b \in {BaseA, BaseB} :
      ValidHeader(flash, b) /\ flash[b + 1] > 1 =>
        flash[b + HdrLen] = RecMagic /\ flash[b + HdrLen + 3] = Size

(* Between two calls, the sector a mount would pick is the sector the      *)
(* object is writing to (lib.rs:93, :182).                                 *)
RestartPicksActive == pc = "ready" => Picked(flash) = active

(* The constructor never fails on a device that has no errors of its own:  *)
(* whatever is in the flash, the replay stops before it reads outside      *)
(* (lib.rs:127, "hit blank or invalid").                                   *)
MountSucceeds == pc # "failed"

(* With the checksum of the code a device without errors makes the         *)
(* constructor fail in one case: the first record of the sector it reads   *)
(* has its magic and no length, its header having been cut off.  No other  *)
(* loss of power, and no writing over what was there, does (lib.rs:131).   *)
MountFailsOnlyTorn ==
  [][pc # "failed" /\ pc' = "failed" =>
       /\ pc = "replay" /\ wptr = HdrLen
       /\ RecField(0) = RecMagic /\ RecField(3) = Blank]_vars

(* With a checksum that accepts the records and no loss of power, it fails *)
(* in one case too: every record was replayed, and the log of the second   *)
(* sector ends where no further header can be read (lib.rs:123).           *)
MountFailsOnlyAtEnd ==
  [][pc # "failed" /\ pc' = "failed" =>
       /\ pc = "replay" /\ state = store
       /\ active = BaseB /\ active + wptr + RecLen > FlashSize]_vars

(* A mount recovers exactly the contents the client was promised           *)
(* (README.md:56, lib.rs:119).                                             *)
RestartRecovers == pc = "replay" /\ ReplayStops => state = store

(* The library programs only erased cells, so that a cell holds what was   *)
(* written and not the AND of two records (lib.rs:209, flash_mock:36).     *)
AppendsOnBlank ==
  pc \in CallPcs /\ ~ Erasing =>
    \A x \in Target .. (Target + CallLen - 1) : x \in Addr => flash[x] = Blank

(* A call into the library returns: format, replay, compaction and append  *)
(* all come to an end (lib.rs:123, :152).                                  *)
EveryCallReturns ==
  pc \in CallPcs \cup {"replay"} ~> pc \in {"ready", "failed", "off"}

(* The inductive invariant, under Fits.                                    *)
BlankHeader(mem, b) == mem[b] = Blank /\ mem[b + 1] = Blank

SeqBounded ==
  \A b \in {BaseA, BaseB} : flash[b + 1] = Blank \/ flash[b + 1] \in 0 .. MaxSeq

FormatInv ==
  /\ pc \in FormatPcs => Unformatted(flash)
  /\ pc \in {"fEraseB", "fHdr"} => BlankHeader(flash, BaseA)

MountedInv ==
  pc \in Session \cup {"replay"} =>
    /\ active # scratch /\ ValidHeader(flash, active)
    /\ seq = flash[active + 1] /\ wptr >= HdrLen

RequestInv ==
  /\ pc \in WritePcs => InRange(req) /\ Len(req.hdr) = RecLen
  /\ pc \in AppendPcs => HasSpace(req.data)

CompactInv ==
  /\ pc \in CompactPcs => NextSeq <= MaxSeq
  /\ pc = "cHdr" => BlankHeader(flash, scratch)
  /\ pc \in {"cRecHdr", "cSnap"} =>
       ValidHeader(flash, scratch) /\ flash[scratch + 1] = NextSeq

(* Why the properties above hold: the active sector's header is valid and  *)
(* names seq, a request that is being appended has its room, the scratch   *)
(* header is blank before it is written and newer afterwards, and a format *)
(* only runs while there is nothing to lose.                               *)
IInv ==
  /\ TypeOK
  /\ SeqBounded /\ FormatInv /\ MountedInv /\ RequestInv /\ CompactInv
  /\ HeadersDistinct

(* While no compaction has written the scratch header, that header is      *)
(* invalid or older than the active one.  An error of the device in the    *)
(* middle of a compaction breaks this, a loss of power does not.           *)
ScratchOlder ==
  pc \in {"replay", "ready", "cErase"} \cup AppendPcs =>
    (ValidHeader(flash, scratch) => flash[scratch + 1] < seq)

(* The log implements the store.  The contents are those in RAM while the  *)
(* object exists, and those last promised while it does not.               *)
Store == INSTANCE EepromStore WITH
  up      <- pc \in Session,
  val     <- IF pc \in Session THEN state ELSE store,
  pending <- IF pc \in WritePcs THEN {[addr |-> req.addr, data |-> req.data]} ELSE {}

(* A client sees a byte array whose writes take effect in one piece or,    *)
(* when they fail, not at all, and which a restart finds as it was left    *)
(* (lib.rs:188, :195, :119).                                               *)
ImplementsStore == Store!Safety

(* Every write that was asked for is answered (lib.rs:188).                *)
AnswersAsStore == Store!Answers
=============================================================================
