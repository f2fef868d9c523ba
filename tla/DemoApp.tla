------------------------------ MODULE DemoApp ------------------------------
(***************************************************************************)
(* The demo program of app/: one command from the command line, or a shell *)
(* that reads commands until it is told to quit, on an EEPROM that lives   *)
(* in the memory of the process.  The EEPROM is EepromStore, the promise   *)
(* that Eeprom implements; a write of it may fail for reasons of its own.  *)
(*                                                                         *)
(* A byte is a digit of a small base, Blank the largest one, and a word    *)
(* (u32 in the code) has WordLen of them, the least significant first.     *)
(* A line that does not parse is the command "bad".                        *)
(***************************************************************************)
EXTENDS Integers, Sequences, FiniteSets, FiniteSetsExt

CONSTANTS
  Size,         (* --size                                                  *)
  DefaultSize,  (* DEFAULT_EEPROM_SIZE                                     *)
  Blank,
  WordLen, NameLen,     (* 4 and KV_NAME_LEN = 32 in the code              *)
  NameAddr,             (* KV_NAME_ADDR; the boot counter is at 0          *)
  DefaultBaud,          (* 115200 in the code                              *)
  Commands      (* what a user may type: records, see MCDemoApp            *)

Byte == 0 .. Blank
Base == Blank + 1
Word == 0 .. (Base ^ WordLen - 1)

Keys == {"boot", "name", "baud", "mode"}

OffsetOverlap ==                                                (* mutant *)
  [boot |-> 0, name |-> NameAddr, baud |-> NameAddr + NameLen,
   mode |-> NameAddr + NameLen + WordLen - 1]
Offset ==
  [boot |-> 0, name |-> NameAddr, baud |-> NameAddr + NameLen,
   mode |-> NameAddr + NameLen + WordLen]
Width == [boot |-> WordLen, name |-> NameLen, baud |-> WordLen, mode |-> 1]

(* What a line can parse to.  Addresses and lengths have no bound, words   *)
(* and bytes have theirs; names with a zero byte in them are left out.     *)
CommandType ==
  [op : {"info", "help", "bad", "quit", "format"}]
  \cup [op : {"read", "dump"}, addr : Nat, n : Nat] \cup [op : {"dumprest"}, addr : Nat]
  \cup [op : {"boot"}, inc : BOOLEAN] \cup [op : {"get"}, key : Keys \ {"boot"}]
  \cup [op : {"setname"}, name : Seq(1 .. Blank)]
  \cup [op : {"set"}, key : {"baud"}, value : Word]
  \cup [op : {"set"}, key : {"mode"}, value : Byte]
  \cup [op : {"write"}, addr : Nat, data : Seq(Byte)]

ASSUME AppAssumption ==
  /\ Size \in Nat /\ DefaultSize \in Nat /\ Blank \in Nat \ {0}
  /\ WordLen \in Nat \ {0} /\ NameLen \in Nat \ {0}
  /\ NameAddr \in Nat /\ NameAddr >= WordLen /\ DefaultBaud \in Word
  /\ Commands \subseteq CommandType

VARIABLES
  up, val, pending,     (* the EEPROM                                      *)
  shell,        (* "off", "cli" or "repl"                                  *)
  cmd,          (* the command being carried out                           *)
  todo,         (* the writes it has still to make, the first in hand      *)
  shown,        (* the bytes it has read and printed                       *)
  outcome,      (* "ok", "error" or "panic", of the last command           *)
  before,       (* history: the contents when the command began            *)
  promised      (* history: what a user expects of each field, the set of  *)
                (* its one meaning, or {} if it may hold anything          *)

EE == INSTANCE EepromStore WITH Requests <- {}

vars == <<up, val, pending, shell, cmd, todo, shown, outcome, before, promised>>
ee == <<up, val, pending>>
history == <<before, promised>>

NoCmd == [op |-> "none"]

-----------------------------------------------------------------------------
(* Encodings.                                                              *)

ToLeBytes(v) == [i \in 1 .. WordLen |-> (v \div Base ^ (i - 1)) % Base]

(* The numbers that the first j bytes of b make.                           *)
LePrefix(b) ==
  LET v[j \in 0 .. Len(b)] == IF j = 0 THEN 0 ELSE v[j - 1] + b[j] * Base ^ (j - 1)
  IN v
FromLeBytes(b) == LePrefix(b)[Len(b)]

(* Facts of arithmetic, which the provers do not know of powers.           *)
ASSUME PowersOfBase ==
  Base ^ 0 = 1 /\ \A i \in 0 .. (WordLen - 1) : Base ^ (i + 1) = Base * Base ^ i

PaddedNot(name) == name                                         (* mutant *)
Padded(name) == [i \in 1 .. NameLen |-> IF i <= Len(name) THEN name[i] ELSE 0]

(* A name ends before its first zero byte.                                 *)
NameIn(b) ==
  LET zeros == {i \in DOMAIN b : b[i] = 0}
  IN SubSeq(b, 1, IF zeros = {} THEN Len(b) ELSE Min(zeros) - 1)

(* What the bytes of a field say.                                          *)
Meaning(key, b) == IF key = "name" THEN NameIn(b) ELSE FromLeBytes(b)

Bytes(a, n) == [i \in 1 .. n |-> val[a + i - 1]]
Reads(a, n) == a + n <= Size

-----------------------------------------------------------------------------
(* A process begins with a new mock flash, formatted and mounted.          *)

Fresh == [i \in 0 .. (Size - 1) |-> Blank]

(* What Blank bytes mean.                                                  *)
Unset(key) == Meaning(key, [i \in 1 .. Width[key] |-> Blank])

NewProcess(s, c) ==
  /\ shell = "off" /\ shell' = s /\ cmd' = c
  /\ up' = TRUE /\ UNCHANGED <<val, pending>>
  /\ todo' = <<>> /\ shown' = <<>> /\ outcome' = "ok"
  /\ before' = val /\ promised' = [k \in Keys |-> {Unset(k)}]

(* main with a command; help and quit are words of the shell only.         *)
Cli(c) == c.op \notin {"quit", "help"} /\ NewProcess("cli", c)

Repl == NewProcess("repl", NoCmd)

(* The geometry is refused, or the EEPROM cannot be formatted.             *)
NewMockFails ==
  /\ shell = "off" /\ outcome' = "error"
  /\ UNCHANGED <<ee, shell, cmd, todo, shown, history>>

(* The process ends, and its EEPROM is gone.                               *)
Closed == shell' = "off" /\ up' = FALSE /\ val' = Fresh /\ UNCHANGED <<pending, history>>

(* main returns; or readline does, with the end of the input.              *)
Exit ==
  /\ shell # "off" /\ cmd = NoCmd /\ Closed
  /\ UNCHANGED <<cmd, todo, shown, outcome>>

(* A line is typed at the prompt; an empty one has no effect.              *)
Type(c) ==
  /\ shell = "repl" /\ cmd = NoCmd
  /\ cmd' = c /\ shown' = <<>> /\ before' = val
  /\ UNCHANGED <<ee, shell, todo, outcome, promised>>

(* The command is done: the shell prints the error, if it is one, and goes *)
(* on to the next line.                                                    *)
Done(o) == cmd' = NoCmd /\ todo' = <<>> /\ outcome' = o /\ UNCHANGED <<shell, before>>

(* Done, with nothing changed in the EEPROM.                               *)
DoneOnly(o) == Done(o) /\ UNCHANGED <<ee, promised>>

(* The writes of a command begin.                                          *)
Begin(writes) == todo' = writes /\ UNCHANGED <<ee, shell, cmd, outcome, history>>

WriteOf(a, data) == [addr |-> a, data |-> data]
SetField(key, data) == WriteOf(Offset[key], data)

-----------------------------------------------------------------------------
(* The commands.                                                           *)

Serving(op) == shell # "off" /\ cmd.op = op /\ todo = <<>> /\ pending = {}

(* info and help print what is fixed; a line that does not parse, and a    *)
(* command that does not exist, print an error.                            *)
PrintFixed == (Serving("info") \/ Serving("help")) /\ shown' = <<>> /\ DoneOnly("ok")

Bad == Serving("bad") /\ shown' = <<>> /\ DoneOnly("error")

Quit ==
  /\ Serving("quit") /\ Closed /\ cmd' = NoCmd /\ outcome' = "ok"
  /\ UNCHANGED <<todo, shown>>

(* A read of n bytes that are printed.                                     *)
Show(a, n) ==
  IF Reads(a, n) THEN shown' = Bytes(a, n) /\ DoneOnly("ok")
                 ELSE shown' = <<>> /\ DoneOnly("error")

ReadCmd == Serving("read") /\ Show(cmd.addr, cmd.n)

(* Without a length the dump goes to the end, as far as it is known.  What *)
(* is left from the offset is worked out for every dump, with a length or  *)
(* not (the argument of unwrap_or), and the subtraction is unsigned: with  *)
(* an offset beyond that end one build panics.  The other build wraps, to  *)
(* a length that no EEPROM has, and goes on with the given one.            *)
Rest(a) == (IF shell = "cli" THEN Size ELSE DefaultSize) - a

Dumping == Serving("dump") \/ Serving("dumprest")

Dump ==
  /\ Dumping /\ Rest(cmd.addr) >= 0
  /\ Show(cmd.addr, IF cmd.op = "dump" THEN cmd.n ELSE Rest(cmd.addr))

DumpPanics ==
  /\ Dumping /\ Rest(cmd.addr) < 0
  /\ Closed /\ cmd' = NoCmd /\ outcome' = "panic" /\ shown' = <<>> /\ UNCHANGED todo

DumpWraps ==
  /\ Dumping /\ Rest(cmd.addr) < 0
  /\ IF cmd.op = "dump" THEN Show(cmd.addr, cmd.n) ELSE shown' = <<>> /\ DoneOnly("error")

DumpUnderflow == DumpPanics \/ DumpWraps

Get == Serving("get") /\ Show(Offset[cmd.key], Width[cmd.key])

(* boot shows the counter, and with --inc writes it back one higher.       *)
Boot == Serving("boot") /\ ~ cmd.inc /\ Show(0, WordLen)

BootInc ==
  /\ Serving("boot") /\ cmd.inc
  /\ IF Reads(0, WordLen)
       THEN /\ shown' = Bytes(0, WordLen)
            /\ Begin(<<SetField("boot",
                        ToLeBytes((FromLeBytes(Bytes(0, WordLen)) + 1) % Base ^ WordLen))>>)
       ELSE shown' = <<>> /\ DoneOnly("error")

Write == Serving("write") /\ Begin(<<WriteOf(cmd.addr, cmd.data)>>) /\ shown' = <<>>

SetName ==
  /\ Serving("setname") /\ shown' = <<>>
  /\ IF Len(cmd.name) > NameLen THEN DoneOnly("error")
                                ELSE Begin(<<SetField("name", Padded(cmd.name))>>)

SetBaud ==
  /\ Serving("set") /\ cmd.key = "baud" /\ shown' = <<>>
  /\ Begin(<<SetField("baud", ToLeBytes(cmd.value))>>)

SetMode ==
  /\ Serving("set") /\ cmd.key = "mode" /\ shown' = <<>>
  /\ Begin(<<SetField("mode", <<cmd.value>>)>>)

(* format on the command line makes one more new EEPROM and drops it; in   *)
(* the shell it writes the fields, one after the other.                    *)
FormatNew == Serving("format") /\ shell = "cli" /\ shown' = <<>> /\ DoneOnly("ok")

FormatWritesThree ==                                            (* mutant *)
  << SetField("boot", ToLeBytes(0)), SetField("baud", ToLeBytes(DefaultBaud)),
     SetField("mode", <<0>>) >>
FormatWrites ==
  << SetField("boot", ToLeBytes(0)), SetField("baud", ToLeBytes(DefaultBaud)),
     SetField("name", Padded(<<>>)), SetField("mode", <<0>>) >>

FormatFields ==
  Serving("format") /\ shell = "repl" /\ Begin(FormatWrites) /\ shown' = <<>>

-----------------------------------------------------------------------------
(* What a user expects of field k once the command has succeeded.  A field *)
(* that a raw write touches may hold anything.                             *)

Default == [boot |-> 0, baud |-> DefaultBaud, name |-> <<>>, mode |-> 0]

Touched(k, r) == r.addr < Offset[k] + Width[k] /\ Offset[k] < r.addr + Len(r.data)

Expected(k) ==
  CASE cmd.op = "setname" /\ k = "name"        -> {cmd.name}
    [] cmd.op = "set" /\ cmd.key = k           -> {cmd.value}
    [] cmd.op = "boot" /\ k = "boot"           -> {(v + 1) % Base ^ WordLen : v \in promised[k]}
    [] cmd.op = "format"                       -> {Default[k]}
    [] cmd.op = "write" /\ Touched(k, cmd)     -> {}
    [] OTHER                                   -> promised[k]

(* And once it has failed: a format may have written some of the fields.   *)
IfFormat == IF cmd.op = "format" THEN [k \in Keys |-> {}] ELSE promised

-----------------------------------------------------------------------------
(* The writes of a command, one at a time.                                 *)

WriteFitsAny(r) == TRUE                                         (* mutant *)
WriteFits(r) == r.addr + Len(r.data) <= Size

AskWrite ==
  /\ shell # "off" /\ todo # <<>> /\ pending = {} /\ WriteFits(Head(todo))
  /\ pending' = {Head(todo)}
  /\ UNCHANGED <<up, val, shell, cmd, todo, shown, outcome, history>>

(* Out of bounds: the EEPROM is not touched, and the command ends.         *)
RefuseWrite ==
  /\ shell # "off" /\ todo # <<>> /\ pending = {} /\ ~ WriteFits(Head(todo))
  /\ Done("error") /\ UNCHANGED <<ee, shown>>
  /\ promised' = IfFormat

(* A write of the EEPROM succeeds, and with the last one the command.      *)
WriteOk ==
  /\ EE!Succeed /\ UNCHANGED shown
  /\ IF Len(todo) > 1
       THEN todo' = Tail(todo) /\ UNCHANGED <<shell, cmd, outcome, history>>
       ELSE Done("ok") /\ promised' = [k \in Keys |-> Expected(k)]

(* It fails, and the command with it; of a format some fields are written. *)
WriteFailsRetried ==                                            (* mutant *)
  EE!Fail /\ UNCHANGED <<shell, cmd, todo, shown, outcome, history>>
WriteFails ==
  EE!Fail /\ Done("error") /\ UNCHANGED shown /\ promised' = IfFormat

-----------------------------------------------------------------------------
Init ==
  /\ up = FALSE /\ val = Fresh /\ pending = {} /\ shell = "off" /\ cmd = NoCmd
  /\ todo = <<>> /\ shown = <<>> /\ outcome = "ok"
  /\ before = Fresh /\ promised = [k \in Keys |-> {Unset(k)}]

User == Repl \/ Exit \/ \E c \in Commands : Cli(c) \/ Type(c)

Program ==
  \/ PrintFixed \/ Bad \/ Quit \/ ReadCmd \/ Dump \/ DumpUnderflow \/ Get \/ Boot \/ BootInc
  \/ Write \/ SetName \/ SetBaud \/ SetMode \/ FormatNew \/ FormatFields
  \/ AskWrite \/ RefuseWrite \/ WriteOk \/ WriteFails

Next == User \/ NewMockFails \/ Program

(* A command that was given is carried out; nobody has to give one.        *)
Spec == Init /\ [][Next]_vars /\ WF_vars(Program)

-----------------------------------------------------------------------------
(* Properties                                                              *)

(* Only writes that fit reach the EEPROM, and what is printed was read.    *)
TypeOK ==
  /\ up = (shell # "off") /\ val \in [0 .. (Size - 1) -> Byte]
  /\ \A r \in pending : r.data \in Seq(Byte) /\ r.addr + Len(r.data) <= Size
  /\ shell \in {"off", "cli", "repl"} /\ outcome \in {"ok", "error", "panic"}
  /\ cmd \in Commands \cup {NoCmd} /\ (cmd = NoCmd => todo = <<>> /\ pending = {})
  /\ Len(todo) <= 4 /\ pending \subseteq (IF todo = <<>> THEN {} ELSE {Head(todo)})
  /\ shown \in Seq(Byte) /\ Len(shown) <= Size
  /\ DOMAIN promised = Keys /\ \A k \in Keys : Cardinality(promised[k]) <= 1

(* kv get and boot show what was last stored in the field, whichever way:  *)
(* by kv set, format or boot --inc, by an earlier write of another field   *)
(* or of bytes next to it, and however many of them failed in between.     *)
Asks(k) == (cmd.op = "get" /\ cmd.key = k) \/ (cmd.op = "boot" /\ k = "boot")
ShowsPromised ==
  [][\A k \in Keys : \A v \in promised[k] :
       shown' # shown /\ cmd # NoCmd /\ Asks(k) => Meaning(k, shown') = v]_vars

(* The format of the shell resets the four fields one after the other, and *)
(* when a write fails those before it are reset, the others and all other  *)
(* bytes are as they were; one that says it has formatted has reset all.   *)
FormatOrder == <<"boot", "baud", "name", "mode">>
FieldBytes(k, v) == [i \in 1 .. Width[k] |-> v[Offset[k] + i - 1]]
FieldAddrs(ks) == UNION {Offset[k] .. (Offset[k] + Width[k] - 1) : k \in ks}
FormatInOrder ==
  [][shell = "repl" /\ cmd.op = "format" /\ cmd' = NoCmd =>
       \E j \in 0 .. 4 :
         LET reset == {FormatOrder[i] : i \in 1 .. j}
         IN /\ outcome' = "ok" => j = 4
            /\ \A k \in reset : Meaning(k, FieldBytes(k, val')) = Default[k]
            /\ \A x \in (0 .. (Size - 1)) \ FieldAddrs(reset) : val'[x] = before[x]]_vars

(* Every command is answered, whatever the EEPROM does.                    *)
CommandAnswered == cmd # NoCmd ~> cmd = NoCmd
=============================================================================
