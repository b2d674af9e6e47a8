------------------------------- MODULE Machine -------------------------------
(***************************************************************************)
(* The simulated processor (machine.py, Machine): it executes one          *)
(* instruction at a time, remembers enough of the state before each one to *)
(* take it back, and undoes an instruction that faults half way.           *)
(*                                                                         *)
(* An instruction first computes an outcome: the state it has built up,    *)
(* the bytes of memory it changed, and how it ended:                       *)
(*   "done"   the record of the step is appended to the history;           *)
(*   "fault"  a RuntimeFault: the snapshot is restored;                    *)
(*   "raise"  any other exception: it leaves step() as it is.              *)
(* Fault codes and texts are left out.                                     *)
(***************************************************************************)
EXTENDS Memory, History, RuntimeIO, FileSystem, Alu, SequencesExt

CONSTANTS
    Registers,     \* the general registers modelled, 0 among them
    FpuRegisters,  \* the floating-point registers modelled
    Boots,         \* the states Machine.__init__ builds, see BootState
    Sentinel,      \* RETURN_SENTINEL
    MaxSteps,      \* limits.max_steps
    MaxString,     \* limits.max_string_bytes
    MaxPath,       \* limits.max_path_bytes
    Decode(_),     \* the instruction a word encodes
    Texts,         \* the texts of printed numbers
    NameOf(_),     \* a path's bytes to its normal form, InvalidPath or Undecodable
    InvalidPath, Undecodable,
    HasRoot,       \* whether --fs-root is given
    HostContents,  \* external: contents of host files
    FloatImages    \* the words that reading a floating-point number may give

VARIABLES
    cpu,      \* the registers and flags a StepRecord saves
    mem,      \* SparseMemory
    io,       \* RuntimeIO
    fs,       \* VirtualFileSystem.state
    cache,    \* VirtualFileSystem._host_cache
    steps,    \* instructions executed and not taken back
    history,  \* the StepRecords kept
    past      \* auxiliary: past[i] is what history[i] must bring back

machineVars == <<cpu, mem, io, fs, cache, steps, history>>
vars == <<cpu, mem, io, fs, cache, steps, history, past>>

None == -1  \* no reservation

BootState ==
    [mem : Memory, registers : [Registers -> Word \cup {Unset}],
     pc : Word, heapBreak : Nat, input : Seq(Byte)]

ASSUME MachineAssumption ==
    /\ Modulus = WordMod /\ HalfMod = ByteMod * ByteMod /\ OctetMod = ByteMod
    /\ {0, 2, 4, 5, 6} \subseteq Registers
    /\ Registers \subseteq Nat /\ FpuRegisters \subseteq Nat
    /\ \A boot \in Boots : /\ boot \in BootState
                           /\ Canonical(boot.mem)
                           /\ IsFiniteSet(boot.mem.present)
                           /\ Cardinality(boot.mem.present) <= MaxPages
                           /\ boot.registers[0] = 0 /\ boot.pc # Sentinel
                           /\ boot.mem.dataEnd <= DataLimit
                           /\ Len(boot.input) <= InputLimit
    /\ Sentinel \in Word
    /\ MaxSteps \in Nat
    /\ MaxString \in Nat /\ MaxPath \in Nat
    /\ HasRoot \in BOOLEAN
    /\ Texts \subseteq Seq(Int) /\ FloatImages \subseteq Int
    /\ Lines \subseteq Seq(Byte) /\ Feeds \subseteq Seq(Byte)
    /\ HostContents \subseteq Seq(Byte)

(* The instructions without a register to read; the others have one, and   *)
(* conditional moves and divisions two.                                    *)
Sourceless == ComputeOps \cup {"mfhi", "mflo", "mfc1", "j", "jal", "trap", "break",
                               "reserved", "syscall"}

(* What step() finds in a word's fields. *)
ASSUME DecodeAssumption ==
    \A w \in Word :
        LET i == Decode(w)
        IN  /\ i.reads \in Seq(Registers) /\ i.imm \in Int
            /\ i.op \notin Sourceless => i.reads # <<>>
            /\ i.op \in {"movz", "movn", "div", "divu"} => Len(i.reads) > 1
            /\ i.op \in {"j", "jal"} => i.imm \in Word
            /\ i.op = "mfc1" => i.imm \in FpuRegisters
            /\ i.op = "swc1" => i.dest \in FpuRegisters
            /\ i.op = "sdc1" /\ i.dest % 2 = 0 => {i.dest, i.dest + 1} \subseteq FpuRegisters

FirstCpu(boot) ==
    [pc |-> boot.pc, registers |-> boot.registers,
     fpu |-> [f \in FpuRegisters |-> Unset], hi |-> Unset, lo |-> Unset,
     reservation |-> None, heapBreak |-> boot.heapBreak,
     exited |-> FALSE, status |-> 0, stdio |-> {0, 1, 2}]

Init ==
    \E boot \in Boots :
        /\ cpu = FirstCpu(boot)
        /\ mem = boot.mem
        /\ io = [buffer |-> boot.input, position |-> 0, output |-> <<>>]
        /\ fs = NoFiles /\ cache = <<>>
        /\ steps = 0 /\ history = <<>> /\ past = <<>>

-----------------------------------------------------------------------------
(* Snapshot, restore and the end of an instruction.                        *)

Outcome(kind) ==
    [kind |-> kind, cpu |-> cpu, mem |-> mem, io |-> io, fs |-> fs,
     cache |-> cache, changes |-> NoChanges]

Done == Outcome("done")
Faulted == Outcome("fault")

(* Carry on with an outcome, or fault. *)
Require(condition, o) == IF condition THEN o ELSE Faulted

(* Mutant of Snapshot: HI and LO are not recorded. *)
SnapshotWithoutHiLo(changes) ==
    [cpu |-> [cpu EXCEPT !.hi = Unset, !.lo = Unset], dataEnd |-> mem.dataEnd,
     position |-> io.position, outputLength |-> Len(io.output), fs |-> fs,
     changes |-> changes]

Snapshot(changes) ==
    [cpu |-> cpu, dataEnd |-> mem.dataEnd, position |-> io.position,
     outputLength |-> Len(io.output), fs |-> fs, changes |-> changes]

(* What the program can observe of a state. *)
View(c, m, inout, files) ==
    [cpu |-> c, mem |-> m, position |-> inout.position, output |-> inout.output,
     fs |-> files]

Now == View(cpu, mem, io, fs)

(* _restore_record: the input buffer and the host cache keep what they     *)
(* gained; everything else is brought back.                                *)
RestoredMem(m, record) ==
    RestoreDataEnd(Restore(m, record.changes), record.dataEnd)
RestoredIO(inout, record) ==
    RestoreIO(inout, record.position, record.outputLength)

Complete(o) ==
    /\ cpu' = o.cpu /\ mem' = o.mem /\ io' = o.io /\ fs' = o.fs /\ cache' = o.cache
    /\ steps' = steps + 1
    /\ history' = Remembered(history, Snapshot(o.changes))
    /\ past' = Remembered(past, Now)

(* Mutant of RollBack: what a failed instruction read stays consumed. *)
RollBackKeepingInput(o) ==
    LET record == Snapshot(o.changes)
    IN  /\ cpu' = record.cpu /\ mem' = RestoredMem(o.mem, record)
        /\ io' = o.io /\ fs' = record.fs /\ cache' = o.cache
        /\ UNCHANGED <<steps, history, past>>

RollBack(o) ==
    LET record == Snapshot(o.changes)
    IN  /\ cpu' = record.cpu /\ mem' = RestoredMem(o.mem, record)
        /\ io' = RestoredIO(o.io, record) /\ fs' = record.fs /\ cache' = o.cache
        /\ UNCHANGED <<steps, history, past>>

Escape(o) ==
    /\ cpu' = o.cpu /\ mem' = o.mem /\ io' = o.io /\ fs' = o.fs /\ cache' = o.cache
    /\ UNCHANGED <<steps, history, past>>

(* Mutant of Goto: returning from main does not end the program. *)
GotoOnly(c, target) == [c EXCEPT !.pc = target]

(* Going to the return address main was called with ends the program. *)
Goto(c, target) ==
    [c EXCEPT !.pc = target,
              !.exited = @ \/ target = Sentinel,
              !.status = IF target = Sentinel THEN 0 ELSE @]

Finish(o, next) ==
    \/ o.kind = "done" /\ Complete([o EXCEPT !.cpu = Goto(@, next)])
    \/ o.kind = "fault" /\ RollBack(o)
    \/ o.kind = "raise" /\ Escape(o)

NextPc == U(cpu.pc + 4)

-----------------------------------------------------------------------------
(* Fetching: step() refuses a program that has exited or used up its       *)
(* steps, and a word it cannot fetch; none of these changes anything.      *)

Fetchable == /\ Aligned(cpu.pc, 4)
             /\ Readable(mem, cpu.pc, 4, "execute")

Instruction == Decode(FromBytes(BytesAt(mem, cpu.pc, 4)))

Executing(ops) ==
    /\ ~cpu.exited
    /\ steps < MaxSteps
    /\ Fetchable
    /\ Instruction.op \in ops

(* Registers.  Register 0 cannot be written, and holds 0. *)

Known(rs) == Strict => \A r \in rs : cpu.registers[r] # Unset
KnownFpu(rs) == Strict => \A f \in rs : cpu.fpu[f] # Unset

OrZero(x) == IF x = Unset THEN 0 ELSE x
Reg(r) == OrZero(cpu.registers[r])
Fpu(f) == OrZero(cpu.fpu[f])

SetRegister(o, r, value) ==
    IF r = 0 THEN o ELSE [o EXCEPT !.cpu.registers[r] = U(value)]
SetFpu(o, f, value) == [o EXCEPT !.cpu.fpu[f] = U(value)]

(* An instruction is a record [op, reads, dest, imm, condition, link]: the *)
(* registers it reads, in order, the register it writes, its immediate     *)
(* (extended), displacement or jump target, and for branches and traps the *)
(* condition and whether the branch links.                                 *)
Sources == {Instruction.reads[k] : k \in DOMAIN Instruction.reads}
Left == Reg(Instruction.reads[1])
Right == IF Len(Instruction.reads) > 1 THEN Reg(Instruction.reads[2])
         ELSE Instruction.imm
KnownOperands == Known(Sources)

-----------------------------------------------------------------------------
(* Integer arithmetic. *)

(* Shifts, additions, logic, comparisons: one register written. *)
StepCompute ==
    /\ Executing(ComputeOps)
    /\ LET i == Instruction
           value == IF i.reads = <<>> THEN Compute(i.op, i.imm, 0)
                    ELSE Compute(i.op, Left, Right)
       IN  Finish(Require(KnownOperands /\ value # Overflow,
                          SetRegister(Done, i.dest, value)),
                  NextPc)

(* MOVZ and MOVN read their source only when they move it. *)
StepConditionalMove ==
    /\ Executing({"movz", "movn"})
    /\ LET i == Instruction
           moves == (Reg(i.reads[1]) = 0) = (i.op = "movz")
       IN  Finish(Require(Known({i.reads[1]}) /\ (moves => Known({i.reads[2]})),
                          IF moves THEN SetRegister(Done, i.dest, Reg(i.reads[2]))
                          ELSE Done),
                  NextPc)

(* A trap that is taken, BREAK, and a reserved encoding end in a fault.    *)
StepTrap ==
    /\ Executing({"trap"})
    /\ Finish(Require(KnownOperands /\ ~Holds(Instruction.condition, Left, Right), Done),
              NextPc)

StepBreak ==
    /\ Executing({"break", "reserved"})
    /\ Finish(Faulted, NextPc)

(* HI and LO. *)
StepMoveFromHiLo ==
    /\ Executing({"mfhi", "mflo"})
    /\ LET source == IF Instruction.op = "mfhi" THEN cpu.hi ELSE cpu.lo
       IN  Finish(Require(Strict => source # Unset,
                          SetRegister(Done, Instruction.dest, OrZero(source))),
                  NextPc)

SetHiLo(o, pair) == [o EXCEPT !.cpu.hi = pair.hi, !.cpu.lo = pair.lo]

StepMoveToHiLo ==
    /\ Executing({"mthi", "mtlo"})
    /\ Finish(Require(KnownOperands,
                      IF Instruction.op = "mthi"
                      THEN [Done EXCEPT !.cpu.hi = Left]
                      ELSE [Done EXCEPT !.cpu.lo = Left]),
              NextPc)

StepMultiply ==
    /\ Executing(MultiplyOps)
    /\ Finish(Require(KnownOperands,
                      SetHiLo(Done, Pair(Product(Instruction.op, Left, Right)))),
              NextPc)

StepAccumulate ==
    /\ Executing(AccumulateOps)
    /\ Finish(Require(KnownOperands /\ (Strict => cpu.hi # Unset /\ cpu.lo # Unset),
                      SetHiLo(Done, Accumulated(Instruction.op, OrZero(cpu.hi),
                                                OrZero(cpu.lo), Left, Right))),
              NextPc)

StepDivide ==
    /\ Executing(DivideOps)
    /\ Finish(Require(KnownOperands /\ Right # 0,
                      SetHiLo(Done, Divided(Instruction.op, Left, Right))),
              NextPc)

-----------------------------------------------------------------------------
(* Control flow. *)

(* A conditional branch; BLTZAL and BGEZAL link whether or not they branch. *)
StepBranch ==
    /\ Executing({"branch"})
    /\ LET i == Instruction
           taken == Holds(i.condition, Left, IF Len(i.reads) > 1 THEN Right ELSE 0)
       IN  Finish(Require(KnownOperands,
                          IF i.link THEN SetRegister(Done, 31, NextPc) ELSE Done),
                  IF taken THEN U(NextPc + i.imm) ELSE NextPc)

StepJump ==
    /\ Executing({"j", "jal"})
    /\ Finish(IF Instruction.op = "jal" THEN SetRegister(Done, 31, NextPc) ELSE Done,
              Instruction.imm)

(* The target is read before the link register is written. *)
StepJumpRegister ==
    /\ Executing({"jr", "jalr"})
    /\ Finish(Require(KnownOperands,
                      IF Instruction.op = "jalr"
                      THEN SetRegister(Done, Instruction.dest, NextPc) ELSE Done),
              Left)

-----------------------------------------------------------------------------
(* Loads and stores.  The base register is the first one read. *)

Address == U(Reg(Instruction.reads[1]) + Instruction.imm)
KnownBase == Known({Instruction.reads[1]})

Width(op) == CASE op \in {"lb", "lbu", "sb"} -> 1
               [] op \in {"lh", "lhu", "sh"} -> 2
               [] OTHER -> 4

CanLoad(a, n, alignment) == Aligned(a, alignment) /\ Readable(mem, a, n, "read")
Loaded(a, n) == FromBytes(BytesAt(mem, a, n))

StepLoad ==
    /\ Executing({"lb", "lbu", "lh", "lhu", "lw", "ll"})
    /\ LET i == Instruction
           n == Width(i.op)
           value == CASE i.op = "lb" -> SignExtend(Loaded(Address, n), OctetMod)
                      [] i.op = "lh" -> SignExtend(Loaded(Address, n), HalfMod)
                      [] OTHER -> Loaded(Address, n)
           loaded == SetRegister(Done, i.dest, value)
       IN  Finish(Require(KnownBase /\ CanLoad(Address, n, n),
                          IF i.op = "ll" THEN [loaded EXCEPT !.cpu.reservation = Address]
                          ELSE loaded),
                  NextPc)

(* Mutant of Stored: the reservation of LL outlives a store. *)
StoredUnderReservation(a, bytes, alignment) ==
    LET w == WriteBytes(mem, a, bytes, alignment)
    IN  [Done EXCEPT !.kind = IF w.ok THEN "done" ELSE "fault",
                     !.mem = w.mem, !.changes = w.changes]

(* Every store drops the reservation of LL, wherever it stores. *)
Stored(a, bytes, alignment) ==
    LET w == WriteBytes(mem, a, bytes, alignment)
    IN  [Done EXCEPT !.kind = IF w.ok THEN "done" ELSE "fault",
                     !.mem = w.mem, !.changes = w.changes, !.cpu.reservation = None]

StepStore ==
    /\ Executing({"sb", "sh", "sw"})
    /\ LET n == Width(Instruction.op)
       IN  Finish(Require(KnownOperands, Stored(Address, ToBytes(Right, n), n)), NextPc)

(* SC stores only under a reservation of its own address; a failing SC     *)
(* must still be able to write there.                                      *)
StepStoreConditional ==
    /\ Executing({"sc"})
    /\ LET i == Instruction
           reserved == cpu.reservation = Address
           failed == [SetRegister(Done, i.dest, 0) EXCEPT !.cpu.reservation = None]
       IN  Finish(IF ~KnownBase THEN Faulted
                  ELSE IF reserved
                  THEN Require(KnownOperands,
                               SetRegister(Stored(Address, ToBytes(Right, 4), 4),
                                           i.dest, 1))
                  ELSE Require(Writable(mem, Address, 4, 4), failed),
                  NextPc)

WordStart(a) == a - (a % 4)

(* LWL and LWR also read the register they merge into. *)
StepLoadUnaligned ==
    /\ Executing({"lwl", "lwr"})
    /\ LET i == Instruction
           offset == Address % 4
           from == IF i.op = "lwl" THEN WordStart(Address) ELSE Address
           n == IF i.op = "lwl" THEN LeftCount(offset) ELSE RightCount(offset)
           bytes == BytesAt(mem, from, n)
           merged == IF i.op = "lwl" THEN MergeLeft(Right, bytes, offset)
                     ELSE MergeRight(Right, bytes, offset)
       IN  Finish(Require(KnownOperands /\ CanLoad(from, n, 1),
                          SetRegister(Done, i.dest, merged)),
                  NextPc)

StepStoreUnaligned ==
    /\ Executing({"swl", "swr"})
    /\ \E offset \in 0 .. 3 :
          /\ offset = Address % 4
          /\ Finish(Require(KnownOperands,
                            IF Instruction.op = "swl"
                            THEN Stored(WordStart(Address), LeftBytes(Right, offset), 1)
                            ELSE Stored(Address, RightBytes(Right, offset), 1)),
                    NextPc)

-----------------------------------------------------------------------------
(* The floating-point registers: moves, loads and stores.  dest names the  *)
(* floating-point register; a double takes an even one and its successor.  *)

StepMoveFpu ==
    /\ Executing({"mfc1", "mtc1"})
    /\ LET i == Instruction
       IN  Finish(IF i.op = "mfc1"
                  THEN Require(KnownFpu({i.imm}), SetRegister(Done, i.dest, Fpu(i.imm)))
                  ELSE Require(KnownOperands, SetFpu(Done, i.dest, Left)),
                  NextPc)

EvenPair(f) == f % 2 = 0

StepLoadFpu ==
    /\ Executing({"lwc1", "ldc1"})
    /\ LET f == Instruction.dest
           double == Instruction.op = "ldc1"
           n == IF double THEN 8 ELSE 4
           low == SetFpu(Done, f, Loaded(Address, 4))
       IN  Finish(Require(KnownBase /\ (double => EvenPair(f)) /\ CanLoad(Address, n, n),
                          IF double THEN SetFpu(low, f + 1, Loaded(Address + 4, 4))
                          ELSE low),
                  NextPc)

StepStoreFpu ==
    /\ Executing({"swc1", "sdc1"})
    /\ LET f == Instruction.dest
       IN  Finish(IF Instruction.op = "swc1"
                  THEN Require(KnownBase /\ KnownFpu({f}),
                               Stored(Address, ToBytes(Fpu(f), 4), 4))
                  ELSE Require(KnownBase /\ EvenPair(f) /\ KnownFpu({f, f + 1}),
                               Stored(Address,
                                      ToBytes(Fpu(f), 4) \o ToBytes(Fpu(f + 1), 4), 8)),
                  NextPc)

-----------------------------------------------------------------------------
(* System calls.  Register 2 selects the service, 4 to 6 are arguments.    *)

Service == Reg(2)
A0 == Reg(4)
A1 == Reg(5)
A2 == Reg(6)

Syscall(services) ==
    /\ Executing({"syscall"})
    /\ Known({2})
    /\ Service \in services

FinishOneOf(outcomes) == \E o \in outcomes : Finish(o, NextPc)

(* The outcomes of an io operation, given what follows when it succeeds.   *)
WithIO(results, Then(_, _)) ==
    {LET o == [Done EXCEPT !.io = r.io, !.kind = r.status]
     IN  IF r.status = "done" THEN Then(o, r) ELSE o : r \in results}

AsIs(o, r) == o

SyscallUnknown ==
    /\ Executing({"syscall"})
    /\ ~Known({2}) \/ Service \notin 1 .. 17
    /\ Finish(Faulted, NextPc)

(* 1, 2, 3, 11: print an integer, a float, a double, a character. *)
PrintArguments ==
    CASE Service \in {1, 11} -> Known({4})
      [] Service = 2 -> KnownFpu({12})
      [] Service = 3 -> KnownFpu({12, 13})

Printed == IF Service = 11 THEN {<<A0 % ByteMod>>} ELSE Texts

SyscallPrintValue ==
    /\ Syscall({1, 2, 3, 11})
    /\ FinishOneOf(IF PrintArguments
                   THEN UNION {WithIO(WriteResults(io, text), AsIs) : text \in Printed}
                   ELSE {Faulted})

(* 4: print a string. *)
StringAt(a, n) == BytesAt(mem, a, n)

SyscallPrintString ==
    /\ Syscall({4})
    /\ FinishOneOf(
         IF Known({4}) /\ CStringLengths(mem, A0, MaxString) # {}
         THEN UNION {WithIO(WriteResults(io, StringAt(A0, n)), AsIs) :
                        n \in CStringLengths(mem, A0, MaxString)}
         ELSE {Faulted})

(* 5, 12: read an integer, a character; a character at the end is -1.      *)
SyscallReadInt ==
    /\ Syscall({5})
    /\ FinishOneOf(WithIO(ReadInt(io), LAMBDA o, r : SetRegister(o, 2, r.value)))

SyscallReadChar ==
    /\ Syscall({12})
    /\ FinishOneOf(WithIO(ReadBytes(io, OneByte),
                          LAMBDA o, r : SetRegister(o, 2, IF r.bytes = <<>> THEN -1
                                                          ELSE r.bytes[1])))

(* 6, 7: read a float, a double: some words, for the value is not          *)
(* modelled.  A value too large for a float is a fault (R308).             *)
FloatResults(r, fits) ==
    [r EXCEPT !.status = IF @ = "done" /\ ~fits THEN "fault" ELSE @]

SyscallReadFloat ==
    /\ Syscall({6, 7})
    /\ \E low, high \in FloatImages, fits \in BOOLEAN :
          FinishOneOf(
            WithIO({FloatResults(r, fits \/ Service = 7) : r \in ReadToken(io)},
                   LAMBDA o, r : IF Service = 6 THEN SetFpu(o, 0, low)
                                 ELSE SetFpu(SetFpu(o, 0, low), 1, high)))

(* Bytes that input or a file gave are stored where the program asked: the *)
(* write may fault after the input was consumed or the handle moved.       *)
Deliver(o, a, bytes) ==
    LET w == WriteBytes(mem, a, bytes, 1)
    IN  [o EXCEPT !.kind = IF w.ok THEN @ ELSE "fault",
                  !.mem = w.mem, !.changes = w.changes,
                  !.cpu.reservation = IF bytes = <<>> THEN @ ELSE None]

(* 8: read a line into a buffer of a given length, NUL-terminated.         *)
SyscallReadLine ==
    /\ Syscall({8})
    /\ FinishOneOf(
         IF ~Known({4, 5}) THEN {Faulted}
         ELSE IF Signed(A1) <= 0 THEN {Done}
         ELSE WithIO(ReadBytes(io, LineOf(Signed(A1) - 1)),
                     LAMBDA o, r : Deliver(o, A0, Append(r.bytes, 0))))

(* 9: sbrk.  The break stays word aligned. *)
WordAligned(n) == 4 * ((n + 3) \div 4)

(* Mutant of SyscallSbrk: the break is rounded after the segment has grown. *)
SyscallSbrkRoundingLate ==
    /\ Syscall({9})
    /\ LET amount == Signed(A0)
           newBreak == cpu.heapBreak + amount
       IN  Finish(Require(Known({4}) /\ amount >= 0 /\ newBreak <= DataLimit
                              /\ CanGrowData(newBreak),
                          SetRegister([Done EXCEPT !.mem = GrowData(mem, newBreak),
                                                   !.cpu.heapBreak = WordAligned(newBreak)],
                                      2, cpu.heapBreak)),
                  NextPc)

SyscallSbrk ==
    /\ Syscall({9})
    /\ LET amount == Signed(A0)
           newBreak == WordAligned(cpu.heapBreak + amount)
       IN  Finish(Require(Known({4}) /\ amount >= 0 /\ newBreak <= DataLimit
                              /\ CanGrowData(newBreak),
                          SetRegister([Done EXCEPT !.mem = GrowData(mem, newBreak),
                                                   !.cpu.heapBreak = newBreak],
                                      2, cpu.heapBreak)),
                  NextPc)

(* 10, 17: exit. *)
SyscallExit ==
    /\ Syscall({10, 17})
    /\ Finish(Require(Service = 17 => Known({4}),
                      [Done EXCEPT !.cpu.exited = TRUE,
                                   !.cpu.status = IF Service = 10 THEN 0
                                                  ELSE Signed(A0)]),
              NextPc)

(* 13: open.  What the host holds is external: it may be anything the      *)
(* first time a path is looked up (_load_host), and the cached answer from *)
(* then on; whether a file can be created there (_candidate) may change.   *)
HostAnswers(p) ==
    IF p \in DOMAIN cache THEN {cache[p]}
    ELSE IF HasRoot
    THEN {{}} \cup {{c} : c \in {x \in HostContents : Len(x) <= MaxFileBytes}}
    ELSE {{}}

Creatable == IF HasRoot THEN BOOLEAN ELSE {TRUE}

Opened(p, host, creatable) ==
    LET flags == Signed(A1)
        r == Open(fs, p, flags, host, creatable)
        asked == AsksHost(fs, p, flags)
    IN  SetRegister([Done EXCEPT !.fs = r.fs,
                                 !.cache = IF asked THEN Assign(@, p, host) ELSE @],
                    2, r.fd)

OpenOutcomes(name) ==
    IF name = Undecodable THEN {SetRegister(Done, 2, -1)}
    ELSE IF ~Known({5}) THEN {Faulted}
    ELSE IF name = InvalidPath THEN {SetRegister(Done, 2, -1)}
    ELSE {Opened(name, host, creatable) :
             host \in HostAnswers(name), creatable \in Creatable}

SyscallOpen ==
    /\ Syscall({13})
    /\ FinishOneOf(
         IF Known({4}) /\ CStringLengths(mem, A0, MaxPath) # {}
         THEN UNION {OpenOutcomes(NameOf(StringAt(A0, n))) :
                        n \in CStringLengths(mem, A0, MaxPath)}
         ELSE {Faulted})

(* 14: read.  Standard input while descriptor 0 is open, else a file.      *)
SyscallRead ==
    /\ Syscall({14})
    /\ LET fd == Signed(A0)
           count == Signed(A2)
           moved == ReadFile(fs, fd, count)
           Received(o, bytes) == LET d == Deliver(o, A1, bytes)
                                 IN  SetRegister(d, 2, Len(bytes))
       IN  FinishOneOf(
             IF ~Known({4, 5, 6}) THEN {Faulted}
             ELSE IF count \notin 0 .. MaxFileBytes THEN {SetRegister(Done, 2, -1)}
             ELSE IF fd = 0 /\ 0 \in cpu.stdio
             THEN WithIO(ReadBytes(io, BytesOf(count)),
                         LAMBDA o, r : Received(o, r.bytes))
             ELSE IF MayRead(fs, fd)
             THEN {Received([Done EXCEPT !.fs = moved.fs], moved.bytes)}
             ELSE {SetRegister(Done, 2, -1)})

(* 15: write.  The bytes are fetched before the descriptor is looked at.   *)
SyscallWrite ==
    /\ Syscall({15})
    /\ LET fd == Signed(A0)
           count == Signed(A2)
           bytes == BytesAt(mem, A1, count)
           written == WriteFile(fs, fd, bytes)
       IN  FinishOneOf(
             IF ~Known({4, 5, 6}) THEN {Faulted}
             ELSE IF count \notin 0 .. MaxFileBytes THEN {SetRegister(Done, 2, -1)}
             ELSE IF ~Readable(mem, A1, count, "read") THEN {Faulted}
             ELSE IF fd \in {1, 2} \cap cpu.stdio
             THEN WithIO(WriteResults(io, bytes), LAMBDA o, r : SetRegister(o, 2, count))
             ELSE {SetRegister([Done EXCEPT !.fs = written.fs], 2, written.count)})

(* 16: close.  Standard descriptors close once; 0 on success.              *)
SyscallClose ==
    /\ Syscall({16})
    /\ LET fd == Signed(A0)
           standard == fd \in cpu.stdio
           known == fd \in DOMAIN fs.handles
           closed == IF standard THEN [Done EXCEPT !.cpu.stdio = @ \ {fd}]
                     ELSE IF known THEN [Done EXCEPT !.fs = CloseFile(fs, fd)]
                     ELSE Done
       IN  Finish(Require(Known({4}),
                          SetRegister(closed, 2, IF standard \/ known THEN 0 ELSE -1)),
                  NextPc)

-----------------------------------------------------------------------------
(* reverse_step: take the newest recorded instruction back. *)

(* Mutants of Rewind: a program that has exited stays so; files are not    *)
(* brought back.                                                           *)
RewindKeepingExit ==
    /\ history # <<>>
    /\ LET record == Latest(history)
       IN  /\ cpu' = [record.cpu EXCEPT !.exited = cpu.exited, !.status = cpu.status]
           /\ mem' = RestoredMem(mem, record)
           /\ io' = RestoredIO(io, record)
           /\ fs' = record.fs
    /\ steps' = IF steps > 0 THEN steps - 1 ELSE 0
    /\ history' = Forgotten(history)
    /\ past' = Forgotten(past)
    /\ UNCHANGED cache
RewindKeepingFiles ==
    /\ history # <<>>
    /\ LET record == Latest(history)
       IN  /\ cpu' = record.cpu
           /\ mem' = RestoredMem(mem, record)
           /\ io' = RestoredIO(io, record)
    /\ steps' = IF steps > 0 THEN steps - 1 ELSE 0
    /\ history' = Forgotten(history)
    /\ past' = Forgotten(past)
    /\ UNCHANGED <<fs, cache>>

Rewind ==
    /\ history # <<>>
    /\ LET record == Latest(history)
       IN  /\ cpu' = record.cpu
           /\ mem' = RestoredMem(mem, record)
           /\ io' = RestoredIO(io, record)
           /\ fs' = record.fs
    /\ steps' = IF steps > 0 THEN steps - 1 ELSE 0
    /\ history' = Forgotten(history)
    /\ past' = Forgotten(past)
    /\ UNCHANGED cache

StepArithmetic == StepCompute \/ StepConditionalMove \/ StepTrap \/ StepBreak

StepHiLo == \/ StepMoveFromHiLo \/ StepMoveToHiLo
            \/ StepMultiply \/ StepAccumulate \/ StepDivide

StepControl == StepBranch \/ StepJump \/ StepJumpRegister

StepMemory == \/ StepLoad \/ StepStore \/ StepStoreConditional
              \/ StepLoadUnaligned \/ StepStoreUnaligned

StepFpu == StepMoveFpu \/ StepLoadFpu \/ StepStoreFpu

StepSyscall ==
    \/ SyscallUnknown
    \/ SyscallPrintValue \/ SyscallPrintString
    \/ SyscallReadInt \/ SyscallReadChar \/ SyscallReadFloat \/ SyscallReadLine
    \/ SyscallSbrk \/ SyscallExit
    \/ SyscallOpen \/ SyscallRead \/ SyscallWrite \/ SyscallClose

Step == \/ StepArithmetic \/ StepHiLo \/ StepControl
        \/ StepMemory \/ StepFpu \/ StepSyscall

Next == Step \/ Rewind

Spec == Init /\ [][Next]_vars

-----------------------------------------------------------------------------
(* Properties *)

IsCpu(c) ==
    /\ c.pc \in Word
    /\ c.registers \in [Registers -> Word \cup {Unset}]
    /\ c.registers[0] = 0
    /\ c.fpu \in [FpuRegisters -> Word \cup {Unset}]
    /\ c.hi \in Word \cup {Unset} /\ c.lo \in Word \cup {Unset}
    /\ c.reservation \in Word \cup {None}
    /\ c.heapBreak \in Nat
    /\ c.exited \in BOOLEAN /\ c.status \in Int
    /\ c.stdio \subseteq {0, 1, 2}

(* As many instructions can be taken back as are recorded, never more than *)
(* were executed: the counter that R105 compares stays exact.              *)
HistoryWithinSteps == Len(history) <= steps

(* SparseMemory never holds more pages than limits.max_memory_pages. *)
PageLimit == Cardinality(mem.present) <= MaxPages

(* The shape of the state; register 0 is 0, the bytes of pages that are    *)
(* not allocated are unset, and every collection keeps its limit.          *)
TypeOK ==
    /\ IsCpu(cpu)
    /\ mem \in Memory /\ Canonical(mem)
    /\ io.position \in 0 .. Len(io.buffer)
    /\ Len(io.buffer) <= InputLimit /\ Len(io.output) <= OutputLimit
    /\ PageLimit
    /\ steps \in 0 .. MaxSteps
    /\ Len(history) <= HistoryLimit /\ HistoryWithinSteps
    /\ \A i \in DOMAIN history : IsCpu(history[i].cpu)

(* What a record makes of the state that followed its instruction. *)
TakenBack(view, record) ==
    [cpu |-> record.cpu,
     mem |-> RestoredMem(view.mem, record),
     position |-> record.position,
     output |-> SubSeq(view.output, 1, record.outputLength),
     fs |-> record.fs]

After(i) == IF i = Len(history) THEN Now ELSE past[i + 1]

(* Time travel is exact: every record kept, applied to the state its       *)
(* instruction led to, gives the state before it back: registers and their *)
(* initialization bits, memory with its allocated pages, consumed input,   *)
(* output, files and descriptors, break and exit status.                   *)
UndoChain ==
    /\ Len(past) = Len(history)
    /\ \A i \in DOMAIN history : TakenBack(After(i), history[i]) = past[i]

(* A failed instruction leaves the simulator at its pre-instruction state, *)
(* wherever in the instruction it failed.                                  *)
FaultLeavesNoTrace == [][steps' = steps => Now' = Now]_vars

(* Input is never lost: bytes taken from the provider stay in the buffer   *)
(* through faults and steps back, to be read again.                        *)
InputIsKept == [][IsPrefix(io.buffer, io'.buffer)]_vars

(* Only a step back takes output away. *)
OutputGrows == [][steps' >= steps => IsPrefix(io.output, io'.output)]_vars

(* LL/SC: whatever instruction or system call changes memory, the          *)
(* reservation of an earlier LL is gone, so a later SC fails.              *)
StoreDropsReservation ==
    [][steps' > steps /\ mem'.cell # mem.cell => cpu'.reservation = None]_vars

(* The heap handed out by sbrk lies inside the data segment, also after    *)
(* faults and steps back, which restore break and segment end separately.  *)
(* Only as long as nothing has been handed out may the break, which starts *)
(* at a multiple of four, be above the end of the program's data.          *)
FirstEnds == {<<boot.heapBreak, boot.mem.dataEnd>> : boot \in Boots}
NothingHandedOut == <<cpu.heapBreak, mem.dataEnd>> \in FirstEnds

HeapIsMapped ==
    /\ mem.dataEnd <= DataLimit
    /\ cpu.heapBreak <= mem.dataEnd \/ NothingHandedOut

(* Reaching the return address of main and having exited coincide, so      *)
(* step() never meets R106.                                                *)
SentinelMeansExited == cpu.pc = Sentinel => cpu.exited

(* Descriptors in use, now or after a step back, name staged files. *)
NoDanglingHandle ==
    \A s \in {fs} \cup {history[i].fs : i \in DOMAIN history} :
        \A fd \in DOMAIN s.handles : s.handles[fd].path \in DOMAIN s.files
=============================================================================
