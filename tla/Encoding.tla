------------------------------- MODULE Encoding -------------------------------
(***************************************************************************)
(* Machine words and the four tables that must agree on them: the          *)
(* assembler's encoder (assembler.py, _encode_real), the set of supported  *)
(* encodings (isa.py), the disassembler, and the dispatch of Machine.step. *)
(*                                                                         *)
(* A word is the record of its fields [op, rs, rt, rd, sh, fn]; the low    *)
(* half of an immediate instruction is the last three.  An address is a    *)
(* word number, so that it fits TLC's integers.                            *)
(*                                                                         *)
(* A statement is a name and its operands, each <<kind, value, ...>>:      *)
(*   <<"reg", n>>  <<"freg", n>>  <<"num", v>>  <<"mem", offset, base>>    *)
(*   <<"addr", word, byte>>, byte being its offset in that word.           *)
(***************************************************************************)
EXTENDS Integers, Sequences, TLC

Word6(op, rs, rt, rd, sh, fn) ==
    [op |-> op, rs |-> rs, rt |-> rt, rd |-> rd, sh |-> sh, fn |-> fn]

Refused == [op |-> -1]  \* an AssemblyError

-----------------------------------------------------------------------------
(* The tables of isa.py. *)

R3_FUNCTS == [add |-> 32, addu |-> 33, sub |-> 34, subu |-> 35, and |-> 36,
              or |-> 37, xor |-> 38, nor |-> 39, slt |-> 42, sltu |-> 43]
SHIFT_IMMEDIATE_FUNCTS == [sll |-> 0, srl |-> 2, sra |-> 3]
SHIFT_VARIABLE_FUNCTS == [sllv |-> 4, srlv |-> 6, srav |-> 7]
SPECIAL2_ACCUM_FUNCTS == [madd |-> 0, maddu |-> 1, msub |-> 4, msubu |-> 5]
TRAP_R_FUNCTS == [tge |-> 48, tgeu |-> 49, tlt |-> 50, tltu |-> 51, teq |-> 52, tne |-> 54]
I_SIGNED_OPCODES == [addi |-> 8, addiu |-> 9, slti |-> 10, sltiu |-> 11]
I_UNSIGNED_OPCODES == [andi |-> 12, ori |-> 13, xori |-> 14]
BRANCH2_OPCODES == [beq |-> 4, bne |-> 5]
BRANCH1_OPCODES == [blez |-> 6, bgtz |-> 7]
REGIMM_RT == [bltz |-> 0, bgez |-> 1, bltzal |-> 16, bgezal |-> 17]
TRAP_I_RT == [tgei |-> 8, tgeiu |-> 9, tlti |-> 10, tltiu |-> 11, teqi |-> 12, tnei |-> 14]
MEMORY_OPCODES == [lb |-> 32, lh |-> 33, lwl |-> 34, lw |-> 35, lbu |-> 36, lhu |-> 37,
                   lwr |-> 38, sb |-> 40, sh |-> 41, swl |-> 42, sw |-> 43, swr |-> 46,
                   ll |-> 48, sc |-> 56]
FPU_MEMORY_OPCODES == [lwc1 |-> 49, ldc1 |-> 53, swc1 |-> 57, sdc1 |-> 61]

Codes(table) == {table[name] : name \in DOMAIN table}

-----------------------------------------------------------------------------
(* Putting words together and taking them apart. *)

HalfSize == 65536

encode_r(rs, rt, rd, sh, fn) == Word6(0, rs, rt, rd, sh, fn)

encode_i(op, rs, rt, immediate) ==
    LET i == immediate % HalfSize
    IN  Word6(op, rs, rt, i \div 2048, (i \div 64) % 32, i % 64)

encode_j(op, target) ==
    encode_i(op, (target \div 2 ^ 21) % 32, (target \div 2 ^ 16) % 32, target)

(* The operation's opcode, put over an R word. *)
Under(op, word) == [word EXCEPT !.op = op]

Unsigned(w) == w.rd * 2048 + w.sh * 64 + w.fn
Signed16(w) == IF Unsigned(w) >= HalfSize \div 2 THEN Unsigned(w) - HalfSize ELSE Unsigned(w)
Code10(w) == w.rd * 32 + w.sh
Code20(w) == w.rs * 2 ^ 15 + w.rt * 2 ^ 10 + Code10(w)
WithCode10(word, code) == [word EXCEPT !.rd = code \div 32, !.sh = code % 32]

Region(address) == address \div 2 ^ 26
Addresses == 2 ^ 30
BranchTarget(w, pc) == (pc + 1 + Signed16(w)) % Addresses
JumpTarget(w, pc) ==
    Region(pc + 1) * 2 ^ 26 + w.rs * 2 ^ 21 + w.rt * 2 ^ 16 + Unsigned(w)

-----------------------------------------------------------------------------
(* is_supported_encoding. *)

SupportedSpecial(w) ==
    CASE w.fn \in {0, 3} -> w.rs = 0
      [] w.fn = 2 -> w.rs \in {0, 1}
      [] w.fn \in {4, 7, 10, 11} -> w.sh = 0
      [] w.fn = 6 -> w.sh \in {0, 1}
      [] w.fn \in {8, 17, 19} -> w.rt = 0 /\ w.rd = 0 /\ w.sh = 0
      [] w.fn = 9 -> w.rt = 0 /\ w.sh = 0
      [] w.fn \in {12, 13} -> TRUE
      [] w.fn \in {16, 18} -> w.rs = 0 /\ w.rt = 0 /\ w.sh = 0
      [] w.fn \in 24 .. 27 -> w.rd = 0 /\ w.sh = 0
      [] w.fn \in Codes(R3_FUNCTS) -> w.sh = 0
      [] OTHER -> w.fn \in Codes(TRAP_R_FUNCTS)

(* Mutant of SupportedSpecial2: CLZ and CLO may name two destinations. *)
SupportedSpecial2Loose(w) ==
    CASE w.fn \in Codes(SPECIAL2_ACCUM_FUNCTS) -> w.rd = 0 /\ w.sh = 0
      [] w.fn \in {2, 32, 33} -> w.sh = 0
      [] OTHER -> FALSE

SupportedSpecial2(w) ==
    CASE w.fn \in Codes(SPECIAL2_ACCUM_FUNCTS) -> w.rd = 0 /\ w.sh = 0
      [] w.fn = 2 -> w.sh = 0
      [] w.fn \in {32, 33} -> w.rt = w.rd /\ w.sh = 0
      [] OTHER -> FALSE

is_supported_encoding(w) ==
    CASE w.op = 0 -> SupportedSpecial(w)
      [] w.op = 1 -> w.rt \in Codes(REGIMM_RT) \cup Codes(TRAP_I_RT)
      [] w.op \in 2 .. 5 -> TRUE
      [] w.op \in {6, 7} -> w.rt = 0
      [] w.op \in Codes(I_SIGNED_OPCODES) \cup Codes(I_UNSIGNED_OPCODES) -> TRUE
      [] w.op = 15 -> w.rs = 0
      [] w.op = 17 -> w.rs \in {0, 4} /\ w.sh = 0 /\ w.fn = 0
      [] w.op = 28 -> SupportedSpecial2(w)
      [] w.op = 31 -> w.fn = 32 /\ w.rs = 0 /\ w.sh \in {16, 24}
      [] OTHER -> w.op \in Codes(MEMORY_OPCODES) \cup Codes(FPU_MEMORY_OPCODES)

-----------------------------------------------------------------------------
(* _encode_real: the operands each operation takes, in order, the ranges   *)
(* they must lie in, and the word they give.                               *)

Kinds(s) == [k \in DOMAIN s.args |-> s.args[k][1]]
R1 == <<"reg">>
R2 == <<"reg", "reg">>
R3 == <<"reg", "reg", "reg">>
R2Num == <<"reg", "reg", "num">>
RNum == <<"reg", "num">>

SignedOrPattern == -(HalfSize \div 2) .. HalfSize - 1  \* require_signed_or_bit_pattern
Half == 0 .. HalfSize - 1

(* _branch_immediate: the displacement of an aligned target in reach. *)
Reaches(target, pc) ==
    target[3] = 0 /\ target[2] - (pc + 1) \in -(HalfSize \div 2) .. HalfSize \div 2 - 1

SpecialFuncts ==
    [movz |-> 10, movn |-> 11, mult |-> 24, multu |-> 25, div |-> 26, divu |-> 27,
     mfhi |-> 16, mflo |-> 18, mthi |-> 17, mtlo |-> 19, syscall |-> 12, break |-> 13]

EncodeRegisters(s) ==
    LET n == s.name
        takes == Kinds(s)
        v == [k \in DOMAIN s.args |-> s.args[k][2]]
    IN  CASE n \in DOMAIN R3_FUNCTS /\ takes = R3 ->
                encode_r(v[2], v[3], v[1], 0, R3_FUNCTS[n])
          [] n \in DOMAIN SHIFT_VARIABLE_FUNCTS /\ takes = R3 ->
                encode_r(v[3], v[2], v[1], 0, SHIFT_VARIABLE_FUNCTS[n])
          [] n = "rotrv" /\ takes = R3 -> encode_r(v[3], v[2], v[1], 1, 6)
          [] n \in {"movz", "movn"} /\ takes = R3 ->
                encode_r(v[2], v[3], v[1], 0, SpecialFuncts[n])
          [] n = "mul" /\ takes = R3 -> Under(28, encode_r(v[2], v[3], v[1], 0, 2))
          [] n \in {"clz", "clo"} /\ takes = R2 ->
                Under(28, encode_r(v[2], v[1], v[1], 0, IF n = "clz" THEN 32 ELSE 33))
          [] n \in {"seb", "seh"} /\ takes = R2 ->
                Under(31, encode_r(0, v[2], v[1], IF n = "seb" THEN 16 ELSE 24, 32))
          [] n \in {"mult", "multu", "div", "divu"} /\ takes = R2 ->
                encode_r(v[1], v[2], 0, 0, SpecialFuncts[n])
          [] n \in DOMAIN SPECIAL2_ACCUM_FUNCTS /\ takes = R2 ->
                Under(28, encode_r(v[1], v[2], 0, 0, SPECIAL2_ACCUM_FUNCTS[n]))
          [] n \in {"mfc1", "mtc1"} /\ takes = <<"reg", "freg">> ->
                Under(17, encode_r(IF n = "mfc1" THEN 0 ELSE 4, v[1], v[2], 0, 0))
          [] n = "jr" /\ takes = R1 -> encode_r(v[1], 0, 0, 0, 8)
          [] n = "jalr" /\ takes = R1 -> encode_r(v[1], 0, 31, 0, 9)
          [] n = "jalr" /\ takes = R2 -> encode_r(v[2], 0, v[1], 0, 9)
          [] n \in {"mfhi", "mflo"} /\ takes = R1 -> encode_r(0, 0, v[1], 0, SpecialFuncts[n])
          [] n \in {"mthi", "mtlo"} /\ takes = R1 -> encode_r(v[1], 0, 0, 0, SpecialFuncts[n])
          [] n \in DOMAIN TRAP_R_FUNCTS /\ takes = R2 ->
                encode_r(v[1], v[2], 0, 0, TRAP_R_FUNCTS[n])
          [] OTHER -> Refused

EncodeNumbers(s) ==
    LET n == s.name
        takes == Kinds(s)
        v == [k \in DOMAIN s.args |-> s.args[k][2]]
    IN  CASE n \in DOMAIN SHIFT_IMMEDIATE_FUNCTS /\ takes = R2Num /\ v[3] \in 0 .. 31 ->
                encode_r(0, v[2], v[1], v[3], SHIFT_IMMEDIATE_FUNCTS[n])
          [] n = "rotr" /\ takes = R2Num /\ v[3] \in 0 .. 31 ->
                encode_r(1, v[2], v[1], v[3], 2)
          [] n \in DOMAIN I_SIGNED_OPCODES /\ takes = R2Num /\ v[3] \in SignedOrPattern ->
                encode_i(I_SIGNED_OPCODES[n], v[2], v[1], v[3])
          [] n \in DOMAIN I_UNSIGNED_OPCODES /\ takes = R2Num /\ v[3] \in Half ->
                encode_i(I_UNSIGNED_OPCODES[n], v[2], v[1], v[3])
          [] n = "lui" /\ takes = RNum /\ v[2] \in Half -> encode_i(15, 0, v[1], v[2])
          [] n \in DOMAIN TRAP_I_RT /\ takes = RNum /\ v[2] \in SignedOrPattern ->
                encode_i(1, v[1], TRAP_I_RT[n], v[2])
          [] n \in {"syscall", "break"} /\ takes = <<>> ->
                encode_r(0, 0, 0, 0, SpecialFuncts[n])
          [] n \in {"syscall", "break"} /\ takes = <<"num">> /\ v[1] \in 0 .. 2 ^ 20 - 1 ->
                WithCode10(encode_r(v[1] \div 2 ^ 15, (v[1] \div 2 ^ 10) % 32, 0, 0,
                                    SpecialFuncts[n]), v[1] % 2 ^ 10)
          [] n \in DOMAIN TRAP_R_FUNCTS /\ takes = R2Num /\ v[3] \in 0 .. 1023 ->
                WithCode10(encode_r(v[1], v[2], 0, 0, TRAP_R_FUNCTS[n]), v[3])
          [] OTHER -> Refused

EncodeTransfer(s, pc) ==
    LET n == s.name
        takes == Kinds(s)
        v == [k \in DOMAIN s.args |-> s.args[k][2]]
        target == s.args[Len(s.args)]
        displacement == target[2] - (pc + 1)
    IN  CASE n \in DOMAIN BRANCH2_OPCODES /\ takes = <<"reg", "reg", "addr">>
                /\ Reaches(target, pc) ->
                encode_i(BRANCH2_OPCODES[n], v[1], v[2], displacement)
          [] n \in DOMAIN BRANCH1_OPCODES /\ takes = <<"reg", "addr">> /\ Reaches(target, pc) ->
                encode_i(BRANCH1_OPCODES[n], v[1], 0, displacement)
          [] n \in DOMAIN REGIMM_RT /\ takes = <<"reg", "addr">> /\ Reaches(target, pc) ->
                encode_i(1, v[1], REGIMM_RT[n], displacement)
          [] n \in {"j", "jal"} /\ takes = <<"addr">> /\ target[3] = 0
                /\ Region(target[2]) = Region(pc + 1) ->
                encode_j(IF n = "j" THEN 2 ELSE 3, target[2])
          [] OTHER -> Refused

(* LDC1 and SDC1 take an even register; the offset may be a bit pattern. *)
EncodeMemory(s) ==
    LET n == s.name
        takes == Kinds(s)
        v == [k \in DOMAIN s.args |-> s.args[k][2]]
    IN  CASE n \in DOMAIN MEMORY_OPCODES /\ takes = <<"reg", "mem">>
                /\ v[2] \in SignedOrPattern ->
                encode_i(MEMORY_OPCODES[n], s.args[2][3], v[1], v[2])
          [] n \in DOMAIN FPU_MEMORY_OPCODES /\ takes = <<"freg", "mem">>
                /\ v[2] \in SignedOrPattern /\ (n \in {"ldc1", "sdc1"} => v[1] % 2 = 0) ->
                encode_i(FPU_MEMORY_OPCODES[n], s.args[2][3], v[1], v[2])
          [] OTHER -> Refused

Transfers == DOMAIN BRANCH2_OPCODES \cup DOMAIN BRANCH1_OPCODES \cup DOMAIN REGIMM_RT
                 \cup {"j", "jal"}

encode_real(s, pc) ==
    CASE s.name \in Transfers -> EncodeTransfer(s, pc)
      [] s.name \in DOMAIN MEMORY_OPCODES \cup DOMAIN FPU_MEMORY_OPCODES -> EncodeMemory(s)
      [] EncodeRegisters(s) # Refused -> EncodeRegisters(s)
      [] OTHER -> EncodeNumbers(s)

-----------------------------------------------------------------------------
(* disassemble: its own tables, by code.  A word that is not supported is  *)
(* shown as data (".word").                                                *)

R_NAMES ==
    0 :> "sll" @@ 2 :> "srl" @@ 3 :> "sra" @@ 4 :> "sllv" @@ 6 :> "srlv" @@ 7 :> "srav"
    @@ 8 :> "jr" @@ 9 :> "jalr" @@ 10 :> "movz" @@ 11 :> "movn" @@ 12 :> "syscall"
    @@ 13 :> "break" @@ 16 :> "mfhi" @@ 17 :> "mthi" @@ 18 :> "mflo" @@ 19 :> "mtlo"
    @@ 24 :> "mult" @@ 25 :> "multu" @@ 26 :> "div" @@ 27 :> "divu" @@ 32 :> "add"
    @@ 33 :> "addu" @@ 34 :> "sub" @@ 35 :> "subu" @@ 36 :> "and" @@ 37 :> "or"
    @@ 38 :> "xor" @@ 39 :> "nor" @@ 42 :> "slt" @@ 43 :> "sltu" @@ 48 :> "tge"
    @@ 49 :> "tgeu" @@ 50 :> "tlt" @@ 51 :> "tltu" @@ 52 :> "teq" @@ 54 :> "tne"
REGIMM_NAMES ==
    0 :> "bltz" @@ 1 :> "bgez" @@ 16 :> "bltzal" @@ 17 :> "bgezal" @@ 8 :> "tgei"
    @@ 9 :> "tgeiu" @@ 10 :> "tlti" @@ 11 :> "tltiu" @@ 12 :> "teqi" @@ 14 :> "tnei"
I_NAMES == 8 :> "addi" @@ 9 :> "addiu" @@ 10 :> "slti" @@ 11 :> "sltiu"
           @@ 12 :> "andi" @@ 13 :> "ori" @@ 14 :> "xori"
SPECIAL2_NAMES == 0 :> "madd" @@ 1 :> "maddu" @@ 2 :> "mul" @@ 4 :> "msub" @@ 5 :> "msubu"
                  @@ 32 :> "clz" @@ 33 :> "clo"
MEMORY_NAMES ==
    32 :> "lb" @@ 33 :> "lh" @@ 34 :> "lwl" @@ 35 :> "lw" @@ 36 :> "lbu" @@ 37 :> "lhu"
    @@ 38 :> "lwr" @@ 40 :> "sb" @@ 41 :> "sh" @@ 42 :> "swl" @@ 43 :> "sw" @@ 46 :> "swr"
    @@ 48 :> "ll" @@ 56 :> "sc"
FPU_MEMORY_NAMES == 49 :> "lwc1" @@ 53 :> "ldc1" @@ 57 :> "swc1" @@ 61 :> "sdc1"

Statement(name, args) == [name |-> name, args |-> args]
Register(n) == <<"reg", n>>
FpuRegister(n) == <<"freg", n>>
Number(v) == <<"num", v>>
Memory16(w) == <<"mem", Signed16(w), w.rs>>
Address30(a) == <<"addr", a, 0>>

(* A code of 0 is left out. *)
Optional(code) == IF code = 0 THEN <<>> ELSE <<Number(code)>>

ShownSpecial(w) ==
    LET name == R_NAMES[w.fn]
        rs == Register(w.rs)  rt == Register(w.rt)  rd == Register(w.rd)
    IN  CASE name = "srl" /\ w.rs = 1 -> Statement("rotr", <<rd, rt, Number(w.sh)>>)
          [] name \in {"sll", "srl", "sra"} /\ w.rs # 1 ->
                Statement(name, <<rd, rt, Number(w.sh)>>)
          [] name = "srlv" /\ w.sh = 1 -> Statement("rotrv", <<rd, rt, rs>>)
          [] name \in {"sllv", "srlv", "srav"} /\ w.sh # 1 -> Statement(name, <<rd, rt, rs>>)
          [] name \in {"jr", "mthi", "mtlo"} -> Statement(name, <<rs>>)
          [] name = "jalr" -> Statement(name, <<rd, rs>>)
          [] name \in {"syscall", "break"} -> Statement(name, Optional(Code20(w)))
          [] name \in {"mfhi", "mflo"} -> Statement(name, <<rd>>)
          [] name \in {"mult", "multu", "div", "divu"} -> Statement(name, <<rs, rt>>)
          [] name \in DOMAIN TRAP_R_FUNCTS ->
                Statement(name, <<rs, rt>> \o Optional(Code10(w)))
          [] OTHER -> Statement(name, <<rd, rs, rt>>)

ShownRegimm(w, pc) ==
    LET name == REGIMM_NAMES[w.rt]
    IN  Statement(name, <<Register(w.rs),
                          IF name \in DOMAIN TRAP_I_RT THEN Number(Signed16(w))
                          ELSE Address30(BranchTarget(w, pc))>>)

ShownSpecial2(w) ==
    LET name == SPECIAL2_NAMES[w.fn]
        rs == Register(w.rs)  rt == Register(w.rt)  rd == Register(w.rd)
    IN  CASE name \in DOMAIN SPECIAL2_ACCUM_FUNCTS -> Statement(name, <<rs, rt>>)
          [] name = "mul" -> Statement(name, <<rd, rs, rt>>)
          [] OTHER -> Statement(name, <<rd, rs>>)

ShownImmediate(w) ==
    Statement(I_NAMES[w.op],
              <<Register(w.rt), Register(w.rs),
                Number(IF w.op \in {12, 13, 14} THEN Unsigned(w) ELSE Signed16(w))>>)

Shown(w, pc) ==
    LET rs == Register(w.rs)  rt == Register(w.rt)  branch == Address30(BranchTarget(w, pc))
    IN  CASE w.op = 0 -> ShownSpecial(w)
          [] w.op = 1 -> ShownRegimm(w, pc)
          [] w.op \in {2, 3} -> Statement(IF w.op = 2 THEN "j" ELSE "jal",
                                         <<Address30(JumpTarget(w, pc))>>)
          [] w.op \in {4, 5} -> Statement(IF w.op = 4 THEN "beq" ELSE "bne", <<rs, rt, branch>>)
          [] w.op \in {6, 7} -> Statement(IF w.op = 6 THEN "blez" ELSE "bgtz", <<rs, branch>>)
          [] w.op \in DOMAIN I_NAMES -> ShownImmediate(w)
          [] w.op = 15 -> Statement("lui", <<rt, Number(Unsigned(w))>>)
          [] w.op = 17 -> Statement(IF w.rs = 0 THEN "mfc1" ELSE "mtc1",
                                    <<rt, FpuRegister(w.rd)>>)
          [] w.op = 28 -> ShownSpecial2(w)
          [] w.op = 31 -> Statement(IF w.sh = 16 THEN "seb" ELSE "seh",
                                    <<Register(w.rd), rt>>)
          [] w.op \in DOMAIN MEMORY_NAMES -> Statement(MEMORY_NAMES[w.op], <<rt, Memory16(w)>>)
          [] w.op \in DOMAIN FPU_MEMORY_NAMES ->
                Statement(FPU_MEMORY_NAMES[w.op], <<FpuRegister(w.rt), Memory16(w)>>)

Data == Statement(".word", <<>>)
disassemble(w, pc) == IF is_supported_encoding(w) THEN Shown(w, pc) ELSE Data

-----------------------------------------------------------------------------
(* The dispatch of Machine.step: the instruction a word encodes, in the    *)
(* form Machine executes, with immediates as the numbers they stand for    *)
(* and displacements and targets in words.  A word the dispatch has no arm *)
(* for is "unknown" (R111, R112, R114, R115, R117, R119), a double of an   *)
(* odd register "unpaired" (R120).                                         *)

Plain(op, reads, dest, imm) ==
    [op |-> op, reads |-> reads, dest |-> dest, imm |-> imm, condition |-> "none",
     link |-> FALSE]
BranchIf(condition, reads, imm, link) ==
    [op |-> "branch", reads |-> reads, dest |-> 0, imm |-> imm,
     condition |-> condition, link |-> link]
TrapIf(condition, reads, imm) ==
    [op |-> "trap", reads |-> reads, dest |-> 0, imm |-> imm, condition |-> condition,
     link |-> FALSE]
Unknown == Plain("unknown", <<>>, 0, 0)

ThreeRegisterOps ==
    32 :> "add" @@ 33 :> "addu" @@ 34 :> "sub" @@ 35 :> "subu" @@ 36 :> "and"
    @@ 37 :> "or" @@ 38 :> "xor" @@ 39 :> "nor" @@ 42 :> "slt" @@ 43 :> "sltu"
TrapConditions == 0 :> "ge" @@ 1 :> "geu" @@ 2 :> "lt" @@ 3 :> "ltu" @@ 4 :> "eq" @@ 6 :> "ne"
MultiplyDivideOps == 24 :> "mult" @@ 25 :> "multu" @@ 26 :> "div" @@ 27 :> "divu"

ShiftOp(w) ==
    CASE w.fn % 4 = 0 -> "sll"
      [] w.fn % 4 = 3 -> "sra"
      [] OTHER -> IF (w.fn = 2 /\ w.rs = 1) \/ (w.fn = 6 /\ w.sh = 1) THEN "rotr" ELSE "srl"

DispatchSpecial(w) ==
    CASE w.fn \in {0, 2, 3} -> Plain(ShiftOp(w), <<w.rt>>, w.rd, w.sh)
      [] w.fn \in {4, 6, 7} -> Plain(ShiftOp(w), <<w.rt, w.rs>>, w.rd, 0)
      [] w.fn \in {8, 9} -> Plain(IF w.fn = 8 THEN "jr" ELSE "jalr", <<w.rs>>,
                                  IF w.fn = 9 THEN w.rd ELSE 0, 0)
      [] w.fn \in {10, 11} -> Plain(IF w.fn = 10 THEN "movz" ELSE "movn", <<w.rt, w.rs>>,
                                    w.rd, 0)
      [] w.fn = 12 -> Plain("syscall", <<>>, 0, 0)
      [] w.fn = 13 -> Plain("break", <<>>, 0, 0)
      [] w.fn \in {16, 18} -> Plain(IF w.fn = 16 THEN "mfhi" ELSE "mflo", <<>>, w.rd, 0)
      [] w.fn \in {17, 19} -> Plain(IF w.fn = 17 THEN "mthi" ELSE "mtlo", <<w.rs>>, 0, 0)
      [] w.fn \in DOMAIN MultiplyDivideOps ->
            Plain(MultiplyDivideOps[w.fn], <<w.rs, w.rt>>, 0, 0)
      [] w.fn \in DOMAIN ThreeRegisterOps ->
            Plain(ThreeRegisterOps[w.fn], <<w.rs, w.rt>>, w.rd, 0)
      [] w.fn - 48 \in DOMAIN TrapConditions -> TrapIf(TrapConditions[w.fn - 48], <<w.rs, w.rt>>, 0)
      [] OTHER -> Unknown

DispatchRegimm(w) ==
    CASE w.rt - 8 \in DOMAIN TrapConditions ->
            TrapIf(TrapConditions[w.rt - 8], <<w.rs>>, Signed16(w))
      [] w.rt \in {0, 1, 16, 17} ->
            BranchIf(IF w.rt % 2 = 0 THEN "lt" ELSE "ge", <<w.rs>>, Signed16(w), w.rt >= 16)
      [] OTHER -> Unknown

(* MADD and its kind are told apart by the bits of the code. *)
DispatchSpecial2(w) ==
    CASE w.fn \in {0, 1, 4, 5} ->
            Plain((0 :> "madd" @@ 1 :> "maddu" @@ 4 :> "msub" @@ 5 :> "msubu")[w.fn],
                  <<w.rs, w.rt>>, 0, 0)
      [] w.fn = 2 -> Plain("mul", <<w.rs, w.rt>>, w.rd, 0)
      [] w.fn \in {32, 33} -> Plain(IF w.fn = 32 THEN "clz" ELSE "clo", <<w.rs>>, w.rd, 0)
      [] OTHER -> Unknown

(* Mutant of DispatchImmediate: the bits of ANDI, ORI and XORI are signed. *)
DispatchImmediateSigned(w) ==
    LET op == (8 :> "add" @@ 9 :> "addu" @@ 10 :> "slt" @@ 11 :> "sltu"
               @@ 12 :> "and" @@ 13 :> "or" @@ 14 :> "xor")[w.op]
    IN  Plain(op, <<w.rs>>, w.rt, Signed16(w))

DispatchImmediate(w) ==
    LET op == (8 :> "add" @@ 9 :> "addu" @@ 10 :> "slt" @@ 11 :> "sltu"
               @@ 12 :> "and" @@ 13 :> "or" @@ 14 :> "xor")[w.op]
    IN  Plain(op, <<w.rs>>, w.rt, IF w.op \in 12 .. 14 THEN Unsigned(w) ELSE Signed16(w))

(* Loads, stores, LL and SC; LWL and LWR merge into the register. *)
DispatchMemory(w) ==
    LET op == (32 :> "lb" @@ 33 :> "lh" @@ 34 :> "lwl" @@ 35 :> "lw" @@ 36 :> "lbu"
               @@ 37 :> "lhu" @@ 38 :> "lwr" @@ 40 :> "sb" @@ 41 :> "sh" @@ 42 :> "swl"
               @@ 43 :> "sw" @@ 46 :> "swr" @@ 48 :> "ll" @@ 56 :> "sc")[w.op]
        reads == IF op \in {"lb", "lh", "lw", "lbu", "lhu", "ll"} THEN <<w.rs>>
                 ELSE <<w.rs, w.rt>>
        dest == IF op \in {"sb", "sh", "sw", "swl", "swr"} THEN 0 ELSE w.rt
    IN  Plain(op, reads, dest, Signed16(w))

DispatchFpuMemory(w) ==
    LET op == (49 :> "lwc1" @@ 53 :> "ldc1" @@ 57 :> "swc1" @@ 61 :> "sdc1")[w.op]
    IN  IF op \in {"ldc1", "sdc1"} /\ w.rt % 2 = 1 THEN Plain("unpaired", <<>>, 0, 0)
        ELSE Plain(op, <<w.rs>>, w.rt, Signed16(w))

Dispatch(w, pc) ==
    CASE w.op = 0 -> DispatchSpecial(w)
      [] w.op = 1 -> DispatchRegimm(w)
      [] w.op \in {2, 3} -> Plain(IF w.op = 2 THEN "j" ELSE "jal", <<>>, 0, JumpTarget(w, pc))
      [] w.op \in {4, 5} -> BranchIf(IF w.op = 4 THEN "eq" ELSE "ne", <<w.rs, w.rt>>,
                                     Signed16(w), FALSE)
      [] w.op \in {6, 7} -> BranchIf(IF w.op = 6 THEN "le" ELSE "gt", <<w.rs>>, Signed16(w), FALSE)
      [] w.op \in 8 .. 14 -> DispatchImmediate(w)
      [] w.op = 15 -> Plain("lui", <<>>, w.rt, Unsigned(w))
      [] w.op = 17 /\ w.rs = 0 -> Plain("mfc1", <<>>, w.rt, w.rd)
      [] w.op = 17 /\ w.rs = 4 -> Plain("mtc1", <<w.rt>>, w.rd, 0)
      [] w.op = 28 -> DispatchSpecial2(w)
      [] w.op = 31 /\ w.fn = 32 /\ w.rs = 0 /\ w.sh \in {16, 24} ->
            Plain(IF w.sh = 16 THEN "seb" ELSE "seh", <<w.rt>>, w.rd, 0)
      [] w.op \in Codes(MEMORY_OPCODES) -> DispatchMemory(w)
      [] w.op \in Codes(FPU_MEMORY_OPCODES) -> DispatchFpuMemory(w)
      [] OTHER -> Unknown

(* What step() makes of a word: reserved (R121), or dispatched. *)
Decoded(w, pc) ==
    IF is_supported_encoding(w) THEN Dispatch(w, pc) ELSE Plain("reserved", <<>>, 0, 0)

=============================================================================
