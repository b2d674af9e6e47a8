------------------------------ MODULE MCMachine ------------------------------
(***************************************************************************)
(* A small machine: bytes of three bits, so words of twelve; pages of one  *)
(* word; a text region of 4 or 16 words, a data segment of three (two at   *)
(* first, one more by sbrk) and a stack of four.  The instructions that    *)
(* can be encoded are those of Table: word k encodes Table[k].             *)
(***************************************************************************)
EXTENDS ReversibleMachine, Loader

Layout(textEnd) ==
    {[lo |-> 64, hi |-> textEnd, access |-> {"read", "write", "execute"},
      heap |-> FALSE],
     [lo |-> 128, hi |-> 140, access |-> {"read", "write"}, heap |-> TRUE],
     [lo |-> 192, hi |-> 208, access |-> {"read", "write"}, heap |-> FALSE],
     [lo |-> 256, hi |-> 264, access |-> {}, heap |-> FALSE]}

MCRegions == Layout(80)
MCWideRegions == Layout(128)

Instr(op, reads, dest, imm) ==
    [op |-> op, reads |-> reads, dest |-> dest, imm |-> imm,
     condition |-> "eq", link |-> FALSE]
Branch(condition, reads, imm, link) ==
    [op |-> "branch", reads |-> reads, dest |-> 0, imm |-> imm,
     condition |-> condition, link |-> link]
Trap(condition, reads, imm) ==
    [op |-> "trap", reads |-> reads, dest |-> 0, imm |-> imm,
     condition |-> condition, link |-> FALSE]
LoadImmediate(r, value) == Instr("or", <<0>>, r, value)

Reserved == Instr("reserved", <<>>, 0, 0)

Table == <<
    \* 1 - 20: arithmetic and control
    LoadImmediate(4, 2047),                \* the largest signed word
    Instr("add", <<4>>, 4, 1),             \* addi $4, $4, 1
    Instr("addu", <<4, 5>>, 5, 0),
    Instr("movz", <<16, 4>>, 5, 0),
    Instr("movn", <<16, 6>>, 5, 0),
    Trap("ltu", <<4>>, 2000),
    Instr("mthi", <<4>>, 0, 0),
    Instr("mflo", <<>>, 5, 0),
    Instr("mult", <<4, 5>>, 0, 0),
    Instr("madd", <<4, 4>>, 0, 0),
    Instr("div", <<5, 4>>, 0, 0),
    Branch("ge", <<4>>, -8, TRUE),         \* bgezal
    Branch("ne", <<4, 16>>, 4, FALSE),
    Instr("jal", <<>>, 0, TextBase + 8),
    Instr("jr", <<31>>, 0, 0),
    Instr("jalr", <<31>>, 31, 0),
    Instr("lui", <<>>, 6, 3),
    Instr("break", <<>>, 0, 0),
    Instr("mtlo", <<4>>, 0, 0),
    Instr("mfhi", <<>>, 4, 0),
    \* 21 - 38: memory and floating-point registers
    Instr("sw", <<28, 4>>, 0, 0),
    Instr("sb", <<28, 5>>, 0, 5),
    Instr("sh", <<29, 4>>, 0, 6),
    Instr("lw", <<28>>, 4, 0),
    Instr("lb", <<29>>, 5, 4),
    Instr("lhu", <<29>>, 5, 6),
    Instr("ll", <<29>>, 4, 4),
    Instr("sc", <<29, 5>>, 5, 4),
    Instr("swl", <<29, 5>>, 0, 2),
    Instr("swr", <<29, 29>>, 0, 5),
    Instr("lwl", <<29, 5>>, 5, 6),
    Instr("lwr", <<29, 4>>, 4, 5),
    Instr("mtc1", <<29>>, 12, 0),
    Instr("mfc1", <<>>, 5, 12),
    Instr("swc1", <<28>>, 12, 0),
    Instr("sdc1", <<28>>, 12, 0),
    Instr("lwc1", <<29>>, 13, 4),
    Instr("ldc1", <<29>>, 12, 0),
    \* 39: the system call; 40 - 57: its services 1 to 18
    Instr("syscall", <<>>, 0, 0),
    LoadImmediate(2, 1), LoadImmediate(2, 2), LoadImmediate(2, 3),
    LoadImmediate(2, 4), LoadImmediate(2, 5), LoadImmediate(2, 6),
    LoadImmediate(2, 7), LoadImmediate(2, 8), LoadImmediate(2, 9),
    LoadImmediate(2, 10), LoadImmediate(2, 11), LoadImmediate(2, 12),
    LoadImmediate(2, 13), LoadImmediate(2, 14), LoadImmediate(2, 15),
    LoadImmediate(2, 16), LoadImmediate(2, 17), LoadImmediate(2, 18),
    \* 58 - 71: their arguments
    LoadImmediate(4, 0), LoadImmediate(4, 1), LoadImmediate(4, 3),
    LoadImmediate(4, 128), LoadImmediate(4, 133), LoadImmediate(4, 4095),
    LoadImmediate(5, 2), LoadImmediate(5, 9), LoadImmediate(5, 66),
    LoadImmediate(5, 514), LoadImmediate(5, 128), LoadImmediate(5, 134),
    LoadImmediate(6, 1), LoadImmediate(6, 2)
    >>

MCDecode(w) == IF w \in DOMAIN Table THEN Table[w] ELSE Reserved

-----------------------------------------------------------------------------
(* The machines that programs and arguments give (module Loader). *)

MCRegisters == {0, 2, 4, 5, 6, 8, 16, 28, 29, 31}
MCFpuRegisters == {0, 1, 12, 13}

(* What a machine is built from: a program's words and data, the pages of  *)
(* its kernel segments, and its arguments.                                  *)
Case(argv, kernel, data, code) == <<argv, kernel, data, code>>

ProgramOf(case) ==
    [text |-> case[4], data |-> case[3], kernel |-> case[2], entry |-> TextBase]

BootOf(case) == Boot(ProgramOf(case), case[1], <<>>)

Builds(case) == Startable(ProgramOf(case), case[1])

(* The programs and arguments that the theorems about Loader speak of. *)
AreBuilt(cases) ==
    \A case \in cases : /\ IsProgram(ProgramOf(case)) /\ Builds(case)
                        /\ case[1] \in ArgumentVectors

BootsOf(cases) == {BootOf(case) : case \in cases}

Plain(codes) == {Case(<<>>, {}, <<>>, code) : code \in codes}

ProgramsOf(menu, n) == [1 .. n -> menu]

(* Words of text after a program's end, so that the page limit leaves the  *)
(* same room to every program of a run.                                    *)
Padded(code) == [k \in 1 .. 13 |-> IF k <= Len(code) THEN code[k] ELSE 0]

-----------------------------------------------------------------------------
(* System calls: the arguments, then one service that prints, reads, grows *)
(* the heap or moves a position, and any other after it.  With five bytes  *)
(* of data the first sbrk makes the segment grow; with ten the break       *)
(* starts above the end of the segment.                                    *)
FirstServices == {40, 43, 44, 45, 47, 48, 51, 53}

SystemCases ==
    Plain({Padded(<<a0, a1, 71, s1, 39, s2, 39>>) :
              a0 \in {58, 59, 62, 63}, a1 \in {64, 69}, s1 \in FirstServices, s2 \in 40 .. 57})
    \cup {Case(<<>>, {}, data, Padded(<<a0, a1, 71, 48, 39, s2, 39>>)) :
              data \in {<<1, 1, 1, 1, 1>>, <<1, 1, 1, 1, 1, 1, 1, 1, 1, 1>>},
              a0 \in {58, 59}, a1 \in {64, 69}, s2 \in 40 .. 57}

(* Files: open the path at 128, then any three of read, write and close on *)
(* the descriptor, with a buffer at 128 or (a1 = 60 leaves the open flags  *)
(* in register 5) where a read or a write mostly faults.                   *)
FileCases ==
    {Case(<<>>, {}, path, <<61, flags, 52, 39, 60, a1, 71, s1, 39, s2, 39, s3, 39>>) :
        flags \in {64, 65, 66, 67}, path \in {<<1, 0>>, <<0>>, <<3, 0>>},
        a1 \in {60, 68}, s1, s2, s3 \in {53, 54, 55}}

SystemBoots == BootsOf(SystemCases)

ServiceCases == SystemCases \cup FileCases

ServiceBoots == BootsOf(ServiceCases)

(* Fewer of them where exceptions escape: every read has more results.     *)
InterruptedBoots ==
    BootsOf(Plain({Padded(<<a0, 64, 71, s1, 39, s2, 39>>) :
                      a0 \in {59, 62}, s1 \in FirstServices \ {48}, s2 \in 40 .. 57}))

MCTexts == {<<4>>, <<4, 4>>}
MCNameOf(bytes) == CASE bytes = <<>> -> InvalidPath
                     [] bytes = <<1>> -> "a"
                     [] bytes = <<2>> -> "b"
                     [] OTHER -> Undecodable
MCFloatImages == {0, 9}
MCNoContents == {<<>>}
MCNoArguments == {<<>>}
MCLines == {<<5, 1>>, <<3, 6>>, <<1>>}
MCFeeds == {FlattenSeq(answers) : answers \in BoundedSeq(MCLines, 2)}
MCNoFeeds == {<<>>}
MCHostContents == {<<5>>, <<5, 5>>}
MCDigits == <<4, 5, 6, 7>>
MCBlanks == {1, 2}

=============================================================================
