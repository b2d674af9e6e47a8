---------------------------- MODULE EncodingMeaning ----------------------------
(***************************************************************************)
(* What a statement says its machine instruction does: the operands are    *)
(* read in the order the assembly language documents them.  Nothing here   *)
(* looks at a field of a word or at a table of codes.                      *)
(***************************************************************************)
EXTENDS Encoding

VariableShift == [sllv |-> "sll", srlv |-> "srl", srav |-> "sra", rotrv |-> "rotr"]
ImmediateForm == [addi |-> "add", addiu |-> "addu", slti |-> "slt", sltiu |-> "sltu",
                  andi |-> "and", ori |-> "or", xori |-> "xor"]
ConditionOf ==
    [beq |-> "eq", bne |-> "ne", blez |-> "le", bgtz |-> "gt", bltz |-> "lt",
     bgez |-> "ge", bltzal |-> "lt", bgezal |-> "ge",
     tge |-> "ge", tgeu |-> "geu", tlt |-> "lt", tltu |-> "ltu", teq |-> "eq", tne |-> "ne",
     tgei |-> "ge", tgeiu |-> "geu", tlti |-> "lt", tltiu |-> "ltu", teqi |-> "eq",
     tnei |-> "ne"]

(* A sixteen-bit pattern as the signed number it stands for. *)
AsSigned(v) == IF v > 32767 THEN v - 65536 ELSE v

Meaning(s, pc) ==
    LET n == s.name
        args == s.args
        v == [k \in DOMAIN args |-> args[k][2]]
        registers == \A k \in DOMAIN args : args[k][1] = "reg"
        last == args[Len(args)]
    IN  CASE n \in {"add", "addu", "sub", "subu", "and", "or", "xor", "nor", "slt", "sltu",
                    "mul"} -> Plain(n, <<v[2], v[3]>>, v[1], 0)
          [] n \in {"sll", "srl", "sra", "rotr"} -> Plain(n, <<v[2]>>, v[1], v[3])
          [] n \in DOMAIN VariableShift -> Plain(VariableShift[n], <<v[2], v[3]>>, v[1], 0)
          [] n \in {"movz", "movn"} -> Plain(n, <<v[3], v[2]>>, v[1], 0)
          [] n \in {"clz", "clo", "seb", "seh"} -> Plain(n, <<v[2]>>, v[1], 0)
          [] n \in {"mult", "multu", "div", "divu", "madd", "maddu", "msub", "msubu"} ->
                Plain(n, v, 0, 0)
          [] n \in {"jr", "mthi", "mtlo"} -> Plain(n, v, 0, 0)
          [] n = "jalr" /\ Len(args) = 1 -> Plain(n, v, 31, 0)
          [] n = "jalr" /\ Len(args) = 2 -> Plain(n, <<v[2]>>, v[1], 0)
          [] n \in {"mfhi", "mflo"} -> Plain(n, <<>>, v[1], 0)
          [] n \in {"syscall", "break"} -> Plain(n, <<>>, 0, 0)
          [] n \in {"tge", "tgeu", "tlt", "tltu", "teq", "tne"} ->
                TrapIf(ConditionOf[n], <<v[1], v[2]>>, 0)
          [] n \in {"tgei", "tgeiu", "tlti", "tltiu", "teqi", "tnei"} ->
                TrapIf(ConditionOf[n], <<v[1]>>, AsSigned(v[2]))
          [] n \in {"addi", "addiu", "slti", "sltiu"} ->
                Plain(ImmediateForm[n], <<v[2]>>, v[1], AsSigned(v[3]))
          [] n \in {"andi", "ori", "xori"} -> Plain(ImmediateForm[n], <<v[2]>>, v[1], v[3])
          [] n = "lui" -> Plain(n, <<>>, v[1], v[2])
          [] n \in {"beq", "bne"} ->
                BranchIf(ConditionOf[n], <<v[1], v[2]>>, v[3] - (pc + 1), FALSE)
          [] n \in {"blez", "bgtz", "bltz", "bgez", "bltzal", "bgezal"} ->
                BranchIf(ConditionOf[n], <<v[1]>>, v[2] - (pc + 1), n \in {"bltzal", "bgezal"})
          [] n \in {"j", "jal"} -> Plain(n, <<>>, 0, v[1])
          [] n = "mfc1" -> Plain(n, <<>>, v[1], v[2])
          [] n = "mtc1" -> Plain(n, <<v[1]>>, v[2], 0)
          [] n \in {"lb", "lbu", "lh", "lhu", "lw", "ll", "lwc1", "ldc1", "swc1", "sdc1"} ->
                Plain(n, <<last[3]>>, v[1], AsSigned(last[2]))
          [] n \in {"sb", "sh", "sw", "swl", "swr"} ->
                Plain(n, <<last[3], v[1]>>, 0, AsSigned(last[2]))
          [] n \in {"lwl", "lwr", "sc"} -> Plain(n, <<last[3], v[1]>>, v[1], AsSigned(last[2]))

=============================================================================
