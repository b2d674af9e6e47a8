------------------------------- MODULE Expansion -------------------------------
(***************************************************************************)
(* How assembler.py sizes an instruction statement in its first pass and   *)
(* expands it into machine instructions in its second.  The first pass     *)
(* sees the operands' text only: a constant expression has a value there,  *)
(* an expression over symbols does not.  The two passes decide             *)
(* independently; nothing but their agreement keeps every later address    *)
(* right.  Halves of words are HalfMod wide: 16 bits in the code.          *)
(*                                                                         *)
(* A statement has one of the operand counts its operation accepts (A202   *)
(* otherwise), and its registers exist (A201 otherwise).  A branch target  *)
(* is a word aligned address in reach (A220, A120 otherwise).  The         *)
(* floating-point and the control transfers that are neither expanded nor  *)
(* overloaded are left out.                                                *)
(***************************************************************************)
EXTENDS Alu, SequencesExt

Zero == 0
At == 1     \* the assembler temporary
Sp == 29
Fp == 30

(* Operands.  "unknown" is an expression over an undefined symbol. *)
Register(n) == [kind |-> "register", value |-> n]
Constant(v) == [kind |-> "constant", value |-> v]
Symbolic(v) == [kind |-> "symbol", value |-> v]
Unknown == [kind |-> "unknown", value |-> 0]
NoBase == [kind |-> "none", value |-> 0]

IsRegister(x) == x.kind = "register"
AllRegisters(s) == \A i \in DOMAIN s : IsRegister(s[i])
Immediates(s) == {i \in DOMAIN s : ~IsRegister(s[i])}

Word(op, args) == [op |-> op, args |-> args]

-----------------------------------------------------------------------------
(* The families of operations. *)

BinaryOps == AddOps \cup LogicOps \cup CompareOps
TrapOps == {"tge", "tgeu", "tlt", "tltu", "teq", "tne"}
PairOps == MultiplyOps \cup DivideOps \cup TrapOps
SingleOps == {"mthi", "mtlo"}
SignedImmediateOps == {"addi", "addiu", "slti", "sltiu"}
UnsignedImmediateOps == {"andi", "ori", "xori"}
SelfImmediateOps == SignedImmediateOps \cup UnsignedImmediateOps
ShiftImmediateOps == {"sll", "srl", "sra"}
ShiftVariableOps == {"sllv", "srlv", "srav"}
ShiftSourceOps == ShiftImmediateOps \cup ShiftVariableOps \cup {"rotrv"}
ShiftSelfOps == ShiftSourceOps \cup {"rotr"}
SelfSourceOps == {"clz", "clo", "seb", "seh"}
LoadOps == {"lw", "lb", "lwl", "lwr"}
StoreOps == {"sw", "sb", "swl", "swr", "sc"}
MemoryOps == LoadOps \cup StoreOps
EqualBranches == {"beq", "bne"}
RelationalBranches == {"blt", "ble", "bgt", "bge", "bltu", "bleu", "bgtu", "bgeu"}
SetOps == {"seq", "sne", "sge", "sgt", "sle", "sgeu", "sgtu", "sleu"}
RemainderOps == {"rem", "remu"}
RotateOps == {"rol", "ror"}

(* An operation and the one it stands for. *)
SetOf == [seqi |-> "seq", snei |-> "sne", sgei |-> "sge", sgti |-> "sgt",
          slei |-> "sle", sequi |-> "seq", sneui |-> "sne", sgeui |-> "sgeu",
          sgtui |-> "sgtu", sleui |-> "sleu"]
SwappedTrap == [tgt |-> "tlt", tgtu |-> "tltu", tle |-> "tge", tleu |-> "tgeu"]
ImmediateTrap == [tgti |-> "tlt", tgtiu |-> "tltu", tlei |-> "tge", tleiu |-> "tgeu"]

ImmediateSets == DOMAIN SetOf
ImmediateTraps == DOMAIN ImmediateTrap

SimplePseudoOps ==
    {"nop", "move", "clear", "not", "neg", "negu", "li", "la", "mul", "b", "bal",
     "beqz", "bnez", "abs", "push", "pop", "begin", "end"}
PseudoInstructions ==
    SimplePseudoOps
      \cup MemoryOps \cup EqualBranches \cup RelationalBranches \cup SetOps
      \cup ImmediateSets \cup RemainderOps \cup RotateOps
      \cup DOMAIN SwappedTrap \cup ImmediateTraps

(* The operand counts each operation accepts; the offset and the base of a *)
(* memory operand, which may be NoBase, are counted as two.                *)
OperandCounts(op) ==
    CASE op \in BinaryOps \cup DivideOps \cup RemainderOps \cup SelfImmediateOps
                  \cup ShiftSelfOps \cup RotateOps -> {2, 3}
      [] op \in SelfSourceOps \cup {"neg", "negu", "abs", "not"} -> {1, 2}
      [] op \in EqualBranches \cup RelationalBranches \cup SetOps \cup ImmediateSets
                  \cup MemoryOps -> {3}
      [] op \in (PairOps \ DivideOps) \cup DOMAIN SwappedTrap \cup ImmediateTraps
                  \cup {"li", "la", "move", "beqz", "bnez"} -> {2}
      [] op \in SingleOps \cup {"clear", "push", "pop", "b", "bal"} -> {1}
      [] op \in {"nop", "begin", "end"} -> {0}
      [] OTHER -> {}

(* The shorter operand lists. *)
Three(args) == IF Len(args) = 2 THEN <<args[1]>> \o args ELSE args
Two(args) == IF Len(args) = 1 THEN args \o args ELSE args

IsResultDivision(st) == st.op \in DivideOps /\ Len(st.args) = 3

(* The operands of which one may be an immediate. *)
HasSources(st) ==
    st.op \in BinaryOps \cup PairOps \cup SingleOps \cup EqualBranches
                \cup RelationalBranches \cup SetOps \cup ImmediateSets
                \cup RemainderOps \cup {"not"}

Sources(st) ==
    CASE st.op \in BinaryOps \cup RemainderOps -> Tail(Three(st.args))
      [] st.op \in EqualBranches \cup RelationalBranches -> SubSeq(st.args, 1, 2)
      [] st.op \in SetOps \cup ImmediateSets \/ IsResultDivision(st) -> Tail(st.args)
      [] st.op = "not" -> <<Last(st.args)>>
      [] OTHER -> st.args

ShiftedValue(st) == Three(st.args)[2]
Amount(st) == Three(st.args)[3]

RotatesThroughTemporary(st) == st.op = "rol" /\ IsRegister(Amount(st))

-----------------------------------------------------------------------------
(* A pass yields a value or refuses the statement with a diagnostic; a     *)
(* Python exception that is not a diagnostic is "internal".                *)

Yield(x) == [error |-> "none", value |-> x]
Refuse(code) == [error |-> code, value |-> <<>>]
Ok(result) == result.error = "none"
Then(result, words) ==
    IF Ok(result) THEN Yield(result.value \o words) ELSE result

(* The first diagnostic of those a statement's checks give, in order. *)
FirstError(errors) ==
    LET raised == {i \in DOMAIN errors : errors[i] # "none"}
    IN  IF raised = {} THEN "none" ELSE errors[Min(raised)]
Raise(condition, code) == IF condition THEN code ELSE "none"

FitsSigned(v) == -(HalfMod \div 2) <= v /\ v < HalfMod \div 2
FitsUnsigned(v) == 0 <= v /\ v < HalfMod

-----------------------------------------------------------------------------
(* First pass: how many words. *)

(* Mutant of LoadWords: a symbol is taken for a small constant. *)
LoadWordsAnySymbol(x) ==
    IF x.kind # "constant" \/ FitsSigned(x.value) \/ FitsUnsigned(x.value)
    THEN 1 ELSE 2
LoadWords(x) ==
    IF x.kind = "constant" /\ (FitsSigned(x.value) \/ FitsUnsigned(x.value))
    THEN 1 ELSE 2

ValueWords(sources, base) ==
    LET places == Immediates(sources)
    IN  IF Cardinality(places) > 1 THEN Refuse("A242")
        ELSE Yield(base + IF places = {} THEN 0
                          ELSE LoadWords(sources[CHOOSE i \in places : TRUE]))

MemoryWords(offset, base) ==
    IF /\ offset.kind = "constant"
       /\ FitsSigned(offset.value) \/ (base # NoBase /\ FitsUnsigned(offset.value))
    THEN 1
    ELSE LoadWords(offset) + (IF base = NoBase THEN 1 ELSE 2)

(* The words after the load of an immediate. *)
FinishWords(op) ==
    CASE op \in RelationalBranches \cup RemainderOps \cup DivideOps -> 2
      [] op \in SetOps \ {"sgt", "sgtu"} -> 2
      [] op \in ImmediateSets \ {"sgti", "sgtui"} -> 2
      [] OTHER -> 1

WordCount(st) ==
    LET args == st.args
    IN  CASE st.op \in MemoryOps -> Yield(MemoryWords(args[2], args[3]))
          [] st.op = "li" -> Yield(LoadWords(args[2]))
          [] st.op \in ImmediateSets ->
                 Yield(LoadWords(args[3]) + FinishWords(st.op))
          [] st.op \in DivideOps /\ Len(args) = 2 -> ValueWords(args, 1)
          [] /\ HasSources(st) /\ st.op \notin ImmediateSets
             /\ st.op \in DivideOps => Len(args) = 3 ->
                 ValueWords(Sources(st), FinishWords(st.op))
          [] st.op \in ImmediateTraps -> Yield(LoadWords(args[2]) + 1)
          [] st.op \in ShiftSourceOps /\ Len(args) = 3 /\ ~IsRegister(args[2]) ->
                 Yield(LoadWords(args[2]) + 1)
          [] st.op \in {"abs", "begin"} -> Yield(3)
          [] st.op \in {"la", "push", "pop", "end"} -> Yield(2)
          [] RotatesThroughTemporary(st) -> Yield(2)
          [] OTHER -> Yield(1)

(* What .set nomacro refuses (A240). *)
UsesMacro(st, words) ==
    CASE st.op \in BinaryOps ->
             Len(st.args) = 2 \/ ~AllRegisters(Sources(st))
      [] st.op \in EqualBranches \cup SingleOps
           \/ (st.op \in PairOps /\ Len(st.args) = 2) -> ~AllRegisters(Sources(st))
      [] st.op \in SelfImmediateOps -> Len(st.args) = 2
      [] st.op \in ShiftSelfOps ->
             Len(st.args) = 2 \/ ~IsRegister(ShiftedValue(st))
      [] st.op \in SelfSourceOps -> Len(st.args) = 1
      [] st.op \in MemoryOps -> st.args[3] = NoBase \/ words # 1
      [] OTHER -> IsResultDivision(st) \/ st.op \in PseudoInstructions

(* The operations that write no general register but those they name     *)
(* themselves ($at, $sp, $fp, $ra).                                        *)
WritesNothing ==
    (PairOps \ DivideOps) \cup DOMAIN SwappedTrap \cup ImmediateTraps \cup SingleOps
      \cup StoreOps \cup EqualBranches \cup RelationalBranches
      \cup {"nop", "b", "bal", "beqz", "bnez", "bgez", "bgezal", "push", "begin", "end"}

(* The statement names $at as the register it writes. *)
NamesTemporary(st) ==
    /\ st.op \notin WritesNothing
    /\ st.op \in DivideOps => Len(st.args) = 3
    /\ st.args[1] = Register(At)

(* Mutant of ComparingOps: the sets that need no immediate are left out. *)
ComparingOpsImmediate == RelationalBranches \cup ImmediateSets
(* These compare into $at whatever their operands are. *)
ComparingOps == RelationalBranches \cup ImmediateSets \cup {"seq", "sne"}

(* What .set noat refuses (A241). *)
UsesTemporary(st, words) ==
    \/ st.op \in ComparingOps
    \/ HasSources(st) /\ ~AllRegisters(Sources(st))
    \/ st.op \in ShiftSelfOps /\ ~IsRegister(ShiftedValue(st))
    \/ st.op \in MemoryOps /\ words # 1
    \/ RotatesThroughTemporary(st)
    \/ st.op \in ImmediateTraps

-----------------------------------------------------------------------------
(* Second pass: which words.  expected is what the first pass decided,     *)
(* address where the statement was placed.                                 *)

LoadInto(dest, x, expected) ==
    LET fits == FitsSigned(x.value) \/ FitsUnsigned(x.value)
        code == FirstError(<<
            Raise(x.kind \in {"register", "unknown"}, "A104"),
            Raise(x.value < -Bound \/ x.value >= Modulus, "A218"),
            Raise(expected # 2 /\ ~(expected = 1 /\ fits), "internal")>>)
        short == Word(IF FitsSigned(x.value) THEN "addiu" ELSE "ori",
                      <<dest, Register(Zero), Constant(x.value)>>)
    IN  CASE code # "none" -> Refuse(code)
          [] code = "none" /\ expected = 1 -> Yield(<<short>>)
          [] OTHER ->
                 Yield(<<Word("lui", <<dest, Constant(U(x.value) \div HalfMod)>>),
                         Word("ori", <<dest, dest, Constant(U(x.value) % HalfMod)>>)>>)

(* The load of the one immediate source into $at. *)
MaterializeSources(sources, expected) ==
    LET places == Immediates(sources)
        code == FirstError(<<
            Raise(Cardinality(places) > 1, "A242"),
            Raise(places = {} /\ expected # 0, "internal"),
            Raise(places # {} /\ \E i \in DOMAIN sources : sources[i] = Register(At), "A230")>>)
    IN  CASE code # "none" -> Refuse(code)
          [] code = "none" /\ places = {} -> Yield(<<>>)
          [] OTHER ->
                 LoadInto(Register(At), sources[CHOOSE i \in places : TRUE], expected)

(* The operands the finishing words use. *)
Selected(sources) ==
    [i \in DOMAIN sources |->
        IF IsRegister(sources[i]) THEN sources[i] ELSE Register(At)]

(* A relational branch compares into $at and tests it. *)
BranchOn(op, x, y, target) ==
    LET compare == IF op \in {"bltu", "bgeu", "bgtu", "bleu"} THEN "sltu" ELSE "slt"
        pair == IF op \in {"blt", "bge", "bltu", "bgeu"} THEN <<x, y>> ELSE <<y, x>>
        test == IF op \in {"blt", "bgt", "bltu", "bgtu"} THEN "bne" ELSE "beq"
    IN  <<Word(compare, <<Register(At)>> \o pair),
          Word(test, <<Register(At), Register(Zero), target>>)>>

SetPair(op, x, y) == IF op \in {"sge", "sgeu"} THEN <<x, y>> ELSE <<y, x>>

SetOn(op, dest, x, y) ==
    LET compare == IF op \in {"sgeu", "sgtu", "sleu"} THEN "sltu" ELSE "slt"
        pair == SetPair(op, x, y)
    IN  CASE op = "seq" -> <<Word("xor", <<Register(At), x, y>>),
                             Word("sltiu", <<dest, Register(At), Constant(1)>>)>>
          [] op = "sne" -> <<Word("xor", <<Register(At), x, y>>),
                             Word("sltu", <<dest, Register(Zero), Register(At)>>)>>
          [] op \in {"sgt", "sgtu"} -> <<Word(compare, <<dest>> \o pair)>>
          [] OTHER -> <<Word(compare, <<dest>> \o pair),
                        Word("xori", <<dest, dest, Constant(1)>>)>>

(* The words that use the sources, once they are all registers. *)
Finish(st, s) ==
    CASE st.op \in BinaryOps -> <<Word(st.op, <<st.args[1]>> \o s)>>
      [] IsResultDivision(st) ->
             <<Word(st.op, s), Word("mflo", <<st.args[1]>>)>>
      [] st.op \in RemainderOps ->
             <<Word(IF st.op = "remu" THEN "divu" ELSE "div", s),
               Word("mfhi", <<st.args[1]>>)>>
      [] st.op \in PairOps \cup SingleOps /\ ~IsResultDivision(st) -> <<Word(st.op, s)>>
      [] st.op \in EqualBranches -> <<Word(st.op, s \o <<st.args[3]>>)>>
      [] st.op \in RelationalBranches -> BranchOn(st.op, s[1], s[2], st.args[3])
      [] st.op \in SetOps -> SetOn(st.op, st.args[1], s[1], s[2])
      [] st.op \in ImmediateSets -> SetOn(SetOf[st.op], st.args[1], s[1], s[2])
      [] st.op = "not" -> <<Word("nor", <<st.args[1], Register(Zero), s[1]>>)>>

ExpandSources(st, expected) ==
    LET finish == Finish(st, Selected(Sources(st)))
    IN  Then(MaterializeSources(Sources(st), expected - Len(finish)), finish)

(* Mutant of AddressCollides: a store may keep its value in $at. *)
AddressCollidesBase(st) == st.args[3] = Register(At)
AddressCollides(st) ==
    \/ st.args[3] = Register(At)
    \/ st.op \in StoreOps /\ st.args[1] = Register(At)

ExpandMemory(st, expected) ==
    LET rt == st.args[1]
        offset == st.args[2]
        base == st.args[3]
        finish == (IF base = NoBase THEN <<>>
                   ELSE <<Word("addu", <<Register(At), Register(At), base>>)>>)
                    \o <<Word(st.op, <<rt, Constant(0), Register(At)>>)>>
        code == FirstError(<<Raise(offset.kind = "unknown", "A104"),
                             Raise(expected # 1 /\ AddressCollides(st), "A230")>>)
    IN  CASE code # "none" -> Refuse(code)
          [] code = "none" /\ expected = 1 ->
                 Yield(<<Word(st.op, <<rt, offset,
                         IF base = NoBase THEN Register(Zero) ELSE base>>)>>)
          [] OTHER ->
                 Then(LoadInto(Register(At), offset, expected - Len(finish)), finish)

ExpandShift(st, expected) ==
    LET value == ShiftedValue(st)
        word(x) == <<Word(st.op, <<st.args[1], x, Amount(st)>>)>>
        variable == st.op \notin ShiftImmediateOps
        code == FirstError(<<
            Raise(st.op \notin ShiftSourceOps, "A200"),
            Raise(variable /\ ~IsRegister(Amount(st)), "A200"),
            Raise(variable /\ Amount(st) = Register(At), "A230")>>)
    IN  CASE IsRegister(value) -> Yield(word(value))
          [] ~IsRegister(value) /\ code # "none" -> Refuse(code)
          [] OTHER -> Then(LoadInto(Register(At), value, expected - 1),
                           word(Register(At)))

ExpandRotate(st) ==
    LET dest == st.args[1]
        value == ShiftedValue(st)
        amount == Amount(st)
        through == RotatesThroughTemporary(st)
        code == FirstError(<<
            Raise(through /\ ~IsRegister(value), "A200"),
            Raise(through /\ value = Register(At), "A230"),
            Raise(amount.kind = "unknown", "A104"),
            Raise(~IsRegister(amount) /\ amount.value \notin 0 .. WordBits - 1, "A219")>>)
    IN  CASE code # "none" -> Refuse(code)
          [] code = "none" /\ through ->
                 Yield(<<Word("subu", <<Register(At), Register(Zero), amount>>),
                         Word("rotrv", <<dest, value, Register(At)>>)>>)
          [] code = "none" /\ IsRegister(amount) /\ ~through ->
                 Yield(<<Word("rotrv", <<dest, value, amount>>)>>)
          [] OTHER ->
                 Yield(<<Word("rotr", <<dest, value, Constant(
                     IF st.op = "rol" THEN -amount.value % WordBits
                     ELSE amount.value)>>)>>)

ExpandImmediateTrap(st, expected) ==
    CASE ~IsRegister(st.args[1]) -> Refuse("A200")
      [] st.args[1] = Register(At) -> Refuse("A230")
      [] OTHER ->
             Then(LoadInto(Register(At), st.args[2], expected - 1),
                  <<Word(ImmediateTrap[st.op], <<Register(At), st.args[1]>>)>>)

ExpandAbsolute(dest, value, address) ==
    <<Word("addu", <<dest, value, Register(Zero)>>),
      Word("bgez", <<value, Constant(address + 12)>>),
      Word("sub", <<dest, Register(Zero), value>>)>>

LoadAddress(dest, x) ==
    IF x.kind \in {"register", "unknown"} THEN Refuse("A104")
    ELSE Yield(<<Word("lui", <<dest, Constant(U(x.value) \div HalfMod)>>),
                 Word("ori", <<dest, dest, Constant(U(x.value) % HalfMod)>>)>>)

(* The expansions that need neither a load nor a check. *)
Fixed(st, address) ==
    LET a == st.args
        z == Register(Zero)
        sp == Register(Sp)
        fp == Register(Fp)
        two == Two(a)
    IN  CASE st.op = "nop" -> <<Word("sll", <<z, z, Constant(0)>>)>>
          [] st.op = "move" -> <<Word("addu", <<a[1], a[2], z>>)>>
          [] st.op = "clear" -> <<Word("addu", <<a[1], z, z>>)>>
          [] st.op = "neg" -> <<Word("sub", <<two[1], z, two[2]>>)>>
          [] st.op = "negu" -> <<Word("subu", <<two[1], z, two[2]>>)>>
          [] st.op = "b" -> <<Word("beq", <<z, z, a[1]>>)>>
          [] st.op = "bal" -> <<Word("bgezal", <<z, a[1]>>)>>
          [] st.op = "beqz" -> <<Word("beq", <<a[1], z, a[2]>>)>>
          [] st.op = "bnez" -> <<Word("bne", <<a[1], z, a[2]>>)>>
          [] st.op = "abs" -> ExpandAbsolute(two[1], two[2], address)
          [] st.op = "push" -> <<Word("addiu", <<sp, sp, Constant(-4)>>),
                                 Word("sw", <<a[1], Constant(0), sp>>)>>
          [] st.op = "pop" -> <<Word("lw", <<a[1], Constant(0), sp>>),
                                Word("addiu", <<sp, sp, Constant(4)>>)>>
          [] st.op = "begin" -> <<Word("addiu", <<sp, sp, Constant(-4)>>),
                                  Word("sw", <<fp, Constant(0), sp>>),
                                  Word("addu", <<fp, sp, z>>)>>
          [] st.op = "end" -> <<Word("addiu", <<sp, fp, Constant(4)>>),
                                Word("lw", <<fp, Constant(0), fp>>)>>
          [] st.op \in DOMAIN SwappedTrap ->
                 <<Word(SwappedTrap[st.op], <<a[2], a[1]>>)>>
          [] st.op \in SelfImmediateOps -> <<Word(st.op, Three(a))>>
          [] st.op \in SelfSourceOps -> <<Word(st.op, two)>>
          [] OTHER -> <<Word(st.op, a)>>

Expanded(st, expected, address) ==
    CASE st.op \in MemoryOps -> ExpandMemory(st, expected)
      [] st.op = "li" -> LoadInto(st.args[1], st.args[2], expected)
      [] st.op = "la" -> LoadAddress(st.args[1], st.args[2])
      [] HasSources(st) -> ExpandSources(st, expected)
      [] st.op \in ShiftSelfOps -> ExpandShift(st, expected)
      [] st.op \in RotateOps -> ExpandRotate(st)
      [] st.op \in ImmediateTraps -> ExpandImmediateTrap(st, expected)
      [] OTHER -> Yield(Fixed(st, address))

-----------------------------------------------------------------------------
(* Encoding a machine instruction checks what each operand must be. *)

Format(op) ==
    CASE op \in BinaryOps \cup ShiftVariableOps \cup {"rotrv"} ->
             <<"register", "register", "register">>
      [] op \in ShiftImmediateOps \cup {"rotr"} -> <<"register", "register", "amount">>
      [] op \in SignedImmediateOps -> <<"register", "register", "half">>
      [] op \in UnsignedImmediateOps -> <<"register", "register", "unsigned">>
      [] op = "lui" -> <<"register", "unsigned">>
      [] op \in MemoryOps -> <<"register", "half", "register">>
      [] op \in EqualBranches -> <<"register", "register", "target">>
      [] op \in {"bgez", "bgezal"} -> <<"register", "target">>
      [] op \in PairOps \cup SelfSourceOps -> <<"register", "register">>
      [] OTHER -> <<"register">>

OperandError(slot, x) ==
    IF slot = "register" THEN Raise(~IsRegister(x), "A200")
    ELSE FirstError(<<
        Raise(x.kind \in {"register", "unknown"}, "A104"),
        Raise(slot = "half" /\ ~FitsSigned(x.value) /\ ~FitsUnsigned(x.value), "A120"),
        Raise(slot = "unsigned" /\ ~FitsUnsigned(x.value), "A121"),
        Raise(slot = "amount" /\ x.value \notin 0 .. WordBits - 1, "A121")>>)

EncodeError(word) ==
    LET format == Format(word.op)
    IN  FirstError([i \in DOMAIN format |-> OperandError(format[i], word.args[i])])

(* The second pass on one statement: it expands, compares the number of    *)
(* words with the first pass's, and encodes them in order.                 *)
SecondPass(st, expected, address) ==
    LET result == Expanded(st, expected, address)
        words == result.value
        code == FirstError(<<
            result.error,
            Raise(Len(words) # expected, "internal"),
            FirstError([i \in DOMAIN words |-> EncodeError(words[i])])>>)
    IN  IF code = "none" THEN result ELSE Refuse(code)
=============================================================================
