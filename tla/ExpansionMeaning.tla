---------------------------- MODULE ExpansionMeaning ----------------------------
(***************************************************************************)
(* What an instruction statement means, and what a sequence of machine     *)
(* instructions does, on a machine reduced to what the two have to agree   *)
(* on: the registers, HI, LO, how the sequence ends and the memory access  *)
(* it makes.  The first follows the operation's documented meaning and     *)
(* shares nothing with the expansion but the arithmetic of Alu.            *)
(***************************************************************************)
EXTENDS Expansion

(* Loads yield a word that depends on the address; LWL and LWR keep part   *)
(* of the register, here its low half.                                     *)
MergeLoads == {"lwl", "lwr"}
Loaded(op, address, old) ==
    IF op \in MergeLoads THEN U(address * HalfMod) + (old % HalfMod) ELSE U(address + 1)

Write(s, n, x) == IF n = Zero THEN s ELSE [s EXCEPT !.reg[n] = x]
WriteChecked(s, n, x) == IF x = Overflow THEN [s EXCEPT !.out = "fault"] ELSE Write(s, n, x)
WritePair(s, p) == [s EXCEPT !.hi = p.hi, !.lo = p.lo]
Leave(s, condition, how) == IF condition THEN [s EXCEPT !.out = how] ELSE s

Access(s, op, n, address) ==
    IF op \in LoadOps
    THEN Write([s EXCEPT !.access = <<op, address>>], n, Loaded(op, address, s.reg[n]))
    ELSE [s EXCEPT !.access = <<op, address, s.reg[n]>>]

(* The arithmetic operation of a machine instruction. *)
Arithmetic ==
    [addi |-> "add", addiu |-> "addu", slti |-> "slt", sltiu |-> "sltu",
     andi |-> "and", ori |-> "or", xori |-> "xor", rotrv |-> "rotr",
     sllv |-> "sll", srlv |-> "srl", srav |-> "sra"]
ArithmeticOf(op) == IF op \in DOMAIN Arithmetic THEN Arithmetic[op] ELSE op
HalfOperand(op, v) == IF op \in SignedImmediateOps THEN SignExtend(v, HalfMod) ELSE v % HalfMod

PairResult(op, x, y) == IF op \in MultiplyOps THEN Pair(Product(op, x, y)) ELSE Divided(op, x, y)
Divides(s, op, x, y) ==
    IF op \in DivideOps /\ y = 0 THEN [s EXCEPT !.out = "fault"]
    ELSE WritePair(s, PairResult(op, x, y))

(* Order of two words. *)
Compare(c, x, y) ==
    CASE c = "eq" -> x = y
      [] c = "ne" -> x # y
      [] c = "lt" -> Signed(x) < Signed(y)
      [] c = "le" -> Signed(x) <= Signed(y)
      [] c = "gt" -> Signed(x) > Signed(y)
      [] c = "ge" -> Signed(x) >= Signed(y)
      [] c = "ltu" -> x < y
      [] c = "leu" -> x <= y
      [] c = "gtu" -> x > y
      [] c = "geu" -> x >= y

(* The condition each operation tests. *)
BranchCondition ==
    [beq |-> "eq", bne |-> "ne", blt |-> "lt", ble |-> "le", bgt |-> "gt", bge |-> "ge",
     bltu |-> "ltu", bleu |-> "leu", bgtu |-> "gtu", bgeu |-> "geu"]
SetCondition ==
    [seq |-> "eq", sne |-> "ne", sge |-> "ge", sgt |-> "gt", sle |-> "le", sgeu |-> "geu",
     sgtu |-> "gtu", sleu |-> "leu", seqi |-> "eq", snei |-> "ne", sgei |-> "ge",
     sgti |-> "gt", slei |-> "le", sequi |-> "eq", sneui |-> "ne", sgeui |-> "geu",
     sgtui |-> "gtu", sleui |-> "leu"]
TrapCondition ==
    [tge |-> "ge", tgeu |-> "geu", tlt |-> "lt", tltu |-> "ltu", teq |-> "eq", tne |-> "ne",
     tgt |-> "gt", tgtu |-> "gtu", tle |-> "le", tleu |-> "leu",
     tgti |-> "gt", tgtiu |-> "gtu", tlei |-> "le", tleiu |-> "leu"]

-----------------------------------------------------------------------------
(* Running the words. *)

Step(w, s, address) ==
    LET a == w.args
        v(i) == s.reg[a[i].value]
        n == a[1].value
        jump(condition) ==   \* a target in the sequence, or one outside it
            LET target == Last(a)
            IN  IF condition /\ target.kind = "constant" /\ target.value \in address .. address + 16
                THEN [s EXCEPT !.pc = (target.value - address) \div 4 + 1]
                ELSE Leave(s, condition, "branch")
    IN  CASE w.op \in BinaryOps \cup ShiftVariableOps \cup {"rotrv"} ->
                 WriteChecked(s, n, Compute(ArithmeticOf(w.op), v(2), v(3)))
          [] w.op \in ShiftImmediateOps \cup {"rotr"} ->
                 Write(s, n, Compute(w.op, v(2), a[3].value))
          [] w.op \in SelfImmediateOps ->
                 WriteChecked(s, n, Compute(ArithmeticOf(w.op), v(2),
                                            HalfOperand(w.op, a[3].value)))
          [] w.op = "lui" -> Write(s, n, Compute("lui", a[2].value, 0))
          [] w.op \in SelfSourceOps -> Write(s, n, Compute(w.op, v(2), 0))
          [] w.op \in MultiplyOps \cup DivideOps -> Divides(s, w.op, v(1), v(2))
          [] w.op = "mfhi" -> Write(s, n, s.hi)
          [] w.op = "mflo" -> Write(s, n, s.lo)
          [] w.op = "mthi" -> [s EXCEPT !.hi = v(1)]
          [] w.op = "mtlo" -> [s EXCEPT !.lo = v(1)]
          [] w.op \in TrapOps ->
                 Leave(s, Compare(TrapCondition[w.op], v(1), v(2)), "trap")
          [] w.op = "beq" -> jump(v(1) = v(2))
          [] w.op = "bne" -> jump(v(1) # v(2))
          [] w.op = "bgez" -> jump(Signed(v(1)) >= 0)
          [] w.op = "bgezal" -> jump(TRUE)
          [] w.op \in MemoryOps ->
                 Access(s, w.op, n, U(v(3) + HalfOperand("addi", a[2].value)))

RunWords(words, s, address) ==
    LET step(t, i) == IF t.out # "next" \/ t.pc # i THEN t
                      ELSE Step(words[i], [t EXCEPT !.pc = @ + 1], address)
    IN  FoldLeft(step, s, [i \in DOMAIN words |-> i])

-----------------------------------------------------------------------------
(* What the statement says. *)

RotatedLeft(w, n) == FromBits({(i + n) % WordBits : i \in Bits(w)})

(* The address a memory statement names: 16 bits beside a base are a       *)
(* displacement with a sign, anything else is a full address.              *)
NamedAddress(s, offset, base) ==
    CASE base = NoBase -> U(offset.value)
      [] base # NoBase /\ FitsUnsigned(offset.value) /\ offset.kind = "constant" ->
             U(s.reg[base.value] + SignExtend(offset.value, HalfMod))
      [] OTHER -> U(s.reg[base.value] + offset.value)

Meaning(st, s) ==
    LET a == st.args
        value(x) == IF IsRegister(x) THEN s.reg[x.value] ELSE U(x.value)
        n == a[1].value
        x == value(Sources(st)[1])
        y == value(Sources(st)[2])
        last == value(Last(a))
        amount == IF IsRegister(Amount(st)) THEN value(Amount(st)) % WordBits
                  ELSE Amount(st).value
        low == U(s.reg[Sp] - 4)
    IN  CASE st.op \in BinaryOps -> WriteChecked(s, n, Compute(st.op, x, y))
          [] st.op \in MultiplyOps \/ (st.op \in DivideOps /\ Len(a) = 2) ->
                 Divides(s, st.op, x, y)
          [] st.op \in RemainderOps \/ IsResultDivision(st) ->
                 LET op == IF st.op \in {"div", "rem"} THEN "div" ELSE "divu"
                     done == Divides(s, op, x, y)
                 IN  IF done.out = "fault" THEN done
                     ELSE Write(done, n, IF st.op \in DivideOps THEN done.lo ELSE done.hi)
          [] st.op = "mthi" -> [s EXCEPT !.hi = last]
          [] st.op = "mtlo" -> [s EXCEPT !.lo = last]
          [] st.op \in DOMAIN BranchCondition ->
                 Leave(s, Compare(BranchCondition[st.op], x, y), "branch")
          [] st.op \in DOMAIN SetCondition ->
                 Write(s, n, Truth(Compare(SetCondition[st.op], x, y)))
          [] st.op \in DOMAIN TrapCondition ->
                 Leave(s, Compare(TrapCondition[st.op], value(a[1]), value(a[2])), "trap")
          [] st.op \in SelfImmediateOps ->
                 WriteChecked(s, n, Compute(ArithmeticOf(st.op), value(Three(a)[2]),
                                            HalfOperand(st.op, Last(a).value)))
          [] st.op \in ShiftSelfOps ->
                 Write(s, n, Compute(ArithmeticOf(st.op), value(ShiftedValue(st)), amount))
          [] st.op \in SelfSourceOps -> Write(s, n, Compute(st.op, last, 0))
          [] st.op = "rol" -> Write(s, n, RotatedLeft(value(ShiftedValue(st)), amount))
          [] st.op = "ror" ->
                 Write(s, n, RotatedLeft(value(ShiftedValue(st)), WordBits - amount))
          [] st.op \in {"li", "la", "move"} -> Write(s, n, last)
          [] st.op = "clear" -> Write(s, n, 0)
          [] st.op = "not" -> Write(s, n, Modulus - 1 - last)
          [] st.op = "neg" -> WriteChecked(s, n, Checked(-Signed(last)))
          [] st.op = "negu" -> Write(s, n, U(-last))
          [] st.op = "abs" -> WriteChecked(s, n, Checked(AbsoluteValue(Signed(last))))
          [] st.op = "nop" -> s
          [] st.op \in {"b", "bal"} -> Leave(s, TRUE, "branch")
          [] st.op = "beqz" -> Leave(s, value(a[1]) = 0, "branch")
          [] st.op = "bnez" -> Leave(s, value(a[1]) # 0, "branch")
          [] st.op \in MemoryOps -> Access(s, st.op, n, NamedAddress(s, a[2], a[3]))
          [] st.op = "push" -> Access(Write(s, Sp, low), "sw", n, low)
          [] st.op = "pop" -> LET read == Access(s, "lw", n, s.reg[Sp])
                              IN  Write(read, Sp, U(read.reg[Sp] + 4))
          [] st.op = "begin" -> Write(Access(Write(s, Sp, low), "sw", Fp, low), Fp, low)
          [] st.op = "end" -> Write(Access(s, "lw", Fp, s.reg[Fp]), Sp, U(s.reg[Fp] + 4))

(* The same outcome but for $at, which the statement gives up unless it    *)
(* writes it itself; a fault leaves what was done before it.               *)
SameOutcome(st, s, t) ==
    /\ s.out = t.out
    /\ s.out # "fault" =>
         /\ s.hi = t.hi /\ s.lo = t.lo /\ s.access = t.access
         /\ \A n \in DOMAIN s.reg \ {At} : s.reg[n] = t.reg[n]
         /\ NamesTemporary(st) => s.reg[At] = t.reg[At]
=============================================================================
