------------------------------ MODULE MCAssembler ------------------------------
(***************************************************************************)
(* The assembler on three kinds of program: one instruction statement of   *)
(* every form, with every interesting operand, under each .set option; and *)
(* two layouts, of one and of two files, of short sequences of labels,     *)
(* directives and instructions.                                            *)
(***************************************************************************)
EXTENDS Assembler, ExpansionMeaning

CONSTANTS Registers, SmallValues

-----------------------------------------------------------------------------
(* The instruction statements. *)

(* Both sides of every bound a literal is compared with. *)
EdgeValues == {-129, -128, -9, -8, 0, 7, 8, 15, 16, 255, 256}

R == {Register(n) : n \in Registers}
Small == {Constant(v) : v \in SmallValues} \cup {Name("x")}
Edge == {Constant(v) : v \in EdgeValues} \cup {Name("x"), Name("nowhere")}
T0 == Register(8)
T1 == Register(9)
Target == Symbolic(400)

All(ops, lists) == {Instruction(op, args) : op \in ops, args \in lists}
(* One or two sources, at most one of them taken from every edge. *)
Sourced(X) == ((R \cup Small) \X R) \cup (R \X X) \cup (Small \X Small)

Instructions ==
    All(BinaryOps \ {"subu", "and", "or"}, {<<r>> \o p : r \in {T0, Register(At)}, p \in Sourced(Small)})
      \cup All(BinaryOps, (R \X (Edge \cup R)))
      \cup All(PairOps, Sourced(Small))
      \cup All(DivideOps \cup RemainderOps, {<<T0>> \o p : p \in Sourced(Small)})
      \cup All(RemainderOps, R \X (R \cup Small))
      \cup All(SingleOps, {<<x>> : x \in R \cup Edge})
      \cup All(SelfImmediateOps, (R \X Edge) \cup ({T0} \X R \X Edge))
      \cup All(ShiftSelfOps \cup RotateOps,
               ((R \cup Small) \X (R \cup Small))
                 \cup ({T0} \X (R \cup Small) \X (R \cup Small)))
      \cup All(SelfSourceOps \cup {"neg", "negu", "abs"}, {<<r>> : r \in R} \cup (R \X R))
      \cup All({"not"}, {<<x>> : x \in R \cup Edge} \cup ({T0} \X (R \cup Edge)))
      \cup All(MemoryOps, R \X Edge \X (R \cup {NoBase}))
      \cup All(EqualBranches \cup RelationalBranches,
               {p \o <<Target>> : p \in Sourced(Small)})
      \cup All(SetOps, {<<r>> \o p : r \in {T0, Register(At)}, p \in Sourced(Small)})
      \cup All(ImmediateSets, {<<r>> \o p : r \in {T0, Register(At)}, p \in Sourced(Edge)})
      \cup All({"li", "la"}, R \X (Edge \cup {T1}))
      \cup All(DOMAIN SwappedTrap, R \X R)
      \cup All(ImmediateTraps, R \X Edge)
      \cup All({"move"}, R \X R)
      \cup All({"clear"}, {<<r>> : r \in R})
      \cup All({"push", "pop"}, {<<T0>>})
      \cup All({"nop", "begin", "end"}, {<< >>})
      \cup All({"b", "bal"}, {<<Target>>})
      \cup All({"beqz", "bnez"}, {<<r, Target>> : r \in R})

OneInstruction ==
    << {ConstantLine("x", Constant(v)) : v \in {3, 77}}
         \cup {SetLine("noat"), SetLine("nomacro")},
       Instructions >>

-----------------------------------------------------------------------------
(* The layouts. *)

Load == Instruction("la", <<T0, Name("x")>>)
Nop == Instruction("nop", <<>>)
Data(origin) == SectionLine("data", origin)
Text(origin) == SectionLine("text", origin)

LayoutLines ==
    {LabelLine("x"), ConstantLine("k", Name("x")),
     Data(NoOrigin), Text(NoOrigin), Data(Constant(134)), Data(Constant(130)),
     ValueLine(1, <<Constant(1)>>), ValueLine(4, <<Name("x")>>),
     AlignLine(4), AlignLine(8), SpaceLine(Name("k")), Nop}

OneFile == <<{Data(NoOrigin)}, {ValueLine(1, <<Constant(1)>>)}>>
             \o [i \in 1 .. 6 |-> LayoutLines]

(* Both files define x, and main, of which each may export either. *)
TwoFiles == <<
    {Data(NoOrigin)},
    {ValueLine(1, <<Constant(1)>>), GlobalLine},
    {LabelLine("x")},
    {AlignLine(4), Text(NoOrigin), Nop},
    {LabelLine("main"), Nop, SetLine("noat")},
    {FileLine},
    {LabelLine("main"), Data(NoOrigin)},
    {LabelLine("x"), LabelLine("k")},
    {AlignLine(4), Load, ValueLine(2, <<Name("x")>>)},
    {Load, Nop, ValueLine(4, <<Name("x"), Name("k")>>)} >>

SettingLines == {SetLine(o) : o \in {"at", "noat", "macro", "nomacro", "push", "pop"}}
Settings == [i \in 1 .. 4 |-> SettingLines]
              \o <<{Load, Instruction("seq", <<T0, T0, T1>>), Nop}>>

MCCorpus == [instruction |-> OneInstruction, one |-> OneFile, two |-> TwoFiles,
             settings |-> Settings]
MCExports ==
    [kind \in DOMAIN MCCorpus |->
        IF kind = "two" THEN [1 .. 2 -> SUBSET {"x", "main"}] ELSE {<<{}, {}>>}]
MCBase == [text |-> 64, data |-> 128, ktext |-> 32, kdata |-> 96]
MCSize == [text |-> 16, data |-> 24, ktext |-> 4, kdata |-> 4]

-----------------------------------------------------------------------------
(* What is asserted of every statement: invalid operands are reported as   *)
(* diagnostics, not as a failure of the assembler.                         *)
InvalidOperandsAreReported == error # "internal"

(* LWL and LWR into $at at a far address lose the bytes they should keep.  *)
KnownClobber(st, words) ==
    st.op \in MergeLoads /\ NamesTemporary(st) /\ Len(words) > 1

Values == {0, 1, 5, Bound - 1, Bound, Modulus - 1}
Machines ==
    [reg : {[n \in {0, 1, 8, 9, 29, 30} |->
               CASE n = 0 -> 0 [] n = 1 -> 6 [] n = 8 -> x [] n = 9 -> y
                 [] n = 29 -> 100 [] n = 30 -> 90] : x, y \in Values},
     hi : {3}, lo : {4}, out : {"next"}, access : {<<>>}, pc : {1}]

(* Running the words of an accepted statement does what the statement      *)
(* says, whatever the operands' aliasing, sign and size; $at as an operand *)
(* either keeps its meaning or is refused.                                 *)
ExpansionsMeanTheStatement ==
    \A i \in EmittedInstructions :
        LET st == Resolved(located[i])
        IN  ~KnownClobber(st, image[i]) =>
              \A s \in Machines :
                 SameOutcome(st, RunWords(image[i], s, located[i].address), Meaning(st, s))
=============================================================================
