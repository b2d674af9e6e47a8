----------------------------- MODULE MCFunctions -----------------------------
(***************************************************************************)
(* The parts of the program that are functions: the arithmetic of Alu, the *)
(* machine words of Encoding, the expressions and the source lines.  A     *)
(* state is one input, the subject; the actions enumerate the inputs of    *)
(* each kind, and each invariant compares the code's function with a       *)
(* definition of the same that shares nothing with it.                     *)
(***************************************************************************)
EXTENDS AluLaws, EncodingMeaning, ExpressionMeaning, Parser

VARIABLE subject  \* <<kind, ...>>

Nothing == <<"nothing">>
Init == subject = Nothing

Of(kind) == subject[1] = kind

-----------------------------------------------------------------------------
(* Pairs of words. *)

Operands == /\ subject = Nothing
            /\ \E a, b \in 0 .. Modulus - 1 : subject' = <<"operands", a, b>>

(* The machine's arithmetic obeys the laws of the operations it stands     *)
(* for, on every pair of operands: when ADD and SUB overflow, dividend =   *)
(* quotient * divisor + remainder, accumulation and its inverse (from      *)
(* accumulators at both ends of their range), rotations by 0 included, and *)
(* the two halves of an unaligned access.                                  *)
ArithmeticIsExact ==
    Of("operands") =>
        LET a == subject[2]
            b == subject[3]
        IN  /\ OverflowBySigns(a, b)
            /\ b # 0 => DivisionIdentity(a, b)
            /\ \A hi \in {0, Modulus - 1}, lo \in {a, b} : AccumulateIsReversible(hi, lo, a, b)
            /\ \A old \in {a, Modulus - 1} : UnalignedPair(a, b, old)
            /\ b < WordBits => RotationMovesEveryBit(a, b)

-----------------------------------------------------------------------------
(* Machine words and statements: every operation and function code with    *)
(* fields at the edges that the tables tell apart; every operation with    *)
(* every shape of operands, numbers and targets at the edges of a range.   *)

Pcs == {2 ^ 20, 2 ^ 26 - 1}  \* where text starts, and the last word of its region

WordsUnder(op, fn) ==
    {Word6(op, rs, rt, rd, sh, fn) :
        rs \in {0, 1, 4, 31}, rt \in IF op = 1 THEN 0 .. 31 ELSE {0, 1, 8, 31},
        rd \in {0, 1, 8, 31}, sh \in {0, 1, 16, 24, 31}}
FunctionsOf(op) == IF op \in {0, 17, 28, 31} THEN 0 .. 63 ELSE {0, 1, 63}

Operations ==
    DOMAIN R3_FUNCTS \cup DOMAIN SHIFT_IMMEDIATE_FUNCTS \cup DOMAIN SHIFT_VARIABLE_FUNCTS
    \cup DOMAIN SPECIAL2_ACCUM_FUNCTS \cup DOMAIN TRAP_R_FUNCTS \cup DOMAIN I_SIGNED_OPCODES
    \cup DOMAIN I_UNSIGNED_OPCODES \cup DOMAIN TRAP_I_RT \cup DOMAIN MEMORY_OPCODES
    \cup DOMAIN FPU_MEMORY_OPCODES \cup DOMAIN SpecialFuncts \cup Transfers
    \cup {"rotr", "rotrv", "mul", "clz", "clo", "seb", "seh", "mfc1", "mtc1", "jr", "jalr", "lui"}

Edges == {-32769, -32768, -1, 0, 1, 31, 32, 1023, 1024, 32767, 32768, 65535, 65536,
          2 ^ 20 - 1, 2 ^ 20}
RegisterArgs == {Register(n) : n \in {0, 1, 30, 31}}
FpuArgs == {FpuRegister(n) : n \in {0, 1, 30, 31}}
NumberArgs == {Number(v) : v \in Edges}
MemoryArgs == {<<"mem", v, base>> : v \in Edges, base \in {0, 29}}
AddressArgs(pc) ==
    {<<"addr", pc + 1 + v, byte>> : v \in {-32769, -32768, -1, 0, 32767, 32768}, byte \in {0, 2}}
    \cup {Address30(a) : a \in {0, 1, 2 ^ 21, 2 ^ 26 - 1, 2 ^ 26}}
Shapes(pc) ==
    {<<>>} \cup {<<x>> : x \in RegisterArgs \cup NumberArgs \cup AddressArgs(pc)}
    \cup (RegisterArgs
          \X (RegisterArgs \cup FpuArgs \cup NumberArgs \cup MemoryArgs \cup AddressArgs(pc)))
    \cup (FpuArgs \X MemoryArgs)
    \cup (RegisterArgs \X RegisterArgs \X (RegisterArgs \cup NumberArgs \cup AddressArgs(pc)))

Words == /\ subject = Nothing
         /\ \E op \in 0 .. 63 : \E fn \in FunctionsOf(op) : subject' = <<"word", op, fn>>
Statements == /\ subject = Nothing
              /\ \E n \in Operations : subject' = <<"statement", n>>

(* What the debugger shows for a word is what the word does: assembling    *)
(* the shown statement gives the word back, and the machine executes what  *)
(* that statement means.  A word shown as data is a reserved instruction,  *)
(* and no supported word falls through the machine's dispatch.  LDC1 and   *)
(* SDC1 of an odd register are shown, but neither assembled nor executed.  *)
WordsMeanTheirText ==
    Of("word") =>
        \A w \in WordsUnder(subject[2], subject[3]), pc \in Pcs :
            LET text == disassemble(w, pc)
                instruction == Decoded(w, pc)
            IN  IF text = Data THEN instruction.op = "reserved"
                ELSE IF instruction.op = "unpaired" THEN encode_real(text, pc) = Refused
                ELSE /\ encode_real(text, pc) = w
                     /\ instruction = Meaning(text, pc)

(* Every statement the assembler encodes is executed as it was meant: its  *)
(* word is supported, and the dispatch finds the operation, registers,     *)
(* immediate or target the statement names, at every edge of their ranges. *)
StatementsMeanTheirWord ==
    Of("statement") =>
        \A pc \in Pcs : \A args \in Shapes(pc) :
            LET s == Statement(subject[2], args)
                w == encode_real(s, pc)
            IN  w # Refused => is_supported_encoding(w) /\ Decoded(w, pc) = Meaning(s, pc)

-----------------------------------------------------------------------------
(* Expressions: every sequence of three tokens; of five where operands and *)
(* operators alternate; of seven with the operators that skip or fail.     *)

MCLiterals == "0" :> 0 @@ "3" :> 3 @@ "08" :> Malformed
Symbols == "x" :> -6 @@ "lost" :> 5
Names == {"x", "lost", "y"}

Spelling ==
    [op \in ShortOperators |-> <<op>>]
    @@ "||" :> <<"|", "|">> @@ "&&" :> <<"&", "&">> @@ "==" :> <<"=", "=">>
    @@ "!=" :> <<"!", "=">> @@ "<=" :> <<"<", "=">> @@ ">=" :> <<">", "=">>
    @@ "<<" :> <<"<", "<">> @@ ">>" :> <<">", ">">> @@ "%hi" :> <<"%", "h", "i">>
    @@ "%lo" :> <<"%", "l", "o">> @@ "0" :> <<"0">> @@ "3" :> <<"3">> @@ "08" :> <<"0", "8">>
    @@ "x" :> <<"x">> @@ "y" :> <<"y">> @@ "lost" :> <<"l", "o", "s", "t">>
Spaced(tokens) == FlattenSeq([k \in DOMAIN tokens |-> <<" ">> \o Spelling[tokens[k]]])
Tight(tokens) == FlattenSeq([k \in DOMAIN tokens |-> Spelling[tokens[k]]])

TokensIn(length) ==
    CASE length <= 3 -> DOMAIN Spelling
      [] length \in {4, 5} -> BinaryOperators \cup {"0", "3", "x", "(", ")", "!", "%hi"}
      [] OTHER -> {"0", "3", "x", "(", ")", "||", "&&", "==", "-", "/"}

Ends(token) == token \in DOMAIN MCLiterals \cup Names \cup {")"}
(* May the token follow: operands and operators alternate. *)
Follows(tokens, token) ==
    IF tokens # <<>> /\ Ends(Last(tokens))
    THEN token \in BinaryOperators \/ (token = ")" /\ LevelBefore(tokens, Len(tokens) + 1) > 0)
    ELSE token \in {"("} \cup DOMAIN MCLiterals \cup Names \cup PrefixOperators \cup Relocations
LongestExpression == 7
Promising(tokens, n) ==
    \A k \in 1 .. n : Follows(SubSeq(tokens, 1, k - 1), tokens[k])
Room(tokens) ==   \* it can still be completed
    LevelBefore(tokens, Len(tokens) + 1) + (IF Ends(Last(tokens)) THEN 0 ELSE 1)
        <= LongestExpression - Len(tokens)

Expressions ==
    \/ subject = Nothing /\ subject' = <<"tokens", <<>>>>
    \/ /\ Of("tokens") /\ Len(subject[2]) < LongestExpression
       /\ LET n == Len(subject[2]) + 1
          IN  /\ ToSet(subject[2]) \subseteq TokensIn(n)
              /\ \E token \in TokensIn(n) :
                    LET grown == Append(subject[2], token)
                    IN  /\ n > 3 => Promising(grown, n) /\ Room(grown)
                        /\ subject' = <<"tokens", grown>>

(* % right before a name that begins with hi or lo is read as a relocation *)
(* operator: 7%lost is not 7 % lost.                                       *)
KnownMislex(tokens) ==
    \E k \in 1 .. Len(tokens) - 1 : tokens[k] = "%" /\ tokens[k + 1] = "lost"

(* An expression has the value C gives it, or none when C gives it none:   *)
(* precedence, grouping to the left, division and shifts of negative       *)
(* numbers, operands that are skipped but must still be well formed and    *)
(* name defined symbols.  is_constant, on which the first pass of the      *)
(* assembler sizes statements, is true exactly of those without symbols.   *)
(* Written with or without blanks it is read as the same tokens.           *)
EvaluatesAsC ==
    Of("tokens") =>
        LET tokens == subject[2]
            result == evaluate(tokens, Symbols)
            answer == IF result.ok THEN <<result.value>> ELSE <<>>
        IN  /\ answer = MeaningOf(tokens, Symbols)
            /\ is_constant(tokens) <=> /\ MeaningOf(tokens, <<>>) # <<>>
                                       /\ \A k \in DOMAIN tokens : tokens[k] \notin Names
            /\ tokenize(Spaced(tokens)) = tokens
            /\ Promising(tokens, Len(tokens)) /\ ~KnownMislex(tokens) =>
                   tokenize(Tight(tokens)) = tokens

-----------------------------------------------------------------------------
(* Source lines: statements as they may be written, and every line of five *)
(* characters that matter to the scanners.                                 *)

MCLabels == {<<>>, <<<<"a">>>>, <<<<".", "b", "1">>, <<"$", "a">>>>}
MCOperations == {<<"a">>, <<".", "A", "b">>, <<"b", ".", "4">>}
MCOperands ==
    {<<"$", "4">>, <<"'", "#", "'">>, <<"'", Backslash, "'", "'">>, <<"(", "a", ",", "b", ")">>,
     <<"\"", ",", Backslash, "\"", ";", " ", "'", "\"">>, <<"4", "(", "$", "a", ")">>}
MCOperandLists == {<<>>} \cup {<<x>> : x \in MCOperands} \cup (MCOperands \X MCOperands)
Gaps == {<<>>, <<" ">>}
Comments == {<<>>, <<"#", "\"">>, <<";", "'", ",", "(">>}

Sources == /\ subject = Nothing
           /\ \E labels \in MCLabels, operation \in MCOperations \cup {NoOperation, Equ},
                 operands \in MCOperandLists :
                 /\ operation = NoOperation => operands = <<>> /\ labels # <<>>
                 /\ operation = Equ => labels = <<>> /\ Len(operands) = 1
                 /\ subject' = <<"source", labels, operation, operands>>

LineChars == {"a", " ", "\"", "'", Backslash, "(", ")", ",", "#"}
LongestLine == 5
Lines == \/ subject = Nothing /\ subject' = <<"line", <<>>>>
         \/ /\ Of("line") /\ Len(subject[2]) < LongestLine
            /\ \E c \in LineChars : subject' = <<"line", Append(subject[2], c)>>

Separated(operands, gap) ==
    IF operands = <<>> THEN <<>>
    ELSE operands[1] \o FlattenSeq([k \in 1 .. Len(operands) - 1 |->
                                        gap \o <<",">> \o gap \o operands[k + 1]])
Written(labels, operation, operands, gap, comment) ==
    FlattenSeq([k \in DOMAIN labels |-> gap \o labels[k] \o gap \o <<":">>])
    \o gap
    \o (IF operation = Equ THEN <<"a">> \o gap \o <<"=">> \o gap \o operands[1]
        ELSE operation \o (IF operands = <<>> THEN <<>> ELSE <<" ">> \o Separated(operands, gap)))
    \o gap \o comment

(* However a statement is laid out, the parser finds its labels, operation *)
(* and operands again: quoted commas, parentheses, comment characters and  *)
(* quotes, commas inside parentheses, labels alone, and assignments.  One  *)
(* statement too many for the limit is an error.                           *)
StatementsParseBack ==
    Of("source") =>
        \A gap \in Gaps, comment \in Comments :
            LET line == Written(subject[2], subject[3], subject[4], gap, comment)
                statement ==
                    ParsedStatement(subject[2], [k \in DOMAIN subject[3] |-> Lower(subject[3][k])],
                                    IF subject[3] = Equ THEN <<<<"a">>, subject[4][1]>>
                                    ELSE subject[4])
            IN  /\ parse_sources(<<line, comment, line>>) = <<statement, statement>>
                /\ gap = <<>> /\ comment = <<>> => parse_sources(<<line, line, line>>) = ParseError

(* The scanner that cuts comments and the one that splits operands agree   *)
(* on what is quoted, for every text: the second never finds a quote open  *)
(* at the end, no operand holds a comment, and the operands are the text,  *)
(* cut only where a cut leaves whole operands.                             *)
ScannersAgree ==
    Of("line") =>
        LET line == strip_comment(subject[2])
            operands == split_operands(line)
            Bare(text) == SelectSeq(text, LAMBDA c : c # Blank)
        IN  line # ParseError =>
                /\ SplitState(line).failed \/ SplitState(line).quote = NoQuote
                /\ operands # ParseError =>
                      /\ Bare(Separated(operands, <<>>)) = Bare(line)
                      /\ \A k \in DOMAIN operands : /\ split_operands(operands[k]) = <<operands[k]>>
                                                    /\ strip_comment(operands[k]) = operands[k]

-----------------------------------------------------------------------------
Next == Operands \/ Words \/ Statements \/ Expressions \/ Sources \/ Lines

Spec == Init /\ [][Next]_subject
=============================================================================
