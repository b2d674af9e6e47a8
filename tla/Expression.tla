------------------------------ MODULE Expression ------------------------------
(***************************************************************************)
(* Constant expressions (expression.py): a tokenizer by longest match, a   *)
(* precedence-climbing parser that evaluates as it goes and skips the      *)
(* operands && and || do not need, and is_constant, which asks whether an  *)
(* expression has a value without any symbol.                              *)
(*                                                                         *)
(* A text is a sequence of one-character strings, a token a string.  The   *)
(* number or character a literal stands for is given by Literals.  An      *)
(* AssemblyError (A100 to A109) is Failed.  The module is recursive, so    *)
(* only TLC uses it.                                                       *)
(***************************************************************************)
EXTENDS Integers, Sequences, SequencesExt

CONSTANTS
    Literals,  \* the value of each integer and character token, or Malformed
    Malformed, \* a literal that int() or literal_eval refuses (A103, A108)
    MaxTokens, \* _MAX_TOKENS
    MaxDepth,  \* _MAX_DEPTH
    MaxShift   \* _MAX_SHIFT

Failed == [ok |-> FALSE, value |-> 0, at |-> 0]
Got(value, at) == [ok |-> TRUE, value |-> value, at |-> at]

-----------------------------------------------------------------------------
(* _tokenize.  The alternatives are tried in the order of the pattern:     *)
(* number, name, %hi or %lo, then operators, the longer ones first.        *)

DigitChars == {"0", "1", "2", "3", "4", "5", "6", "7", "8", "9"}
LetterChars == {"h", "i", "l", "o", "s", "t", "x", "y", "_", ".", "$"}  \* those used
LongOperators == {<<"|", "|">>, <<"&", "&">>, <<"=", "=">>, <<"!", "=">>, <<"<", "=">>,
                  <<">", "=">>, <<"<", "<">>, <<">", ">">>}
ShortOperators == {"(", ")", "!", "<", ">", "+", "-", "*", "/", "%", "&", "|", "^", "~"}

(* The last place of the run of characters of C that starts at p. *)
RunEnd(text, p, C) ==
    LET stops == {q \in p .. Len(text) : text[q] \notin C}
    IN  IF stops = {} THEN Len(text) ELSE (CHOOSE q \in stops : \A r \in stops : q <= r) - 1

(* The last place of the token at p; before p when there is none (A101).   *)
TokenEnd(text, p) ==
    LET ahead(n) == SubSeq(text, p, IF p + n <= Len(text) THEN p + n - 1 ELSE Len(text))
    IN  IF text[p] \in DigitChars THEN RunEnd(text, p, DigitChars \cup {"_"})
        ELSE IF text[p] \in LetterChars THEN RunEnd(text, p, LetterChars \cup DigitChars)
        ELSE IF ahead(3) \in {<<"%", "h", "i">>, <<"%", "l", "o">>} THEN p + 2
        ELSE IF ahead(2) \in LongOperators THEN p + 1
        ELSE IF text[p] \in ShortOperators THEN p
        ELSE p - 1

Joined(chars) == FoldLeft(LAMBDA s, c : s \o c, "", chars)

NotTokens == <<"invalid">>

RECURSIVE TokensFrom(_, _)
TokensFrom(text, p) ==
    IF p > Len(text) THEN <<>>
    ELSE IF text[p] = " " THEN TokensFrom(text, p + 1)
    ELSE LET last == TokenEnd(text, p)
         IN  IF last < p THEN NotTokens
             ELSE <<Joined(SubSeq(text, p, last))>> \o TokensFrom(text, last + 1)

tokenize(text) == TokensFrom(text, 1)

-----------------------------------------------------------------------------
(* The operators, on Python's unbounded integers. *)

Precedence ==
    [op \in {"||"} |-> 1] @@ [op \in {"&&"} |-> 2] @@ [op \in {"|"} |-> 3]
    @@ [op \in {"^"} |-> 4] @@ [op \in {"&"} |-> 5] @@ [op \in {"==", "!="} |-> 6]
    @@ [op \in {"<", "<=", ">", ">="} |-> 7] @@ [op \in {"<<", ">>"} |-> 8]
    @@ [op \in {"+", "-"} |-> 9] @@ [op \in {"*", "/", "%"} |-> 10]
BinaryOperators == DOMAIN Precedence
PrefixOperators == {"+", "-", "~", "!"}
Relocations == {"%hi", "%lo"}

Flag(b) == IF b THEN 1 ELSE 0
Distance(x) == IF x < 0 THEN -x ELSE x

(* Division truncates toward zero; the remainder follows the dividend.     *)
Truncated(x, y) ==
    LET q == Distance(x) \div Distance(y) IN IF (x < 0) # (y < 0) THEN -q ELSE q

RECURSIVE BitAnd(_, _)
BitAnd(x, y) ==
    IF x = 0 \/ y = 0 THEN 0
    ELSE IF x = -1 THEN y
    ELSE IF y = -1 THEN x
    ELSE 2 * BitAnd(x \div 2, y \div 2) + (x % 2) * (y % 2)

(* Division by zero and shift counts outside 0 .. MaxShift are errors. *)
Applies(op, x, y) ==
    /\ op \in {"/", "%"} => y # 0
    /\ op \in {"<<", ">>"} => y \in 0 .. MaxShift

Apply(op, x, y) ==
    CASE op = "+" -> x + y
      [] op = "-" -> x - y
      [] op = "*" -> x * y
      [] op = "/" -> Truncated(x, y)
      [] op = "%" -> x - Truncated(x, y) * y
      [] op = "<<" -> x * 2 ^ y
      [] op = ">>" -> x \div 2 ^ y
      [] op = "&" -> BitAnd(x, y)
      [] op = "^" -> x + y - 2 * BitAnd(x, y)
      [] op = "|" -> x + y - BitAnd(x, y)
      [] op = "==" -> Flag(x = y)
      [] op = "!=" -> Flag(x # y)
      [] op = "<" -> Flag(x < y)
      [] op = "<=" -> Flag(x <= y)
      [] op = ">" -> Flag(x > y)
      [] op = ">=" -> Flag(x >= y)
      [] op = "&&" -> Flag(x # 0 /\ y # 0)
      [] op = "||" -> Flag(x # 0 \/ y # 0)

Prefixed(op, x) ==
    CASE op = "+" -> x
      [] op = "-" -> -x
      [] op = "~" -> -x - 1
      [] op = "!" -> Flag(x = 0)

Relocated(function, x) == (IF function = "%hi" THEN x \div 65536 ELSE x) % 65536

-----------------------------------------------------------------------------
(* _ExpressionParser, on tokens that end with "end".  live is              *)
(* evaluate_value: a skipped operand is parsed, its symbols are looked up, *)
(* but it is not computed and counts as 0.                                 *)

(* Mutant of Skips: an operand already decided by its left side counts.    *)
SkipsNothing(op, left) == FALSE

Skips(op, left) == (op = "&&" /\ left = 0) \/ (op = "||" /\ left # 0)

RECURSIVE ParseBinary(_, _, _, _, _, _), Climb(_, _, _, _, _, _), ParseUnary(_, _, _, _, _)

ParseBinary(tokens, symbols, p, minimum, live, depth) ==
    LET left == ParseUnary(tokens, symbols, p, live, depth)
    IN  IF left.ok THEN Climb(tokens, symbols, left, minimum, live, depth) ELSE left

(* The loop of parse_binary: left is what has been parsed so far. *)
Climb(tokens, symbols, left, minimum, live, depth) ==
    LET op == tokens[left.at]
    IN  IF op \notin BinaryOperators THEN left
        ELSE IF Precedence[op] < minimum THEN left
        ELSE LET right == ParseBinary(tokens, symbols, left.at + 1, Precedence[op] + 1,
                                      live /\ ~Skips(op, left.value), depth)
             IN  IF ~right.ok \/ (live /\ ~Applies(op, left.value, right.value)) THEN Failed
                 ELSE Climb(tokens, symbols,
                            Got(IF live THEN Apply(op, left.value, right.value) ELSE 0,
                                right.at),
                            minimum, live, depth)

Parenthesized(tokens, symbols, p, live, depth) ==
    LET inner == ParseBinary(tokens, symbols, p + 1, 0, live, depth)
    IN  IF tokens[p] # "(" \/ ~inner.ok THEN Failed
        ELSE IF tokens[inner.at] # ")" THEN Failed
        ELSE Got(inner.value, inner.at + 1)

ParseUnary(tokens, symbols, p, live, depth) ==
    LET token == tokens[p]
        Live(value) == IF live THEN value ELSE 0
        Then(result, F(_)) == IF result.ok THEN Got(Live(F(result.value)), result.at)
                              ELSE Failed
    IN  CASE depth = MaxDepth -> Failed
          [] depth < MaxDepth /\ token \in PrefixOperators ->
                Then(ParseUnary(tokens, symbols, p + 1, live, depth + 1),
                     LAMBDA x : Prefixed(token, x))
          [] depth < MaxDepth /\ token \in Relocations ->
                Then(Parenthesized(tokens, symbols, p + 1, live, depth + 1),
                     LAMBDA x : Relocated(token, x))
          [] depth < MaxDepth /\ token = "(" ->
                Parenthesized(tokens, symbols, p, live, depth + 1)
          [] depth < MaxDepth /\ token \in DOMAIN Literals ->
                IF Literals[token] = Malformed THEN Failed
                ELSE Got(Live(Literals[token]), p + 1)
          [] depth < MaxDepth /\ token \in DOMAIN symbols -> Got(Live(symbols[token]), p + 1)
          [] OTHER -> Failed

(* parse: the whole expression, and nothing after it. *)
evaluate(tokens, symbols) ==
    LET result == ParseBinary(Append(tokens, "end"), symbols, 1, 0, TRUE, 0)
    IN  IF tokens = <<>> \/ Len(tokens) > MaxTokens THEN Failed
        ELSE IF result.ok /\ result.at = Len(tokens) + 1 THEN result
        ELSE Failed

is_constant(tokens) == evaluate(tokens, <<>>).ok
=============================================================================
