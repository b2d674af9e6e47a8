-------------------------- MODULE ExpressionMeaning --------------------------
(***************************************************************************)
(* What a constant expression means in C's grammar: it is split at its     *)
(* last operator of the lowest precedence outside parentheses; && and ||   *)
(* decide on their left side alone when they can.  Every name must be      *)
(* defined, also in an operand that is not needed.  No parser is involved. *)
(***************************************************************************)
EXTENDS Expression

(* The parentheses still open before place k. *)
LevelBefore(ts, k) ==
    LET count(token) == Len(SelectSeq(SubSeq(ts, 1, k - 1), LAMBDA t : t = token))
    IN  count("(") - count(")")

Operand(token) == token \notin BinaryOperators \cup PrefixOperators \cup Relocations \cup {"("}

Splits(ts) == {k \in 2 .. Len(ts) : /\ ts[k] \in BinaryOperators
                                    /\ Operand(ts[k - 1]) /\ LevelBefore(ts, k) = 0}
SplitPlace(ts) ==
    LET lowest(k) == \A i \in Splits(ts) : Precedence[ts[k]] <= Precedence[ts[i]]
        S == {k \in Splits(ts) : lowest(k)}
    IN  CHOOSE k \in S : \A i \in S : i <= k

(* Bitwise operations on 20 bits of two's complement, more than any value  *)
(* of the expressions checked has; C's division.                           *)
Bit(x, i) == (x \div 2 ^ i) % 2
FromBitsOf(F(_)) ==
    LET sum[i \in 0 .. 20] == IF i = 20 THEN 0 ELSE F(i) * 2 ^ i + sum[i + 1]
    IN  sum[0] - F(20) * 2 ^ 20
Result(op, x, y) ==
    CASE op = "&" -> FromBitsOf(LAMBDA i : Bit(x, i) * Bit(y, i))
      [] op = "|" -> FromBitsOf(LAMBDA i : IF Bit(x, i) + Bit(y, i) > 0 THEN 1 ELSE 0)
      [] op = "^" -> FromBitsOf(LAMBDA i : (Bit(x, i) + Bit(y, i)) % 2)
      [] op = "/" -> CHOOSE q \in -Distance(x) .. Distance(x) :
                         /\ Distance(q * y) <= Distance(x)
                         /\ Distance(x - q * y) < Distance(y)
                         /\ q # 0 => (q > 0) = ((x > 0) = (y > 0))
      [] OTHER -> Apply(op, x, y)

(* A reading: whether it is well formed, how deep it nests, and its value, *)
(* <<>> when it has none (a division by zero, a shift out of range).       *)
Reading(formed, depth, value) == [formed |-> formed, depth |-> depth, value |-> value]
Illegible == Reading(FALSE, 0, <<>>)
Above(inner, F(_)) ==
    [inner EXCEPT !.depth = @ + 1, !.value = IF @ = <<>> THEN @ ELSE <<F(@[1])>>]
Deeper(a, b) == IF a.depth > b.depth THEN a.depth ELSE b.depth

Combined(op, l, r) ==
    CASE op = "&&" /\ l.value = <<0>> -> <<0>>
      [] op = "||" /\ l.value # <<>> /\ l.value # <<0>> -> <<1>>
      [] OTHER -> IF l.value = <<>> \/ r.value = <<>> THEN <<>>
                  ELSE IF Applies(op, l.value[1], r.value[1])
                  THEN <<Result(op, l.value[1], r.value[1])>> ELSE <<>>

RECURSIVE Read(_, _)
Read(ts, symbols) ==
    LET n == Len(ts)
        grouped(k) == n > k /\ ts[k] = "(" /\ ts[n] = ")"
        inside(k) == Read(SubSeq(ts, k + 1, n - 1), symbols)
    IN  IF ts = <<>> THEN Illegible
        ELSE IF Splits(ts) # {}
        THEN LET k == SplitPlace(ts)
                 l == Read(SubSeq(ts, 1, k - 1), symbols)
                 r == Read(SubSeq(ts, k + 1, n), symbols)
             IN  Reading(l.formed /\ r.formed, Deeper(l, r), Combined(ts[k], l, r))
        ELSE IF ts[1] \in PrefixOperators
        THEN Above(Read(Tail(ts), symbols), LAMBDA x : Prefixed(ts[1], x))
        ELSE IF ts[1] \in Relocations /\ grouped(2)
        THEN Above(inside(2), LAMBDA x : Relocated(ts[1], x))
        ELSE IF grouped(1) THEN Above(inside(1), LAMBDA x : x)
        ELSE IF n = 1 /\ ts[1] \in DOMAIN Literals
        THEN IF Literals[ts[1]] = Malformed THEN Illegible ELSE Reading(TRUE, 1, <<Literals[ts[1]]>>)
        ELSE IF n = 1 /\ ts[1] \in DOMAIN symbols THEN Reading(TRUE, 1, <<symbols[ts[1]]>>)
        ELSE Illegible

(* What evaluate must answer. *)
MeaningOf(ts, symbols) ==
    LET r == Read(ts, symbols)
    IN  IF r.formed /\ r.depth <= MaxDepth /\ Len(ts) <= MaxTokens THEN r.value ELSE <<>>
=============================================================================
