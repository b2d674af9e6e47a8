--------------------------------- MODULE Alu ---------------------------------
(***************************************************************************)
(* What the integer instructions compute (integers.py and the arithmetic   *)
(* arms of Machine.step), on words of WordBits bits: 32 in the code, fewer *)
(* when checked.                                                           *)
(***************************************************************************)
EXTENDS Integers, Sequences, FiniteSets, FiniteSetsExt, Functions

CONSTANTS
    WordBits,  \* bits in a word
    HalfMod,   \* number of halfword values
    OctetMod   \* number of byte values

ASSUME AluAssumption ==
    /\ WordBits \in Nat \ {0, 1}
    /\ HalfMod \in Nat \ {0, 1} /\ OctetMod \in Nat \ {0, 1}

Modulus == 2 ^ WordBits
Bound == 2 ^ (WordBits - 1)

(* A checked operation whose exact result does not fit (R109, R110, R113). *)
Overflow == -1

U(x) == x % Modulus
Signed(w) == IF w >= Bound THEN w - Modulus ELSE w
SignExtend(x, m) == IF x % m >= m \div 2 THEN U((x % m) - m) ELSE x % m
Checked(x) == IF -Bound <= x /\ x < Bound THEN U(x) ELSE Overflow
Truth(b) == IF b THEN 1 ELSE 0

-----------------------------------------------------------------------------
(* Bitwise operations, on the set of bits that are 1. *)

AllBits == 0 .. WordBits - 1
Bits(w) == {i \in AllBits : (w \div 2 ^ i) % 2 = 1}
FromBits(S) == SumFunctionOnSet([i \in AllBits |-> 2 ^ i], S)

ShiftLeft(w, n) == U(w * 2 ^ n)
ShiftRight(w, n) == w \div 2 ^ n
ShiftArithmetic(w, n) == U(Signed(w) \div 2 ^ n)
RotateRight(w, n) ==
    IF n = 0 THEN w
    ELSE FromBits(Bits(ShiftRight(w, n)) \cup Bits(ShiftLeft(w, WordBits - n)))

LeadingZeros(w) == Cardinality({i \in AllBits : w \div 2 ^ i = 0})

-----------------------------------------------------------------------------
(* The instructions that write one register.  The second operand is a      *)
(* register, a shift amount or an immediate that is already extended.      *)

ShiftOps == {"sll", "srl", "sra", "rotr"}
AddOps == {"add", "addu", "sub", "subu", "mul"}
LogicOps == {"and", "or", "xor", "nor"}
CompareOps == {"slt", "sltu"}
UnaryOps == {"clz", "clo", "seb", "seh", "lui"}
ComputeOps == ShiftOps \cup AddOps \cup LogicOps \cup CompareOps \cup UnaryOps

(* Variable shifts use the low bits of the amount. *)
Shift(op, a, n) ==
    CASE op = "sll" -> ShiftLeft(a, n % WordBits)
      [] op = "srl" -> ShiftRight(a, n % WordBits)
      [] op = "sra" -> ShiftArithmetic(a, n % WordBits)
      [] op = "rotr" -> RotateRight(a, n % WordBits)

Add(op, a, b) ==
    CASE op = "add" -> Checked(Signed(a) + Signed(b))
      [] op = "addu" -> U(a + b)
      [] op = "sub" -> Checked(Signed(a) - Signed(b))
      [] op = "subu" -> U(a - b)
      [] op = "mul" -> U(Signed(a) * Signed(b))

Logic(op, a, b) ==
    CASE op = "and" -> FromBits(Bits(a) \cap Bits(b))
      [] op = "or" -> FromBits(Bits(a) \cup Bits(b))
      [] op = "xor" -> FromBits((Bits(a) \cup Bits(b)) \ (Bits(a) \cap Bits(b)))
      [] op = "nor" -> FromBits(AllBits \ (Bits(a) \cup Bits(b)))

Unary(op, a) ==
    CASE op = "clz" -> LeadingZeros(a)
      [] op = "clo" -> LeadingZeros(Modulus - 1 - a)
      [] op = "seb" -> SignExtend(a, OctetMod)
      [] op = "seh" -> SignExtend(a, HalfMod)
      [] op = "lui" -> U(a * HalfMod)

Compute(op, a, b) ==
    CASE op \in ShiftOps -> Shift(op, a, b)
      [] op \in AddOps -> Add(op, a, b)
      [] op \in LogicOps -> Logic(op, a, b)
      [] op = "slt" -> Truth(Signed(a) < Signed(b))
      [] op = "sltu" -> Truth(a < b)
      [] op \in UnaryOps -> Unary(op, a)

-----------------------------------------------------------------------------
(* Words as little-endian bytes, and the merges of LWL, LWR, SWL and SWR:  *)
(* offset is the address within its word, bytes what memory holds from the *)
(* start of the word (left) or from the address itself (right).            *)

(* What a byte counts for at each place of a word, and just above it. *)
Weight == <<1, OctetMod, OctetMod * OctetMod, OctetMod * OctetMod * OctetMod,
            OctetMod * OctetMod * OctetMod * OctetMod>>

ToBytes(w, n) == [i \in 1 .. n |-> (w \div Weight[i]) % OctetMod]

FromBytes(bytes) ==
    LET digit(i) == IF i <= Len(bytes) THEN bytes[i] * Weight[i] ELSE 0
    IN  digit(1) + digit(2) + digit(3) + digit(4)

LeftCount(offset) == offset + 1
RightCount(offset) == 4 - offset

MergeLeft(current, bytes, offset) ==
    LET kept == Weight[4 - offset]
    IN  (current % kept) + FromBytes(bytes) * kept

MergeRight(current, bytes, offset) ==
    LET replaced == Weight[5 - offset]
    IN  (current - (current % replaced)) + FromBytes(bytes)

LeftBytes(current, offset) ==
    ToBytes(current \div Weight[4 - offset], LeftCount(offset))

RightBytes(current, offset) == ToBytes(current, RightCount(offset))

-----------------------------------------------------------------------------
(* Conditions of branches and traps. *)

Conditions == {"eq", "ne", "lt", "ge", "le", "gt", "ltu", "geu"}

Holds(condition, a, b) ==
    CASE condition = "eq" -> a = b
      [] condition = "ne" -> a # b
      [] condition = "lt" -> Signed(a) < Signed(b)
      [] condition = "ge" -> Signed(a) >= Signed(b)
      [] condition = "le" -> Signed(a) <= Signed(b)
      [] condition = "gt" -> Signed(a) > Signed(b)
      [] condition = "ltu" -> a < b
      [] condition = "geu" -> a >= b

-----------------------------------------------------------------------------
(* The instructions that write HI and LO, as the pair [hi, lo]. *)

MultiplyOps == {"mult", "multu"}
AccumulateOps == {"madd", "maddu", "msub", "msubu"}
DivideOps == {"div", "divu"}

(* Mutant of Pair: the high word of a negative product is not masked. *)
PairUnmasked(x) == [hi |-> x \div Modulus, lo |-> x % Modulus]
Pair(x) == [hi |-> (x \div Modulus) % Modulus, lo |-> x % Modulus]

Product(op, a, b) ==
    IF op \in {"mult", "madd", "msub"} THEN Signed(a) * Signed(b) ELSE a * b

Accumulated(op, hi, lo, a, b) ==
    LET old == hi * Modulus + lo
    IN  Pair(IF op \in {"msub", "msubu"} THEN old - Product(op, a, b)
             ELSE old + Product(op, a, b))

AbsoluteValue(x) == IF x < 0 THEN -x ELSE x

(* Mutant of Quotient: division rounds down instead of toward zero. *)
QuotientFloored(x, y) == IF y < 0 THEN (-x) \div (-y) ELSE x \div y

(* Signed division truncates; the remainder has the sign of the dividend.  *)
Quotient(x, y) ==
    LET q == AbsoluteValue(x) \div AbsoluteValue(y)
    IN  IF (x < 0) # (y < 0) THEN -q ELSE q

Divided(op, a, b) ==
    LET x == IF op = "div" THEN Signed(a) ELSE a
        y == IF op = "div" THEN Signed(b) ELSE b
    IN  [hi |-> U(x - Quotient(x, y) * y), lo |-> U(Quotient(x, y))]
=============================================================================
