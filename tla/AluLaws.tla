------------------------------- MODULE AluLaws -------------------------------
(***************************************************************************)
(* The laws of the operations that the machine's arithmetic stands for: the *)
(* rules of the hardware and identities between operations, none of them   *)
(* written the way integers.py and machine.py compute.                     *)
(***************************************************************************)
EXTENDS Alu

Negative(w) == w >= Bound

(* ADD and SUB fault exactly when the hardware's rule says so: operands of *)
(* equal (different) sign whose wrapped result has the other sign.         *)
OverflowBySigns(a, b) ==
    LET sum == Compute("addu", a, b)
        difference == Compute("subu", a, b)
    IN  /\ Compute("add", a, b) =
             IF Negative(a) = Negative(b) /\ Negative(sum) # Negative(a)
             THEN Overflow ELSE sum
        /\ Compute("sub", a, b) =
             IF Negative(a) # Negative(b) /\ Negative(difference) # Negative(a)
             THEN Overflow ELSE difference

(* The remainder is smaller than the divisor and of the dividend's sign,   *)
(* also for the smallest negative number divided by -1, which wraps.       *)
DivisionIdentity(a, b) ==
    LET s == Divided("div", a, b)
        u == Divided("divu", a, b)
    IN  /\ U(Signed(s.lo) * Signed(b) + Signed(s.hi)) = a
        /\ AbsoluteValue(Signed(s.hi)) < AbsoluteValue(Signed(b))
        /\ s.hi # 0 => Negative(s.hi) = Negative(a)
        /\ u.lo * b + u.hi = a /\ u.hi < b

(* MSUB undoes MADD, and MSUBU undoes MADDU, though both wrap at twice the *)
(* word size.                                                              *)
AccumulateIsReversible(hi, lo, a, b) ==
    \A op \in {"madd", "maddu"} :
        LET there == Accumulated(op, hi, lo, a, b)
            back == IF op = "madd" THEN "msub" ELSE "msubu"
        IN  Accumulated(back, there.hi, there.lo, a, b) = [hi |-> hi, lo |-> lo]

(* A rotation, put together from two shifts, moves bit i to bit i - n      *)
(* around the end of the word and loses none.                              *)
RotationMovesEveryBit(a, n) ==
    Bits(Compute("rotr", a, n)) = {(i + WordBits - n) % WordBits : i \in Bits(a)}

(* LWR and LWL at the two ends of an unaligned word assemble that word,    *)
(* whatever the register held; SWR and SWL store it back in place and      *)
(* touch no other byte.  a and b are the aligned words it straddles.       *)
UnalignedPair(a, b, old) ==
    \A offset \in 1 .. 3 :
        LET memory == ToBytes(a, 4) \o ToBytes(b, 4)
            last == offset - 1   \* the offset of the word's last byte
            right == SubSeq(memory, offset + 1, 4)
            left == SubSeq(memory, 5, 5 + last)
            word == FromBytes(SubSeq(memory, offset + 1, offset + 4))
        IN  /\ MergeLeft(MergeRight(old, right, offset), left, last) = word
            /\ MergeRight(MergeLeft(old, left, last), right, offset) = word
            /\ RightBytes(word, offset) \o LeftBytes(word, last)
                = SubSeq(memory, offset + 1, offset + 4)
=============================================================================
