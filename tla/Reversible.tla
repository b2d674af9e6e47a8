----------------------------- MODULE Reversible -----------------------------
(***************************************************************************)
(* What the debugger's user is promised: a program that can be stepped     *)
(* forward and back.  The system is somewhere, remembers at most Limit     *)
(* earlier places, and each step back leads to exactly the last place it   *)
(* came from.  A failed instruction is no step at all.                     *)
(***************************************************************************)
EXTENDS Sequences, Integers

CONSTANTS Limit   \* how many steps can be taken back

VARIABLES
    current,  \* everything a program can observe
    earlier   \* where the steps that can be taken back started

Remembered(s) == IF Len(s) > Limit THEN Tail(s) ELSE s

(* A step forward may lead anywhere. *)
Advance == earlier' = Remembered(Append(earlier, current))

Return ==
    /\ earlier # <<>>
    /\ current' = earlier[Len(earlier)]
    /\ earlier' = SubSeq(earlier, 1, Len(earlier) - 1)

Init == earlier = <<>>

Spec == Init /\ [][Advance \/ Return]_<<current, earlier>>
=============================================================================
