------------------------------- MODULE History -------------------------------
(***************************************************************************)
(* The simulator's bounded history (Machine.history, a deque with maxlen): *)
(* appending to a full one silently drops its oldest entry, and the newest *)
(* entry is the one that is popped.                                        *)
(***************************************************************************)
EXTENDS Integers, Sequences

CONSTANTS HistoryLimit   \* limits.history_limit

ASSUME HistoryAssumption == HistoryLimit \in Nat

(* Mutant of Remembered: a bound that lets one entry too many in. *)
RememberedOneMore(s, e) ==
    LET longer == Append(s, e)
    IN  IF Len(longer) > HistoryLimit + 1 THEN Tail(longer) ELSE longer

Remembered(s, e) ==
    LET longer == Append(s, e)
    IN  IF Len(longer) > HistoryLimit THEN Tail(longer) ELSE longer

Forgotten(s) == SubSeq(s, 1, Len(s) - 1)

Latest(s) == s[Len(s)]
=============================================================================
