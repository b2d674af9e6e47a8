----------------------------- MODULE MCDebugger -----------------------------
(***************************************************************************)
(* A program of four instructions that reads a number into register 8,     *)
(* prints a text for it, stores it in the byte at 8, and starts over while *)
(* it is 0.  What it reads may differ when it is read again: the end of    *)
(* the input does not last.                                                *)
(***************************************************************************)
EXTENDS Debugger, TLC

MCPrograms == {"echo", "misnamed"}
MCStartable == {"echo"}

\* $t0, under two names; the frame pointer, which the program does not use.
MCRegisterNames == "$t0" :> 8 @@ "$8" :> 8
MCFrameNames == MCRegisterNames @@ "$fp" :> 30
MCFpuNames == <<>>

MCPrinted == {"x", "lead", "trail"}
MCCharacters == {<<"x">>, <<"lead", "trail">>}

\* A character of two bytes in two parts; one of one byte and one of two.
MCNumbers == {0, 1}
MCText(number, before) == CASE number = 1 -> <<"x", "lead", "trail">>
                            [] before = <<>> -> <<"lead">>
                            [] OTHER -> <<"trail">>

\* The limit of the output.
MaxPrinted == 3

MCStart(p) == [pc |-> 0, registers |-> [r \in WatchRegisters |-> 0], bytes |-> [a \in Targets |-> 0],
               output |-> <<>>, exited |-> FALSE, dirty |-> {}]

MCPlaces == [pc : 0 .. 4, registers : [WatchRegisters -> MCNumbers], bytes : [Targets -> MCNumbers],
             output : UNION {[1 .. n -> MCPrinted] : n \in 0 .. MaxPrinted},
             exited : BOOLEAN, dirty : {{}, {"f"}}]

Ok(place, writes) == [ok |-> TRUE, place |-> place, writes |-> writes]
Fault(place) == [ok |-> FALSE, place |-> place, writes |-> {}]

MCOutcomes(p, place) ==
    LET next == [place EXCEPT !.pc = @ + 1]
        value == place.registers[8]
        longer == place.output \o MCText(value, place.output)
    IN  CASE place.pc = 0 -> {Ok([next EXCEPT !.registers[8] = v], {}) : v \in MCNumbers}
          [] place.pc = 1 -> IF Len(longer) <= MaxPrinted
                             THEN {Ok([next EXCEPT !.output = longer, !.dirty = {"f"}], {})}
                             ELSE {Fault(place)}
          [] place.pc = 2 -> {Ok([next EXCEPT !.bytes[8] = value], {8})}
          [] place.pc = 3 -> {Ok([place EXCEPT !.pc = IF value = 0 THEN 0 ELSE 4,
                                               !.exited = value = 1], {})}
          [] OTHER -> {}
=============================================================================
