------------------------------ MODULE Debugger ------------------------------
(***************************************************************************)
(* The interactive debugger (debugger.py, Debugger): commands load, run,   *)
(* step, continue and step back a machine, set breakpoints and             *)
(* watchpoints, show the program's output and commit its files.            *)
(*                                                                         *)
(* The machine is the reversible system that module Machine implements     *)
(* (ReversibleMachine): an instruction leads somewhere or faults without a *)
(* trace, and a step back leads exactly to where the last one started.     *)
(* A place is all a program can observe, as far as the debugger looks:     *)
(* [pc, registers, bytes, output, exited, dirty].                          *)
(*                                                                         *)
(* A command that executes or takes back several instructions is a loop;   *)
(* task says how far it got.  Only a finished one lets the next begin.     *)
(***************************************************************************)
EXTENDS Integers, Sequences, FiniteSets, History

CONSTANTS
    Programs,        \* what load may read: an assembled program and its argv
    Startable,       \* those a Machine can be built for (not R313, R205, ...)
    Start(_),        \* the place such a machine starts at
    Outcomes(_, _),  \* external: what an instruction may do, see OutcomeAssumption
    Places,          \* external: where it may lead
    Printed,         \* the bytes a program prints
    Characters,      \* external: the sequences of bytes that UTF-8 reads as a character
    Replaced,        \* the mark (U+FFFD) that stands for bytes that are none
    MaxSteps,        \* limits.max_steps
    Targets,         \* the addresses a breakpoint or watchpoint may name
    WatchRegisters,  \* the registers, floating-point ones among them
    RegisterNames,   \* the names parse_register knows, with their registers
    FpuNames,        \* the names parse_fpu_register knows, likewise
    FPrefixed,       \* the names that begin with $f or $F
    Counts,          \* the counts given to step and back
    HasRoot,         \* whether --fs-root is given
    NoProgram, NoMachine  \* before anything is loaded

VARIABLES
    program,      \* self.program
    machine,      \* self.machine: [program, place, history, steps]
    breakpoints,  \* self.breakpoints
    watched,      \* [registers, addresses]: the watch_ sets
    shown,        \* self._shown_output
    task,         \* the command being executed
    screen,       \* auxiliary: what each byte of output was shown as, less what a notice took back
    stale,        \* auxiliary: a back that failed half way hid that output shrank
    began,        \* auxiliary: machine.steps when continue began; -1 for run
    kept          \* auxiliary: machine.steps at the last commit

sessionVars == <<program, breakpoints, watched>>
shownVars == <<shown, screen, stale>>
vars == <<program, machine, breakpoints, watched, shown, task, screen, stale, began, kept>>

Idle == [loop |-> "idle", left |-> 0, passing |-> FALSE]
NothingWatched == [registers |-> {}, addresses |-> {}]

ASSUME DebuggerAssumption ==
    /\ NoProgram \notin Programs
    /\ Startable \subseteq Programs
    /\ MaxSteps \in Nat
    /\ DOMAIN FpuNames \subseteq FPrefixed
    /\ DOMAIN RegisterNames \cap DOMAIN FpuNames = {}
    /\ Counts \subseteq Nat \ {0}
    /\ HasRoot \in BOOLEAN
    /\ \A name \in DOMAIN RegisterNames : RegisterNames[name] \in WatchRegisters
    /\ \A name \in DOMAIN FpuNames : FpuNames[name] \in WatchRegisters

(* What the debugger relies on: a machine starts with no output, an        *)
(* instruction only adds to it (OutputGrows of module Machine), and its    *)
(* record names every byte it changed.                                     *)
ASSUME OutcomeAssumption ==
    /\ \A place \in Places :
          /\ place = [part \in {"pc", "registers", "bytes", "output", "exited", "dirty"}
                          |-> place[part]]
          /\ place.output \in Seq(Printed)
          /\ [place EXCEPT !.dirty = {}] \in Places
    /\ \A p \in Startable :
          /\ Start(p) \in Places /\ Start(p).output = <<>>
          /\ \A place \in Places : \A o \in Outcomes(p, place) : o.ok =>
                /\ o.place \in Places
                /\ Len(place.output) <= Len(o.place.output)
                /\ SubSeq(o.place.output, 1, Len(place.output)) = place.output
                /\ \A a \in Targets : place.bytes[a] # o.place.bytes[a] => a \in o.writes

(* In UTF-8 no byte inside a character begins another one. *)
ASSUME CharactersAssumption ==
    /\ Replaced \notin Printed
    /\ Characters \subseteq Seq(Printed) \ {<<>>}
    /\ \A c, d \in Characters : \A i \in 2 .. Len(c) : c[i] # d[1]

Init ==
    /\ program = NoProgram /\ machine = NoMachine
    /\ breakpoints = {} /\ watched = NothingWatched
    /\ shown = 0 /\ screen = <<>> /\ stale = FALSE
    /\ task = Idle /\ began = 0 /\ kept = 0

AtPrompt == task = Idle

-----------------------------------------------------------------------------
(* reset: a new machine for the program loaded last.  Building it may      *)
(* fail, which leaves the machine that was there.                          *)

Restart(p) ==
    /\ machine' = [program |-> p, place |-> Start(p), history |-> <<>>, steps |-> 0]
    /\ shown' = 0 /\ screen' = <<>> /\ stale' = FALSE
    /\ kept' = 0

(* load: a file that cannot be read or assembled changes nothing. *)
Load(p) ==
    /\ AtPrompt
    /\ program' = p
    /\ breakpoints' = {} /\ watched' = NothingWatched
    /\ IF p \in Startable THEN Restart(p) ELSE UNCHANGED <<machine, kept, shownVars>>
    /\ UNCHANGED <<task, began>>

Reset ==
    /\ AtPrompt /\ program \in Startable
    /\ Restart(program)
    /\ UNCHANGED <<sessionVars, task, began>>

Begin(loop, left, passing) ==
    task' = [loop |-> loop, left |-> left, passing |-> passing]

Run ==
    /\ AtPrompt /\ program \in Startable
    /\ Restart(program)
    /\ Begin("continue", 0, FALSE)
    /\ began' = -1
    /\ UNCHANGED sessionVars

Continue ==
    /\ AtPrompt /\ machine # NoMachine
    /\ Begin("continue", 0, TRUE)
    /\ began' = machine.steps
    /\ UNCHANGED <<sessionVars, machine, shownVars, kept>>

StepCommand(n) ==
    /\ AtPrompt /\ machine # NoMachine
    /\ Begin("step", n, FALSE)
    /\ UNCHANGED <<sessionVars, machine, shownVars, began, kept>>

BackCommand(n) ==
    /\ AtPrompt /\ machine # NoMachine
    /\ Begin("back", n, FALSE)
    /\ UNCHANGED <<sessionVars, machine, shownVars, began, kept>>

-----------------------------------------------------------------------------
(* Showing output (_flush_program_output) and watching (_watch_trigger).   *)

(* decode("utf-8", errors="replace"), byte by byte: a byte is shown as     *)
(* part of a character that is whole in this chunk, or replaced.  (How     *)
(* many marks stand for neighbouring bytes is left out.)                   *)
Decoded(chunk) ==
    [t \in 1 .. Len(chunk) |->
        IF \E i \in 1 .. t : \E j \in t .. Len(chunk) : SubSeq(chunk, i, j) \in Characters
        THEN chunk[t] ELSE Replaced]

(* Mutant of Flush: output that a step back took away is not announced. *)
FlushIgnoringBack(output) ==
    /\ shown' = Len(output)
    /\ screen' = screen \o Decoded(SubSeq(output, shown + 1, Len(output)))

(* Only what was not shown yet is decoded, without what came before. *)
Flush(output) ==
    /\ shown' = Len(output)
    /\ screen' = IF Len(output) < shown THEN SubSeq(screen, 1, Len(output))
                 ELSE screen \o Decoded(SubSeq(output, shown + 1, Len(output)))

Differ(before, after) == {r \in WatchRegisters : before.registers[r] # after.registers[r]}

(* Mutant of Triggers: bytes are looked at only if no register is watched. *)
TriggersEither(before, after, writes) ==
    IF watched.registers # {} THEN watched.registers \cap Differ(before, after) # {}
    ELSE watched.addresses \cap writes # {}

(* A byte counts as changed when it is written. *)
Triggers(before, after, writes) ==
    \/ watched.registers \cap Differ(before, after) # {}
    \/ watched.addresses \cap writes # {}

-----------------------------------------------------------------------------
(* The loops of step and continue. *)

AtBreakpoint == machine.place.pc \in breakpoints /\ ~task.passing

Over == CASE task.loop = "step" -> task.left = 0 \/ machine.place.exited
          [] task.loop = "continue" -> machine.place.exited \/ AtBreakpoint

Looping(loops) == task.loop \in loops

Executing == Looping({"step", "continue"}) /\ ~Over

StopLoop ==
    /\ Looping({"step", "continue"}) /\ Over
    /\ task' = Idle
    /\ UNCHANGED <<sessionVars, machine, shownVars, began, kept>>

(* Mutant of NextRound: continue keeps passing breakpoints. *)
NextRoundPassing == [task EXCEPT !.left = IF task.loop = "step" THEN @ - 1 ELSE @]

NextRound == [task EXCEPT !.left = IF task.loop = "step" THEN @ - 1 ELSE @,
                          !.passing = FALSE]

(* machine.step() succeeds: its record is kept, its output shown. *)
Execute(o) ==
    /\ o.ok
    /\ machine.steps < MaxSteps
    /\ machine' = [machine EXCEPT
                      !.place = o.place,
                      !.history = Remembered(@, [place |-> machine.place,
                                                 writes |-> o.writes]),
                      !.steps = @ + 1]
    /\ Flush(o.place.output)
    /\ task' = IF Triggers(machine.place, o.place, o.writes) THEN Idle ELSE NextRound
    /\ UNCHANGED <<sessionVars, stale, began, kept>>

(* Mutant of Fail: the error is reported, and the loop tries again. *)
FailAndRetry ==
    /\ Executing
    /\ \/ machine.steps >= MaxSteps
       \/ \E o \in Outcomes(machine.program, machine.place) : ~o.ok
    /\ UNCHANGED vars

(* machine.step() raises: a RuntimeFault of the instruction, or R105. *)
Fail ==
    /\ Executing
    /\ \/ machine.steps >= MaxSteps
       \/ \E o \in Outcomes(machine.program, machine.place) : ~o.ok
    /\ task' = Idle
    /\ UNCHANGED <<sessionVars, machine, shownVars, began, kept>>

-----------------------------------------------------------------------------
(* The loop of back.  Output is looked at when it is over, not when it     *)
(* fails because the history is too short (R307).                          *)

TakeBack ==
    /\ Looping({"back"}) /\ task.left > 0
    /\ machine.history # <<>>
    /\ machine' = [machine EXCEPT !.place = Latest(machine.history).place,
                                  !.history = Forgotten(@),
                                  !.steps = @ - 1]
    /\ task' = [task EXCEPT !.left = @ - 1]
    /\ UNCHANGED <<sessionVars, shownVars, began, kept>>

BackIsOver ==
    /\ Looping({"back"}) /\ task.left = 0
    /\ Flush(machine.place.output)
    /\ task' = Idle
    /\ UNCHANGED <<sessionVars, machine, stale, began, kept>>

BackFails ==
    /\ Looping({"back"}) /\ task.left > 0
    /\ machine.history = <<>>
    /\ task' = Idle
    /\ stale' = (stale \/ Len(machine.place.output) < shown)
    /\ UNCHANGED <<sessionVars, machine, shown, screen, began, kept>>

-----------------------------------------------------------------------------
(* Mutant of CommitFiles: a failed commit keeps the history. *)
CommitFilesOrNot(succeeds) ==
    /\ AtPrompt /\ machine # NoMachine /\ HasRoot
    /\ machine' = IF succeeds THEN [machine EXCEPT !.place.dirty = {}, !.history = <<>>]
                  ELSE machine
    /\ kept' = machine.steps
    /\ UNCHANGED <<sessionVars, task, shownVars, began>>

(* commit-files: all, some or none of the dirty files are saved; then the  *)
(* history is forgotten, whether the commit succeeded or not.              *)
CommitFiles(succeeds) ==
    /\ AtPrompt /\ machine # NoMachine /\ HasRoot
    /\ machine' = [machine EXCEPT !.place.dirty = IF succeeds THEN {} ELSE @,
                                  !.history = <<>>]
    /\ kept' = machine.steps
    /\ UNCHANGED <<sessionVars, task, shownVars, began>>

(* break and delete.  A target is looked up in the program, which must be  *)
(* there.                                                                  *)
SetBreakpoints ==
    /\ AtPrompt
    /\ \/ /\ program # NoProgram
          /\ \E a \in Targets : breakpoints' \in {breakpoints \cup {a}, breakpoints \ {a}}
       \/ breakpoints' = {}
    /\ UNCHANGED <<program, watched, machine, task, shownVars, began, kept>>

(* The register a name stands for, if any: one that begins with $f is      *)
(* looked up among the floating-point registers only.                      *)
Resolved(name) ==
    IF name \in FPrefixed THEN {FpuNames[n] : n \in {name} \cap DOMAIN FpuNames}
    ELSE {RegisterNames[n] : n \in {name} \cap DOMAIN RegisterNames}

Rewatch(registers, addresses) ==
    /\ AtPrompt
    /\ watched' = [registers |-> registers, addresses |-> addresses]
    /\ UNCHANGED <<program, breakpoints, machine, task, shownVars, began, kept>>

(* watch and unwatch of a register, which needs no program ... *)
WatchRegister(name) ==
    \E r \in Resolved(name) : Rewatch(watched.registers \cup {r}, watched.addresses)
UnwatchRegister(name) ==
    \E r \in Resolved(name) : Rewatch(watched.registers \ {r}, watched.addresses)

(* ... of an address, looked up in the program; unwatch all. *)
WatchAddress(a) ==
    /\ program # NoProgram
    /\ Rewatch(watched.registers, watched.addresses \cup {a})
UnwatchAddress(a) ==
    /\ program # NoProgram
    /\ Rewatch(watched.registers, watched.addresses \ {a})
UnwatchAll == Rewatch({}, {})

SetWatchpoints ==
    \/ \E name \in DOMAIN RegisterNames \cup DOMAIN FpuNames :
          WatchRegister(name) \/ UnwatchRegister(name)
    \/ \E a \in Targets : WatchAddress(a) \/ UnwatchAddress(a)
    \/ UnwatchAll

-----------------------------------------------------------------------------
ExecuteOne ==
    /\ Executing
    /\ \E o \in Outcomes(machine.program, machine.place) : Execute(o)

Proceed == \/ StopLoop \/ ExecuteOne \/ Fail
           \/ TakeBack \/ BackIsOver \/ BackFails

Command == \/ \E p \in Programs : Load(p)
           \/ Reset \/ Run \/ Continue
           \/ \E n \in Counts : StepCommand(n) \/ BackCommand(n)
           \/ \E succeeds \in BOOLEAN : CommitFiles(succeeds)
           \/ SetBreakpoints \/ SetWatchpoints

Next == Command \/ Proceed

(* A loop once begun goes on: Python runs it, and the user answers when    *)
(* the program asks for input.                                             *)
Spec == Init /\ [][Next]_vars /\ WF_vars(Proceed)

-----------------------------------------------------------------------------
(* Properties *)

(* Files saved to the host cannot be undone with back: no record from      *)
(* before a commit, complete or not, is left to step back over, however    *)
(* steps, backs, commits and resets follow each other.                     *)
NothingSavedIsTakenBack ==
    machine # NoMachine => Len(machine.history) <= machine.steps - kept

(* The output before the i-th instruction of the history; at last, now. *)
Output(m, i) == IF i = Len(m.history) + 1 THEN m.place.output ELSE m.history[i].place.output

EveryByteIsShown(m, text) ==
    \A i \in 1 .. Len(m.place.output) :
       \/ text[i] = m.place.output[i]
       \/ text[i] = Replaced /\ <<m.place.output[i]>> \notin Characters

CharactersAreShown(m, text) ==
    \A k \in 1 .. Len(m.history) :
       \A i, j \in Len(Output(m, k)) + 1 .. Len(Output(m, k + 1)) :
          SubSeq(m.place.output, i, j) \in Characters =>
              \A t \in i .. j : text[t] = m.place.output[t]

(* At the prompt every byte of the program's output has been shown, once   *)
(* and in its place: a character of one byte as itself, and so the others  *)
(* that one instruction printed as a whole (of those in the history, which *)
(* says what each printed).  Only bytes that are no character, or one that *)
(* several instructions printed in parts, may be shown as replaced.  This  *)
(* also holds when stepping back and forth makes the output shrink and     *)
(* grow and input given the second time makes it differ.  Except after a   *)
(* back that ran out of history: nothing announces what it took away.      *)
OutputIsShown ==
    AtPrompt /\ machine # NoMachine /\ ~stale =>
        /\ shown = Len(machine.place.output) /\ Len(screen) = shown
        /\ EveryByteIsShown(machine, screen)
        /\ CharactersAreShown(machine, screen)

Executed == machine # NoMachine /\ machine' # NoMachine /\ Looping({"step", "continue"})
            /\ machine'.steps > machine.steps

(* run and continue never execute an instruction at a breakpoint, but for  *)
(* continue the one it starts at.                                          *)
StopsBeforeBreakpoint ==
    [][Executed /\ task.loop = "continue" /\ machine.place.pc \in breakpoints
         => machine.steps = began]_vars

(* step and continue go no further than an instruction that changes a      *)
(* watched register or a watched byte.                                     *)
WatchedChange(before, after) ==
    \/ \E r \in watched.registers : before.registers[r] # after.registers[r]
    \/ \E a \in watched.addresses : before.bytes[a] # after.bytes[a]

StopsOnWatch ==
    [][Executed /\ WatchedChange(machine.place, machine'.place) => task' = Idle]_vars

(* watch: "stop when a register or memory byte changes" (the help text).   *)
(* A continue that stops after an instruction, at no breakpoint and before *)
(* the program ends, has met such a change.                                *)
StopsOnlyOnChange ==
    [][Executed /\ task' = Idle => WatchedChange(machine.place, machine'.place)]_vars

(* watch takes $REG, any integer register by any of its names (the help    *)
(* text): at the prompt, with a machine to run, no such name is refused.     *)
RegistersCanBeWatched ==
    AtPrompt /\ machine # NoMachine => \A name \in DOMAIN RegisterNames : ENABLED WatchRegister(name)

(* Every command returns to the prompt: even a program that never ends is  *)
(* stopped by limits.max_steps, also when it is stepped back in between.   *)
CommandsEnd == (task # Idle) ~> (task = Idle)
=============================================================================
