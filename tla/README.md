# A TLA+ model of csetty-mips

csetty-mips assembles, runs and debugs MIPS32 programs. What is delicate in it
is not the arithmetic but the *reversibility*: every instruction and every
system call can be undone, a failing instruction must leave no trace, and files
are staged so that even they can be taken back until they are committed. Beside it
stands the assembler, whose two passes must agree on every size, and whose words
must mean to the machine what the source said. This directory models the
program, checks it with TLC on small instances, and proves its main invariants
with TLAPS for every instance.

Source references are relative to `src/csetty_mips/` of the repository.

## The system

| component | state | operations | talks to |
|---|---|---|---|
| Instruction execution (`machine.py`) | registers with initialization bits, HI/LO, pc, LL reservation, heap break, exit status, standard descriptors, step counter, history | `step`, `reverse_step`, `run`, 17 system calls | memory, I/O, files (calls); raises `RuntimeFault` |
| Memory (`memory.py`) | sparse pages, initialization bits, end of the data segment | reads, writes that return undo records, `restore`, `grow_data` | called by the machine |
| Standard I/O (`runtime_io.py`) | input buffer and position, output | read byte/token/int/line/bytes, write, `restore` | calls back an input provider and an output sink |
| Virtual files (`filesystem.py`) | staged files, descriptors, dirty set (one immutable value), host cache | open, read, write, close, `commit` | the host directory, shared with other processes |
| Integer arithmetic (`integers.py`) | none | wrapping, sign extension, overflow checks | |
| Debugger (`debugger.py`) | program, machine, breakpoints, watchpoints, length of the output shown | load, run, reset, step, continue, back, break, watch, commit-files | the machine; the user |
| Command line (`cli.py`) | none that survives | options, assemble, run or debug, commit, exit code | everything |
| Assembler (`assembler.py`) | cursors of four sections, labels that await storage, symbols per file and exported, `.set` state and its stack; built and discarded per assembly | first pass, symbol table, second pass | the command line and the debugger, which load its program |
| Parser (`parser.py`) | none | source text to statements | the assembler; `Limits` |
| Expressions (`expression.py`) | none | `evaluate`, `is_constant` | the assembler's passes, the debugger's `print` |
| ISA tables, disassembler (`isa.py`, `disassembler.py`) | none | encoding, `is_supported_encoding`, `disassemble` | the assembler, the machine's dispatch, the debugger |

Everything runs in one thread. The hard behaviours are therefore not races but
*sequences*: an operation that fails after it changed half of the state;
undoing a history whose writes overlap and share pages; state restored in
several pieces; a bounded history that forgets; a commit that stops half way,
then steps back; and what the environment does in between (the input provider,
other processes on the host, the user).

What makes each component correct:

- *memory*: a failed write changes nothing; undoing writes in order restores
  bytes, initialization bits and pages exactly; the page limit holds;
- *machine*: a fault leaves no trace; a step back restores everything a program
  can observe; no store keeps an LL reservation alive; the heap stays mapped;
- *I/O*: input is never lost, output only shrinks by a step back;
- *files*: descriptors never dangle; limits hold; a file that is not dirty is
  what the host was last known to hold; a commit replaces exactly the dirty
  files;
- *debugger*: what was saved cannot be taken back; the user has been shown every
  byte of the program's output once, though a character printed in parts is
  shown as replaced; breakpoints and watchpoints stop; commands end;
- *assembler*: a label is where its object lies and a constant stays put; names
  mean one thing; the second pass emits the words the first made room for, and
  they do what the statement says without touching what it does not name;
- *command line*: files are saved only after success, and failure is reported;
- *parser, expressions*: the two scans of a line agree on what is quoted; an
  expression has C's value, or none;
- *instruction set*: the tables of the assembler, of the disassembler and of
  `step()` give each word one meaning.

## Modules

```
 Reversible            abstract: a system that can be stepped and stepped back
    ^  refinement (ReversibleMachine)
 Machine  ---- EXTENDS ---->  Memory, RuntimeIO, FileSystem, Alu, History
    ^ EXTENDS                 MemoryUndo (Memory alone, under an undo log)
 Loader                 how a machine is built
 Debugger               over the abstract reversible machine
 CommandLine -- EXTENDS -->  Staging (files, host, commit, back)  -->  FileSystem
 Assembler  -- EXTENDS -->  Expansion (one statement: sizes and words)  -->  Alu
 ExpansionMeaning       what a statement means and what words do (over Expansion)
 Encoding               words: assembled, shown, executed;  EncodingMeaning
 AluLaws                the laws that Alu's operations must obey (over Alu)
 Expression             tokens to values;                   ExpressionMeaning
 Parser                 lines to statements
```

- **Memory** - the operations of `SparseMemory` as operators on a record
  `[cell, present, dataEnd]`. A byte is a value or `Unset`; `present` is the set
  of allocated pages. `WriteBytes` returns the memory, the undo changes and
  whether it faulted, including the code's own undo of a partial write.
- **MemoryUndo** - a state machine of writes, growth and undo over `Memory`,
  with the bounded log of `Machine.history`. `past` is an auxiliary variable
  that remembers what each entry must restore; no action reads it.
- **RuntimeIO** - reads as sets of results over the provider's possible answers.
  An answer that overflows the input limit is dropped with a fault; the end of
  input is not remembered, so a later read asks again, as in the code.
- **FileSystem** - open flags, `open`, `read`, `write`, `close` on the immutable
  `FileSystemState`.
- **Staging** - one machine's `FileSystem` with the host directory,
  `_load_host`'s cache, `commit` one file at a time with failure after any of
  them, `back`, and other processes. `saved` is auxiliary. It has no `Next` of its
  own: CommandLine drives it.
- **CommandLine** - `main`, composed with Staging: the options, assembling,
  running or debugging, the commit at exit or on demand, interruption, death of
  the process, and then the next process over the files the last one left.
- **Alu** - the integer arithmetic, for words of any width. **AluLaws** states what
  the operations promise: when ADD and SUB fault, dividend = quotient * divisor +
  remainder, MSUB after MADD, where a rotation takes each bit, LWR with LWL.
- **Machine** - `Machine.step` and `reverse_step`. One action per opcode group
  and per system call. An action computes an *outcome* (the new state, the bytes
  changed, and `done`, `fault` or `raise`); `Finish` then does what the end of
  `step()` does: record it, roll it back, or let an exception other than
  `RuntimeFault` escape. `Decode` is a constant operator, so that the theorems hold
  for every instruction set; the real one is in Encoding. R104, R105 and fetch
  faults change nothing and are stuttering steps.
- **Loader** - `Machine.__init__`: the segments are loaded, `_install_arguments`
  puts strings and pointers on the stack, the registers get their first values.
  `Boot` gives the states `Machine` may start in; a program that does not fit is
  not `Startable`; `IsProgram` is what the assembler guarantees of a program.
- **Encoding** - the tables of `isa.py`, `encode_real` (the assembler's last
  step), `is_supported_encoding`, `disassemble`, and the dispatch of `step()` as
  a function from a word to the instruction it executes. A word is the record of
  its six fields, an address is counted in words, a statement is a name with
  operands that are registers, numbers, addresses or an offset with a base.
  **EncodingMeaning** says, from the name of an operation alone, what instruction
  a statement stands for.
- **Expression** - `_tokenize` on characters, and the parser on tokens with its
  short circuits, depth, shift and token limits. `Literals` gives the value of each
  literal. **ExpressionMeaning** reads the same tokens by splitting at the last
  operator of lowest precedence, and has operators of its own on bits.
- **Parser** - lines of characters to statements. The alphabet has members of
  each class of characters the code tells apart.
- **Reversible**, **ReversibleMachine** - the abstract promise and the
  refinement mapping: `current` is the program's view `Now`, `earlier` is `past`.
- **Debugger** - commands as actions, and loops (`step N`, `continue`, `back N`)
  as one action per round, so that faults, watchpoints, exits and R101 fall
  between rounds. The machine in it is the one `Reversible` promises: an
  instruction goes to a place or faults without a trace; `back` returns to the
  recorded place. `Places` are the states such a machine may be in, `Printed`
  the bytes it prints, and `Outcomes` gives the places an instruction leads to.
  After each instruction the debugger decodes what it printed, without the bytes
  before (`debugger.py:149`). `Decoded` says of each byte whether it is shown or
  replaced: a byte is shown if it belongs to a character that is whole in the
  chunk. `Characters` are the byte sequences of characters; that none of their
  later bytes begins another, as in UTF-8, is what makes this independent of where
  decoding starts (`CharactersAssumption`). Python writes one mark for each maximal
  ill-formed part; the model has one for each of its bytes.
- **History** - the bounded deque.
- **Expansion** - what the two passes of the assembler do with one instruction
  statement. `WordCount`, `UsesMacro` and `UsesTemporary` are the first pass,
  which sees only whether an operand is a register, a constant or an expression
  over symbols; `SecondPass` expands with the symbols' values, compares sizes and
  checks the operands of every word. Results are a value or a diagnostic code;
  `"internal"` is an `AssertionError`.
- **Assembler** - the passes over a program. A program is written while it is
  read: each step of the first pass reads any line `Corpus` allows there. One
  action per kind of line, then `EndFirstPass` (symbol table and entry) and
  `Emit` per placed statement. `marks` and `epoch` are auxiliary. The properties of
  the layout and of the two passes are stated here; what compares with `ExpansionMeaning` in `MCAssembler`.
- **ExpansionMeaning** - the meaning of a statement, written from what the
  operation is, and a machine that runs the emitted words.

`Expression`, `ExpressionMeaning` and `Parser` use recursive operators, as the code
is recursive on its input; they are for TLC only and no module with a theorem
reaches them.

Definitions named `...OneMore`, `...Keeping...` and so on, introduced by a
comment "Mutant of X", are wrong versions of X. Nothing uses them; replacing X by
one makes the property listed with it in `PROJECT.json` fail, which shows that
the property depends on that line of the code.

## What is checked

| run | checks | what it shows |
|---|---|---|
| `memory_undo` | TypeOK, UndoChain, PageLimit, NoUnloggedChange | every order of overlapping writes, growth and undo; writes that meet the page limit in their second page |
| `machine_instructions` | TypeOK (with the page limit and the step counter), UndoChain, SentinelMeansExited, ArgumentsAreReadable, ImplementsReversible, StoreDropsReservation | all programs of three of 20 arithmetic and control instructions, and of three of 18 loads and stores, relaxed initialization, six pages, none to three arguments, run forward and back |
| `machine_services` | HeapIsMapped, NoDanglingHandle, FaultLeavesNoTrace, ImplementsReversible | pairs of system calls with good and bad arguments and every answer of the provider; open and three more file calls, good and bad buffers, every answer of the host |
| `machine_interrupted` | InputIsKept, OutputGrows | the pairs without a root for files, with exceptions that are no `RuntimeFault` |
| `debugger` | NothingSavedIsTakenBack, OutputIsShown, StopsBeforeBreakpoint, StopsOnWatch, CommandsEnd | every session on a program that reads, prints characters whole or in parts, stores and loops; every command ends |
| `assembler` | LabelsMeetTheirObject, ExportsAgree, LayoutIsSound, SettingsHold, PassesAgree, ExpansionsMeanTheStatement, ConstantsNeverMove | every layout of eight lines in one file, two files that define the same names, every nesting of four `.set` lines; every integer instruction with every form of operands on both sides of each bound, sized, expanded, and run on machines with the registers at the ends of their range |
| `command_line` | TypeOK (descriptors and dirty paths name staged files, limits hold), CleanMeansSaved, CacheIsNotOutdated, HostGetsStagedFiles, SavedOnlyAfterSuccess, SuccessMeansSaved | every set of options, two paths, exclusive creation, truncation, limits of one byte, steps back; commits at exit and on demand that succeed, fail half way or die; interruptions and kills anywhere, the next process, foreign changes |
| `functions` | ArithmeticIsExact, WordsMeanTheirText, StatementsMeanTheirWord, EvaluatesAsC, StatementsParseBack, ScannersAgree | the pure parts against independent definitions: 65,536 pairs of operands; words of every opcode and function code with registers, shift amounts and codes at the edges; every operation with every shape of operands; expressions of up to seven tokens; laid-out statements and all lines of five characters of nine |

Four runs show a disagreement between the code and its documentation:

- `machine_escape` (FaultLeavesNoTrace): only `RuntimeFault` is rolled back
  (`machine.py:756`). `int()` raises `ValueError` for more than 4300 digits, and
  a token may be a megabyte long; the token is then consumed although
  `docs/SPEC.md:313` promises the state before the instruction. The same holds
  for an exception of the input provider or the output sink.
- `debugger_watch` (StopsOnlyOnChange): a watched byte triggers when it is
  written, also with the value it holds (`debugger.py:171`); help and
  `docs/SPEC.md:279` say "changes".
- `assembler_errors` (InvalidOperandsAreReported): `sll 5, 3`, `sllv 5, $t1`,
  `rotrv 5, $t0` and `sgei $t0, $t1, $t2` end in an `AssertionError`
  (`assembler.py:870`, `897`), because the first pass did not make room for a
  load or expected one; `docs/SPEC.md:95` promises that invalid operands are
  reported at their line.
- `debugger_names` (RegistersCanBeWatched): a name that begins with `$f` is
  looked up among the floating-point registers only (`debugger.py:355`, and `245`
  for `print`), so `watch $fp` is refused with A231, although help and
  `docs/SPEC.md:279` offer `watch $REG` and `$fp` names register 30 everywhere else.

Further disagreements and surprises are not given a run. A program that exits with status
256 ends with code 0, but only status 0 is committed (`cli.py:236`;
`docs/SPEC.md:46`, `258`): code 0 and nothing saved; `SuccessMeansSaved` shows that
this is the only way. `load` in the debugger makes the source's file name the
program's argument (`debugger.py:306`), while `docs/SPEC.md:63` says that source
names are not arguments. Program arguments after `--` are ignored when no source file is
given (`cli.py:169`). `%hi` and `%lo` are tokens tried before the operator `%`
(`expression.py:13`), so `7%lost` is refused while `7 % lost` is not
(`KnownMislex`). And `lwl` or `lwr` into
`$at` at an address that does not fit an offset builds the address in `$at`, so
the bytes the load should keep are lost; the check for such collisions covers
stores only (`assembler.py:1090`; `docs/MIPSY_OVERLOAD_AUDIT_2026-08-19.md:52`).
`KnownClobber` leaves these out of `ExpansionsMeanTheStatement`, and
`KnownDisagreement` leaves the statements above out of `PassesAgree`.

Three more behaviours are modelled and worth knowing, though no document says
otherwise: a character of several bytes that the program prints byte by byte, as
system call 11 does, appears in the debugger as replacement marks, because each instruction's
output is decoded alone (`debugger.py:149`), while the command `output`
(`debugger.py:415`) decodes all of it, so `OutputIsShown` promises the bytes
of such a character only in their places; a `back N` that runs out of history does not look at the output, so
the user is not told that it shrank and output that grows again up to the old
length is not shown (`BackFails`, excluded from `OutputIsShown` by `stale`); and
a write through a descriptor beyond the end of a file that another descriptor
truncated does not fill the gap (`Overwritten`).

### Bounds

- *Words and pages.* `machine_*` uses three-bit bytes and twelve-bit words, and
  pages of one word. Widths are constants everywhere, so carries, sign
  extension, alignment and page crossing occur as at full size; the page size
  makes a double store cross a page. The arithmetic of `functions` uses eight-bit
  words of four two-bit bytes, small enough for all pairs of operands; the laws it
  checks are proved for words of any width.
- *Encodings* keep the real widths of fields, immediates, displacements and
  regions. Per opcode and function code each register field takes the values the
  tables tell apart (0, 1, one in the middle, 31), REGIMM's all of its 32, and the
  shift field those with a meaning. Numbers are both sides of each range's ends;
  branches are tried at the program's first word and at the last word of a jump
  region.
- *Expressions.* Every sequence of three tokens, well formed or not; of five
  where operands and operators alternate; of seven with the operators that skip,
  fail or group. Five tokens are two operators, enough for precedence and
  grouping; seven let a skipped operand hold a skip of its own. `MaxDepth` 3 and
  `MaxShift` 3 are met.
- *Lines.* Five characters hold a quote, an escape, a quote and a comma or
  comment after it; longer constructions are laid out from statements.
- *Programs.* Three instructions of a menu suffice to produce, use and overwrite
  a value (write HI, read HI, trap), and jumps loop over them up to `MaxSteps`
  (5). Text is writable in the simulator, and memory outside the program is a
  fetch fault or a reserved encoding. System-call programs load arguments, then
  do two calls; file programs open a file and do three. Their data is five bytes, within the initial
  segment, or ten, which does not end on a word.
- *History* of 1 to 3 records, fewer than the steps, so that records are dropped.
- *Limits.* Six pages where the programs of loads and stores can reach seven or
  more, and sixteen where a system-call program starts with fourteen or fifteen; files of one
  or two bytes; four bytes of input and output; tokens of two bytes.
- *Provider.* Up to two lines of one or two bytes before the answer that ends
  the read: more lines only repeat the state with a longer buffer, and the
  buffer is limited to four bytes.
- *Command line.* Two paths, because commit order and partial failure need two;
  `MaxOutside` 1 foreign change, to one `Shared` path; one open descriptor at a
  time, one byte per file and in all, a history of one record: a commit then
  falls before, between and after an open, a write and a step back over either.
  No run opens two descriptors at once: for them there are the lemmas of
  `FileSystemProofs`, which hold for every number of descriptors. Appending is
  left to `machine_services`. Statuses 0, 1 and 256 are the ones the code tells
  apart.
- *Arguments.* A stack of four words holds at most two short strings and their
  pointers; longer vectors fail to start, as do those that need a page too many.
- *Assembler.* Words of 8 bits with halves of 4, so that literals on both sides
  of every bound (`EdgeValues`: the ends of the signed and unsigned half, of the
  shift amount and of the word) can be enumerated; registers are `$at` and two
  others, enough for every aliasing of three operands. A layout begins with a
  section and a byte, so that the next object needs padding, and goes on with any
  six of twelve lines: two labels, an alignment, an empty object, a change of
  section or origin and an object meet in every order. The two-file programs fix
  the order of lines and choose which names either file exports. `MaxSymbols` 4
  and sections of 4 to 24 bytes are met exactly and exceeded.
- *Debugger.* `MaxSteps` 6 lets the four-instruction loop start over, reach the
  breakpoint at its second instruction again from inside one `continue` that
  started there, and print there again: the second half of a character whose first half
  an earlier instruction printed. The other text has a character of one byte and one of
  two. Three bytes are the limit of the output, so printing may also fault. Counts 1 and
  3, the latter longer than the history.

The step limit also bounds the model, so `machine_*` end in states
without a successor and switch the deadlock check off; so does `memory_undo`,
whose log may be empty with no write left, and so do `assembler` and `functions`:
assembly ends, and a function has nothing after its result.
The debugger's runs and `command_line` keep it on.

### Fairness

Only `Debugger` has a liveness property, `CommandsEnd`. It assumes weak fairness
of `Proceed`, one round of the running loop: it is a Python loop in one thread,
and nothing but the user's input can hold it up. The user's commands are not
fair. That commands end then follows from `MaxSteps`, although a step back
lowers the counter, because no step back happens inside `continue`.

## What is proved

| theorem | statement |
|---|---|
| `MemoryProofs!WriteBytesIsUndoable` | undoing a successful write restores the memory; a failed write leaves it |
| `MemoryUndoProofs!TypeCorrect`, `UndoIsExact`, `PagesAreLimited`, `NothingIsUnlogged` | the four properties of `memory_undo` |
| `MachineProofs!TimeTravelIsExact` | `Spec => []UndoChain` |
| `MachineProofs!FaultsLeaveNoTrace` | `Spec => FaultLeavesNoTrace` |
| `MachineProofs!MachineIsReversible` | `Spec => ImplementsReversible` (the refinement) |
| `MachineProofs!HistoryIsOfSteps`, `MachinePagesAreLimited` | `[]HistoryWithinSteps` and `[]PageLimit`, which the run checks as parts of `TypeOK` |
| `MachineProofs!InputIsNeverLost`, `OutputIsNeverLost`, `NoHandleDangles` | `InputIsKept`, `OutputGrows` and `NoDanglingHandle` of the runs |
| `MachineProofs!MachineIsTyped` | `Spec => []TypeOK`: registers hold words, memory and files bytes, all limits hold |
| `MachineProofs!HeapStaysMapped`, `ReturningExits`, `ReservationsAreDropped` | `HeapIsMapped`, `SentinelMeansExited` and `StoreDropsReservation` of the runs |
| `MachineProofs!BackAtTheStart` | a machine without steps, also after faults and steps back, is as `__init__` built it |
| `MachineProofs!BootIsSound` | what `__init__` builds from a program and arguments that fit satisfies `MachineAssumption` |
| `MachineProofs!MainFindsItsArguments` | `Spec => []ArgumentsAreReadable` for machines that `Loader` builds |
| `MachineProofs!AdditionIsExact`, `DivisionIsExact`, `AccumulationIsReversible`, `RotationIsExact`, `UnalignedAccessIsExact` | each part of `ArithmeticIsExact`, for all operands of every word width |
| `CommandLineProofs!TypeCorrect`, `CleanFilesAreSaved`, `CacheIsUpToDate` | `TypeOK`, `CleanMeansSaved` and `CacheIsNotOutdated` |
| `CommandLineProofs!CommitsAreFaithful`, `FailuresSaveNothing`, `SuccessIsSaved` | `HostGetsStagedFiles`, `SavedOnlyAfterSuccess` and `SuccessMeansSaved` |
| `DebuggerProofs!CommitsStay`, `PromptShowsOutput` | `NothingSavedIsTakenBack` and `OutputIsShown` |
| `DebuggerProofs!BreakpointsHold`, `WatchpointsHold` | `StopsBeforeBreakpoint` and `StopsOnWatch` |
| `AssemblerProofs!PlacedSoundly`, `LabelsAreAddresses` | `LayoutIsSound` and `LabelsMeetTheirObject` |
| `AssemblerProofs!OneExporter`, `ConstantsKept` | `ExportsAgree` and `ConstantsNeverMove` |
| `AssemblerProofs!PassesInvariance` | what the second pass finds was accepted by the first, and the image so far is its expansion |
| `AssemblerProofs!PassesKeepAgreeing`, `SettingsKeep` | `PassesAgree` and `SettingsHold` |

They hold for every layout, page size, word width, program, decoder, limit,
provider, host and user, and those of arithmetic with bytes of any width of which four
make a word; those of the assembler for every number of files, set of
names, corpus of lines, value of a symbol and size of the sections. The theorems of `MachineProofs` also assume
`Escapes = {}`: no exception other than `RuntimeFault`. For `TimeTravelIsExact` and
`FaultsLeaveNoTrace` that is necessary, as `machine_escape` shows. The command
line and the debugger need no such assumption. `NothingIsUnlogged` assumes a
history of at least one record.

### What is assumed

TLC evaluates each assumption on every run of the module that declares it. Beyond the ranges of
parameters they say:

- `MachineAssumption`: what the host, the input provider, the formatting of numbers and
  the reading of floating-point text deliver are bytes or integers; a machine starts with a
  canonical memory within its pages, `$zero` zero, the data segment and the given input
  within their limits, and not at the return address. `BootIsSound` proves the last part of all states that `Loader`
  builds; it needs of a program what `IsProgram` says: the sections keep their limits
  (`assembler.py:808`), words and bytes are in range, and the entry is not the return
  address. `InstructionsAreBuilt` has TLC check `IsProgram` of the run's programs.
- `LoaderAssumption`: the segments of data and stack do not overlap, the top of the stack
  is a word address, and the arguments are strings of bytes.
- `DecodeAssumption`: what `step()` may rely on once it has taken an instruction
  apart: a register for every operand the operation reads, an address of a jump
  that is a word, a floating-point register where it uses one. `Decode` of the runs
  takes them from five-bit fields, as the code does.
- `CommandLineAssumption`: the exit codes 1, 2 and 130 are codes.
- `AssemblerAssumption`: the text sections start at word addresses (`_SECTION_BASES`).
- `CorpusAssumption`: what is left of a line once its syntax is checked: the
  expressions that are not names are integers, alignments are powers of two, and only
  `.space`, the directive of bytes, reserves room (`_directive_size`); an instruction
  has one of the operand counts of its operation (`OperandCounts`; any other is A202 in
  one pass or the other, except that register traps may have a third operand, a code,
  which this model leaves out and `Encoding` has), and the base of an address is a register or left out
  (`_memory_parts`). The operations are those of `OperandCounts`: the others (`jr`,
  `syscall`, `madd` ...) are one word in both passes whatever their operands are.
- `OutcomeAssumption`: what the debugger relies on in the machine: it starts with
  no output, an instruction only adds output, and its record names every byte it
  changed. The second is `OutputGrows` and the third follows from
  `WriteBytesIsUndoable`, both proved of the machine.

### The arguments

*Memory.* `UndoChain` alone is not inductive: `Restore` deletes
the pages that a write allocated, so it gives the earlier memory back only if
unallocated pages hold nothing but unset bytes. The inductive invariant adds
this (`Canonical`), for the memory and for each remembered one, and that the
changes of every log entry lie in mapped memory. The heart is
`WriteBytesIsUndoable`; it rests on what the partial-write loop allocated
(`Storable`), and on a byte's "page was present" being recorded just before the
byte is stored.

*Machine: reversibility.* The invariant `Inv` of `MachineProofs` adds to
`UndoChain`, for the present and every remembered view: the memory is canonical
and within its pages, the input position lies within the buffer, the recorded
output length within the output, and the file system state is well formed
(descriptors name staged files, staged contents are sequences). Each of the
instruction and system-call actions is then shown to produce an *undoable*
outcome: restoring the snapshot of the present state with the outcome's changes
gives the present view. `Finish` is treated once: `Complete` appends a record
that is exact because its outcome is undoable, `RollBack` leaves the view alone
for the same reason, and `Rewind` uses the newest link of the chain.

*Machine: types and limits.* `TypedInv` adds to `Inv` that the present and every
remembered view are *sound* (registers, HI, LO and pc hold words or nothing,
`$zero` is zero, the return address is reached only on exit, memory holds bytes, the heap
break lies within the data segment, output and files are within their limits), that the
input is bytes and the cached host answers are contents. The remembered views must be in it because a step
back makes one of them the present. As for reversibility every action yields a
*proper* outcome, and what `Finish` does with one is shown once. `TypeOK` needs the
range of all arithmetic, down to rotations and the sums of powers of two that
`FromBits` is; `HeapIsMapped` needs the end of the data segment to move only
with `sbrk`; `StoreDropsReservation` needs each outcome that changes a byte to have cleared
the reservation, also in a delivery to a buffer.

*Arithmetic.* `U` keeps a number's class modulo the word size and there is one word in
each class (`RemainderIs`), so equalities between words follow from equalities
between integers up to a multiple of the word size (`Congruent`); only the orderings, of
the overflow rule and of the remainder, look at signs. For accumulation it
is used twice, as HI and LO are remainder and quotient of one class modulo the square of
the word size. Rotations need that a word is
the sum of its bits and that no two sets of bits have the same sum (`BitsOfSum`), by
induction on the number of bits, and 2^(m+n) = 2^m * 2^n, which the prover knows
nothing of: `PowerSum` takes it from counting subsets. An unaligned
word is `low + high * weight`, and each merge replaces one of the two terms
(`FourBytesSplit`).

*Machine: its start.* A first state is one that some boot gives. "No step means a first
state" is not inductive, since a step back only brings back what it remembers; what is
(`StartIsKept`): as long as nothing was dropped from the history, so that there are as many
remembered views as steps, the oldest of them, or the present one if there is none, is a
first state. With a full history `Dropped` makes the premise false for good.

*Machine: its arguments.* `_install_arguments` pushes strings from the last to the first,
and then their addresses in the same order, so what the first item needs was
written last. The folds of `InstallArguments` are taken apart into their steps
(`StringsFromTheRight`, `WordsFromTheRight`): the library's fold is a table over sets of
indices, of which only the intervals k .. n matter. Downwards along them
`StringsHeld` and then `WordsHeld` are inductive: what was pushed so far is at the
addresses recorded, everything above the top stays as it was when the item below is written, and
everything below the top is still free. The two are joined by the alignment
between strings and pointers, which only skips bytes. That a pointer read back is the
one written (`WordOfBytes`) needs four divisions in turn. The rest is that loading leaves the stack
alone (`ProgramIsLoaded`), and, with `BackAtTheStart`, that later steps do not matter.

*Command line.* The states the staged files had since the last commit, with the
present one at the end, form a *trail* (`StateAt`). The invariant says of every
state of the trail, not only of the present, that what is not dirty is what was saved
(`CleanIsSaved`) and that cached answers are those of the host (`CacheIsCurrent`):
without that a step back could show a clean file that was never saved. Along the trail files are only
added, so that what the cache says of a file not yet staged stays true
after a step back. While a commit goes on, `pending` takes the place of `dirty`, and
the trail need not be clean, because a commit that ends or fails discards it.
That totals stay within `MaxTotalBytes` goes through the lemmas on sums over finite sets.

*Debugger.* A machine is sound when the outputs of its recorded places and the present one
extend each other (`OutputsGrow`). `RecordsAreRecent` counts: there are
at most as many records as steps since the last commit, so a step back cannot
pass it. `ScreenFollows` says how far the screen is from the output in each
phase of a loop: as long at the prompt, ahead while `back` goes back; and in both
what the screen has of the present output is as `OutputIsShown` says (`Shows`). A step adds
one decoded chunk (`RestIsDecoded`), and moves the chunks before it by the records the history
dropped (`OutputsShift`); a step back and a notice leave a beginning of the output, of
which everything stays as it was (`InTheBeginning`). And the
breakpoint that `continue` starts on is passed only by its first round (`PassesOnlyFirst`).

*Assembler.* That a label is where its object is cannot be inductive alone: between
the label and its object come steps that say nothing of either. `LabelsWait` says
when a label may still move: it is in `pending` exactly as long as it belongs to the file
being read and to the present origin of its section and no nonempty object came after it, and
then it is at the cursor of its section. So the first object that ends the wait is placed where the
label is, padding moves all labels of this section that have no object and none that has one,
and a constant, a name without a mark, is never among them. The layout needs only the
cursors (`CursorsFit`): everything placed in a section ends at or before its cursor, which
only grows and is a word address in text. For that the proof needs every size to be a natural number, and
every instruction to have at least one word (`InstructionsHaveWords`): an instruction
without words would end the wait of a label that then has no object. `Exported` names
the one file that declares and defines an exported name.

*Assembler: the two passes.* Nothing links them but the text of the statement: the first
sees a name where the second sees a number, or an undefined symbol. `Renders` says what
the second pass may rely on: the same operation and the same operands, but that a name has
become a value (`Answers`), so that registers are where they were. From this
`ExpansionAgrees` follows by the forms of expansion (loads of one immediate into `$at`,
memory, shifts, rotations, traps, and the fixed ones): the length does not depend
on the value, because a load of a name takes two words however small its value is.
`PassesInv` carries the accepted word counts from one pass to the other; since it says of
each located statement that its size is four times `WordCount`, the assertion on the
number of words can only fail for the statements of `KnownDisagreement`.
The settings need more than counts. `MacroFree` shows that a statement the first pass lets
through under `.set nomacro` is expanded to itself, and `ExpansionKeepsTemporary` that
one it lets through under `.set noat` has no word that writes `$at`; both go through every
expansion. `SettingsExcludeDisagreement` shows that the statements on which the passes
disagree are never among them. That the families of operations do not
meet (`FamiliesApart`) is what all case distinctions rest on.

The facts about bounded sequences, about induction on naturals and finite
sets, and about sums over finite sets are in `BasicFacts`, those on reads in `MachineProofs`, those on the
file system's operations in `FileSystemProofs`. The library's induction theorems take an operator and
cannot be used; those in `BasicFacts` are over a *set* of numbers or subsets, and are enough to show
what `SumFunctionOnSet` (a recursive function) and the value of a token's digits are.

### What a failed proof found

`HeapIsMapped` was first stated as "the break is never above the end of the
data segment". The proof attempt failed at the start: the break starts at the
data's end rounded up to a multiple of four (`machine.py:89`), while the segment ends
with the data, or at its initial size (`memory.py:55`). When data that is longer than the
initial size does not end on a word, the break lies up to three bytes above
the mapped end until the first `sbrk`. What `sbrk`
hands out is mapped all the same, because it maps up to the new break. The
property now says what is meant: what was handed out is mapped, with
`NothingHandedOut` as the exception; `machine_services` boots with data of both kinds.

That a constant is resolved to itself (`Resolve`) could not be proved either: the arms
of its CASE overlapped, TLC takes the first one that holds, but the
value of such an expression is any of them. Choices that the code makes in
order are now disjoint in `Expansion` and `Assembler`, or the first of a list
of checks (`FirstError`).

### What is only model-checked

- `ExpansionsMeanTheStatement` of the assembler: it runs the emitted words on a machine and
  compares arithmetic on words, bit by bit. TLC enumerates every form of statement over a
  few registers and operands at one small word width. A proof for every width would go
  through each family of pseudo-instructions, from the laws of `AluLaws`; it has not been
  written, so for other registers, operands and widths the property is not established.
- What `functions` compares, except arithmetic: its two sides are recursive operators,
  for which the prover has no backend. `ArithmeticIsExact` itself is about the state of
  that run; the theorems are about the laws it consists of.
- `CommandsEnd`, and so everything about fairness and ENABLED.

## What is not modelled

- In the assembler: the expansion of floating-point loads and stores, strings and
  floating-point data, the texts of registers, `move_labels` and the source map.
  What the passes do with operands (`Expansion`) and what the words are
  (`Encoding`) are two modules: an operand is already a register, a constant, a
  symbol or undefined in the first, and a number or address in the second.
- Literals: which number a literal's digits or a quoted character stand for is a
  constant of `Expression`; register aliases are one of `Debugger`.
- Texts: diagnostics, printed numbers (some text from a set), the value of a
  floating-point input (some word from a set).
- Paths: normalisation and symbolic-link checks are an input to the model
  (`NameOf`, `Creatable`); a name leads nowhere, to a file, or cannot be created.
- Commands of the debugger that only print, but for what `disassemble` prints.
- Rendering of diagnostics (`errors.py`): it has no state, and no document fixes
  its wording.

## Plan

Done: every component above, and the proofs for memory, machine, command line,
debugger, arithmetic and the assembler's two passes. Left:

1. *Composition*: the debugger over `Machine` instead of over its abstraction, on
   one small program.
2. *Assembler*: floating-point pseudo-instructions and string data.
3. *Proofs*: `ExpansionsMeanTheStatement` for every word width.
