-------------------------------- MODULE Loader --------------------------------
(***************************************************************************)
(* Building a machine (machine.py, Machine.__init__, and memory.py,        *)
(* SparseMemory.__init__): text and data are loaded, the arguments are put *)
(* on top of the stack, and the registers main may read are set.           *)
(*                                                                         *)
(* A program is [text, data, kernel, entry]: the words of its text, the    *)
(* bytes of its data (Unset where .space left a gap), the pages its kernel *)
(* segments occupy, which no instruction can reach, and the entry address. *)
(***************************************************************************)
EXTENDS Machine

CONSTANTS
    TextBase,      \* TEXT_BASE
    DataInitial,   \* min(DATA_INITIAL_BYTES, the capacity of the segment)
    StackBase,     \* where the stack region starts
    StackTop,      \* STACK_TOP, the last word of the stack
    GlobalPointer, \* DATA_BASE + 0x8000
    ArgumentVectors  \* the arguments programs are started with

ASSUME LoaderAssumption ==
    /\ TextBase \in Nat /\ DataInitial \in Nat
    /\ GlobalPointer \in Word
    /\ DataLimit <= StackBase /\ StackBase \in Nat
    /\ StackTop \in Nat /\ StackTop % 4 = 0
    /\ 29 \in Registers
    /\ ArgumentVectors \subseteq Seq(Seq(Byte))

-----------------------------------------------------------------------------
(* load, load_masked: the bytes that have a value, and their pages. *)
Load(m, a, bytes) ==
    LET given == {x \in Span(a, Len(bytes)) : bytes[x - a + 1] # Unset}
    IN  [m EXCEPT !.cell = [x \in Mapped |-> IF x \in given THEN bytes[x - a + 1] ELSE @[x]],
                  !.present = @ \cup {PageOf(x) : x \in given}]

EmptyMemory(dataSize) ==
    [cell |-> [a \in Mapped |-> Unset], present |-> {},
     dataEnd |-> DataBase + Max({dataSize, DataInitial})]

TextBytes(text) ==
    [k \in 1 .. 4 * Len(text) |->
        ToBytes(text[((k - 1) \div 4) + 1], 4)[((k - 1) % 4) + 1]]

LoadedMemory(p) ==
    LET m == Load(Load(EmptyMemory(Len(p.data)), TextBase, TextBytes(p.text)),
                  DataBase, p.data)
    IN  [m EXCEPT !.present = @ \cup p.kernel]

-----------------------------------------------------------------------------
(* _install_arguments: the strings, below them a null word and the         *)
(* pointers to the strings.  The stack, or the pages, may not be enough.   *)

Push(bytes, alignment, s) ==
    LET a == s.top - Len(bytes)
        written == WriteBytes(s.mem, a, bytes, alignment)
    IN  [s EXCEPT !.mem = written.mem, !.top = a, !.ok = @ /\ written.ok]

PushWord(w, s) == Push(ToBytes(w, 4), 4, s)

(* Mutant of PushString: the pointers end up in reverse. *)
PushStringLast(item, s) ==
    LET pushed == Push(Append(item, 0), 1, s)
    IN  [pushed EXCEPT !.pointers = Append(@, pushed.top)]

PushString(item, s) ==
    LET pushed == Push(Append(item, 0), 1, s)
    IN  [pushed EXCEPT !.pointers = <<pushed.top>> \o @]

InstallArguments(m, argv) ==
    LET strings == FoldRight(PushString, argv,
                             [mem |-> m, top |-> StackTop + 4, pointers |-> <<>>, ok |-> TRUE])
        aligned == [strings EXCEPT !.top = @ - (@ % 4)]
    IN  FoldRight(PushWord, strings.pointers, PushWord(0, aligned))

-----------------------------------------------------------------------------
StackPointer(top) == top - (top % 8)

InitialRegister(r, argc, top) ==
    CASE r = 0 \/ r \in 16 .. 23 -> 0
      [] r = 4 -> argc
      [] r = 5 -> top
      [] r = 28 -> GlobalPointer
      [] r \in {29, 30} -> StackPointer(top)
      [] r = 31 -> Sentinel
      [] OTHER -> Unset

Startable(p, argv) ==
    /\ Cardinality(LoadedMemory(p).present) <= MaxPages
    /\ InstallArguments(LoadedMemory(p), argv).ok

(* The state a machine starts in, if it can be built (Startable). *)
Boot(p, argv, input) ==
    LET stack == InstallArguments(LoadedMemory(p), argv)
    IN  [mem |-> stack.mem,
         registers |-> [r \in Registers |-> InitialRegister(r, Len(argv), stack.top)],
         pc |-> p.entry,
         heapBreak |-> WordAligned(DataBase + Len(p.data)),
         input |-> input]

(* What the assembler guarantees of a program: its sections keep their     *)
(* limits, and it does not start at the address main returns to.           *)
IsProgram(p) ==
    /\ p.text \in Seq(Word) /\ TextBase + 4 * Len(p.text) <= StackBase
    /\ p.data \in Seq(Byte \cup {Unset})
    /\ DataBase + Max({Len(p.data), DataInitial}) <= DataLimit
    /\ p.kernel \in SUBSET Nat /\ IsFiniteSet(p.kernel)
    /\ p.entry \in Word \ {Sentinel}

-----------------------------------------------------------------------------
(* Before the first instruction, also after all were taken back or failed, *)
(* main finds its arguments as C has them: argc, an array of that many     *)
(* strings, in order, with a null pointer at its end, and a stack pointer  *)
(* on a boundary of eight bytes below which all is free.                   *)
WordAt(a) == FromBytes(BytesAt(mem, a, 4))
IsStringAt(a, bytes) ==
    /\ Span(a, Len(bytes) + 1) \subseteq Mapped
    /\ BytesAt(mem, a, Len(bytes) + 1) = Append(bytes, 0)

AreReadable(vector) ==
    LET argv == cpu.registers[5]
        sp == cpu.registers[29]
    IN  /\ cpu.registers[4] = Len(vector)
        /\ \A k \in DOMAIN vector : IsStringAt(WordAt(argv + 4 * (k - 1)), vector[k])
        /\ WordAt(argv + 4 * Len(vector)) = 0
        /\ sp % 8 = 0 /\ sp <= argv
        /\ \A a \in Mapped : StackBase <= a /\ a < sp => mem.cell[a] = Unset

ArgumentsAreReadable ==
    steps = 0 => \E vector \in ArgumentVectors : AreReadable(vector)
=============================================================================
