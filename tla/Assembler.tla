------------------------------- MODULE Assembler -------------------------------
(***************************************************************************)
(* The two passes of assembler.py over the statements of several source    *)
(* files.  The first pass places every statement in its section, moves the *)
(* labels that still wait for storage when padding is inserted, and checks *)
(* the .set state; the second evaluates and encodes with the final         *)
(* symbols.  A program is written while it is read: each step of the first *)
(* pass reads any line the Corpus allows at that place.                    *)
(*                                                                         *)
(* The .globl lines of a file are collected before the first pass, so the  *)
(* names they declare are chosen at the start; each line itself is only a  *)
(* directive of size zero.  A line with labels is modelled as one line per *)
(* label followed by the line without them: every branch of the code       *)
(* defines the labels first, at the section's cursor.  marks and epoch are *)
(* auxiliary: they record where a label was written, and no action reads   *)
(* them.                                                                   *)
(***************************************************************************)
EXTENDS Expansion

CONSTANTS
    Files,        \* number of source files
    Names,        \* the names programs define
    Main,         \* the name of the entry
    Corpus,       \* per kind of program, the lines it may have at each place
    Exports,      \* per kind, the names each file may declare global
    SectionBase,  \* the address each section starts at
    SectionSize,  \* bytes it may grow to
    MaxSymbols

Sections == {"text", "data", "ktext", "kdata"}
TextSections == {"text", "ktext"}

ASSUME AssemblerAssumption ==
    /\ Files \in Nat \ {0} /\ Main \in Names /\ MaxSymbols \in Nat
    /\ \A kind \in DOMAIN Corpus : Exports[kind] \subseteq [1 .. Files -> SUBSET Names]
    /\ SectionBase \in [Sections -> Nat] /\ SectionSize \in [Sections -> Nat]
    /\ \A s \in TextSections : SectionBase[s] % 4 = 0

VARIABLES
    corpus,    \* which kind of program this is, and how far it is written
    declared,  \* per file, the names it declares global
    phase,     \* "first", "second", "done" or "refused"
    error,     \* the diagnostic of a refused program
    file, section, settings, stack,
    cursor,    \* per section, the address after its last object
    pending,   \* per section, the labels that await storage
    local,     \* per file, its symbols
    global,    \* the exported symbols
    located,   \* the placed statements, in order
    image,     \* per placed statement, what the second pass emitted
    public,    \* the program's symbol table
    marks,     \* per file, where each label was written
    epoch      \* per section, how often its origin changed

reading == <<file, section, settings, stack>>
layout == <<cursor, pending, local, global, located, marks, epoch>>
vars == <<corpus, declared, phase, error, reading, layout, image, public>>

-----------------------------------------------------------------------------
(* Statements. *)

Name(n) == [kind |-> "name", value |-> n]
NoOrigin == [kind |-> "none", value |-> 0]

FileLine == [kind |-> "file"]   \* the first line of the next file
LabelLine(n) == [kind |-> "label", name |-> n]
SectionLine(s, origin) == [kind |-> "section", section |-> s, origin |-> origin]
ConstantLine(n, x) == [kind |-> "constant", name |-> n, value |-> x]
SetLine(option) == [kind |-> "setting", option |-> option]
(* Of the data directives: values of the given width, then a reservation.  *)
Directive(align, width, values, reserve) ==
    [kind |-> "directive", align |-> align, width |-> width,
     values |-> values, reserve |-> reserve]
AlignLine(align) == Directive(align, 0, <<>>, Constant(0))
GlobalLine == AlignLine(1)
ValueLine(width, values) == Directive(width, width, values, Constant(0))
SpaceLine(x) == Directive(1, 1, <<>>, x)
Instruction(op, args) == [kind |-> "instruction", op |-> op, args |-> args]

(* What is left of a line once its syntax is checked: expressions have     *)
(* integers as values, alignments are powers of two, only .space, the      *)
(* directive of bytes, reserves any number of them, and an instruction has *)
(* as many operands as its operation accepts.                              *)
IsExpression(x) == x.kind = "name" \/ x.value \in Int
IsDirective(st) ==
    /\ st.align \in Nat \ {0} /\ (st.align \in {1, 2} \/ st.align % 4 = 0)
    /\ st.width \in Nat /\ st.values \in Seq(Range(st.values))
    /\ IsExpression(st.reserve)
    /\ st.width # 1 => st.reserve = Constant(0)
IsInstruction(st) ==
    /\ st.args \in Seq(Range(st.args)) /\ Len(st.args) \in OperandCounts(st.op)
    /\ st.op \in MemoryOps => st.args[3].kind \in {"register", "none"}
IsLine(st) ==
    /\ st.kind \in {"file", "label", "section", "constant", "setting",
                    "directive", "instruction"}
    /\ st.kind \in {"label", "constant"} => st.name \in Names
    /\ st.kind = "section" => st.section \in Sections /\ IsExpression(st.origin)
    /\ st.kind = "constant" => IsExpression(st.value)
    /\ st.kind = "directive" => IsDirective(st)
    /\ st.kind = "instruction" => IsInstruction(st)

ASSUME CorpusAssumption ==
    \A kind \in DOMAIN Corpus : \A i \in DOMAIN Corpus[kind] :
        \A st \in Corpus[kind][i] : IsLine(st)

(* Only .align, .balign, .globl and .word may stand in a text section.     *)
AllowedInText(st) ==
    st.width = 0 \/ (st.width = 4 /\ st.align = 4)

-----------------------------------------------------------------------------
(* Symbols. *)

Override(f, g) == [n \in DOMAIN f \cup DOMAIN g |-> IF n \in DOMAIN g THEN g[n] ELSE f[n]]
Bind(f, n, v) == Override(f, [name \in {n} |-> v])
ViewOf(l, g, f) == Override(g, l[f])
Resolve(x, view) ==
    CASE x.kind # "name" -> x
      [] x.kind = "name" /\ x.value \in DOMAIN view -> Symbolic(view[x.value])
      [] OTHER -> Unknown
ResolveAll(args, view) == [i \in DOMAIN args |-> Resolve(args[i], view)]
SymbolCount == MapThenSumSet(LAMBDA f : Cardinality(DOMAIN local[f]), 1 .. Files)

(* Defining a name in the file being read: the error it raises, if any,    *)
(* and the tables with the definition.                                     *)
DefineError(name) ==
    FirstError(<<
        Raise(name \in DOMAIN local[file], "A211"),
        Raise(SymbolCount >= MaxSymbols, "A212"),
        Raise(name \in declared[file] /\ name \in DOMAIN global, "A235")>>)

Define(name, value) ==
    /\ local' = [local EXCEPT ![file] = Bind(@, name, value)]
    /\ global' = IF name \in declared[file] THEN Bind(global, name, value) ELSE global

(* Mutant of Moved: whatever has the address of the padding moves. *)
MovedByValue(table, names, address) ==
    [n \in DOMAIN table |-> IF table[n] = cursor[section] THEN address ELSE table[n]]
(* The labels that wait for storage follow the padding, with their         *)
(* exported bindings.                                                      *)
Moved(table, names, address) ==
    [n \in DOMAIN table |-> IF n \in names THEN address ELSE table[n]]
(* Mutant of MovePending: an exported binding stays behind. *)
MovePendingLocally(address) ==
    /\ local' = [local EXCEPT ![file] = Moved(@, pending[section], address)]
    /\ UNCHANGED global
MovePending(address) ==
    /\ local' = [local EXCEPT ![file] = Moved(@, pending[section], address)]
    /\ global' = Moved(global, pending[section] \cap declared[file], address)

-----------------------------------------------------------------------------
(* First pass. *)

Undefined(x) == Raise(x.kind = "unknown", "A104")

Refused(code) ==
    /\ phase' = "refused"
    /\ error' = code
    /\ UNCHANGED <<declared, reading, layout, image, public>>

LimitError(cursors) ==
    LET full == {s \in Sections : cursors[s] - SectionBase[s] > SectionSize[s]}
    IN  CASE full = {} -> "none"
          [] full \cap TextSections # {} -> "A216"
          [] OTHER -> "A217"

Place(st, address, size) ==
    located' = Append(located, [statement |-> st, file |-> file, section |-> section,
                                address |-> address, size |-> size,
                                settings |-> settings, epoch |-> epoch[section]])

(* A label is defined at the section's cursor at once, and waits there.    *)
ReadLabel(st) ==
    /\ st.kind = "label"
    /\ IF DefineError(st.name) # "none" THEN Refused(DefineError(st.name))
       ELSE /\ Define(st.name, cursor[section])
            /\ pending' = [pending EXCEPT ![section] = @ \cup {st.name}]
            /\ marks' = [marks EXCEPT ![file] = Bind(@, st.name,
                   [section |-> section, epoch |-> epoch[section],
                    after |-> Len(located)])]
            /\ UNCHANGED <<declared, phase, error, reading, cursor, located,
                           epoch, image, public>>

(* Mutant of OriginError: an origin may move backwards within the section. *)
OriginErrorLoose(s, x, requested) ==
    FirstError(<<Undefined(x),
                 Raise(requested < SectionBase[s], "A213"),
                 Raise(requested > SectionBase[s] + SectionSize[s],
                       IF s \in TextSections THEN "A216" ELSE "A217"),
                 Raise(s \in TextSections /\ requested % 4 # 0, "A213")>>)
OriginError(s, x, requested) ==
    FirstError(<<Undefined(x),
                 Raise(requested < cursor[s], "A213"),
                 Raise(requested > SectionBase[s] + SectionSize[s],
                       IF s \in TextSections THEN "A216" ELSE "A217"),
                 Raise(s \in TextSections /\ requested % 4 # 0, "A213")>>)

(* A new origin ends the group of waiting labels of its section. *)
ReadSection(st) ==
    LET s == st.section
        x == Resolve(st.origin, ViewOf(local, global, file))
        requested == IF st.origin = NoOrigin THEN cursor[s] ELSE x.value
        code == OriginError(s, x, requested)
    IN  /\ st.kind = "section"
        /\ IF code # "none" THEN Refused(code)
           ELSE /\ section' = s
                /\ cursor' = [cursor EXCEPT ![s] = requested]
                /\ IF requested = cursor[s] THEN UNCHANGED <<pending, epoch>>
                   ELSE /\ pending' = [pending EXCEPT ![s] = {}]
                        /\ epoch' = [epoch EXCEPT ![s] = @ + 1]
                /\ UNCHANGED <<declared, phase, error, file, settings, stack, local,
                               global, located, marks, image, public>>

(* A constant keeps the value its expression had here. *)
ReadConstant(st) ==
    LET x == Resolve(st.value, ViewOf(local, global, file))
        code == FirstError(<<Undefined(x), DefineError(st.name)>>)
    IN  /\ st.kind = "constant"
        /\ IF code # "none" THEN Refused(code)
           ELSE /\ Define(st.name, x.value)
                /\ UNCHANGED <<declared, phase, error, reading, cursor, pending,
                               located, marks, epoch, image, public>>

ReadSetting(st) ==
    /\ st.kind = "setting"
    /\ IF st.option = "pop" /\ stack = <<>> THEN Refused("A238")
       ELSE /\ settings' = CASE st.option = "at" -> [settings EXCEPT !.at = TRUE]
                             [] st.option = "noat" -> [settings EXCEPT !.at = FALSE]
                             [] st.option = "macro" -> [settings EXCEPT !.macro = TRUE]
                             [] st.option = "nomacro" -> [settings EXCEPT !.macro = FALSE]
                             [] st.option = "push" -> settings
                             [] st.option = "pop" -> Last(stack)
            /\ stack' = CASE st.option = "push" -> Append(stack, settings)
                          [] st.option = "pop" -> Front(stack)
                          [] OTHER -> stack
            /\ UNCHANGED <<declared, phase, error, file, section, layout, image, public>>

Aligned(address, n) == ((address + n - 1) \div n) * n

(* Mutant of StillWaiting: padding ends the group of labels. *)
StillWaitingUnpadded(size, padded) ==
    IF size > 0 \/ padded THEN {} ELSE pending[section]
(* Padding and directives of size zero are no object: labels wait on.      *)
StillWaiting(size, padded) == IF size > 0 THEN {} ELSE pending[section]

ReadDirective(st) ==
    LET x == Resolve(st.reserve, ViewOf(local, global, file))
        size == st.width * Len(st.values) + x.value
        address == Aligned(cursor[section], st.align)
        padded == address # cursor[section]
        cursors == [cursor EXCEPT ![section] = address + size]
        code == FirstError(<<
            Raise(section \in TextSections /\ ~AllowedInText(st), "A205"),
            Undefined(x),
            Raise(x.value < 0, "A208"),
            LimitError(cursors)>>)
    IN  /\ st.kind = "directive"
        /\ IF code # "none" THEN Refused(code)
           ELSE /\ IF padded THEN MovePending(address) ELSE UNCHANGED <<local, global>>
                /\ pending' = [pending EXCEPT ![section] = StillWaiting(size, padded)]
                /\ Place(st, address, size)
                /\ cursor' = cursors
                /\ UNCHANGED <<declared, phase, error, reading, marks, epoch,
                               image, public>>

ReadInstruction(st) ==
    LET count == WordCount(st)
        cursors == [cursor EXCEPT ![section] = @ + 4 * count.value]
        code == IF section \notin TextSections THEN "A215"
                ELSE IF ~Ok(count) THEN count.error
                ELSE FirstError(<<
                    Raise(~settings.macro /\ UsesMacro(st, count.value), "A240"),
                    Raise(~settings.at /\ UsesTemporary(st, count.value), "A241"),
                    LimitError(cursors)>>)
    IN  /\ st.kind = "instruction"
        /\ IF code # "none" THEN Refused(code)
           ELSE /\ pending' = [pending EXCEPT ![section] = {}]
                /\ Place(st, cursor[section], 4 * count.value)
                /\ cursor' = cursors
                /\ UNCHANGED <<declared, phase, error, reading, local, global,
                               marks, epoch, image, public>>

PendingAtFile == [s \in Sections |-> {}]

(* A new file starts in the text section with the default settings and no  *)
(* label waiting; the sections go on where the last file left them.        *)
ReadFile(st) ==
    /\ st.kind = "file"
    /\ file < Files
    /\ file' = file + 1
    /\ section' = "text"
    /\ settings' = [at |-> TRUE, macro |-> TRUE]
    /\ stack' = <<>>
    /\ pending' = PendingAtFile
    /\ UNCHANGED <<declared, phase, error, cursor, local, global, located,
                   marks, epoch, image, public>>

Read ==
    /\ phase = "first"
    /\ corpus.next \in DOMAIN Corpus[corpus.kind]
    /\ corpus' = [corpus EXCEPT !.next = @ + 1]
    /\ \E st \in Corpus[corpus.kind][corpus.next] :
          \/ ReadFile(st) \/ ReadLabel(st) \/ ReadSection(st) \/ ReadConstant(st)
          \/ ReadSetting(st) \/ ReadDirective(st) \/ ReadInstruction(st)

-----------------------------------------------------------------------------
(* Between the passes: the symbol table and the entry. *)

FilesWith(n) == {f \in 1 .. Files : n \in DOMAIN local[f]}

OneFileNames == {n \in Names \ DOMAIN global : Cardinality(FilesWith(n)) = 1}

(* Exported names, names of one file, and the others under their file's    *)
(* name; a private name that another file exports is not in the table.     *)
PublicSymbols ==
    LET private == OneFileNames
        home(n) == CHOOSE f \in 1 .. Files : n \in DOMAIN local[f]
    IN  [plain |-> Override([n \in private |-> local[home(n)][n]], global),
         qualified |-> {d \in (1 .. Files) \X Names :
                           /\ d[2] \in DOMAIN local[d[1]] \ DOMAIN global
                           /\ Cardinality(FilesWith(d[2])) > 1}]

EntryError(plain, required) ==
    LET found == Main \in DOMAIN plain
        entry == IF found THEN plain[Main] ELSE SectionBase["text"]
    IN  FirstError(<<
            Raise(required /\ ~found /\ Cardinality(FilesWith(Main)) > 1, "A237"),
            Raise(required /\ ~found, "A228"),
            Raise(found /\ (\/ entry \notin SectionBase["text"] .. cursor["text"] - 1
                            \/ entry % 4 # 0), "A229")>>)

(* The caller says whether the program needs an entry. *)
EndFirstPass ==
    /\ phase = "first"
    /\ corpus.next \notin DOMAIN Corpus[corpus.kind]
    /\ UNCHANGED corpus
    /\ \E required \in BOOLEAN :
          LET code == EntryError(PublicSymbols.plain, required)
          IN  IF code # "none" THEN Refused(code)
              ELSE /\ phase' = "second"
                   /\ public' = PublicSymbols
                   /\ UNCHANGED <<declared, error, reading, layout, image>>

-----------------------------------------------------------------------------
(* Second pass, statement by statement, with the final symbols. *)

View(f) == ViewOf(local, global, f)
Resolved(item) ==
    Word(item.statement.op, ResolveAll(item.statement.args, View(item.file)))

FitsWidth(v, width) ==
    -(OctetMod ^ width \div 2) <= v /\ v < OctetMod ^ width

Emitted(item) ==
    IF item.statement.kind = "instruction"
    THEN SecondPass(Resolved(item), item.size \div 4, item.address)
    ELSE LET values == ResolveAll(item.statement.values, View(item.file))
             width == item.statement.width
             code(x) == IF x.kind = "unknown" THEN "A104"
                        ELSE Raise(~FitsWidth(x.value, width), "A225")
             first == FirstError([i \in DOMAIN values |-> code(values[i])])
         IN  IF first # "none" THEN Refuse(first) ELSE Yield(values)

Emit ==
    /\ phase = "second"
    /\ Len(image) < Len(located)
    /\ UNCHANGED corpus
    /\ LET result == Emitted(located[Len(image) + 1])
       IN  IF ~Ok(result) THEN Refused(result.error)
           ELSE /\ image' = Append(image, result.value)
                /\ UNCHANGED <<declared, phase, error, reading, layout, public>>

Finished ==
    /\ phase = "second"
    /\ Len(image) = Len(located)
    /\ phase' = "done"
    /\ UNCHANGED <<corpus, declared, error, reading, layout, image, public>>

-----------------------------------------------------------------------------
NoSymbols == [f \in 1 .. Files |-> <<>>]

Init ==
    /\ corpus \in [kind : DOMAIN Corpus, next : {1}]
    /\ declared \in Exports[corpus.kind]
    /\ phase = "first" /\ error = "none"
    /\ file = 1 /\ section = "text"
    /\ settings = [at |-> TRUE, macro |-> TRUE] /\ stack = <<>>
    /\ cursor = SectionBase
    /\ pending = [s \in Sections |-> {}]
    /\ local = NoSymbols /\ global = <<>>
    /\ located = <<>> /\ image = <<>>
    /\ public = [plain |-> <<>>, qualified |-> {}]
    /\ marks = NoSymbols
    /\ epoch = [s \in Sections |-> 0]

Next == Read \/ EndFirstPass \/ Emit \/ Finished
Spec == Init /\ [][Next]_vars

-----------------------------------------------------------------------------
(* A label is the address of the first nonempty object of its section that *)
(* follows it in its file, however much padding, empty data, metadata and  *)
(* work in other sections lies between, unless the section got a new       *)
(* origin; until there is one it is where the next byte would go.          *)
LabelsMeetTheirObject ==
    \A f \in 1 .. Files : \A n \in DOMAIN marks[f] :
        LET m == marks[f][n]
            objects == {i \in m.after + 1 .. Len(located) :
                          /\ located[i].file = f /\ located[i].section = m.section
                          /\ located[i].size > 0 /\ located[i].epoch = m.epoch}
        IN  IF objects # {} THEN local[f][n] = located[Min(objects)].address
            ELSE file = f /\ epoch[m.section] = m.epoch
                   => local[f][n] = cursor[m.section]

(* An exported name has one value in every file: the one of the only file  *)
(* that both declares and defines it, also after padding moved the label;  *)
(* and a plain name in the program's symbol table is never one of two      *)
(* private definitions.                                                    *)
ExportsAgree ==
    /\ \A f \in 1 .. Files : DOMAIN local[f] \cap declared[f] \subseteq DOMAIN global
    /\ \A n \in DOMAIN global :
          LET exporters == {f \in 1 .. Files : n \in DOMAIN local[f] \cap declared[f]}
          IN  Cardinality(exporters) = 1 /\ \A f \in exporters : local[f][n] = global[n]
    /\ \A n \in DOMAIN public.plain : \A f \in FilesWith(n) :
          local[f][n] # public.plain[n] => n \in DOMAIN global /\ n \notin declared[f]

(* A constant keeps its value, even when it was computed from a label that *)
(* moves later, and even when its value is the address of a label that     *)
(* moves.                                                                  *)
ConstantsNeverMove ==
    [][\A f \in 1 .. Files : \A n \in DOMAIN local[f] \ DOMAIN marks[f] :
          local'[f][n] = local[f][n]]_vars

(* No two placed objects overlap, in one file or across files, and all lie *)
(* within the limits of their section; text stays word aligned.            *)
LayoutIsSound ==
    /\ \A i, j \in DOMAIN located :
          /\ i < j
          /\ located[i].section = located[j].section
          => located[i].address + located[i].size <= located[j].address
    /\ \A i \in DOMAIN located :
          LET o == located[i]
          IN  /\ o.address >= SectionBase[o.section]
              /\ o.address + o.size <= SectionBase[o.section] + SectionSize[o.section]
              /\ o.section \in TextSections => o.address % 4 = 0

(* The statements the second pass has emitted. *)
EmittedInstructions ==
    {i \in DOMAIN image : located[i].statement.kind = "instruction"}

(* Under .set noat no word of an accepted statement writes $at, unless the *)
(* statement names $at as its destination itself; under .set nomacro an    *)
(* accepted statement is assembled as it stands.                           *)
SettingsHold ==
    \A i \in EmittedInstructions :
        LET o == located[i]
        IN  /\ ~o.settings.at /\ ~NamesTemporary(o.statement) =>
                  \A k \in DOMAIN image[i] : ~NamesTemporary(image[i][k])
            /\ ~o.settings.macro => image[i] = <<Resolved(o)>>

(* The statements on which the passes are known to disagree: a shift by    *)
(* two operands whose first is an immediate, and an immediate set whose    *)
(* last operand is a register.                                             *)
KnownDisagreement(st) ==
    \/ st.op \in ShiftSourceOps /\ Len(st.args) = 2 /\ ~IsRegister(st.args[1])
    \/ st.op \in ImmediateSets /\ IsRegister(st.args[3])

(* The second pass emits exactly the words the first pass reserved, for    *)
(* every operand form and for symbols whose value only the second knows;   *)
(* it fails on its own assertions on the known statements only.            *)
PassesAgree ==
    error = "internal" => KnownDisagreement(located[Len(image) + 1].statement)
=============================================================================
