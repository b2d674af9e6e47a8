-------------------------------- MODULE Parser --------------------------------
(***************************************************************************)
(* From source lines to statements (parser.py).  A line is a sequence of   *)
(* one-character strings.  Two scanners walk over the same quotes: the one *)
(* that cuts the comment off a line and the one that splits the operands.  *)
(* The text of an error and the place it points at are left out.           *)
(***************************************************************************)
EXTENDS Integers, Sequences, SequencesExt

CONSTANTS
    MaxSource,     \* limits.max_source_bytes, in characters
    MaxStatements, \* limits.max_statements
    ParseError     \* any of P100 to P110

Quotes == {"\"", "'"}
Backslash == "\\"
NoQuote == "none"
Blank == " "

Digits10 == {"0", "1", "4"}                 \* the characters used
SmallLetters == {"a", "b"}
CapitalLetters == {"A", "B"}
Letters == SmallLetters \cup CapitalLetters
Lower(c) == CASE c = "A" -> "a" [] c = "B" -> "b" [] OTHER -> c

LabelStart == Letters \cup {"_", ".", "$"}   \* _LABEL
LabelChars == LabelStart \cup Digits10
OperationStart == Letters \cup {"_"}         \* _OPERATION, after a dot or none
OperationChars == OperationStart \cup Digits10 \cup {"."}

-----------------------------------------------------------------------------
(* Pieces of a line.  Ends are the place after the piece. *)

(* The first place from p on whose character is not in C. *)
PastRun(line, p, C) ==
    LET stops == {q \in p .. Len(line) : line[q] \notin C}
    IN  IF stops = {} THEN Len(line) + 1 ELSE CHOOSE q \in stops : \A r \in stops : q <= r

SkipBlanks(line, p) == PastRun(line, p, {Blank})
At(line, p, C) == p <= Len(line) /\ line[p] \in C
Rest(line, p) == SubSeq(line, p, Len(line))

(* str.strip *)
Stripped(text) ==
    LET shown == {k \in DOMAIN text : text[k] # Blank}
    IN  IF shown = {} THEN <<>>
        ELSE SubSeq(text, CHOOSE k \in shown : \A i \in shown : k <= i,
                          CHOOSE k \in shown : \A i \in shown : k >= i)

-----------------------------------------------------------------------------
(* _strip_comment. *)

Plain0 == [quote |-> NoQuote, escaped |-> FALSE]

(* Mutant of PastCharacter: a backslash does not protect a quote. *)
PastCharacterUnescaped(s, c) ==
    CASE s.quote # NoQuote /\ c = s.quote -> [s EXCEPT !.quote = NoQuote]
      [] s.quote = NoQuote /\ c \in Quotes -> [s EXCEPT !.quote = c]
      [] OTHER -> s

PastCharacter(s, c) ==
    CASE s.escaped -> [s EXCEPT !.escaped = FALSE]
      [] ~s.escaped /\ s.quote # NoQuote /\ c = Backslash -> [s EXCEPT !.escaped = TRUE]
      [] ~s.escaped /\ s.quote # NoQuote /\ c = s.quote -> [s EXCEPT !.quote = NoQuote]
      [] s.quote = NoQuote /\ c \in Quotes -> [s EXCEPT !.quote = c]
      [] OTHER -> s

(* The scanner's state after each character. *)
QuoteStates(line) ==
    LET q[k \in 0 .. Len(line)] == IF k = 0 THEN Plain0 ELSE PastCharacter(q[k - 1], line[k])
    IN  q

strip_comment(line) ==
    LET q == QuoteStates(line)
        cuts == {k \in DOMAIN line : q[k - 1].quote = NoQuote /\ line[k] \in {"#", ";"}}
    IN  IF cuts # {} THEN SubSeq(line, 1, (CHOOSE k \in cuts : \A i \in cuts : k <= i) - 1)
        ELSE IF q[Len(line)].quote # NoQuote THEN ParseError
        ELSE line

-----------------------------------------------------------------------------
(* _split_operands: the state of its loop, with the operands found so far  *)
(* and the text of the next one.                                           *)

SplitStart ==
    [quote |-> NoQuote, escaped |-> FALSE, depth |-> 0, operands |-> <<>>, text |-> <<>>,
     failed |-> FALSE]

EndOperand(s) ==
    LET operand == Stripped(s.text)
    IN  [s EXCEPT !.operands = Append(@, operand), !.text = <<>>,
                  !.failed = @ \/ operand = <<>>]

(* Mutant of SplitPlain: a comma separates inside parentheses too. *)
SplitPlainAnyDepth(s, c) ==
    LET kept == [s EXCEPT !.text = Append(@, c)]
    IN  CASE c \in Quotes -> [kept EXCEPT !.quote = c]
          [] c = "(" -> [kept EXCEPT !.depth = @ + 1]
          [] c = ")" -> [kept EXCEPT !.depth = @ - 1, !.failed = @ \/ s.depth = 0]
          [] c = "," -> EndOperand(s)
          [] OTHER -> kept

SplitPlain(s, c) ==
    LET kept == [s EXCEPT !.text = Append(@, c)]
    IN  CASE c \in Quotes -> [kept EXCEPT !.quote = c]
          [] c = "(" -> [kept EXCEPT !.depth = @ + 1]
          [] c = ")" -> [kept EXCEPT !.depth = @ - 1, !.failed = @ \/ s.depth = 0]
          [] c = "," /\ s.depth = 0 -> EndOperand(s)
          [] OTHER -> kept

SplitQuoted(s, c) ==
    LET kept == [s EXCEPT !.text = Append(@, c)]
    IN  CASE c = Backslash -> [kept EXCEPT !.escaped = TRUE]
          [] c = s.quote -> [kept EXCEPT !.quote = NoQuote]
          [] OTHER -> kept

SplitCharacter(s, c) ==
    CASE s.failed -> s
      [] ~s.failed /\ s.escaped -> [s EXCEPT !.escaped = FALSE, !.text = Append(@, c)]
      [] ~s.failed /\ ~s.escaped /\ s.quote # NoQuote -> SplitQuoted(s, c)
      [] ~s.failed /\ ~s.escaped /\ s.quote = NoQuote -> SplitPlain(s, c)

SplitState(text) == FoldLeft(SplitCharacter, SplitStart, text)

split_operands(text) ==
    LET s == SplitState(text)
        last == EndOperand(s)
    IN  IF Stripped(text) = <<>> THEN <<>>
        ELSE IF s.failed \/ s.quote # NoQuote \/ s.depth # 0 \/ last.failed THEN ParseError
        ELSE last.operands

-----------------------------------------------------------------------------
(* One line of parse_sources: no statement, one, or an error. *)

NoOperation == <<>>
ParsedStatement(labels, operation, operands) ==
    [labels |-> labels, operation |-> operation, operands |-> operands]
Equ == <<".", "e", "q", "u">>

NameAt(line, p) ==
    IF At(line, p, LabelStart) THEN SubSeq(line, p, PastRun(line, p, LabelChars) - 1) ELSE <<>>
AfterName(line, p) == SkipBlanks(line, p + Len(NameAt(line, p)))

RECURSIVE LabelsFrom(_, _, _)
LabelsFrom(line, p, labels) ==
    IF NameAt(line, p) # <<>> /\ At(line, AfterName(line, p), {":"})
    THEN LabelsFrom(line, SkipBlanks(line, AfterName(line, p) + 1),
                    Append(labels, NameAt(line, p)))
    ELSE [labels |-> labels, at |-> p]

OperationAt(line, p) ==
    LET start == IF At(line, p, {"."}) THEN p + 1 ELSE p
    IN  IF At(line, start, OperationStart)
        THEN SubSeq(line, p, PastRun(line, start, OperationChars) - 1) ELSE <<>>

ParseOperation(line, p, labels) ==
    LET operation == OperationAt(line, p)
        past == p + Len(operation)
        operands == split_operands(Rest(line, SkipBlanks(line, past)))
    IN  IF operation = <<>> \/ (past <= Len(line) /\ ~At(line, past, {Blank}))
           \/ operands = ParseError
        THEN ParseError
        ELSE <<ParsedStatement(labels, [k \in DOMAIN operation |-> Lower(operation[k])],
                               operands)>>

ParseAssignment(line, p, labels) ==
    LET expression == Stripped(Rest(line, AfterName(line, p) + 1))
    IN  IF labels # <<>> \/ expression = <<>> THEN ParseError
        ELSE <<ParsedStatement(<<>>, Equ, <<NameAt(line, p), expression>>)>>

parse_line(original) ==
    LET line == strip_comment(original)
        start == LabelsFrom(line, SkipBlanks(line, 1), <<>>)
    IN  IF line = ParseError THEN ParseError
        ELSE IF start.at > Len(line)
        THEN IF start.labels = <<>> THEN <<>>
             ELSE <<ParsedStatement(start.labels, NoOperation, <<>>)>>
        ELSE IF NameAt(line, start.at) # <<>> /\ At(line, AfterName(line, start.at), {"="})
        THEN ParseAssignment(line, start.at, start.labels)
        ELSE ParseOperation(line, start.at, start.labels)

(* parse_sources: every line of every file, or the first error. *)
parse_sources(lines) ==
    LET parsed == [k \in DOMAIN lines |-> parse_line(lines[k])]
        statements == FlattenSeq(parsed)
    IN  IF Len(FlattenSeq(lines)) > MaxSource \/ \E k \in DOMAIN lines : parsed[k] = ParseError
        THEN ParseError
        ELSE IF Len(statements) > MaxStatements THEN ParseError
        ELSE statements
=============================================================================
