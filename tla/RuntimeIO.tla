------------------------------ MODULE RuntimeIO ------------------------------
(***************************************************************************)
(* The program's standard input and output (runtime_io.py, RuntimeIO).     *)
(*                                                                         *)
(* An io record is [buffer, position, output].  The buffer grows by lines  *)
(* the input provider hands over when a read finds it exhausted; position  *)
(* counts the bytes consumed; output is what the program has printed.      *)
(*                                                                         *)
(* A read asks the provider as often as it must: it is the set of its      *)
(* results over the answers it may get.  "eof" is an empty answer (or no   *)
(* provider at all), and it does not last: a later read asks again.        *)
(***************************************************************************)
EXTENDS Integers, Sequences

CONSTANTS
    Lines,        \* the non-empty answers the provider may give; {}: no provider
    Feeds,        \* what several answers may add up to, <<>> among them
    InputLimit,   \* limits.max_input_bytes
    OutputLimit,  \* limits.max_output_bytes
    TokenLimit,   \* limits.max_input_token_bytes
    Newline, Plus, Minus,  \* bytes that reads treat specially
    Blanks,       \* the bytes that separate tokens
    Digits,       \* Digits[d + 1] is the byte of decimal digit d
    MaxDigits,    \* external: int() refuses more digits than this
    IntMax,       \* the largest signed word, 2^31 - 1
    Escapes       \* the exceptions other than RuntimeFault that may occur

ASSUME RuntimeIOAssumption ==
    /\ Lines \subseteq Seq(Int) \ {<<>>}
    /\ <<>> \in Feeds /\ Feeds \subseteq Seq(Int)
    /\ InputLimit \in Nat /\ OutputLimit \in Nat /\ TokenLimit \in Nat
    /\ Newline \in Blanks
    /\ Digits \in Seq(Int)
    /\ Plus # Minus
    /\ MaxDigits \in Nat /\ IntMax \in Nat
    /\ Escapes \subseteq {"provider", "sink", "digits"}

-----------------------------------------------------------------------------
(* Where a read ends.  A request is [what, max]; "token" ignores max.      *)

OneByte == [what |-> "bytes", max |-> 1]
LineOf(n) == [what |-> "line", max |-> n]
BytesOf(n) == [what |-> "bytes", max |-> n]
Token == [what |-> "token", max |-> 0]

FirstOf(S) == CHOOSE e \in S : \A f \in S : e <= f

(* _read_token skips blanks, then takes what comes before the next one. *)
TokenOf(bytes) ==
    LET n == Len(bytes)
        start == FirstOf({k \in 0 .. n : k = n \/ bytes[k + 1] \notin Blanks})
        end == FirstOf({k \in start .. n : k = n \/ bytes[k + 1] \in Blanks})
    IN  SubSeq(bytes, start + 1, end)

EndsAt(want, s, p, e) ==
    CASE want.what = "bytes" -> e = p + want.max
      [] want.what = "line" -> \/ e = p + want.max
                               \/ e > p /\ s[e] = Newline
      [] want.what = "token" -> LET token == TokenOf(SubSeq(s, p + 1, e))
                                IN  \/ Len(token) > TokenLimit
                                    \/ token # <<>> /\ s[e] \in Blanks

(* The positions at which the read may stop; empty if it wants more input. *)
Ends(want, s, p) == {e \in p .. Len(s) : EndsAt(want, s, p, e)}

-----------------------------------------------------------------------------
(* _refill and read_byte: feed is what the provider has handed over while  *)
(* the read still wanted more.  Then an answer satisfies it or overflows   *)
(* the input limit (R311: that answer is lost), or the provider is at the  *)
(* end of its input or fails.                                              *)

Fed(io, feed) == io.buffer \o feed

Wanting(io, want, feed) == Ends(want, Fed(io, feed), io.position) = {}

Consumed(io, feed, end) == [io EXCEPT !.buffer = Fed(io, feed), !.position = end]

(* The bytes a read takes when it ends at a position. *)
Taken(io, feed, end) == SubSeq(Fed(io, feed), io.position + 1, end)

Result(status, io, bytes) == [status |-> status, io |-> io, bytes |-> bytes]

Satisfied(io, want, feed) ==
    LET end == FirstOf(Ends(want, Fed(io, feed), io.position))
    IN  Result("done", Consumed(io, feed, end), Taken(io, feed, end))

Exhausted(io, feed, status) ==
    LET end == Len(Fed(io, feed))
    IN  Result(status, Consumed(io, feed, end), Taken(io, feed, end))

Answered(io, want, feed, line) ==
    IF Len(Fed(io, feed \o line)) > InputLimit
    THEN {Exhausted(io, feed, "fault")}
    ELSE IF Wanting(io, want, feed \o line) THEN {}
    ELSE {Satisfied(io, want, feed \o line)}

Reads(io, want) ==
    IF ~Wanting(io, want, <<>>) THEN {Satisfied(io, want, <<>>)}
    ELSE UNION {{Exhausted(io, feed, "eof")}
                \cup {Exhausted(io, feed, "raise") : x \in Escapes \cap {"provider"}}
                \cup UNION {Answered(io, want, feed, line) : line \in Lines} :
                   feed \in {f \in Feeds : /\ Wanting(io, want, f)
                                          /\ Len(Fed(io, f)) <= InputLimit}}

(* read_byte, read_line, read_bytes: end of input only shortens the result. *)
ReadBytes(io, want) ==
    {IF r.status = "eof" THEN [r EXCEPT !.status = "done"] ELSE r :
        r \in Reads(io, want)}

(* _read_token: end of input ends a token, but there must be one (R300,    *)
(* R309), and it must not be too long (R312).                              *)
ReadToken(io) ==
    {LET token == TokenOf(r.bytes)
     IN  [r EXCEPT !.bytes = token,
                   !.status = IF @ \in {"fault", "raise"} THEN @
                              ELSE IF token = <<>> \/ Len(token) > TokenLimit
                              THEN "fault" ELSE "done"] :
        r \in Reads(io, Token)}

-----------------------------------------------------------------------------
(* read_int: an optional sign and the digits that follow it; a token that  *)
(* does not start like a number is 0.                                      *)

IsDigit(byte) == \E i \in DOMAIN Digits : Digits[i] = byte
DigitValue(byte) == (CHOOSE i \in DOMAIN Digits : Digits[i] = byte) - 1

Unsigned(token) ==
    IF token # <<>> /\ token[1] \in {Plus, Minus} THEN Tail(token) ELSE token

DigitPrefix(s) ==
    SubSeq(s, 1, FirstOf({n \in 0 .. Len(s) :
                             n = Len(s) \/ ~IsDigit(s[n + 1])}))

Magnitude(digits) ==
    LET value[n \in 0 .. Len(digits)] ==
            IF n = 0 THEN 0
            ELSE Len(Digits) * value[n - 1] + DigitValue(digits[n])
    IN  value[Len(digits)]

Integer(token) ==
    LET m == Magnitude(DigitPrefix(Unsigned(token)))
    IN  IF token # <<>> /\ token[1] = Minus THEN -m ELSE m

ReadInt(io) ==
    {LET digits == DigitPrefix(Unsigned(r.bytes))
         refused == "digits" \in Escapes /\ Len(digits) > MaxDigits
         value == Integer(r.bytes)
     IN  IF r.status # "done" THEN [status |-> r.status, io |-> r.io, value |-> 0]
         ELSE IF refused THEN [status |-> "raise", io |-> r.io, value |-> 0]
         ELSE [status |-> IF -IntMax - 1 <= value /\ value <= IntMax
                          THEN "done" ELSE "fault",
               io |-> r.io, value |-> value] :
        r \in ReadToken(io)}

-----------------------------------------------------------------------------
(* write: over the limit is a fault (R303); the sink is called last.       *)
WriteResults(io, payload) ==
    LET longer == [io EXCEPT !.output = @ \o payload]
    IN  IF Len(io.output) + Len(payload) > OutputLimit
        THEN {Result("fault", io, <<>>)}
        ELSE {Result("done", longer, <<>>)}
             \cup {Result("raise", longer, <<>>) : x \in Escapes \cap {"sink"}}

(* Mutants of RestoreIO: unread input is dropped; its arguments swapped.   *)
RestoreIODroppingInput(io, position, length) ==
    [io EXCEPT !.buffer = SubSeq(@, 1, position), !.position = position,
               !.output = SubSeq(@, 1, length)]
RestoreIOSwapped(io, position, length) ==
    [io EXCEPT !.position = length,
               !.output = SubSeq(@, 1, IF position < Len(@) THEN position ELSE Len(@))]

(* restore: the consumed input is offered again, later output is deleted.  *)
RestoreIO(io, position, length) ==
    [io EXCEPT !.position = position, !.output = SubSeq(@, 1, length)]
=============================================================================
