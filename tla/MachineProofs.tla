---------------------------- MODULE MachineProofs ----------------------------
(***************************************************************************)
(* Time travel is exact, for every program, memory layout, limit, input    *)
(* and host: what each instruction changes is undone by its own record,    *)
(* and a fault leaves no trace.  The one assumption is that nothing but    *)
(* RuntimeFault is raised inside an instruction (Escapes = {}).            *)
(*                                                                         *)
(* Under it the machine's state also keeps its shape and its limits:       *)
(* registers hold words, memory and files bytes, the heap is mapped,       *)
(* reaching the return address ends the program, and no change of memory   *)
(* leaves a reservation behind.                                            *)
(*                                                                         *)
(* Whatever is taken back, a machine without steps is as __init__ built    *)
(* it; and __init__ builds, from every program and all arguments that fit, *)
(* a state in which main finds its arguments.                              *)
(*                                                                         *)
(* The arithmetic obeys the laws of AluLaws on words of every width.       *)
(***************************************************************************)
EXTENDS ReversibleMachine, Loader, AluLaws, MemoryProofs, FileSystemProofs

-----------------------------------------------------------------------------
(* What reading and printing do to the state of RuntimeIO, for every       *)
(* provider, limit and request: reading prints nothing and loses no input, *)
(* printing only appends.                                                  *)

GoodIO(x) == /\ x = [buffer |-> x.buffer, position |-> x.position, output |-> x.output]
             /\ IsSequence(x.buffer) /\ IsSequence(x.output)
             /\ x.position \in Nat

(* long begins with short. *)
Begins(long, short) ==
    Len(short) <= Len(long) /\ SubSeq(long, 1, Len(short)) = short

(* The io record y after x read from its input. *)
HasRead(x, y) == /\ GoodIO(y)
                 /\ y.output = x.output
                 /\ Begins(y.buffer, x.buffer)

(* r is the result of a read from x. *)
IsRead(x, r) == /\ r = [status |-> r.status, io |-> r.io, bytes |-> r.bytes]
                /\ HasRead(x, r.io) /\ IsSequence(r.bytes)

(* The io record y after x printed. *)
HasPrinted(x, y) == /\ GoodIO(y)
                    /\ Begins(y.output, x.output)
                    /\ y.buffer = x.buffer

LEMMA BeginsWithItself ==
  ASSUME NEW s, IsSequence(s)
  PROVE  Begins(s, s)
<1>1. Len(s) \in Nat
  BY LengthIsNatural
<1> QED
  BY <1>1, WholeIsSlice DEF Begins

(* Taking more input and moving the position to any place. *)
LEMMA ConsumedHasRead ==
  ASSUME NEW x, GoodIO(x), NEW feed, IsSequence(feed), NEW end \in Nat
  PROVE  /\ HasRead(x, Consumed(x, feed, end))
         /\ IsSequence(Taken(x, feed, end))
<1> DEFINE y == Consumed(x, feed, end)
<1>1. IsSequence(x.buffer) /\ IsSequence(x.output) /\ x.position \in Nat
  BY DEF GoodIO
<1>2. y = [buffer |-> x.buffer \o feed, position |-> end, output |-> x.output]
  <2>1. x = [buffer |-> x.buffer, position |-> x.position, output |-> x.output]
    BY DEF GoodIO
  <2>2. y = [x EXCEPT !.buffer = Fed(x, feed), !.position = end]
    BY DEF Consumed
  <2>3. y = [buffer |-> Fed(x, feed), position |-> end, output |-> x.output]
    BY <2>1, <2>2
  <2> QED
    BY <2>3 DEF Fed
<1>3. /\ IsSequence(x.buffer \o feed)
      /\ Len(x.buffer \o feed) = Len(x.buffer) + Len(feed)
      /\ SubSeq(x.buffer \o feed, 1, Len(x.buffer)) = x.buffer
  BY <1>1, ConcatIsSequence
<1>4. Len(x.buffer) \in Nat /\ Len(feed) \in Nat
  BY <1>1, LengthIsNatural
<1>5. Begins(x.buffer \o feed, x.buffer)
  BY <1>3, <1>4 DEF Begins
<1>6. IsSequence(Taken(x, feed, end))
  BY <1>1, SliceIsSequence DEF Taken
<1> QED
  BY <1>1, <1>2, <1>3, <1>5, <1>6 DEF HasRead, GoodIO

LEMMA SatisfiedHasRead ==
  ASSUME NEW x, GoodIO(x), NEW want, NEW feed, IsSequence(feed),
         ~Wanting(x, want, feed)
  PROVE  LET r == Satisfied(x, want, feed)
         IN  IsRead(x, r) /\ r.status = "done"
<1> DEFINE E == Ends(want, Fed(x, feed), x.position)
           end == FirstOf(E)
<1>1. E # {}
  BY DEF Wanting
<1>2. E \in SUBSET Nat
  BY DEF Ends, GoodIO
<1> HIDE DEF E
<1>3. end \in E
  <2>1. \E e \in E : \A f \in E : e <= f
    BY <1>1, <1>2, LeastNatural
  <2> QED
    BY <2>1 DEF FirstOf
<1>4. end \in Nat
  BY <1>2, <1>3
<1>5. Satisfied(x, want, feed) =
        [status |-> "done", io |-> Consumed(x, feed, end), bytes |-> Taken(x, feed, end)]
  BY DEF Satisfied, Result, E
<1> HIDE DEF end
<1> QED
  BY <1>4, <1>5, ConsumedHasRead DEF IsRead

LEMMA ExhaustedHasRead ==
  ASSUME NEW x, GoodIO(x), NEW feed, IsSequence(feed), NEW status
  PROVE  LET r == Exhausted(x, feed, status)
         IN  IsRead(x, r) /\ r.status = status
<1> DEFINE end == Len(Fed(x, feed))
<1>1. end \in Nat
  BY ConcatIsSequence, LengthIsNatural DEF GoodIO, Fed
<1>2. Exhausted(x, feed, status) =
        [status |-> status, io |-> Consumed(x, feed, end), bytes |-> Taken(x, feed, end)]
  BY DEF Exhausted, Result
<1> HIDE DEF end
<1> QED
  BY <1>1, <1>2, ConsumedHasRead DEF IsRead

Statuses == {"done", "eof", "fault"}

(* Every read keeps all the input there was, takes bytes, and prints       *)
(* nothing; without a failing provider it never raises.                    *)
LEMMA ReadsHaveRead ==
  ASSUME Escapes = {}, NEW x, GoodIO(x), NEW want, NEW r \in Reads(x, want)
  PROVE  IsRead(x, r) /\ r.status \in Statuses
<1>1. IsSequence(<<>>)
  BY EmptyIsSequence
<1>2. CASE ~Wanting(x, want, <<>>)
  <2>1. r = Satisfied(x, want, <<>>)
    BY <1>2 DEF Reads
  <2> QED
    BY <1>1, <1>2, <2>1, SatisfiedHasRead DEF Statuses
<1>3. CASE Wanting(x, want, <<>>)
  <2>1. PICK feed \in Feeds :
           r \in {Exhausted(x, feed, "eof")}
                 \cup {Exhausted(x, feed, "raise") : e \in Escapes \cap {"provider"}}
                 \cup UNION {Answered(x, want, feed, line) : line \in Lines}
    BY <1>3 DEF Reads
  <2>2. IsSequence(feed)
    BY RuntimeIOAssumption DEF IsSequence
  <2>3. CASE r = Exhausted(x, feed, "eof")
    BY <2>2, <2>3, ExhaustedHasRead DEF Statuses
  <2>4. CASE \E line \in Lines : r \in Answered(x, want, feed, line)
    <3>1. PICK line \in Lines : r \in Answered(x, want, feed, line)
      BY <2>4
    <3>2. IsSequence(line)
      BY RuntimeIOAssumption DEF IsSequence
    <3>3. IsSequence(feed \o line)
      BY <2>2, <3>2, ConcatIsSequence
    <3>4. CASE r = Exhausted(x, feed, "fault")
      BY <2>2, <3>4, ExhaustedHasRead DEF Statuses
    <3>5. CASE r # Exhausted(x, feed, "fault")
      <4>1. r = Satisfied(x, want, feed \o line) /\ ~Wanting(x, want, feed \o line)
        BY <3>1, <3>5 DEF Answered
      <4> QED
        BY <3>3, <4>1, SatisfiedHasRead DEF Statuses
    <3> QED
      BY <3>4, <3>5
  <2> QED
    BY <2>1, <2>3, <2>4
<1> QED
  BY <1>2, <1>3

LEMMA ReadBytesHasRead ==
  ASSUME Escapes = {}, NEW x, GoodIO(x), NEW want, NEW r \in ReadBytes(x, want)
  PROVE  IsRead(x, r) /\ r.status \in {"done", "fault"}
<1>1. PICK s \in Reads(x, want) :
         r = IF s.status = "eof" THEN [s EXCEPT !.status = "done"] ELSE s
  BY DEF ReadBytes
<1>2. IsRead(x, s) /\ s.status \in Statuses
  BY ReadsHaveRead
<1> QED
  BY <1>1, <1>2 DEF Statuses, IsRead

LEMMA ReadTokenHasRead ==
  ASSUME Escapes = {}, NEW x, GoodIO(x), NEW r \in ReadToken(x)
  PROVE  /\ r = [status |-> r.status, io |-> r.io, bytes |-> r.bytes]
         /\ HasRead(x, r.io) /\ r.status \in {"done", "fault"}
<1>1. PICK s \in Reads(x, Token) :
         LET token == TokenOf(s.bytes)
         IN  r = [s EXCEPT !.bytes = token,
                           !.status = IF @ \in {"fault", "raise"} THEN @
                                      ELSE IF token = <<>> \/ Len(token) > TokenLimit
                                      THEN "fault" ELSE "done"]
  BY DEF ReadToken
<1>2. IsRead(x, s) /\ s.status \in Statuses
  BY ReadsHaveRead
<1> QED
  BY <1>1, <1>2 DEF Statuses, IsRead

LEMMA ReadIntHasRead ==
  ASSUME Escapes = {}, NEW x, GoodIO(x), NEW r \in ReadInt(x)
  PROVE  HasRead(x, r.io) /\ r.status \in {"done", "fault"}
<1>1. PICK s \in ReadToken(x) :
         LET digits == DigitPrefix(Unsigned(s.bytes))
             refused == "digits" \in Escapes /\ Len(digits) > MaxDigits
             value == Integer(s.bytes)
         IN  r = IF s.status # "done" THEN [status |-> s.status, io |-> s.io, value |-> 0]
                 ELSE IF refused THEN [status |-> "raise", io |-> s.io, value |-> 0]
                 ELSE [status |-> IF -IntMax - 1 <= value /\ value <= IntMax
                                  THEN "done" ELSE "fault",
                       io |-> s.io, value |-> value]
  BY DEF ReadInt
<1>2. HasRead(x, s.io) /\ s.status \in {"done", "fault"}
  BY ReadTokenHasRead
<1> QED
  BY <1>1, <1>2

-----------------------------------------------------------------------------
(* Printing appends the whole payload, or nothing. *)
LEMMA WritesHavePrinted ==
  ASSUME Escapes = {}, NEW x, GoodIO(x), NEW payload, IsSequence(payload),
         NEW r \in WriteResults(x, payload)
  PROVE  HasPrinted(x, r.io) /\ r.status \in {"done", "fault"}
<1>1. IsSequence(x.output)
  BY DEF GoodIO
<1>2. CASE r = Result("fault", x, <<>>)
  BY <1>1, <1>2, BeginsWithItself DEF Result, HasPrinted
<1>3. CASE r = Result("done", [x EXCEPT !.output = @ \o payload], <<>>)
  <2> DEFINE y == [x EXCEPT !.output = @ \o payload]
  <2>1. y = [buffer |-> x.buffer, position |-> x.position, output |-> x.output \o payload]
    BY DEF GoodIO
  <2>2. /\ IsSequence(x.output \o payload)
        /\ Len(x.output \o payload) = Len(x.output) + Len(payload)
        /\ SubSeq(x.output \o payload, 1, Len(x.output)) = x.output
    BY <1>1, ConcatIsSequence
  <2>3. Len(x.output) \in Nat /\ Len(payload) \in Nat
    BY <1>1, LengthIsNatural
  <2>4. Begins(y.output, x.output)
    BY <2>1, <2>2, <2>3 DEF Begins
  <2>5. GoodIO(y) /\ y.buffer = x.buffer
    BY <2>1, <2>2 DEF GoodIO
  <2>6. r.io = y /\ r.status = "done"
    BY <1>3 DEF Result
  <2> QED
    BY <2>4, <2>5, <2>6 DEF HasPrinted
<1> QED
  BY <1>2, <1>3 DEF WriteResults

-----------------------------------------------------------------------------
(* The machine. *)

WellFormed(v) ==
    /\ v = [cpu |-> v.cpu, mem |-> v.mem, position |-> v.position,
            output |-> v.output, fs |-> v.fs]
    /\ GoodMemory(v.mem)
    /\ v.position \in Nat
    /\ IsSequence(v.output)
    /\ GoodFiles(v.fs)

GoodCache(c) == \A p \in DOMAIN c : \A file \in c[p] : IsSequence(file)

(* The inductive invariant: UndoChain, with the shape of the state now and *)
(* of every state a step back leads to.                                    *)
Inv == /\ GoodIO(io) /\ GoodCache(cache)
       /\ WellFormed(Now)
       /\ IsSequence(history) /\ IsSequence(past)
       /\ steps \in Nat /\ Len(history) <= steps
       /\ \A i \in 1 .. Len(past) : WellFormed(past[i])
       /\ UndoChain

(* An outcome whose changes its own record takes back. *)
Undoable(o) ==
    /\ o = [kind |-> o.kind, cpu |-> o.cpu, mem |-> o.mem, io |-> o.io,
            fs |-> o.fs, cache |-> o.cache, changes |-> o.changes]
    /\ o.kind \in {"done", "fault"}
    /\ GoodMemory(o.mem)
    /\ RestoredMem(o.mem, Snapshot(o.changes)) = mem
    /\ GoodIO(o.io)
    /\ Begins(o.io.output, io.output) /\ Begins(o.io.buffer, io.buffer)
    /\ GoodFiles(o.fs) /\ GoodCache(o.cache)

-----------------------------------------------------------------------------
(* RememberedEntries, for sequences of anything. *)
LEMMA RememberedSequence ==
  ASSUME NEW s, IsSequence(s), NEW e
  PROVE  /\ IsSequence(Remembered(s, e))
         /\ Len(Remembered(s, e)) = Len(s) + 1 - Dropped(s)
         /\ \A i \in 1 .. Len(Remembered(s, e)) :
               Remembered(s, e)[i] = IF i + Dropped(s) = Len(s) + 1 THEN e
                                     ELSE s[i + Dropped(s)]
<1>1. PICK S : s \in Seq(S)
  BY DEF IsSequence
<1> DEFINE T == S \cup {e}
<1>2. s \in Seq(T) /\ e \in T
  BY <1>1, SeqMonotonic
<1> HIDE DEF T
<1> QED
  BY <1>2, RememberedEntries DEF IsSequence

LEMMA ForgottenSequence ==
  ASSUME NEW s, IsSequence(s), s # <<>>
  PROVE  /\ Len(s) \in Nat \ {0}
         /\ IsSequence(Forgotten(s))
         /\ Len(Forgotten(s)) = Len(s) - 1
         /\ \A i \in 1 .. Len(s) - 1 : Forgotten(s)[i] = s[i]
<1>1. PICK S : s \in Seq(S)
  BY DEF IsSequence
<1> QED
  BY <1>1, ForgottenEntries DEF IsSequence

-----------------------------------------------------------------------------
LEMMA InitHolds == Init => Inv
<1> SUFFICES ASSUME Init PROVE Inv
  OBVIOUS
<1>1. PICK boot \in Boots :
         /\ cpu = FirstCpu(boot)
         /\ mem = boot.mem
         /\ io = [buffer |-> boot.input, position |-> 0, output |-> <<>>]
         /\ fs = NoFiles /\ cache = <<>>
         /\ steps = 0 /\ history = <<>> /\ past = <<>>
  BY DEF Init
<1>2. /\ boot \in BootState /\ Canonical(boot.mem) /\ IsFiniteSet(boot.mem.present)
      /\ Cardinality(boot.mem.present) <= MaxPages
  BY MachineAssumption
<1>3. boot.mem \in Memory /\ boot.input \in Seq(Byte)
  BY <1>2 DEF BootState
<1>4. GoodMemory(mem)
  <2>1. boot.mem = [cell |-> [x \in Mapped |-> boot.mem.cell[x]],
                    present |-> boot.mem.present, dataEnd |-> boot.mem.dataEnd]
    BY <1>3 DEF Memory
  <2>2. boot.mem.present \in SUBSET Nat
    BY <1>3 DEF Memory
  <2> QED
    BY <1>1, <1>2, <2>1, <2>2 DEF GoodMemory
<1>5. IsSequence(<<>>)
  BY EmptyIsSequence
<1>6. IsSequence(boot.input)
  BY <1>3 DEF IsSequence
<1>7. GoodIO(io)
  BY <1>1, <1>5, <1>6 DEF GoodIO
<1>8. WellFormed(Now)
  BY <1>1, <1>4, <1>5, NoFilesIsGood DEF WellFormed, Now, View
<1>9. GoodCache(cache)
  BY <1>1 DEF GoodCache
<1> QED
  BY <1>1, <1>5, <1>7, <1>8, <1>9 DEF Inv, UndoChain

-----------------------------------------------------------------------------
(* How an instruction ends. *)

(* The record takes the state its instruction led to back to where it was. *)
LEMMA RecordTakesBack ==
  ASSUME Inv, NEW o, Undoable(o), NEW c
  PROVE  TakenBack(View(c, o.mem, o.io, o.fs), Snapshot(o.changes)) = Now
<1>1. /\ Snapshot(o.changes).cpu = cpu
      /\ Snapshot(o.changes).position = io.position
      /\ Snapshot(o.changes).outputLength = Len(io.output)
      /\ Snapshot(o.changes).fs = fs
  BY DEF Snapshot
<1>2. /\ RestoredMem(o.mem, Snapshot(o.changes)) = mem
      /\ SubSeq(o.io.output, 1, Len(io.output)) = io.output
  BY DEF Undoable, Begins
<1> DEFINE v == View(c, o.mem, o.io, o.fs)
<1>3. v.mem = o.mem /\ v.output = o.io.output
  BY DEF View
<1> HIDE DEF v
<1>4. TakenBack(v, Snapshot(o.changes)) =
        [cpu |-> cpu, mem |-> mem, position |-> io.position, output |-> io.output,
         fs |-> fs]
  BY <1>1, <1>2, <1>3 DEF TakenBack
<1> QED
  BY <1>4 DEF v, Now, View

LEMMA RollBackLeavesNoTrace ==
  ASSUME Inv, NEW o, Undoable(o), RollBack(o)
  PROVE  Now' = Now
<1>1. /\ cpu' = cpu /\ fs' = fs
      /\ mem' = RestoredMem(o.mem, Snapshot(o.changes))
      /\ io' = RestoreIO(o.io, io.position, Len(io.output))
  BY DEF RollBack, Snapshot, RestoredIO
<1>2. mem' = mem
  BY <1>1 DEF Undoable
<1>3. io'.position = io.position /\ io'.output = io.output
  <2>1. o.io = [buffer |-> o.io.buffer, position |-> o.io.position,
                output |-> o.io.output]
    BY DEF Undoable, GoodIO
  <2>2. io' = [buffer |-> o.io.buffer, position |-> io.position,
               output |-> SubSeq(o.io.output, 1, Len(io.output))]
    BY <1>1, <2>1 DEF RestoreIO
  <2> QED
    BY <2>2 DEF Undoable, Begins
<1> QED
  BY <1>1, <1>2, <1>3 DEF Now, View

(* The record of a completed instruction extends the chain. *)
LEMMA CompleteHolds ==
  ASSUME Inv, NEW o, Undoable(o), Complete(o)
  PROVE  /\ Inv'
         /\ past' = Remembered(past, Now) /\ steps' = steps + 1
         /\ Begins(io'.output, io.output) /\ Begins(io'.buffer, io.buffer)
<1> DEFINE e == Snapshot(o.changes)
           n == Len(history)
           d == Dropped(history)
<1>1. /\ cpu' = o.cpu /\ mem' = o.mem /\ io' = o.io /\ fs' = o.fs /\ cache' = o.cache
      /\ steps' = steps + 1
      /\ history' = Remembered(history, e) /\ past' = Remembered(past, Now)
  BY DEF Complete
<1>2. Now' = View(o.cpu, o.mem, o.io, o.fs)
  BY <1>1 DEF Now
<1>3. GoodIO(io') /\ GoodCache(cache')
  BY <1>1 DEF Undoable
<1>4. WellFormed(Now')
  BY <1>2 DEF Undoable, WellFormed, View, GoodIO
<1>5. TakenBack(Now', e) = Now
  BY <1>2, RecordTakesBack
<1>6. /\ IsSequence(history) /\ IsSequence(past) /\ Len(past) = n
      /\ n \in Nat /\ d \in {0, 1} /\ Dropped(past) = d
  BY SequenceDomain DEF Inv, UndoChain, Dropped
<1> HIDE DEF e
<1>7. /\ IsSequence(history')
      /\ Len(history') = n + 1 - d
      /\ \A i \in 1 .. Len(history') :
            history'[i] = IF i + d = n + 1 THEN e ELSE history[i + d]
  BY <1>1, <1>6, RememberedSequence
<1>8. /\ IsSequence(past')
      /\ Len(past') = n + 1 - d
      /\ \A i \in 1 .. Len(past') :
            past'[i] = IF i + d = n + 1 THEN Now ELSE past[i + d]
  <2>1. LET r == Remembered(past, Now)
        IN  /\ IsSequence(r)
            /\ Len(r) = Len(past) + 1 - Dropped(past)
            /\ \A i \in 1 .. Len(r) :
                  r[i] = IF i + Dropped(past) = Len(past) + 1 THEN Now
                         ELSE past[i + Dropped(past)]
    BY <1>6, RememberedSequence
  <2> QED
    BY <1>1, <1>6, <2>1
<1> HIDE DEF d
<1>9. ASSUME NEW i \in 1 .. Len(past')
      PROVE  WellFormed(past'[i])
  <2>1. CASE i + d = n + 1
    BY <1>8, <2>1 DEF Inv
  <2>2. CASE i + d # n + 1
    <3>1. i + d \in 1 .. n
      BY <1>6, <1>8, <2>2
    <3> QED
      BY <1>6, <1>8, <2>2, <3>1 DEF Inv
  <2> QED
    BY <2>1, <2>2
<1>10. ASSUME NEW i \in DOMAIN history'
       PROVE  TakenBack(After(i)', history'[i]) = past'[i]
  <2>1. i \in 1 .. n + 1 - d
    BY <1>7, SequenceDomain
  <2>2. CASE i + d = n + 1
    <3>1. i = Len(history')
      BY <1>6, <1>7, <2>1, <2>2
    <3>2. After(i)' = Now'
      BY <3>1 DEF After
    <3>3. history'[i] = e /\ past'[i] = Now
      BY <1>7, <1>8, <2>1, <2>2
    <3> QED
      BY <1>5, <3>2, <3>3
  <2>3. CASE i + d # n + 1
    <3>1. i + d \in 1 .. n /\ i # Len(history') /\ i + 1 \in 1 .. Len(past')
      BY <1>6, <1>7, <1>8, <2>1, <2>3
    <3>2. history'[i] = history[i + d] /\ past'[i] = past[i + d]
      BY <1>7, <1>8, <2>1, <2>3
    <3>3. After(i)' = past'[i + 1]
      BY <3>1 DEF After
    <3>4. past'[i + 1] = IF i + d = n THEN Now ELSE past[i + d + 1]
      BY <1>6, <1>8, <2>1, <3>1
    <3>5. past'[i + 1] = After(i + d)
      BY <3>4 DEF After, n
    <3>6. i + d \in DOMAIN history
      BY <1>6, <3>1, SequenceDomain
    <3>7. TakenBack(After(i + d), history[i + d]) = past[i + d]
      BY <3>6 DEF Inv, UndoChain
    <3> QED
      BY <3>2, <3>3, <3>5, <3>7
  <2> QED
    BY <2>2, <2>3
<1>11. UndoChain'
  BY <1>7, <1>8, <1>10 DEF UndoChain
<1>12. steps' \in Nat /\ Len(history') <= steps'
  <2>1. steps \in Nat /\ n <= steps
    BY DEF Inv
  <2> HIDE DEF n
  <2> QED
    BY <1>1, <1>6, <1>7, <2>1
<1>13. Begins(io'.output, io.output) /\ Begins(io'.buffer, io.buffer)
  BY <1>1 DEF Undoable
<1>14. Inv'
  BY <1>3, <1>4, <1>7, <1>8, <1>9, <1>11, <1>12 DEF Inv
<1> QED
  BY <1>1, <1>13, <1>14

LEMMA RollBackHolds ==
  ASSUME Inv, NEW o, Undoable(o), RollBack(o)
  PROVE  /\ Inv'
         /\ Now' = Now /\ UNCHANGED <<past, steps>>
         /\ io'.output = io.output /\ Begins(io'.buffer, io.buffer)
<1>1. /\ cache' = o.cache /\ UNCHANGED <<steps, history, past>>
      /\ io' = RestoreIO(o.io, io.position, Len(io.output))
  BY DEF RollBack, Snapshot, RestoredIO
<1>2. Now' = Now
  BY RollBackLeavesNoTrace
<1>3. io'.output = io.output /\ io'.position = io.position
  BY <1>2 DEF Now, View
<1>4. o.io = [buffer |-> o.io.buffer, position |-> o.io.position,
              output |-> o.io.output] /\ IsSequence(o.io.buffer)
  BY DEF Undoable, GoodIO
<1>5. io'.buffer = o.io.buffer /\ io' = [buffer |-> io'.buffer,
         position |-> io'.position, output |-> io'.output]
  BY <1>1, <1>4 DEF RestoreIO
<1>6. GoodIO(io')
  BY <1>3, <1>4, <1>5 DEF GoodIO, Inv
<1>7. Begins(io'.buffer, io.buffer)
  BY <1>5 DEF Undoable
<1>8. GoodCache(cache')
  BY <1>1 DEF Undoable
<1>9. UndoChain'
  BY <1>1, <1>2 DEF Inv, UndoChain, After
<1> QED
  BY <1>1, <1>2, <1>3, <1>6, <1>7, <1>8, <1>9 DEF Inv

(* An outcome's registers do not matter: the record has the old ones. *)
LEMMA RegistersDoNotMatter ==
  ASSUME NEW o, Undoable(o), NEW c
  PROVE  Undoable([o EXCEPT !.cpu = c])
<1> DEFINE p == [o EXCEPT !.cpu = c]
<1>1. p = [kind |-> o.kind, cpu |-> c, mem |-> o.mem, io |-> o.io,
           fs |-> o.fs, cache |-> o.cache, changes |-> o.changes]
  BY DEF Undoable
<1> QED
  BY <1>1 DEF Undoable

(* What a step forward does, whichever instruction it is. *)
Forward == \E o, next : Undoable(o) /\ Finish(o, next)

Completed == /\ past' = Remembered(past, Now) /\ steps' = steps + 1
             /\ Begins(io'.output, io.output) /\ Begins(io'.buffer, io.buffer)

RolledBack == /\ Now' = Now /\ UNCHANGED <<past, steps>>
              /\ io'.output = io.output /\ Begins(io'.buffer, io.buffer)

LEMMA ForwardHolds ==
  ASSUME Inv, Forward
  PROVE  Inv' /\ (Completed \/ RolledBack)
<1>1. PICK o, next : Undoable(o) /\ Finish(o, next)
  BY DEF Forward
<1>2. o.kind \in {"done", "fault"}
  BY <1>1 DEF Undoable
<1>3. CASE o.kind = "done"
  <2> DEFINE p == [o EXCEPT !.cpu = Goto(@, next)]
  <2>1. Complete(p)
    BY <1>1, <1>3 DEF Finish
  <2>2. p = [o EXCEPT !.cpu = Goto(o.cpu, next)]
    OBVIOUS
  <2>3. Undoable(p)
    BY <1>1, <2>2, RegistersDoNotMatter
  <2> HIDE DEF p
  <2> QED
    BY <2>1, <2>3, CompleteHolds DEF Completed
<1>4. CASE o.kind = "fault"
  <2>1. RollBack(o)
    BY <1>1, <1>4 DEF Finish
  <2> QED
    BY <1>1, <2>1, RollBackHolds DEF RolledBack
<1> QED
  BY <1>2, <1>3, <1>4

-----------------------------------------------------------------------------
(* A step back: by the chain, it leads to the newest state remembered. *)
LEMMA RewindHolds ==
  ASSUME Inv, Rewind
  PROVE  /\ Inv'
         /\ past # <<>> /\ Now' = past[Len(past)] /\ past' = Forgotten(past)
         /\ steps' = steps - 1
         /\ Begins(io'.buffer, io.buffer)
<1> DEFINE n == Len(history)
           record == Latest(history)
<1>1. /\ IsSequence(history) /\ IsSequence(past) /\ history # <<>>
      /\ Len(past) = n /\ steps \in Nat /\ n <= steps
  BY DEF Inv, UndoChain, Rewind
<1>2. n \in Nat \ {0} /\ past # <<>>
  <2>1. n \in Nat \ {0}
    BY <1>1, ForgottenSequence
  <2>2. Len(<<>>) = 0
    OBVIOUS
  <2> QED
    BY <1>1, <2>1, <2>2
<1>3. n \in DOMAIN history
  BY <1>1, <1>2, SequenceDomain
<1>4. TakenBack(Now, record) = past[n]
  BY <1>3 DEF Inv, UndoChain, After, Latest
<1>5. /\ cpu' = record.cpu /\ mem' = RestoredMem(mem, record)
      /\ io' = RestoreIO(io, record.position, record.outputLength)
      /\ fs' = record.fs /\ cache' = cache
      /\ history' = Forgotten(history) /\ past' = Forgotten(past)
      /\ steps' = IF steps > 0 THEN steps - 1 ELSE 0
  BY DEF Rewind, RestoredIO
<1>6. /\ io = [buffer |-> io.buffer, position |-> io.position, output |-> io.output]
      /\ IsSequence(io.buffer)
  BY DEF Inv, GoodIO
<1>7. io' = [buffer |-> io.buffer, position |-> record.position,
             output |-> SubSeq(io.output, 1, record.outputLength)]
  BY <1>5, <1>6 DEF RestoreIO
<1> HIDE DEF record
<1>8. Now' = past[n]
  <2>1. Now.mem = mem /\ Now.output = io.output
    BY DEF Now, View
  <2>2. TakenBack(Now, record) =
          [cpu |-> record.cpu, mem |-> RestoredMem(mem, record),
           position |-> record.position,
           output |-> SubSeq(io.output, 1, record.outputLength), fs |-> record.fs]
    BY <2>1 DEF TakenBack
  <2>3. Now' = [cpu |-> cpu', mem |-> mem', position |-> io'.position,
                output |-> io'.output, fs |-> fs']
    BY DEF Now, View
  <2>4. io'.position = record.position
        /\ io'.output = SubSeq(io.output, 1, record.outputLength)
    BY <1>7
  <2> QED
    BY <1>4, <1>5, <2>2, <2>3, <2>4
<1>9. WellFormed(Now')
  BY <1>1, <1>2, <1>8 DEF Inv
<1>10. GoodIO(io')
  <2>1. io'.position = Now'.position /\ io'.output = Now'.output
    BY DEF Now, View
  <2> QED
    BY <1>6, <1>7, <1>9, <2>1 DEF WellFormed, GoodIO
<1>11. Begins(io'.buffer, io.buffer)
  BY <1>6, <1>7, BeginsWithItself
<1>12. /\ IsSequence(history') /\ Len(history') = n - 1
       /\ \A i \in 1 .. n - 1 : history'[i] = history[i]
  BY <1>1, <1>5, ForgottenSequence
<1>13. /\ IsSequence(past') /\ Len(past') = n - 1
       /\ \A i \in 1 .. n - 1 : past'[i] = past[i]
  BY <1>1, <1>2, <1>5, ForgottenSequence
<1>14. ASSUME NEW i \in DOMAIN history'
       PROVE  TakenBack(After(i)', history'[i]) = past'[i]
  <2>1. i \in 1 .. n - 1
    BY <1>12, SequenceDomain
  <2>2. i \in DOMAIN history /\ i # n
    BY <1>1, <1>2, <2>1, SequenceDomain
  <2>3. history'[i] = history[i] /\ past'[i] = past[i]
    BY <1>12, <1>13, <2>1
  <2>4. After(i)' = After(i)
    <3>1. CASE i = n - 1
      BY <1>2, <1>8, <1>12, <2>2, <3>1 DEF After
    <3>2. CASE i # n - 1
      <4>1. i + 1 \in 1 .. n - 1
        BY <1>2, <2>1, <3>2
      <4> QED
        BY <1>12, <1>13, <2>2, <3>2, <4>1 DEF After
    <3> QED
      BY <3>1, <3>2
  <2> QED
    BY <2>2, <2>3, <2>4 DEF Inv, UndoChain
<1>15. UndoChain'
  BY <1>12, <1>13, <1>14 DEF UndoChain
<1>16. steps' \in Nat /\ n - 1 <= steps' /\ steps' = steps - 1
  BY <1>1, <1>2, <1>5
<1>17. \A i \in 1 .. Len(past') : WellFormed(past'[i])
  <2>1. \A i \in 1 .. n - 1 : i \in 1 .. n
    BY <1>2
  <2> QED
    BY <1>1, <1>13, <2>1 DEF Inv
<1>18. GoodCache(cache')
  BY <1>5 DEF Inv
<1>19. Inv'
  BY <1>9, <1>10, <1>12, <1>13, <1>15, <1>16, <1>17, <1>18 DEF Inv
<1> QED
  BY <1>1, <1>2, <1>5, <1>8, <1>11, <1>16, <1>19

-----------------------------------------------------------------------------
(* Outcomes, from the simplest. *)

LEMMA DoneIsUndoable ==
  ASSUME Inv
  PROVE  Undoable(Done) /\ Undoable(Faulted)
<1>1. /\ GoodMemory(mem) /\ GoodFiles(fs) /\ GoodIO(io) /\ GoodCache(cache)
  BY DEF Inv, WellFormed, Now, View
<1>2. Restore(mem, NoChanges) = mem
  BY <1>1, RestoreNothing
<1>3. mem = [cell |-> mem.cell, present |-> mem.present, dataEnd |-> mem.dataEnd]
  BY <1>1 DEF GoodMemory
<1>4. RestoredMem(mem, Snapshot(NoChanges)) = mem
  BY <1>2, <1>3 DEF RestoredMem, Snapshot, RestoreDataEnd
<1>5. Begins(io.output, io.output) /\ Begins(io.buffer, io.buffer)
  BY <1>1, BeginsWithItself DEF GoodIO
<1>6. \A kind \in {"done", "fault"} : Undoable(Outcome(kind))
  BY <1>1, <1>4, <1>5 DEF Outcome, Undoable
<1> QED
  BY <1>6 DEF Done, Faulted

LEMMA RequireIsUndoable ==
  ASSUME Inv, NEW condition, NEW o, condition => Undoable(o)
  PROVE  Undoable(Require(condition, o))
BY DoneIsUndoable DEF Require

LEMMA SettingIsUndoable ==
  ASSUME NEW o, Undoable(o), NEW r, NEW value, NEW pair
  PROVE  /\ Undoable(SetRegister(o, r, value))
         /\ Undoable(SetFpu(o, r, value))
         /\ Undoable(SetHiLo(o, pair))
<1>1. SetRegister(o, r, value) =
        IF r = 0 THEN o
        ELSE [o EXCEPT !.cpu = [o.cpu EXCEPT !.registers[r] = U(value)]]
  BY DEF SetRegister
<1>2. SetFpu(o, r, value) = [o EXCEPT !.cpu = [o.cpu EXCEPT !.fpu[r] = U(value)]]
  BY DEF SetFpu
<1>3. SetHiLo(o, pair) =
        [o EXCEPT !.cpu = [o.cpu EXCEPT !.hi = pair.hi, !.lo = pair.lo]]
  BY DEF SetHiLo, Undoable
<1> QED
  BY <1>1, <1>2, <1>3, RegistersDoNotMatter

(* One field of an outcome changed. *)
LEMMA ChangedKind ==
  ASSUME NEW o, Undoable(o), NEW kind \in {"done", "fault"}
  PROVE  Undoable([o EXCEPT !.kind = kind])
<1> DEFINE p == [o EXCEPT !.kind = kind]
<1>1. p = [kind |-> kind, cpu |-> o.cpu, mem |-> o.mem, io |-> o.io,
           fs |-> o.fs, cache |-> o.cache, changes |-> o.changes]
  BY DEF Undoable
<1> QED
  BY <1>1 DEF Undoable

LEMMA ChangedIO ==
  ASSUME NEW o, Undoable(o), NEW x, GoodIO(x),
         Begins(x.output, io.output), Begins(x.buffer, io.buffer)
  PROVE  Undoable([o EXCEPT !.io = x])
<1> DEFINE p == [o EXCEPT !.io = x]
<1>1. p = [kind |-> o.kind, cpu |-> o.cpu, mem |-> o.mem, io |-> x,
           fs |-> o.fs, cache |-> o.cache, changes |-> o.changes]
  BY DEF Undoable
<1> QED
  BY <1>1 DEF Undoable

LEMMA ChangedFiles ==
  ASSUME NEW o, Undoable(o), NEW s, GoodFiles(s)
  PROVE  Undoable([o EXCEPT !.fs = s])
<1> DEFINE p == [o EXCEPT !.fs = s]
<1>1. p = [kind |-> o.kind, cpu |-> o.cpu, mem |-> o.mem, io |-> o.io,
           fs |-> s, cache |-> o.cache, changes |-> o.changes]
  BY DEF Undoable
<1> QED
  BY <1>1 DEF Undoable

LEMMA ChangedCache ==
  ASSUME NEW o, Undoable(o), NEW c, GoodCache(c)
  PROVE  Undoable([o EXCEPT !.cache = c])
<1> DEFINE p == [o EXCEPT !.cache = c]
<1>1. p = [kind |-> o.kind, cpu |-> o.cpu, mem |-> o.mem, io |-> o.io,
           fs |-> o.fs, cache |-> c, changes |-> o.changes]
  BY DEF Undoable
<1> QED
  BY <1>1 DEF Undoable

(* The memory of an outcome changed, with the changes that take it back. *)
LEMMA ChangedMemory ==
  ASSUME NEW o, Undoable(o), NEW m, GoodMemory(m), NEW changes,
         RestoredMem(m, Snapshot(changes)) = mem
  PROVE  Undoable([[o EXCEPT !.mem = m] EXCEPT !.changes = changes])
<1> DEFINE p == [o EXCEPT !.mem = m]
           q == [p EXCEPT !.changes = changes]
<1>1. p = [kind |-> o.kind, cpu |-> o.cpu, mem |-> m, io |-> o.io,
           fs |-> o.fs, cache |-> o.cache, changes |-> o.changes]
  BY DEF Undoable
<1> HIDE DEF p
<1>2. q = [kind |-> o.kind, cpu |-> o.cpu, mem |-> m, io |-> o.io,
           fs |-> o.fs, cache |-> o.cache, changes |-> changes]
  BY <1>1
<1> HIDE DEF q
<1>3. Undoable(q)
  BY <1>2 DEF Undoable
<1> QED
  BY <1>3 DEF p, q

(* A write to memory, by a store or for a system call. *)
LEMMA WritingIsUndoable ==
  ASSUME Inv, NEW o, Undoable(o), o.mem = mem,
         NEW a, NEW bytes, IsSequence(bytes), NEW alignment
  PROVE  LET w == WriteBytes(mem, a, bytes, alignment)
         IN  Undoable([o EXCEPT !.kind = IF w.ok THEN o.kind ELSE "fault",
                                !.mem = w.mem, !.changes = w.changes])
<1> DEFINE w == WriteBytes(mem, a, bytes, alignment)
           end == IF w.ok THEN o.kind ELSE "fault"
<1>1. GoodMemory(mem)
  BY DEF Inv, WellFormed, Now, View
<1>2. /\ w.ok \in BOOLEAN /\ GoodMemory(w.mem)
      /\ w.mem.dataEnd = mem.dataEnd /\ Restore(w.mem, w.changes) = mem
  BY <1>1, WriteBytesIsUndoable DEF IsSequence
<1>3. mem = [cell |-> mem.cell, present |-> mem.present, dataEnd |-> mem.dataEnd]
  BY <1>1 DEF GoodMemory
<1>4. end \in {"done", "fault"}
  BY DEF Undoable
<1> HIDE DEF w, end
<1>5. RestoredMem(w.mem, Snapshot(w.changes)) = mem
  BY <1>2, <1>3 DEF RestoredMem, Snapshot, RestoreDataEnd
<1> DEFINE p == [o EXCEPT !.kind = end]
           q == [[p EXCEPT !.mem = w.mem] EXCEPT !.changes = w.changes]
<1>6. Undoable(p)
  BY <1>4, ChangedKind
<1> HIDE DEF p
<1>7. Undoable(q)
  BY <1>2, <1>5, <1>6, ChangedMemory
<1>8. [o EXCEPT !.kind = end, !.mem = w.mem, !.changes = w.changes] = q
  BY DEF p
<1> QED
  BY <1>7, <1>8 DEF w, end

LEMMA StoredIsUndoable ==
  ASSUME Inv, NEW a, NEW bytes, IsSequence(bytes), NEW alignment
  PROVE  Undoable(Stored(a, bytes, alignment))
<1> DEFINE w == WriteBytes(mem, a, bytes, alignment)
           q == [Done EXCEPT !.kind = IF w.ok THEN "done" ELSE "fault",
                             !.mem = w.mem, !.changes = w.changes]
<1>1. Undoable(Done) /\ Done.mem = mem /\ Done.kind = "done"
  BY DoneIsUndoable DEF Done, Outcome
<1>2. Undoable(q)
  BY <1>1, WritingIsUndoable
<1>3. Stored(a, bytes, alignment) = [q EXCEPT !.cpu.reservation = None]
  BY DEF Stored
<1> HIDE DEF q
<1> QED
  BY <1>2, <1>3, RegistersDoNotMatter

LEMMA DeliverIsUndoable ==
  ASSUME Inv, NEW o, Undoable(o), o.mem = mem, NEW a, NEW bytes, IsSequence(bytes)
  PROVE  Undoable(Deliver(o, a, bytes))
<1> DEFINE w == WriteBytes(mem, a, bytes, 1)
           q == [o EXCEPT !.kind = IF w.ok THEN o.kind ELSE "fault",
                          !.mem = w.mem, !.changes = w.changes]
<1>1. Undoable(q)
  BY WritingIsUndoable
<1>2. Deliver(o, a, bytes) =
        [q EXCEPT !.cpu.reservation = IF bytes = <<>> THEN @ ELSE None]
  BY DEF Deliver
<1> HIDE DEF q
<1> QED
  BY <1>1, <1>2, RegistersDoNotMatter

LEMMA BytesAreSequences ==
  /\ \A value : \A n \in Nat : IsSequence(ToBytes(value, n))
  /\ \A m, a : \A n \in Nat : IsSequence(BytesAt(m, a, n))
<1>1. ASSUME NEW value, NEW n \in Nat
      PROVE  IsSequence(ToBytes(value, n))
  <2> DEFINE S == {(value \div Weight[i]) % OctetMod : i \in 1 .. n}
  <2>1. ToBytes(value, n) \in [1 .. n -> S]
    BY DEF ToBytes
  <2> HIDE DEF S
  <2> QED
    BY <2>1, FunctionIsSequence
<1>2. ASSUME NEW m, NEW a, NEW n \in Nat
      PROVE  IsSequence(BytesAt(m, a, n))
  <2> DEFINE S == {ByteAt(m, a + i - 1) : i \in 1 .. n}
  <2>1. BytesAt(m, a, n) \in [1 .. n -> S]
    BY DEF BytesAt
  <2> HIDE DEF S
  <2> QED
    BY <2>1, FunctionIsSequence
<1> QED
  BY <1>1, <1>2

-----------------------------------------------------------------------------
(* Every instruction finishes an outcome that can be taken back. *)

LEMMA RegisterInstructions ==
  ASSUME Inv, StepArithmetic \/ StepHiLo \/ StepControl \/ StepMoveFpu
  PROVE  Forward
<1>1. Undoable(Done) /\ Undoable(Faulted)
  BY DoneIsUndoable
<1>2. CASE StepCompute
  BY <1>1, <1>2, SettingIsUndoable, RequireIsUndoable DEF StepCompute, Forward
<1>3. CASE StepConditionalMove
  BY <1>1, <1>3, SettingIsUndoable, RequireIsUndoable DEF StepConditionalMove, Forward
<1>4. CASE StepTrap
  BY <1>1, <1>4, RequireIsUndoable DEF StepTrap, Forward
<1>5. CASE StepBreak
  BY <1>1, <1>5 DEF StepBreak, Forward
<1>6. CASE StepMoveFromHiLo
  BY <1>1, <1>6, SettingIsUndoable, RequireIsUndoable DEF StepMoveFromHiLo, Forward
<1>7. CASE StepMoveToHiLo
  <2>1. \A x : Undoable([Done EXCEPT !.cpu.hi = x]) /\ Undoable([Done EXCEPT !.cpu.lo = x])
    BY <1>1, RegistersDoNotMatter
  <2> QED
    BY <1>7, <2>1, RequireIsUndoable DEF StepMoveToHiLo, Forward
<1>8. CASE StepMultiply
  BY <1>1, <1>8, SettingIsUndoable, RequireIsUndoable DEF StepMultiply, Forward
<1>9. CASE StepAccumulate
  BY <1>1, <1>9, SettingIsUndoable, RequireIsUndoable DEF StepAccumulate, Forward
<1>10. CASE StepDivide
  BY <1>1, <1>10, SettingIsUndoable, RequireIsUndoable DEF StepDivide, Forward
<1>11. CASE StepBranch
  BY <1>1, <1>11, SettingIsUndoable, RequireIsUndoable DEF StepBranch, Forward
<1>12. CASE StepJump
  BY <1>1, <1>12, SettingIsUndoable DEF StepJump, Forward
<1>13. CASE StepJumpRegister
  BY <1>1, <1>13, SettingIsUndoable, RequireIsUndoable DEF StepJumpRegister, Forward
<1>14. CASE StepMoveFpu
  BY <1>1, <1>14, SettingIsUndoable, RequireIsUndoable DEF StepMoveFpu, Forward
<1> QED
  BY <1>2, <1>3, <1>4, <1>5, <1>6, <1>7, <1>8, <1>9, <1>10, <1>11, <1>12, <1>13, <1>14
  DEF StepArithmetic, StepHiLo, StepControl

LEMMA ReservationDoesNotMatter ==
  ASSUME NEW o, Undoable(o), NEW x
  PROVE  Undoable([o EXCEPT !.cpu.reservation = x])
<1>1. [o EXCEPT !.cpu.reservation = x] =
        [o EXCEPT !.cpu = [o.cpu EXCEPT !.reservation = x]]
  OBVIOUS
<1> QED
  BY <1>1, RegistersDoNotMatter

LEMMA LoadInstructions ==
  ASSUME Inv, StepLoad \/ StepLoadUnaligned \/ StepLoadFpu
  PROVE  Forward
<1>1. Undoable(Done)
  BY DoneIsUndoable
<1>2. CASE StepLoad
  <2>1. \A r, value : /\ Undoable(SetRegister(Done, r, value))
                      /\ \A x : Undoable([SetRegister(Done, r, value)
                                           EXCEPT !.cpu.reservation = x])
    BY <1>1, SettingIsUndoable, ReservationDoesNotMatter
  <2> QED
    BY <1>2, <2>1, RequireIsUndoable DEF StepLoad, Forward
<1>3. CASE StepLoadUnaligned
  BY <1>1, <1>3, SettingIsUndoable, RequireIsUndoable DEF StepLoadUnaligned, Forward
<1>4. CASE StepLoadFpu
  BY <1>1, <1>4, SettingIsUndoable, RequireIsUndoable DEF StepLoadFpu, Forward
<1> QED
  BY <1>2, <1>3, <1>4

LEMMA StoreInstructions ==
  ASSUME Inv, StepStore \/ StepStoreConditional \/ StepStoreUnaligned \/ StepStoreFpu
  PROVE  Forward
<1>1. Undoable(Done) /\ Undoable(Faulted)
  BY DoneIsUndoable
<1>2. \A a, value, alignment : \A n \in Nat : Undoable(Stored(a, ToBytes(value, n), alignment))
  BY BytesAreSequences, StoredIsUndoable
<1>3. CASE StepStore
  <2> DEFINE n == Width(Instruction.op)
             o == Stored(Address, ToBytes(Right, n), n)
  <2>1. n \in Nat
    BY DEF Width
  <2>2. Finish(Require(KnownOperands, o), NextPc)
    BY <1>3 DEF StepStore
  <2>3. Undoable(o)
    BY <1>2, <2>1
  <2> HIDE DEF o
  <2> QED
    BY <2>2, <2>3, RequireIsUndoable DEF Forward
<1>4. CASE StepStoreConditional
  <2> DEFINE i == Instruction
             stored == SetRegister(Stored(Address, ToBytes(Right, 4), 4), i.dest, 1)
             failed == [SetRegister(Done, i.dest, 0) EXCEPT !.cpu.reservation = None]
  <2>1. Undoable(stored)
    BY <1>2, SettingIsUndoable
  <2>2. Undoable(failed)
    BY <1>1, SettingIsUndoable, ReservationDoesNotMatter
  <2>3. Finish(IF ~KnownBase THEN Faulted
               ELSE IF cpu.reservation = Address THEN Require(KnownOperands, stored)
               ELSE Require(Writable(mem, Address, 4, 4), failed),
               NextPc)
    BY <1>4 DEF StepStoreConditional
  <2> HIDE DEF stored, failed
  <2> QED
    BY <1>1, <2>1, <2>2, <2>3, RequireIsUndoable DEF Forward
<1>5. CASE StepStoreUnaligned
  <2>1. PICK offset \in 0 .. 3 :
           Finish(Require(KnownOperands,
                          IF Instruction.op = "swl"
                          THEN Stored(WordStart(Address), LeftBytes(Right, offset), 1)
                          ELSE Stored(Address, RightBytes(Right, offset), 1)),
                  NextPc)
    BY <1>5 DEF StepStoreUnaligned
  <2>2. LeftCount(offset) \in Nat /\ RightCount(offset) \in Nat
    BY DEF LeftCount, RightCount
  <2>3. Undoable(Stored(WordStart(Address), LeftBytes(Right, offset), 1))
    BY <1>2, <2>2 DEF LeftBytes
  <2>4. Undoable(Stored(Address, RightBytes(Right, offset), 1))
    BY <1>2, <2>2 DEF RightBytes
  <2> QED
    BY <2>1, <2>3, <2>4, RequireIsUndoable DEF Forward
<1>6. CASE StepStoreFpu
  <2> DEFINE f == Instruction.dest
             low == ToBytes(Fpu(f), 4)
             high == ToBytes(Fpu(f + 1), 4)
  <2>1. IsSequence(low) /\ IsSequence(low \o high)
    BY BytesAreSequences, ConcatIsSequence
  <2>2. Undoable(Stored(Address, low, 4)) /\ Undoable(Stored(Address, low \o high, 8))
    BY <2>1, StoredIsUndoable
  <2>3. Finish(IF Instruction.op = "swc1"
               THEN Require(KnownBase /\ KnownFpu({f}), Stored(Address, low, 4))
               ELSE Require(KnownBase /\ EvenPair(f) /\ KnownFpu({f, f + 1}),
                            Stored(Address, low \o high, 8)),
               NextPc)
    BY <1>6 DEF StepStoreFpu
  <2> HIDE DEF low, high, f
  <2> QED
    BY <2>2, <2>3, RequireIsUndoable DEF Forward
<1> QED
  BY <1>3, <1>4, <1>5, <1>6

-----------------------------------------------------------------------------
(* System calls. *)

LEMMA OneOfHolds ==
  ASSUME NEW S, \A o \in S : Undoable(o), FinishOneOf(S)
  PROVE  Forward
BY DEF FinishOneOf, Forward

(* What is read or printed is taken back with it. *)
LEMMA TransferIsUndoable ==
  ASSUME Inv, NEW r, HasRead(io, r.io) \/ HasPrinted(io, r.io),
         r.status \in {"done", "fault"}
  PROVE  LET o == [Done EXCEPT !.io = r.io, !.kind = r.status]
         IN  Undoable(o) /\ o.mem = mem /\ o.fs = fs
<1> DEFINE p == [Done EXCEPT !.io = r.io]
           q == [p EXCEPT !.kind = r.status]
<1>1. Undoable(Done) /\ Done.mem = mem /\ Done.fs = fs
  BY DoneIsUndoable DEF Done, Outcome
<1>2. /\ GoodIO(r.io)
      /\ Begins(r.io.output, io.output) /\ Begins(r.io.buffer, io.buffer)
  BY BeginsWithItself DEF Inv, GoodIO, HasRead, HasPrinted
<1>3. Undoable(p)
  BY <1>1, <1>2, ChangedIO
<1>4. p.mem = mem /\ p.fs = fs
  BY <1>1
<1> HIDE DEF p
<1>5. Undoable(q)
  BY <1>3, ChangedKind
<1>6. q.mem = mem /\ q.fs = fs
  BY <1>3, <1>4 DEF Undoable
<1>7. [Done EXCEPT !.io = r.io, !.kind = r.status] = q
  BY DEF p
<1> QED
  BY <1>5, <1>6, <1>7

LEMMA PrintingSyscalls ==
  ASSUME Escapes = {}, Inv, SyscallPrintValue \/ SyscallPrintString
  PROVE  Forward
<1>1. GoodIO(io) /\ Undoable(Faulted)
  BY DoneIsUndoable DEF Inv
<1>2. ASSUME NEW text, IsSequence(text), NEW o \in WithIO(WriteResults(io, text), AsIs)
      PROVE  Undoable(o)
  <2>1. PICK r \in WriteResults(io, text) : o = [Done EXCEPT !.io = r.io, !.kind = r.status]
    BY <1>2 DEF WithIO, AsIs
  <2>2. HasPrinted(io, r.io) /\ r.status \in {"done", "fault"}
    BY <1>1, <1>2, WritesHavePrinted
  <2> QED
    BY <2>1, <2>2, TransferIsUndoable
<1>3. CASE SyscallPrintValue
  <2>1. \A text \in Printed : IsSequence(text)
    <3>1. \A x : <<x>> \in Seq({x})
      OBVIOUS
    <3> QED
      BY <3>1, MachineAssumption DEF Printed, IsSequence
  <2> DEFINE S == IF PrintArguments
                  THEN UNION {WithIO(WriteResults(io, text), AsIs) : text \in Printed}
                  ELSE {Faulted}
  <2>2. FinishOneOf(S)
    BY <1>3 DEF SyscallPrintValue
  <2>3. \A o \in S : Undoable(o)
    BY <1>1, <1>2, <2>1
  <2> HIDE DEF S
  <2> QED
    BY <2>2, <2>3, OneOfHolds
<1>4. CASE SyscallPrintString
  <2> DEFINE Lengths == CStringLengths(mem, A0, MaxString)
             S == IF Known({4}) /\ Lengths # {}
                  THEN UNION {WithIO(WriteResults(io, StringAt(A0, n)), AsIs) : n \in Lengths}
                  ELSE {Faulted}
  <2>1. FinishOneOf(S)
    BY <1>4 DEF SyscallPrintString
  <2>2. \A n \in Lengths : n \in Nat
    BY MachineAssumption DEF CStringLengths
  <2>3. \A n \in Lengths : IsSequence(StringAt(A0, n))
    BY <2>2, BytesAreSequences DEF StringAt
  <2> HIDE DEF Lengths
  <2>4. \A o \in S : Undoable(o)
    BY <1>1, <1>2, <2>3
  <2> HIDE DEF S
  <2> QED
    BY <2>1, <2>4, OneOfHolds
<1> QED
  BY <1>3, <1>4

LEMMA ReadingSyscalls ==
  ASSUME Escapes = {}, Inv,
         SyscallReadInt \/ SyscallReadChar \/ SyscallReadFloat \/ SyscallReadLine
  PROVE  Forward
<1>1. GoodIO(io) /\ Undoable(Faulted) /\ Undoable(Done)
  BY DoneIsUndoable DEF Inv
<1>2. CASE SyscallReadInt
  <2> DEFINE S == WithIO(ReadInt(io), LAMBDA o, r : SetRegister(o, 2, r.value))
  <2>1. FinishOneOf(S)
    BY <1>2 DEF SyscallReadInt
  <2>2. ASSUME NEW o \in S PROVE Undoable(o)
    <3>1. PICK r \in ReadInt(io) :
             o = LET p == [Done EXCEPT !.io = r.io, !.kind = r.status]
                 IN  IF r.status = "done" THEN SetRegister(p, 2, r.value) ELSE p
      BY DEF WithIO
    <3>2. HasRead(io, r.io) /\ r.status \in {"done", "fault"}
      BY <1>1, ReadIntHasRead
    <3>3. Undoable([Done EXCEPT !.io = r.io, !.kind = r.status])
      BY <3>2, TransferIsUndoable
    <3> QED
      BY <3>1, <3>3, SettingIsUndoable
  <2> HIDE DEF S
  <2> QED
    BY <2>1, <2>2, OneOfHolds
<1>3. CASE SyscallReadChar
  <2> DEFINE Char(r) == IF r.bytes = <<>> THEN -1 ELSE r.bytes[1]
             S == WithIO(ReadBytes(io, OneByte), LAMBDA o, r : SetRegister(o, 2, Char(r)))
  <2>1. FinishOneOf(S)
    BY <1>3 DEF SyscallReadChar
  <2>2. ASSUME NEW o \in S PROVE Undoable(o)
    <3>1. PICK r \in ReadBytes(io, OneByte) :
             o = LET p == [Done EXCEPT !.io = r.io, !.kind = r.status]
                 IN  IF r.status = "done" THEN SetRegister(p, 2, Char(r)) ELSE p
      BY DEF WithIO
    <3>2. HasRead(io, r.io) /\ r.status \in {"done", "fault"}
      BY <1>1, ReadBytesHasRead DEF IsRead
    <3>3. Undoable([Done EXCEPT !.io = r.io, !.kind = r.status])
      BY <3>2, TransferIsUndoable
    <3> QED
      BY <3>1, <3>3, SettingIsUndoable
  <2> HIDE DEF S
  <2> QED
    BY <2>1, <2>2, OneOfHolds
<1>4. CASE SyscallReadFloat
  <2>1. PICK low, high \in FloatImages, fits \in BOOLEAN :
           FinishOneOf(
             WithIO({FloatResults(r, fits \/ Service = 7) : r \in ReadToken(io)},
                    LAMBDA o, r : IF Service = 6 THEN SetFpu(o, 0, low)
                                  ELSE SetFpu(SetFpu(o, 0, low), 1, high)))
    BY <1>4 DEF SyscallReadFloat
  <2> DEFINE Results == {FloatResults(r, fits \/ Service = 7) : r \in ReadToken(io)}
             S == WithIO(Results, LAMBDA o, r : IF Service = 6 THEN SetFpu(o, 0, low)
                                                ELSE SetFpu(SetFpu(o, 0, low), 1, high))
  <2>2. ASSUME NEW o \in S PROVE Undoable(o)
    <3>1. PICK r \in Results :
             o = LET p == [Done EXCEPT !.io = r.io, !.kind = r.status]
                 IN  IF r.status = "done"
                     THEN IF Service = 6 THEN SetFpu(p, 0, low)
                          ELSE SetFpu(SetFpu(p, 0, low), 1, high)
                     ELSE p
      BY DEF WithIO
    <3>2. PICK t \in ReadToken(io) : r = FloatResults(t, fits \/ Service = 7)
      OBVIOUS
    <3>3. /\ t = [status |-> t.status, io |-> t.io, bytes |-> t.bytes]
          /\ HasRead(io, t.io) /\ t.status \in {"done", "fault"}
      BY <1>1, ReadTokenHasRead
    <3>4. HasRead(io, r.io) /\ r.status \in {"done", "fault"}
      <4>1. r.io = t.io /\ r.status \in {t.status, "fault"}
        BY <3>2, <3>3 DEF FloatResults
      <4> QED
        BY <3>3, <4>1
    <3>5. Undoable([Done EXCEPT !.io = r.io, !.kind = r.status])
      BY <3>4, TransferIsUndoable
    <3> QED
      BY <3>1, <3>5, SettingIsUndoable
  <2> HIDE DEF S
  <2> QED
    BY <2>1, <2>2, OneOfHolds DEF S
<1>5. CASE SyscallReadLine
  <2> DEFINE want == LineOf(Signed(A1) - 1)
             S == IF ~Known({4, 5}) THEN {Faulted}
                  ELSE IF Signed(A1) <= 0 THEN {Done}
                  ELSE WithIO(ReadBytes(io, want),
                              LAMBDA o, r : Deliver(o, A0, Append(r.bytes, 0)))
  <2>1. FinishOneOf(S)
    BY <1>5 DEF SyscallReadLine
  <2>2. ASSUME NEW o \in WithIO(ReadBytes(io, want),
                                LAMBDA p, r : Deliver(p, A0, Append(r.bytes, 0)))
        PROVE  Undoable(o)
    <3>1. PICK r \in ReadBytes(io, want) :
             o = LET p == [Done EXCEPT !.io = r.io, !.kind = r.status]
                 IN  IF r.status = "done" THEN Deliver(p, A0, Append(r.bytes, 0)) ELSE p
      BY DEF WithIO
    <3>2. HasRead(io, r.io) /\ IsSequence(r.bytes) /\ r.status \in {"done", "fault"}
      BY <1>1, ReadBytesHasRead DEF IsRead
    <3> DEFINE p == [Done EXCEPT !.io = r.io, !.kind = r.status]
    <3>3. Undoable(p) /\ p.mem = mem
      BY <3>2, TransferIsUndoable
    <3>4. IsSequence(Append(r.bytes, 0))
      BY <3>2, AppendIsSequence
    <3>5. o = IF r.status = "done" THEN Deliver(p, A0, Append(r.bytes, 0)) ELSE p
      BY <3>1
    <3> HIDE DEF p
    <3> QED
      BY <3>3, <3>4, <3>5, DeliverIsUndoable
  <2>3. \A o \in S : Undoable(o)
    BY <1>1, <2>2
  <2> HIDE DEF S
  <2> QED
    BY <2>1, <2>3, OneOfHolds
<1> QED
  BY <1>2, <1>3, <1>4, <1>5

LEMMA SimpleSyscalls ==
  ASSUME Inv, SyscallUnknown \/ SyscallSbrk \/ SyscallExit \/ SyscallClose
  PROVE  Forward
<1>1. Undoable(Faulted) /\ Undoable(Done)
  BY DoneIsUndoable
<1>2. CASE SyscallUnknown
  BY <1>1, <1>2 DEF SyscallUnknown, Forward
<1>3. CASE SyscallSbrk
  <2> DEFINE newBreak == WordAligned(cpu.heapBreak + Signed(A0))
             end == IF newBreak > mem.dataEnd THEN newBreak ELSE mem.dataEnd
             m == [cell |-> mem.cell, present |-> mem.present, dataEnd |-> end]
             p == [Done EXCEPT !.mem = m]
             grown == [Done EXCEPT !.mem = GrowData(mem, newBreak),
                                   !.cpu.heapBreak = newBreak]
  <2>1. PICK condition : Finish(Require(condition, SetRegister(grown, 2, cpu.heapBreak)),
                                NextPc)
    BY <1>3 DEF SyscallSbrk
  <2>2. GoodMemory(mem)
    BY DEF Inv, WellFormed, Now, View
  <2>3. mem = [cell |-> mem.cell, present |-> mem.present, dataEnd |-> mem.dataEnd]
    BY <2>2 DEF GoodMemory
  <2>4. GrowData(mem, newBreak) = m
    BY <2>3 DEF GrowData
  <2> HIDE DEF end
  <2>5. GoodMemory(m)
    BY <2>2 DEF GoodMemory, Canonical
  <2>6. Restore(m, NoChanges) = m
    BY <2>5, RestoreNothing
  <2>7. RestoredMem(m, Snapshot(NoChanges)) = mem
    BY <2>3, <2>6 DEF RestoredMem, Snapshot, RestoreDataEnd
  <2> HIDE DEF newBreak
  <2>8. Undoable(p)
    <3>1. [p EXCEPT !.changes = NoChanges] = p
      <4> HIDE DEF m
      <4>1. p = [kind |-> "done", cpu |-> cpu, mem |-> m, io |-> io, fs |-> fs,
                 cache |-> cache, changes |-> NoChanges]
        BY DEF Done, Outcome
      <4> HIDE DEF p
      <4> QED
        BY <4>1
    <3>2. Undoable([[Done EXCEPT !.mem = m] EXCEPT !.changes = NoChanges])
      <4> HIDE DEF m
      <4> QED
        BY <1>1, <2>5, <2>7, ChangedMemory
    <3> QED
      BY <3>1, <3>2
  <2>9. grown = [p EXCEPT !.cpu.heapBreak = newBreak]
    BY <2>4
  <2>10. grown = [p EXCEPT !.cpu = [p.cpu EXCEPT !.heapBreak = newBreak]]
    BY <2>9
  <2> HIDE DEF p, grown
  <2>11. Undoable(SetRegister(grown, 2, cpu.heapBreak))
    BY <2>8, <2>10, RegistersDoNotMatter, SettingIsUndoable
  <2> QED
    BY <2>1, <2>11, RequireIsUndoable DEF Forward
<1>4. CASE SyscallExit
  <2> DEFINE c == [Done.cpu EXCEPT !.exited = TRUE,
                                   !.status = IF Service = 10 THEN 0 ELSE Signed(A0)]
             o == [Done EXCEPT !.cpu.exited = TRUE,
                               !.cpu.status = IF Service = 10 THEN 0 ELSE Signed(A0)]
  <2>1. PICK condition : Finish(Require(condition, o), NextPc)
    BY <1>4 DEF SyscallExit
  <2>2. o = [Done EXCEPT !.cpu = c]
    BY DEF Done, Outcome
  <2> HIDE DEF o, c
  <2>3. Undoable(o)
    BY <1>1, <2>2, RegistersDoNotMatter
  <2> QED
    BY <2>1, <2>3, RequireIsUndoable DEF Forward
<1>5. CASE SyscallClose
  <2> DEFINE fd == Signed(A0)
             standard == fd \in cpu.stdio
             known == fd \in DOMAIN fs.handles
             detached == [Done EXCEPT !.cpu.stdio = @ \ {fd}]
             closed == [Done EXCEPT !.fs = CloseFile(fs, fd)]
  <2>1. PICK condition, result :
           Finish(Require(condition,
                          SetRegister(IF standard THEN detached
                                      ELSE IF known THEN closed ELSE Done, 2, result)),
                  NextPc)
    BY <1>5 DEF SyscallClose
  <2>2. detached = [Done EXCEPT !.cpu = [Done.cpu EXCEPT !.stdio = @ \ {fd}]]
    OBVIOUS
  <2>3. Undoable(detached)
    BY <1>1, <2>2, RegistersDoNotMatter
  <2>4. Undoable(closed)
    <3>1. GoodFiles(CloseFile(fs, fd))
      BY CloseFileIsGood DEF Inv, WellFormed, Now, View
    <3> QED
      BY <1>1, <3>1, ChangedFiles
  <2> HIDE DEF detached, closed, standard, known
  <2> QED
    BY <1>1, <2>1, <2>3, <2>4, RequireIsUndoable, SettingIsUndoable DEF Forward
<1> QED
  BY <1>2, <1>3, <1>4, <1>5

LEMMA OpenSyscall ==
  ASSUME Inv, SyscallOpen
  PROVE  Forward
<1>1. Undoable(Faulted) /\ Undoable(Done) /\ GoodFiles(fs) /\ GoodCache(cache)
  BY DoneIsUndoable DEF Inv, WellFormed, Now, View
<1>2. ASSUME NEW p, NEW host \in HostAnswers(p)
      PROVE  \A file \in host : IsSequence(file)
  <2>1. \A c \in HostContents : IsSequence(c)
    BY MachineAssumption DEF IsSequence
  <2> QED
    BY <1>1, <1>2, <2>1 DEF HostAnswers, GoodCache
<1>3. ASSUME NEW p, NEW host \in HostAnswers(p), NEW creatable
      PROVE  Undoable(Opened(p, host, creatable))
  <2> DEFINE flags == Signed(A1)
             r == Open(fs, p, flags, host, creatable)
             asked == AsksHost(fs, p, flags)
             c == IF asked THEN Assign(cache, p, host) ELSE cache
             o == [Done EXCEPT !.fs = r.fs]
  <2>1. GoodFiles(r.fs)
    BY <1>1, <1>2, <1>3, OpenIsGood
  <2>2. GoodCache(c)
    <3>1. GoodCache(Assign(cache, p, host))
      BY <1>1, <1>2, <1>3 DEF GoodCache, Assign
    <3> QED
      BY <1>1, <3>1
  <2>3. Opened(p, host, creatable) = SetRegister([o EXCEPT !.cache = c], 2, r.fd)
    <3>1. Done.cache = cache
      BY DEF Done, Outcome
    <3>2. [Done EXCEPT !.fs = r.fs,
                       !.cache = IF asked THEN Assign(@, p, host) ELSE @] =
            [o EXCEPT !.cache = c]
      BY <3>1
    <3> QED
      BY <3>2 DEF Opened
  <2> HIDE DEF r, asked, c
  <2>4. Undoable(o)
    BY <1>1, <2>1, ChangedFiles
  <2> HIDE DEF o
  <2>5. Undoable([o EXCEPT !.cache = c])
    BY <2>2, <2>4, ChangedCache
  <2> QED
    BY <2>3, <2>5, SettingIsUndoable
<1>4. ASSUME NEW name, NEW o \in OpenOutcomes(name)
      PROVE  Undoable(o)
  BY <1>1, <1>3, <1>4, SettingIsUndoable DEF OpenOutcomes
<1> DEFINE Lengths == CStringLengths(mem, A0, MaxPath)
           S == IF Known({4}) /\ Lengths # {}
                THEN UNION {OpenOutcomes(NameOf(StringAt(A0, n))) : n \in Lengths}
                ELSE {Faulted}
<1>5. FinishOneOf(S)
  BY DEF SyscallOpen
<1> HIDE DEF Lengths
<1>6. \A o \in S : Undoable(o)
  BY <1>1, <1>4
<1> HIDE DEF S
<1> QED
  BY <1>5, <1>6, OneOfHolds

LEMMA TransferSyscalls ==
  ASSUME Escapes = {}, Inv, SyscallRead \/ SyscallWrite
  PROVE  Forward
<1>1. Undoable(Faulted) /\ Undoable(Done) /\ GoodFiles(fs) /\ GoodIO(io)
  BY DoneIsUndoable DEF Inv, WellFormed, Now, View
<1> DEFINE fd == Signed(A0)
           count == Signed(A2)
<1>2. ASSUME count \in 0 .. MaxFileBytes
      PROVE  count \in Nat
  BY <1>2, FileSystemAssumption
<1>3. CASE SyscallRead
  <2> DEFINE moved == ReadFile(fs, fd, count)
             Received(o, bytes) == SetRegister(Deliver(o, A1, bytes), 2, Len(bytes))
             fromInput == WithIO(ReadBytes(io, BytesOf(count)),
                                 LAMBDA o, r : Received(o, r.bytes))
             fromFile == Received([Done EXCEPT !.fs = moved.fs], moved.bytes)
             refused == SetRegister(Done, 2, -1)
             S == IF ~Known({4, 5, 6}) THEN {Faulted}
                  ELSE IF count \notin 0 .. MaxFileBytes THEN {refused}
                  ELSE IF fd = 0 /\ 0 \in cpu.stdio THEN fromInput
                  ELSE IF MayRead(fs, fd) THEN {fromFile} ELSE {refused}
  <2>1. FinishOneOf(S)
    BY <1>3 DEF SyscallRead
  <2>2. ASSUME NEW o, Undoable(o), o.mem = mem, NEW bytes, IsSequence(bytes)
        PROVE  Undoable(Received(o, bytes))
    BY <2>2, DeliverIsUndoable, SettingIsUndoable
  <2>3. ASSUME NEW o \in fromInput
        PROVE  Undoable(o)
    <3> DEFINE p(r) == [Done EXCEPT !.io = r.io, !.kind = r.status]
    <3>1. PICK r \in ReadBytes(io, BytesOf(count)) :
             o = IF r.status = "done" THEN Received(p(r), r.bytes) ELSE p(r)
      BY <2>3 DEF WithIO
    <3>2. HasRead(io, r.io) /\ IsSequence(r.bytes) /\ r.status \in {"done", "fault"}
      BY <1>1, ReadBytesHasRead DEF IsRead
    <3>3. Undoable(p(r)) /\ p(r).mem = mem
      BY <3>2, TransferIsUndoable
    <3> HIDE DEF p
    <3> QED
      BY <2>2, <3>1, <3>2, <3>3
  <2>4. ASSUME MayRead(fs, fd), count \in 0 .. MaxFileBytes
        PROVE  Undoable(fromFile)
    <3> DEFINE o == [Done EXCEPT !.fs = moved.fs]
    <3>1. GoodFiles(moved.fs) /\ IsSequence(moved.bytes)
      BY <1>1, <1>2, <2>4, ReadFileIsGood
    <3>2. Undoable(o) /\ o.mem = mem
      BY <1>1, <3>1, ChangedFiles DEF Done, Outcome
    <3> HIDE DEF o, moved, count
    <3>3. Undoable(Received(o, moved.bytes))
      BY <2>2, <3>1, <3>2
    <3> QED
      BY <3>3 DEF o
  <2>5. Undoable(refused)
    BY <1>1, SettingIsUndoable
  <2> HIDE DEF fromInput, fromFile, refused, count, fd
  <2>6. \A o \in S : Undoable(o)
    BY <1>1, <2>3, <2>4, <2>5
  <2> HIDE DEF S
  <2> QED
    BY <2>1, <2>6, OneOfHolds
<1>4. CASE SyscallWrite
  <2> DEFINE bytes == BytesAt(mem, A1, count)
             written == WriteFile(fs, fd, bytes)
             printed == WithIO(WriteResults(io, bytes), LAMBDA o, r : SetRegister(o, 2, count))
             stored == SetRegister([Done EXCEPT !.fs = written.fs], 2, written.count)
             S == IF ~Known({4, 5, 6}) THEN {Faulted}
                  ELSE IF count \notin 0 .. MaxFileBytes THEN {SetRegister(Done, 2, -1)}
                  ELSE IF ~Readable(mem, A1, count, "read") THEN {Faulted}
                  ELSE IF fd \in {1, 2} \cap cpu.stdio THEN printed
                  ELSE {stored}
  <2>1. FinishOneOf(S)
    BY <1>4 DEF SyscallWrite
  <2>2. ASSUME count \in 0 .. MaxFileBytes
        PROVE  IsSequence(bytes)
    BY <1>2, <2>2, BytesAreSequences
  <2>3. ASSUME count \in 0 .. MaxFileBytes, NEW o \in printed
        PROVE  Undoable(o)
    <3> DEFINE p(r) == [Done EXCEPT !.io = r.io, !.kind = r.status]
    <3>1. PICK r \in WriteResults(io, bytes) :
             o = IF r.status = "done" THEN SetRegister(p(r), 2, count) ELSE p(r)
      BY <2>3 DEF WithIO
    <3> HIDE DEF bytes
    <3>2. HasPrinted(io, r.io) /\ r.status \in {"done", "fault"}
      BY <1>1, <2>2, <2>3, WritesHavePrinted
    <3>3. Undoable(p(r))
      BY <3>2, TransferIsUndoable
    <3> HIDE DEF p
    <3> QED
      BY <3>1, <3>3, SettingIsUndoable
  <2>4. ASSUME count \in 0 .. MaxFileBytes
        PROVE  Undoable(stored)
    <3> HIDE DEF bytes
    <3>1. GoodFiles(written.fs)
      BY <1>1, <2>2, <2>4, WriteFileIsGood
    <3> QED
      BY <1>1, <3>1, ChangedFiles, SettingIsUndoable
  <2>5. Undoable(SetRegister(Done, 2, -1))
    BY <1>1, SettingIsUndoable
  <2> HIDE DEF printed, stored, count, fd, bytes
  <2>6. \A o \in S : Undoable(o)
    BY <1>1, <2>3, <2>4, <2>5
  <2> HIDE DEF S
  <2> QED
    BY <2>1, <2>6, OneOfHolds
<1> QED
  BY <1>3, <1>4

-----------------------------------------------------------------------------
(* Every step of the machine. *)

LEMMA StepsGoForward ==
  ASSUME Escapes = {}, Inv, Step
  PROVE  Forward
BY RegisterInstructions, LoadInstructions, StoreInstructions, SimpleSyscalls,
   PrintingSyscalls, ReadingSyscalls, OpenSyscall, TransferSyscalls
DEF Step, StepArithmetic, StepHiLo, StepControl, StepMemory, StepFpu, StepSyscall

(* Stated of both kinds of step: what the theorems below rest on.          *)
Stepped == \/ Completed
           \/ RolledBack
           \/ /\ past # <<>> /\ Now' = past[Len(past)] /\ past' = Forgotten(past)
              /\ steps' = steps - 1 /\ Begins(io'.buffer, io.buffer)
           \/ UNCHANGED vars

LEMMA NextHolds ==
  ASSUME Escapes = {}
  PROVE  Inv /\ [Next]_vars => Inv' /\ Stepped
<1> SUFFICES ASSUME Inv, [Next]_vars PROVE Inv' /\ Stepped
  OBVIOUS
<1>1. CASE Step
  BY <1>1, StepsGoForward, ForwardHolds DEF Stepped
<1>2. CASE Rewind
  BY <1>2, RewindHolds DEF Stepped
<1>3. CASE UNCHANGED vars
  BY <1>3 DEF vars, Inv, UndoChain, Now, View, After, Stepped
<1> QED
  BY <1>1, <1>2, <1>3 DEF Next

LEMMA Invariance ==
  ASSUME Escapes = {}
  PROVE  Spec => []Inv /\ [][Inv /\ Inv' /\ Stepped]_vars
<1>1. Init => Inv
  BY InitHolds
<1>2. Inv /\ [Next]_vars => Inv'
  BY NextHolds
<1>3. Inv /\ [Next]_vars => [Inv /\ Inv' /\ Stepped]_vars
  BY NextHolds
<1> QED
  BY <1>1, <1>2, <1>3, PTL DEF Spec

-----------------------------------------------------------------------------
(* Every record kept brings back exactly the state before its instruction, *)
(* registers, memory, pages, input, output and files alike (StepRecord and *)
(* _restore_record), whatever the program does.                            *)
THEOREM TimeTravelIsExact ==
  ASSUME Escapes = {}
  PROVE  Spec => []UndoChain
<1>1. Inv => UndoChain
  BY DEF Inv
<1> QED
  BY <1>1, Invariance, PTL

(* No history is longer than the number of instructions the step counter   *)
(* says were executed (step and reverse_step).                             *)
THEOREM HistoryIsOfSteps ==
  ASSUME Escapes = {}
  PROVE  Spec => []HistoryWithinSteps
<1>1. Inv => HistoryWithinSteps
  BY DEF Inv, HistoryWithinSteps
<1> QED
  BY <1>1, Invariance, PTL

(* The memory of the machine never exceeds limits.max_memory_pages: stores *)
(* and system calls included, undone or not.                               *)
THEOREM MachinePagesAreLimited ==
  ASSUME Escapes = {}
  PROVE  Spec => []PageLimit
<1>1. Inv => PageLimit
  BY DEF Inv, WellFormed, Now, View, GoodMemory, PageLimit
<1> QED
  BY <1>1, Invariance, PTL

(* The except clause of step(): a RuntimeFault leaves the state as it was  *)
(* before the instruction.                                                 *)
THEOREM FaultsLeaveNoTrace ==
  ASSUME Escapes = {}
  PROVE  Spec => FaultLeavesNoTrace
<1>1. [Inv /\ Inv' /\ Stepped]_vars => [steps' = steps => Now' = Now]_vars
  <2> SUFFICES ASSUME Inv, Stepped, steps' = steps, ~ UNCHANGED vars PROVE Now' = Now
    OBVIOUS
  <2>1. steps \in Nat
    BY DEF Inv
  <2> QED
    BY <2>1 DEF Stepped, Completed, RolledBack
<1> QED
  BY <1>1, Invariance, PTL DEF FaultLeavesNoTrace

(* The machine implements the reversible system of module Reversible: each *)
(* instruction is one step forward, each reverse_step returns to where the *)
(* last kept one started, and a fault is no step.                          *)
THEOREM MachineIsReversible ==
  ASSUME Escapes = {}
  PROVE  Spec => ImplementsReversible
<1>1. Init => Promise!Init
  BY DEF Init, Promise!Init
<1>2. [Inv /\ Inv' /\ Stepped]_vars => [Promise!Advance \/ Promise!Return]_<<Now, past>>
  <2> SUFFICES ASSUME Inv, Stepped PROVE [Promise!Advance \/ Promise!Return]_<<Now, past>>
    BY DEF vars, Now, View
  <2>1. CASE Completed
    BY <2>1 DEF Completed, Remembered, Promise!Advance, Promise!Remembered
  <2>2. CASE RolledBack
    BY <2>2 DEF RolledBack
  <2>3. CASE /\ past # <<>> /\ Now' = past[Len(past)]
             /\ past' = Forgotten(past)
    BY <2>3 DEF Promise!Return, Forgotten
  <2>4. CASE UNCHANGED vars
    BY <2>4 DEF vars, Now, View
  <2> QED
    BY <2>1, <2>2, <2>3, <2>4 DEF Stepped
<1> QED
  BY <1>1, <1>2, Invariance, PTL DEF Spec, ImplementsReversible, Promise!Spec

LEMMA BeginsIsPrefix ==
  ASSUME NEW s, IsSequence(s), NEW t, Begins(t, s)
  PROVE  IsPrefix(s, t)
BY WholeIsSlice DEF Begins, IsPrefix

(* Where a machine starts, and where it is when all that was executed has  *)
(* been taken back or has failed: as __init__ left it.                     *)
FirstView(boot) ==
    View(FirstCpu(boot), boot.mem,
         [buffer |-> boot.input, position |-> 0, output |-> <<>>], NoFiles)

FirstViews == {FirstView(boot) : boot \in Boots}

(* The inductive invariant: as long as nothing was dropped from the        *)
(* history, the oldest state in it is a first one.                         *)
Oldest == IF past = <<>> THEN Now ELSE past[1]
StartIsKept == steps = Len(past) => Oldest \in FirstViews

LEMMA StartStaysFirst ==
  ASSUME Inv, Stepped, StartIsKept
  PROVE  StartIsKept'
<1> SUFFICES ASSUME steps' = Len(past') PROVE Oldest' \in FirstViews
  BY DEF StartIsKept, FirstViews, FirstView, View
<1>1. /\ IsSequence(past) /\ steps \in Nat /\ Len(past) <= steps /\ Len(past) \in Nat
      /\ past = <<>> => Len(past) = 0
  BY LengthIsNatural DEF Inv, UndoChain
<1>2. CASE Completed
  <2>1. /\ IsSequence(past') /\ Len(past') = Len(past) + 1 - Dropped(past)
        /\ \A i \in 1 .. Len(past') :
              past'[i] = IF i + Dropped(past) = Len(past) + 1 THEN Now
                         ELSE past[i + Dropped(past)]
    BY <1>1, <1>2, RememberedSequence DEF Completed
  <2>2. Dropped(past) = 0 /\ steps = Len(past) /\ Len(past') = Len(past) + 1
    BY <1>1, <1>2, <2>1 DEF Completed, Dropped
  <2>3. past' # <<>>
    BY <1>1, <2>2
  <2>4. past'[1] = Oldest
    <3>1. 1 \in 1 .. Len(past')
      BY <1>1, <2>2
    <3>2. past'[1] = IF 1 = Len(past) + 1 THEN Now ELSE past[1]
      BY <2>1, <2>2, <3>1
    <3>3. Len(past) = 0 => past = <<>>
      BY <1>1 DEF IsSequence
    <3> QED
      BY <1>1, <3>2, <3>3 DEF Oldest
  <2> QED
    BY <2>2, <2>3, <2>4 DEF Oldest, StartIsKept
<1>3. CASE RolledBack
  BY <1>3 DEF RolledBack, Oldest, StartIsKept
<1>4. CASE /\ past # <<>> /\ Now' = past[Len(past)] /\ past' = Forgotten(past)
           /\ steps' = steps - 1
  <2>1. /\ Len(past) \in Nat \ {0} /\ IsSequence(past') /\ Len(past') = Len(past) - 1
        /\ \A i \in 1 .. Len(past) - 1 : past'[i] = past[i]
    BY <1>1, <1>4, ForgottenSequence
  <2>2. steps = Len(past)
    BY <1>1, <1>4, <2>1
  <2>3. Oldest' = past[1]
    <3>1. CASE Len(past) = 1
      <4>1. past' = <<>>
        BY <2>1, <3>1 DEF IsSequence
      <4> QED
        BY <1>4, <3>1, <4>1 DEF Oldest
    <3>2. CASE Len(past) # 1
      <4>1. 1 \in 1 .. Len(past) - 1 /\ past' # <<>>
        BY <2>1, <3>2
      <4> QED
        BY <2>1, <4>1 DEF Oldest
    <3> QED
      BY <3>1, <3>2
  <2> QED
    BY <1>4, <2>2, <2>3 DEF Oldest, StartIsKept
<1>5. CASE UNCHANGED vars
  BY <1>5 DEF vars, Oldest, Now, View, StartIsKept
<1> QED
  BY <1>2, <1>3, <1>4, <1>5 DEF Stepped

(* Stepping back all the way, or failing at the first instruction, leads   *)
(* to what __init__ built: _restore_record forgets nothing.                *)
THEOREM BackAtTheStart ==
  ASSUME Escapes = {}
  PROVE  Spec => [](steps = 0 => Now \in FirstViews)
<1>1. Init => StartIsKept
  BY DEF Init, StartIsKept, Oldest, FirstViews, FirstView, Now, View
<1>2. StartIsKept /\ [Inv /\ Inv' /\ Stepped]_vars => StartIsKept'
  <2> SUFFICES ASSUME StartIsKept, [Inv /\ Inv' /\ Stepped]_vars PROVE StartIsKept'
    OBVIOUS
  <2>1. CASE Inv /\ Stepped
    BY <2>1, StartStaysFirst
  <2>2. CASE UNCHANGED vars
    BY <2>2 DEF vars, StartIsKept, Oldest, Now, View, FirstViews, FirstView
  <2> QED
    BY <2>1, <2>2
<1>3. Inv /\ StartIsKept => (steps = 0 => Now \in FirstViews)
  <2> SUFFICES ASSUME Inv, StartIsKept, steps = 0 PROVE Now \in FirstViews
    OBVIOUS
  <2>1. IsSequence(past) /\ Len(past) <= 0 /\ Len(past) \in Nat
    BY LengthIsNatural DEF Inv, UndoChain
  <2>2. past = <<>> /\ Len(past) = 0
    BY <2>1 DEF IsSequence
  <2> QED
    BY <2>2 DEF StartIsKept, Oldest
<1> QED
  BY <1>1, <1>2, <1>3, Invariance, PTL DEF Spec

(* Input bytes are never dropped from the buffer of RuntimeIO, neither by  *)
(* a fault nor by a step back: they are there to be read again.            *)
THEOREM InputIsNeverLost ==
  ASSUME Escapes = {}
  PROVE  Spec => InputIsKept
<1>1. [Inv /\ Inv' /\ Stepped]_vars => [IsPrefix(io.buffer, io'.buffer)]_vars
  <2> SUFFICES ASSUME Inv, Stepped, ~ UNCHANGED vars PROVE IsPrefix(io.buffer, io'.buffer)
    OBVIOUS
  <2>1. Begins(io'.buffer, io.buffer) /\ IsSequence(io.buffer)
    BY DEF Stepped, Completed, RolledBack, Inv, GoodIO
  <2> QED
    BY <2>1, BeginsIsPrefix
<1> QED
  BY <1>1, Invariance, PTL DEF InputIsKept

(* Output printed is only ever taken away by a step back. *)
THEOREM OutputIsNeverLost ==
  ASSUME Escapes = {}
  PROVE  Spec => OutputGrows
<1>1. [Inv /\ Inv' /\ Stepped]_vars
        => [steps' >= steps => IsPrefix(io.output, io'.output)]_vars
  <2> SUFFICES ASSUME Inv, Inv', Stepped, steps' >= steps, ~ UNCHANGED vars
               PROVE  IsPrefix(io.output, io'.output)
    OBVIOUS
  <2>1. steps \in Nat /\ steps' \in Nat /\ IsSequence(io.output)
    BY DEF Inv, GoodIO
  <2>2. Begins(io'.output, io.output)
    BY <2>1, BeginsWithItself DEF Stepped, Completed, RolledBack
  <2> QED
    BY <2>1, <2>2, BeginsIsPrefix
<1> QED
  BY <1>1, Invariance, PTL DEF OutputGrows

(* A descriptor in use, now or in a state a step back leads to, names a    *)
(* file that is staged (VirtualFileSystem.open, close and restore).        *)
THEOREM NoHandleDangles ==
  ASSUME Escapes = {}
  PROVE  Spec => []NoDanglingHandle
<1>1. ASSUME NEW s, GoodFiles(s), NEW fd \in DOMAIN s.handles
      PROVE  s.handles[fd].path \in DOMAIN s.files
  BY <1>1 DEF GoodFiles, HandleOn
<1>2. Inv => NoDanglingHandle
  <2> SUFFICES ASSUME Inv, NEW s \in {fs} \cup {history[i].fs : i \in DOMAIN history}
               PROVE  GoodFiles(s)
    BY <1>1 DEF NoDanglingHandle
  <2>1. CASE s = fs
    BY <2>1 DEF Inv, WellFormed, Now, View
  <2>2. ASSUME NEW i \in DOMAIN history, s = history[i].fs
        PROVE  GoodFiles(s)
    <3>1. past[i] = TakenBack(After(i), history[i])
      BY <2>2 DEF Inv, UndoChain
    <3>2. past[i].fs = history[i].fs
      BY <3>1 DEF TakenBack
    <3>3. i \in 1 .. Len(past)
      BY <2>2, SequenceDomain DEF Inv, UndoChain
    <3> QED
      BY <2>2, <3>2, <3>3 DEF Inv, WellFormed
  <2> QED
    BY <2>1, <2>2
<1> QED
  BY <1>2, Invariance, PTL


-----------------------------------------------------------------------------
(* Arithmetic gives integers, and whatever is written to a register is cut *)
(* to a word.                                                              *)

LEMMA WidthsAreNatural ==
  /\ ByteMod \in Nat /\ ByteMod >= 2 /\ WordMod \in Nat \ {0}
  /\ Modulus = WordMod /\ OctetMod = ByteMod
  /\ HalfMod \in Nat /\ HalfMod >= 2 /\ WordBits \in Nat /\ WordBits >= 2
  /\ 0 \in Word /\ 0 \in Byte
  /\ \A x \in Byte : x \in Int /\ x \in Nat
  /\ \A x \in Word : x \in Int /\ x \in Nat
<1>1. ByteMod \in Nat /\ ByteMod >= 2
  BY MemoryAssumption
<1>2. ByteMod * ByteMod \in Nat /\ ByteMod * ByteMod >= 1
  BY <1>1
<1>3. ByteMod * ByteMod * ByteMod \in Nat /\ ByteMod * ByteMod * ByteMod >= 1
  BY <1>1, <1>2
<1>4. WordMod \in Nat /\ WordMod >= 1
  BY <1>1, <1>3 DEF WordMod
<1> QED
  BY <1>1, <1>4, MachineAssumption, AluAssumption DEF Byte, Word

LEMMA PowerOfTwo ==
  ASSUME NEW n \in Nat
  PROVE  2 ^ n \in Nat \ {0}
<1> DEFINE S == 1 .. n
<1>1. IsFiniteSet(S) /\ Cardinality(S) = n
  BY FS_Interval
<1>2. IsFiniteSet(SUBSET S) /\ Cardinality(SUBSET S) = 2 ^ n
  BY <1>1, FS_SUBSET
<1>3. SUBSET S # {}
  OBVIOUS
<1> HIDE DEF S
<1> QED
  BY <1>2, <1>3, FS_CardinalityType, FS_EmptySet

LEMMA Remainders ==
  ASSUME NEW x \in Int, NEW m \in Nat \ {0}
  PROVE  x % m \in 0 .. m - 1 /\ x \div m \in Int /\ (x \in Nat => x \div m \in Nat)
OBVIOUS

LEMMA UIsWord ==
  ASSUME NEW x \in Int
  PROVE  U(x) \in Word
BY WidthsAreNatural, Remainders DEF U, Word

LEMMA SignedIsInt ==
  ASSUME NEW w \in Int
  PROVE  Signed(w) \in Int
BY WidthsAreNatural DEF Signed

LEMMA FromBitsIsInt ==
  ASSUME NEW S \in SUBSET AllBits
  PROVE  FromBits(S) \in Int
<1> DEFINE powers == [i \in AllBits |-> 2 ^ i]
<1>1. IsFiniteSet(AllBits) /\ AllBits \subseteq Nat
  BY WidthsAreNatural, FS_Interval DEF AllBits
<1>2. IsFiniteSet(S)
  BY <1>1, FS_Subset
<1>3. \A i \in S : powers[i] \in Int
  BY <1>1, PowerOfTwo
<1> HIDE DEF powers
<1>4. SumFunctionOnSet(powers, S) \in Int
  BY <1>2, <1>3, SumOfSet
<1> QED
  BY <1>4 DEF FromBits, powers

LEMMA ShiftIsInt ==
  ASSUME NEW a \in Int, NEW b \in Int, NEW op \in ShiftOps
  PROVE  Shift(op, a, b) \in Int
<1> DEFINE n == b % WordBits
<1>1. n \in Nat /\ WordBits - n \in Nat
  BY WidthsAreNatural, Remainders
<1> HIDE DEF n
<1>2. 2 ^ n \in Nat \ {0} /\ 2 ^ (WordBits - n) \in Nat \ {0}
  BY <1>1, PowerOfTwo
<1>3. ShiftLeft(a, n) \in Int /\ ShiftRight(a, n) \in Int
  <2>1. a * 2 ^ n \in Int /\ a \div 2 ^ n \in Int
    BY <1>2
  <2> QED
    BY <2>1, UIsWord, WidthsAreNatural DEF ShiftLeft, ShiftRight
<1>4. ShiftArithmetic(a, n) \in Int
  <2>1. Signed(a) \div 2 ^ n \in Int
    BY <1>2, SignedIsInt
  <2> QED
    BY <2>1, UIsWord, WidthsAreNatural DEF ShiftArithmetic
<1>5. RotateRight(a, n) \in Int
  BY FromBitsIsInt DEF RotateRight, Bits
<1>6. Shift(op, a, b) = CASE op = "sll" -> ShiftLeft(a, n)
                          [] op = "srl" -> ShiftRight(a, n)
                          [] op = "sra" -> ShiftArithmetic(a, n)
                          [] op = "rotr" -> RotateRight(a, n)
  BY DEF Shift, n
<1> QED
  BY <1>3, <1>4, <1>5, <1>6 DEF ShiftOps

LEMMA BoundIsInt == Bound \in Int
BY WidthsAreNatural, PowerOfTwo DEF Bound

LEMMA AddIsInt ==
  ASSUME NEW a \in Int, NEW b \in Int, NEW op \in AddOps
  PROVE  Add(op, a, b) \in Int
<1>1. Signed(a) \in Int /\ Signed(b) \in Int
  BY SignedIsInt
<1>2. \A x \in Int : U(x) \in Int
  BY UIsWord, WidthsAreNatural
<1>3. \A x \in Int : Checked(x) \in Int
  BY <1>2 DEF Checked, Overflow
<1>4. /\ Signed(a) + Signed(b) \in Int /\ Signed(a) - Signed(b) \in Int
      /\ Signed(a) * Signed(b) \in Int /\ a + b \in Int /\ a - b \in Int
  BY <1>1
<1> QED
  BY <1>2, <1>3, <1>4 DEF Add, AddOps

LEMMA LogicIsInt ==
  ASSUME NEW a, NEW b, NEW op \in LogicOps
  PROVE  Logic(op, a, b) \in Int
<1>1. Bits(a) \subseteq AllBits /\ Bits(b) \subseteq AllBits
  BY DEF Bits
<1>2. /\ FromBits(Bits(a) \cap Bits(b)) \in Int
      /\ FromBits(Bits(a) \cup Bits(b)) \in Int
      /\ FromBits((Bits(a) \cup Bits(b)) \ (Bits(a) \cap Bits(b))) \in Int
      /\ FromBits(AllBits \ (Bits(a) \cup Bits(b))) \in Int
  BY <1>1, FromBitsIsInt
<1> QED
  BY <1>2 DEF Logic, LogicOps

LEMMA SignExtendIsInt ==
  ASSUME NEW x \in Int, NEW m \in Nat \ {0}
  PROVE  SignExtend(x, m) \in Int
<1>1. x % m \in Int
  BY Remainders
<1>2. U((x % m) - m) \in Int
  BY <1>1, UIsWord, WidthsAreNatural
<1> QED
  BY <1>1, <1>2 DEF SignExtend

LEMMA UnaryIsInt ==
  ASSUME NEW a \in Int, NEW op \in UnaryOps
  PROVE  Unary(op, a) \in Int
<1>1. \A w : LeadingZeros(w) \in Int
  <2> SUFFICES ASSUME NEW w PROVE LeadingZeros(w) \in Int
    OBVIOUS
  <2> DEFINE S == {i \in AllBits : w \div 2 ^ i = 0}
  <2>1. IsFiniteSet(AllBits)
    BY WidthsAreNatural, FS_Interval DEF AllBits
  <2>2. IsFiniteSet(S)
    BY <2>1, FS_Subset
  <2>3. Cardinality(S) \in Nat
    BY <2>2, FS_CardinalityType
  <2> QED
    BY <2>3 DEF LeadingZeros
<1>2. SignExtend(a, OctetMod) \in Int /\ SignExtend(a, HalfMod) \in Int
  BY WidthsAreNatural, SignExtendIsInt
<1>3. U(a * HalfMod) \in Int
  BY WidthsAreNatural, UIsWord
<1> QED
  BY <1>1, <1>2, <1>3 DEF Unary, UnaryOps

LEMMA ComputeIsInt ==
  ASSUME NEW a \in Int, NEW b \in Int, NEW op \in ComputeOps
  PROVE  Compute(op, a, b) \in Int
<1>1. Truth(Signed(a) < Signed(b)) \in Int /\ Truth(a < b) \in Int
  BY DEF Truth
<1>2. op \in ShiftOps => Shift(op, a, b) \in Int
  BY ShiftIsInt
<1>3. op \in AddOps => Add(op, a, b) \in Int
  BY AddIsInt
<1>4. op \in LogicOps => Logic(op, a, b) \in Int
  BY LogicIsInt
<1>5. op \in UnaryOps => Unary(op, a) \in Int
  BY UnaryIsInt
<1>6. \/ op \in ShiftOps \/ op \in AddOps \/ op \in LogicOps \/ op \in UnaryOps
      \/ op = "slt" \/ op = "sltu"
  BY DEF ComputeOps, CompareOps
<1>7. Compute(op, a, b) \in {Shift(op, a, b), Add(op, a, b), Logic(op, a, b),
                             Truth(Signed(a) < Signed(b)), Truth(a < b), Unary(op, a)}
  BY <1>6 DEF Compute
<1> QED
  BY <1>1, <1>2, <1>3, <1>4, <1>5, <1>6 DEF Compute, ShiftOps, AddOps, LogicOps, UnaryOps

(* The pair of HI and LO that a multiplication or division leaves. *)
IsPair(p) == p.hi \in Word /\ p.lo \in Word

LEMMA PairIsPair ==
  ASSUME NEW x \in Int
  PROVE  IsPair(Pair(x))
BY WidthsAreNatural, Remainders DEF Pair, IsPair, Word

LEMMA ProductIsInt ==
  ASSUME NEW a \in Int, NEW b \in Int, NEW op
  PROVE  Product(op, a, b) \in Int
<1>1. Signed(a) * Signed(b) \in Int /\ a * b \in Int
  BY SignedIsInt
<1> QED
  BY <1>1 DEF Product

LEMMA AccumulatedIsPair ==
  ASSUME NEW a \in Int, NEW b \in Int, NEW hi \in Int, NEW lo \in Int, NEW op
  PROVE  IsPair(Accumulated(op, hi, lo, a, b))
<1> DEFINE old == hi * Modulus + lo
<1>1. old \in Int
  BY WidthsAreNatural
<1>2. old - Product(op, a, b) \in Int /\ old + Product(op, a, b) \in Int
  BY <1>1, ProductIsInt
<1> HIDE DEF old
<1>3. IsPair(Pair(old - Product(op, a, b))) /\ IsPair(Pair(old + Product(op, a, b)))
  BY <1>2, PairIsPair
<1> QED
  BY <1>3 DEF Accumulated, old

LEMMA DividedIsPair ==
  ASSUME NEW a \in Int, NEW b \in Word, b # 0, NEW op
  PROVE  IsPair(Divided(op, a, b))
<1> DEFINE x == IF op = "div" THEN Signed(a) ELSE a
           y == IF op = "div" THEN Signed(b) ELSE b
<1>1. b \in Int /\ b < Modulus
  BY WidthsAreNatural DEF Word
<1>2. x \in Int /\ y \in Int
  BY <1>1, SignedIsInt
<1>3. y # 0
  <2>1. Signed(b) # 0
    BY <1>1, WidthsAreNatural DEF Signed
  <2> QED
    BY <2>1
<1> HIDE DEF x, y
<1> DEFINE q == AbsoluteValue(x) \div AbsoluteValue(y)
<1>4. AbsoluteValue(x) \in Int /\ AbsoluteValue(y) \in Nat \ {0}
  BY <1>2, <1>3 DEF AbsoluteValue
<1>5. q \in Int
  BY <1>4, Remainders
<1> HIDE DEF q
<1>6. -q \in Int
  BY <1>5
<1>7. Quotient(x, y) \in Int
  BY <1>5, <1>6 DEF Quotient, q
<1>8. x - Quotient(x, y) * y \in Int
  BY <1>2, <1>7
<1>9. U(x - Quotient(x, y) * y) \in Word /\ U(Quotient(x, y)) \in Word
  BY <1>7, <1>8, UIsWord
<1> QED
  BY <1>9 DEF Divided, IsPair, x, y

-----------------------------------------------------------------------------
(* Words and bytes. *)

LEMMA WeightIsNatural == \A k \in 1 .. 5 : Weight[k] \in Nat \ {0}
<1>1. ByteMod \in Nat \ {0} /\ OctetMod = ByteMod
  BY WidthsAreNatural
<1>2. \A x, y \in Nat \ {0} : x * y \in Nat \ {0}
  OBVIOUS
<1> DEFINE b == ByteMod
<1>3. b * b \in Nat \ {0} /\ b * b * b \in Nat \ {0} /\ b * b * b * b \in Nat \ {0}
  BY <1>1, <1>2
<1>4. Weight = <<1, b, b * b, b * b * b, b * b * b * b>>
  BY <1>1 DEF Weight
<1> HIDE DEF b
<1>5. ASSUME NEW k \in 1 .. 5
      PROVE  k = 1 \/ k = 2 \/ k = 3 \/ k = 4 \/ k = 5
  OBVIOUS
<1> QED
  BY <1>1, <1>3, <1>4, <1>5 DEF b

LEMMA ToBytesAreBytes ==
  ASSUME NEW value \in Int, NEW n \in 0 .. 5
  PROVE  ToBytes(value, n) \in Seq(Byte) /\ Len(ToBytes(value, n)) = n
<1>1. ASSUME NEW i \in 1 .. n
      PROVE  (value \div Weight[i]) % OctetMod \in Byte
  <2>1. Weight[i] \in Nat \ {0}
    BY WeightIsNatural
  <2> DEFINE w == Weight[i]
  <2> HIDE DEF w
  <2>2. value \div w \in Int
    BY <2>1, Remainders DEF w
  <2>3. \A v \in Int : v % OctetMod \in Byte
    BY WidthsAreNatural, Remainders DEF Byte
  <2> QED
    BY <2>2, <2>3 DEF w
<1>2. ToBytes(value, n) \in [1 .. n -> Byte]
  BY <1>1 DEF ToBytes
<1> QED
  BY <1>2

LEMMA FromBytesIsInt ==
  ASSUME NEW bytes \in Seq(Int)
  PROVE  FromBytes(bytes) \in Int
<1> DEFINE digit(i) == IF i <= Len(bytes) THEN bytes[i] * Weight[i] ELSE 0
<1>1. ASSUME NEW i \in 1 .. 4
      PROVE  digit(i) \in Int
  <2>1. Weight[i] \in Int
    BY WeightIsNatural
  <2>2. CASE i <= Len(bytes)
    <3>1. bytes[i] \in Int
      BY <2>2
    <3> DEFINE w == Weight[i]
    <3> HIDE DEF w
    <3>2. bytes[i] * w \in Int
      BY <2>1, <3>1 DEF w
    <3> QED
      BY <2>2, <3>2 DEF w
  <2>3. CASE ~(i <= Len(bytes))
    BY <2>3
  <2> QED
    BY <2>2, <2>3
<1>2. FromBytes(bytes) = digit(1) + digit(2) + digit(3) + digit(4)
  BY DEF FromBytes
<1> HIDE DEF digit
<1>3. digit(1) \in Int /\ digit(2) \in Int /\ digit(3) \in Int /\ digit(4) \in Int
  BY <1>1
<1> QED
  BY <1>2, <1>3

(* Four bytes make a word. *)
LEMMA HornerStep ==
  ASSUME NEW m \in Nat, NEW n \in Nat, NEW a \in 0 .. m - 1, NEW x \in 0 .. n - 1
  PROVE  a + x * m \in 0 .. n * m - 1
<1>1. x * m \in Nat /\ (n - 1 - x) * m \in Nat
  OBVIOUS
<1>2. (n - 1 - x) * m = n * m - m - x * m
  OBVIOUS
<1>3. n * m \in Nat
  OBVIOUS
<1> QED
  BY <1>1, <1>2, <1>3

LEMMA FourBytesAreWord ==
  ASSUME NEW bytes \in Seq(Byte), Len(bytes) = 4
  PROVE  FromBytes(bytes) \in Word
<1> DEFINE m == ByteMod
           a == bytes[1]
           b == bytes[2]
           c == bytes[3]
           d == bytes[4]
<1>1. m \in Nat /\ OctetMod = m
  BY WidthsAreNatural
<1>2. /\ a \in 0 .. m - 1 /\ b \in 0 .. m - 1
      /\ c \in 0 .. m - 1 /\ d \in 0 .. m - 1
  <2>1. \A i \in 1 .. Len(bytes) : bytes[i] \in Byte
    BY ElementOfSeq
  <2>2. a \in Byte /\ b \in Byte /\ c \in Byte /\ d \in Byte
    BY <2>1
  <2> QED
    BY <2>2 DEF Byte
<1>3. FromBytes(bytes) = a * 1 + b * m + c * (m * m) + d * (m * m * m)
  BY <1>1 DEF FromBytes, Weight
<1>4. Word = 0 .. m * m * m * m - 1
  BY DEF Word, WordMod
<1> HIDE DEF a, b, c, d, m
<1>5. m * m \in Nat /\ m * m * m \in Nat
  BY <1>1
<1>6. c + d * m \in 0 .. m * m - 1
  BY <1>1, <1>2, HornerStep
<1>7. b + (c + d * m) * m \in 0 .. (m * m) * m - 1
  BY <1>1, <1>2, <1>5, <1>6, HornerStep
<1>8. a + (b + (c + d * m) * m) * m \in 0 .. ((m * m) * m) * m - 1
  BY <1>1, <1>2, <1>5, <1>7, HornerStep
<1>9. a + (b + (c + d * m) * m) * m = a * 1 + b * m + c * (m * m) + d * (m * m * m)
  BY <1>1, <1>2
<1> QED
  BY <1>3, <1>4, <1>8, <1>9

LEMMA MergesAreInt ==
  ASSUME NEW current \in Int, NEW bytes \in Seq(Int), NEW offset \in 0 .. 3
  PROVE  MergeLeft(current, bytes, offset) \in Int /\ MergeRight(current, bytes, offset) \in Int
<1> DEFINE kept == Weight[4 - offset]
           replaced == Weight[5 - offset]
<1>1. kept \in Nat \ {0} /\ replaced \in Nat \ {0}
  BY WeightIsNatural
<1>2. FromBytes(bytes) \in Int
  BY FromBytesIsInt
<1> HIDE DEF kept, replaced
<1>3. current % kept \in Int /\ current % replaced \in Int
  BY <1>1, Remainders
<1>4. FromBytes(bytes) * kept \in Int
  BY <1>1, <1>2
<1>5. /\ (current % kept) + FromBytes(bytes) * kept \in Int
      /\ (current - (current % replaced)) + FromBytes(bytes) \in Int
  BY <1>2, <1>3, <1>4
<1> QED
  BY <1>5 DEF MergeLeft, MergeRight, kept, replaced

-----------------------------------------------------------------------------
(* What memory holds where it may be read. *)

LEMMA ReadableIsMapped ==
  ASSUME NEW m, NEW a, NEW n \in Nat, NEW access, Readable(m, a, n, access), n # 0
  PROVE  a \in Nat /\ \A x \in Span(a, n) : x \in Mapped
<1>1. Accessible(m, a, n, access)
  BY DEF Readable
<1>2. PICK r \in Regions : r.lo <= a /\ a + n <= r.hi /\ access \in r.access
  BY <1>1 DEF Accessible
<1>3. r.lo \in Nat /\ r.hi \in Nat /\ a \in Nat
  BY <1>1, MemoryAssumption DEF Accessible
<1>4. \A x \in Span(a, n) : x \in r.lo .. r.hi - 1
  BY <1>2, <1>3 DEF Span
<1> QED
  BY <1>2, <1>3, <1>4 DEF Mapped

LEMMA ByteOfMemory ==
  ASSUME NEW m \in Memory, NEW x \in Mapped
  PROVE  ByteAt(m, x) \in Byte
<1>1. m.cell[x] \in Byte \cup {Unset}
  BY DEF Memory
<1> QED
  BY <1>1, WidthsAreNatural DEF ByteAt

LEMMA BytesOfMemory ==
  ASSUME NEW m \in Memory, NEW a, NEW n \in Nat, NEW access, Readable(m, a, n, access)
  PROVE  BytesAt(m, a, n) \in Seq(Byte) /\ Len(BytesAt(m, a, n)) = n
<1>1. CASE n = 0
  <2>1. BytesAt(m, a, n) \in [1 .. 0 -> Byte]
    BY <1>1 DEF BytesAt
  <2> QED
    BY <1>1, <2>1
<1>2. CASE n # 0
  <2>1. \A i \in 1 .. n : ByteAt(m, a + i - 1) \in Byte
    <3> SUFFICES ASSUME NEW i \in 1 .. n PROVE ByteAt(m, a + i - 1) \in Byte
      OBVIOUS
    <3>1. a \in Nat /\ \A x \in Span(a, n) : x \in Mapped
      BY <1>2, ReadableIsMapped
    <3>2. a + i - 1 \in Span(a, n)
      BY <3>1 DEF Span
    <3> QED
      BY <3>1, <3>2, ByteOfMemory
  <2>2. BytesAt(m, a, n) \in [1 .. n -> Byte]
    BY <2>1 DEF BytesAt
  <2> QED
    BY <2>2
<1> QED
  BY <1>1, <1>2

LEMMA StringOfMemory ==
  ASSUME NEW m \in Memory, NEW a \in Nat, NEW limit \in Nat, NEW n \in CStringLengths(m, a, limit)
  PROVE  StringAt(a, n) = BytesAt(mem, a, n) /\ BytesAt(m, a, n) \in Seq(Byte)
<1>1. n \in Nat /\ \A k \in 0 .. n : Readable(m, a + k, 1, "read")
  BY DEF CStringLengths
<1>2. ASSUME NEW i \in 1 .. n
      PROVE  ByteAt(m, a + i - 1) \in Byte
  <2>1. i - 1 \in 0 .. n
    BY <1>1
  <2>2. Readable(m, a + (i - 1), 1, "read")
    BY <1>1, <2>1
  <2>3. a + (i - 1) \in Span(a + (i - 1), 1)
    BY <2>1 DEF Span
  <2>4. a + (i - 1) \in Mapped
    BY <2>2, <2>3, ReadableIsMapped
  <2>5. a + (i - 1) = a + i - 1
    BY <2>1
  <2> QED
    BY <2>4, <2>5, ByteOfMemory
<1>3. BytesAt(m, a, n) \in [1 .. n -> Byte]
  BY <1>2 DEF BytesAt
<1> QED
  BY <1>1, <1>3 DEF StringAt


-----------------------------------------------------------------------------
(* Reading: what was there and what the provider gives are bytes, and the  *)
(* position stays within them.                                             *)

Filled(x) == /\ x = [buffer |-> x.buffer, position |-> x.position, output |-> x.output]
             /\ x.buffer \in Seq(Byte) /\ Len(x.buffer) <= InputLimit
             /\ x.position \in 0 .. Len(x.buffer)

(* r is the result of a read from x that takes bytes. *)
TakesBytes(x, r) ==
    /\ r = [status |-> r.status, io |-> r.io, bytes |-> r.bytes]
    /\ Filled(r.io) /\ r.io.output = x.output
    /\ r.bytes \in Seq(Byte)

LEMMA FirstOfIsLeast ==
  ASSUME NEW S \in SUBSET Nat, S # {}
  PROVE  FirstOf(S) \in S /\ \A x \in S : FirstOf(S) <= x
<1>1. \E e \in S : \A f \in S : e <= f
  BY LeastNatural
<1> QED
  BY <1>1 DEF FirstOf

LEMMA SliceOfBytes ==
  ASSUME NEW B, NEW s \in Seq(B), NEW m \in 1 .. Len(s) + 1, NEW n \in 0 .. Len(s)
  PROVE  SubSeq(s, m, n) \in Seq(B)
OBVIOUS

LEMMA EndsOfSequences ==
  ASSUME NEW B, NEW s \in Seq(B)
  PROVE  /\ s # <<>> => s[1] \in B
         /\ \A x \in B : Append(s, x) \in Seq(B)
OBVIOUS

LEMMA ConsumedTakesBytes ==
  ASSUME NEW x, Filled(x), NEW feed \in Seq(Byte), Len(Fed(x, feed)) <= InputLimit,
         NEW end \in x.position .. Len(Fed(x, feed)), NEW status
  PROVE  TakesBytes(x, Result(status, Consumed(x, feed, end), Taken(x, feed, end)))
<1> DEFINE s == Fed(x, feed)
           y == Consumed(x, feed, end)
<1>1. /\ x.buffer \in Seq(Byte) /\ x.position \in 0 .. Len(x.buffer)
      /\ x = [buffer |-> x.buffer, position |-> x.position, output |-> x.output]
  BY DEF Filled
<1>2. s \in Seq(Byte) /\ Len(s) = Len(x.buffer) + Len(feed)
  BY <1>1 DEF Fed
<1>3. Len(x.buffer) \in Nat /\ Len(feed) \in Nat /\ Len(s) \in Nat
  BY <1>1, <1>2
<1>4. /\ end \in x.position .. Len(s) /\ Len(s) <= InputLimit
      /\ y = [buffer |-> s, position |-> end, output |-> x.output]
      /\ Taken(x, feed, end) = SubSeq(s, x.position + 1, end)
  <2>1. end \in x.position .. Len(s)
    OBVIOUS
  <2>4. Len(s) <= InputLimit
    OBVIOUS
  <2>2. y = [buffer |-> s, position |-> end, output |-> x.output]
    <3>1. y = [x EXCEPT !.buffer = s, !.position = end]
      BY DEF Consumed
    <3> HIDE DEF s, y
    <3> QED
      BY <1>1, <3>1
  <2>3. Taken(x, feed, end) = SubSeq(s, x.position + 1, end)
    BY DEF Taken
  <2> HIDE DEF s, y
  <2> QED
    BY <2>1, <2>2, <2>3, <2>4
<1> HIDE DEF s, y
<1>5. x.position \in Nat /\ x.position <= Len(s)
  BY <1>1, <1>2, <1>3
<1>6. end \in 0 .. Len(s) /\ x.position + 1 \in 1 .. Len(s) + 1
  BY <1>3, <1>4, <1>5
<1>7. Taken(x, feed, end) \in Seq(Byte)
  BY <1>2, <1>4, <1>6, SliceOfBytes
<1>8. Filled(y) /\ y.output = x.output
  BY <1>2, <1>4, <1>6 DEF Filled
<1> QED
  BY <1>7, <1>8 DEF TakesBytes, Result, y

LEMMA SatisfiedTakesBytes ==
  ASSUME NEW x, Filled(x), NEW want, NEW feed \in Seq(Byte),
         Len(Fed(x, feed)) <= InputLimit, ~Wanting(x, want, feed)
  PROVE  TakesBytes(x, Satisfied(x, want, feed))
<1> DEFINE E == Ends(want, Fed(x, feed), x.position)
           end == FirstOf(E)
<1>1. E # {}
  BY DEF Wanting
<1>2. E \subseteq x.position .. Len(Fed(x, feed)) /\ E \in SUBSET Nat
  BY DEF Ends, Filled
<1> HIDE DEF E
<1>3. end \in x.position .. Len(Fed(x, feed))
  BY <1>1, <1>2, FirstOfIsLeast
<1>4. Satisfied(x, want, feed) =
        Result("done", Consumed(x, feed, end), Taken(x, feed, end))
  BY DEF Satisfied, E
<1> HIDE DEF end
<1> QED
  BY <1>3, <1>4, ConsumedTakesBytes

LEMMA ExhaustedTakesBytes ==
  ASSUME NEW x, Filled(x), NEW feed \in Seq(Byte), Len(Fed(x, feed)) <= InputLimit,
         NEW status
  PROVE  TakesBytes(x, Exhausted(x, feed, status))
<1> DEFINE end == Len(Fed(x, feed))
<1>1. end \in x.position .. Len(Fed(x, feed))
  <2>1. /\ x.buffer \in Seq(Byte) /\ Len(Fed(x, feed)) = Len(x.buffer) + Len(feed)
        /\ x.position \in 0 .. Len(x.buffer)
    BY DEF Filled, Fed
  <2>2. Len(x.buffer) \in Nat /\ Len(feed) \in Nat
    BY <2>1
  <2> QED
    BY <2>1, <2>2
<1>2. Exhausted(x, feed, status) =
        Result(status, Consumed(x, feed, end), Taken(x, feed, end))
  BY DEF Exhausted
<1> HIDE DEF end
<1> QED
  BY <1>1, <1>2, ConsumedTakesBytes

LEMMA ReadsTakeBytes ==
  ASSUME Escapes = {}, NEW x, Filled(x), NEW want, NEW r \in Reads(x, want)
  PROVE  TakesBytes(x, r)
<1>1. Fed(x, <<>>) = x.buffer /\ <<>> \in Seq(Byte) /\ Len(x.buffer) <= InputLimit
  BY DEF Fed, Filled
<1>2. CASE ~Wanting(x, want, <<>>)
  <2>1. r = Satisfied(x, want, <<>>)
    BY <1>2 DEF Reads
  <2> QED
    BY <1>1, <1>2, <2>1, SatisfiedTakesBytes
<1>3. CASE Wanting(x, want, <<>>)
  <2>1. PICK feed \in Feeds :
           /\ Len(Fed(x, feed)) <= InputLimit
           /\ r \in {Exhausted(x, feed, "eof")}
                    \cup {Exhausted(x, feed, "raise") : e \in Escapes \cap {"provider"}}
                    \cup UNION {Answered(x, want, feed, line) : line \in Lines}
    BY <1>3 DEF Reads
  <2>2. feed \in Seq(Byte)
    BY MachineAssumption
  <2>3. CASE r = Exhausted(x, feed, "eof")
    BY <2>1, <2>2, <2>3, ExhaustedTakesBytes
  <2>4. CASE \E line \in Lines : r \in Answered(x, want, feed, line)
    <3>1. PICK line \in Lines : r \in Answered(x, want, feed, line)
      BY <2>4
    <3>2. line \in Seq(Byte)
      BY MachineAssumption
    <3>3. feed \o line \in Seq(Byte)
      BY <2>2, <3>2
    <3>4. CASE r = Exhausted(x, feed, "fault")
      BY <2>1, <2>2, <3>4, ExhaustedTakesBytes
    <3>5. CASE r # Exhausted(x, feed, "fault")
      <4>1. /\ r = Satisfied(x, want, feed \o line) /\ ~Wanting(x, want, feed \o line)
            /\ ~(Len(Fed(x, feed \o line)) > InputLimit)
        BY <3>1, <3>5 DEF Answered
      <4>2. Len(Fed(x, feed \o line)) \in Nat /\ InputLimit \in Nat
        BY <3>3, RuntimeIOAssumption DEF Fed, Filled
      <4>3. Len(Fed(x, feed \o line)) <= InputLimit
        BY <4>1, <4>2
      <4> QED
        BY <3>3, <4>1, <4>3, SatisfiedTakesBytes
    <3> QED
      BY <3>4, <3>5
  <2> QED
    BY <2>1, <2>3, <2>4
<1> QED
  BY <1>2, <1>3

LEMMA ReadBytesTakesBytes ==
  ASSUME Escapes = {}, NEW x, Filled(x), NEW want, NEW r \in ReadBytes(x, want)
  PROVE  TakesBytes(x, r)
<1>1. PICK s \in Reads(x, want) :
         r = IF s.status = "eof" THEN [s EXCEPT !.status = "done"] ELSE s
  BY DEF ReadBytes
<1>2. TakesBytes(x, s)
  BY ReadsTakeBytes
<1> QED
  BY <1>1, <1>2 DEF TakesBytes

LEMMA TokenIsBytes ==
  ASSUME NEW B, NEW bytes \in Seq(B)
  PROVE  TokenOf(bytes) \in Seq(B)
<1> DEFINE n == Len(bytes)
           Starts == {k \in 0 .. n : k = n \/ bytes[k + 1] \notin Blanks}
           start == FirstOf(Starts)
           Stops == {k \in start .. n : k = n \/ bytes[k + 1] \in Blanks}
           end == FirstOf(Stops)
<1>1. n \in Nat
  OBVIOUS
<1>2. start \in 0 .. n
  <2>1. n \in Starts /\ Starts \in SUBSET Nat
    BY <1>1
  <2> HIDE DEF Starts
  <2>2. start \in Starts
    BY <2>1, FirstOfIsLeast
  <2> QED
    BY <2>2 DEF Starts
<1> HIDE DEF start
<1>3. end \in start .. n
  <2>1. n \in Stops /\ Stops \in SUBSET Nat
    BY <1>1, <1>2
  <2> HIDE DEF Stops
  <2>2. end \in Stops
    BY <2>1, FirstOfIsLeast
  <2> QED
    BY <2>2 DEF Stops
<1>4. TokenOf(bytes) = SubSeq(bytes, start + 1, end)
  BY DEF TokenOf, start
<1> HIDE DEF end
<1>5. start + 1 \in 1 .. Len(bytes) + 1 /\ end \in 0 .. Len(bytes)
  BY <1>1, <1>2, <1>3
<1> QED
  BY <1>4, <1>5, SliceOfBytes

LEMMA ReadTokenTakesBytes ==
  ASSUME Escapes = {}, NEW x, Filled(x), NEW r \in ReadToken(x)
  PROVE  TakesBytes(x, r)
<1>1. PICK s \in Reads(x, Token) :
         LET token == TokenOf(s.bytes)
         IN  r = [s EXCEPT !.bytes = token,
                           !.status = IF @ \in {"fault", "raise"} THEN @
                                      ELSE IF token = <<>> \/ Len(token) > TokenLimit
                                      THEN "fault" ELSE "done"]
  BY DEF ReadToken
<1>2. TakesBytes(x, s)
  BY ReadsTakeBytes
<1>3. TokenOf(s.bytes) \in Seq(Byte)
  BY <1>2, TokenIsBytes DEF TakesBytes
<1> QED
  BY <1>1, <1>2, <1>3 DEF TakesBytes


-----------------------------------------------------------------------------
(* The numbers that reading an integer gives. *)

(* value is the number that the first M digits of d spell, for each M. *)
Spells(d, L, value) ==
    value = [n \in 0 .. L |-> IF n = 0 THEN 0
                              ELSE Len(Digits) * value[n - 1] + DigitValue(d[n])]

LEMMA MagnitudeIsChosen ==
  ASSUME NEW d
  PROVE  Magnitude(d) = (CHOOSE value : Spells(d, Len(d), value))[Len(d)]
BY DEF Magnitude, Spells

LEMMA SpellingExists ==
  ASSUME NEW d, NEW L \in Nat
  PROVE  \E value : Spells(d, L, value)
<1> DEFINE G == {M \in Nat : \E value : Spells(d, M, value)}
<1>1. 0 \in G
  <2> DEFINE v == [n \in 0 .. 0 |-> 0]
  <2>1. v = [n \in 0 .. 0 |-> IF n = 0 THEN 0
                               ELSE Len(Digits) * v[n - 1] + DigitValue(d[n])]
    OBVIOUS
  <2> QED
    BY <2>1 DEF Spells
<1>2. ASSUME NEW M \in Nat, M \in G
      PROVE  M + 1 \in G
  <2>1. PICK f : f = [n \in 0 .. M |-> IF n = 0 THEN 0
                                       ELSE Len(Digits) * f[n - 1] + DigitValue(d[n])]
    BY <1>2 DEF Spells
  <2> DEFINE next == Len(Digits) * f[M] + DigitValue(d[M + 1])
             g == [n \in 0 .. M + 1 |-> IF n = M + 1 THEN next ELSE f[n]]
             h == [n \in 0 .. M + 1 |-> IF n = 0 THEN 0
                                        ELSE Len(Digits) * g[n - 1] + DigitValue(d[n])]
  <2>2. ASSUME NEW n \in 0 .. M + 1
        PROVE  g[n] = h[n]
    <3>1. CASE n = M + 1
      <4>1. n # 0 /\ n - 1 = M /\ M \in 0 .. M + 1 /\ M # M + 1
        BY <3>1
      <4>2. g[n - 1] = f[M] /\ g[n] = next
        BY <3>1, <4>1
      <4>3. h[n] = Len(Digits) * g[n - 1] + DigitValue(d[n])
        BY <4>1
      <4> HIDE DEF g, h
      <4> QED
        BY <3>1, <4>2, <4>3
    <3>2. CASE n # M + 1
      <4>1. n \in 0 .. M
        BY <3>2
      <4>2. g[n] = f[n]
        BY <3>2
      <4>3. f[n] = IF n = 0 THEN 0 ELSE Len(Digits) * f[n - 1] + DigitValue(d[n])
        BY <2>1, <4>1
      <4>4. n # 0 => n - 1 \in 0 .. M + 1 /\ n - 1 # M + 1
        BY <4>1
      <4>5. n # 0 => g[n - 1] = f[n - 1]
        BY <4>4
      <4>6. h[n] = IF n = 0 THEN 0 ELSE Len(Digits) * g[n - 1] + DigitValue(d[n])
        OBVIOUS
      <4> HIDE DEF g, h
      <4> QED
        BY <4>2, <4>3, <4>5, <4>6
    <3> QED
      BY <3>1, <3>2
  <2>3. g = h
    <3>1. g = [n \in 0 .. M + 1 |-> g[n]]
      OBVIOUS
    <3>2. h = [n \in 0 .. M + 1 |-> h[n]]
      OBVIOUS
    <3> HIDE DEF g, h
    <3> QED
      BY <2>2, <3>1, <3>2
  <2>4. Spells(d, M + 1, g)
    BY <2>3 DEF Spells
  <2> QED
    BY <2>4
<1> HIDE DEF G
<1>3. Nat \subseteq G
  BY <1>1, <1>2, NaturalInduction
<1> QED
  BY <1>3 DEF G

LEMMA MagnitudeIsInt ==
  ASSUME NEW d \in Seq(Int), \A i \in 1 .. Len(d) : IsDigit(d[i])
  PROVE  Magnitude(d) \in Int
<1> DEFINE L == Len(d)
           value == CHOOSE v : Spells(d, L, v)
           G == {M \in Nat : M <= L => value[M] \in Int}
<1>1. L \in Nat
  OBVIOUS
<1>2. ASSUME NEW i \in 1 .. L
      PROVE  DigitValue(d[i]) \in Int
  <2>1. \E k \in DOMAIN Digits : Digits[k] = d[i]
    BY DEF IsDigit
  <2>2. DOMAIN Digits \subseteq Int
    BY RuntimeIOAssumption
  <2> QED
    BY <2>1, <2>2 DEF DigitValue
<1>3. Spells(d, L, value)
  BY <1>1, SpellingExists
<1>4. Len(Digits) \in Int
  BY RuntimeIOAssumption
<1> HIDE DEF value, L
<1>5. \A n \in 0 .. L : value[n] = IF n = 0 THEN 0
                                   ELSE Len(Digits) * value[n - 1] + DigitValue(d[n])
  BY <1>3 DEF Spells
<1>6. 0 \in G
  BY <1>1, <1>5
<1>7. ASSUME NEW M \in Nat, M \in G
      PROVE  M + 1 \in G
  <2> SUFFICES ASSUME M + 1 <= L PROVE value[M + 1] \in Int
    OBVIOUS
  <2>1. M + 1 \in 1 .. L /\ M + 1 \in 0 .. L /\ M + 1 # 0 /\ (M + 1) - 1 = M
    BY <1>1
  <2>2. value[M] \in Int
    BY <1>1, <1>7
  <2>3. value[M + 1] = Len(Digits) * value[M] + DigitValue(d[M + 1])
    BY <1>5, <2>1
  <2>4. DigitValue(d[M + 1]) \in Int
    BY <1>2, <2>1
  <2> QED
    BY <1>4, <2>2, <2>3, <2>4
<1> HIDE DEF G
<1>8. Nat \subseteq G
  BY <1>6, <1>7, NaturalInduction
<1>9. value[L] \in Int
  BY <1>1, <1>8 DEF G
<1>10. Magnitude(d) = value[L]
  BY MagnitudeIsChosen DEF value, L
<1> QED
  BY <1>9, <1>10

LEMMA IntegerIsInt ==
  ASSUME NEW token \in Seq(Byte)
  PROVE  Integer(token) \in Int
<1> DEFINE s == Unsigned(token)
           T == {n \in 0 .. Len(s) : n = Len(s) \/ ~IsDigit(s[n + 1])}
           end == FirstOf(T)
           d == DigitPrefix(s)
<1>1. Byte \subseteq Int
  BY WidthsAreNatural
<1>2. s \in Seq(Byte)
  <2>1. token # <<>> => Tail(token) \in Seq(Byte)
    OBVIOUS
  <2> QED
    BY <2>1 DEF Unsigned
<1> HIDE DEF s
<1>3. s \in Seq(Int) /\ Len(s) \in Nat
  <2>1. Seq(Byte) \subseteq Seq(Int)
    BY <1>1, SeqMonotonic, Zenon
  <2> QED
    BY <1>2, <2>1
<1>4. d = SubSeq(s, 1, end)
  BY DEF DigitPrefix
<1> HIDE DEF d
<1>5. T \in SUBSET Nat /\ Len(s) \in T
  BY <1>3
<1> HIDE DEF T
<1>6. end \in T /\ \A x \in T : end <= x
  BY <1>5, FirstOfIsLeast
<1>7. end \in 0 .. Len(s)
  BY <1>6 DEF T
<1> HIDE DEF end
<1>8. d \in Seq(Int) /\ Len(d) = end /\ \A i \in 1 .. end : d[i] = s[i]
  BY <1>3, <1>4, <1>7
<1>9. ASSUME NEW i \in 1 .. Len(d)
      PROVE  IsDigit(d[i])
  <2>1. i - 1 \in 0 .. Len(s) /\ i - 1 < end /\ i - 1 # Len(s) /\ (i - 1) + 1 = i
    BY <1>3, <1>7, <1>8
  <2>2. i - 1 \notin T
    BY <1>6, <1>7, <2>1
  <2>3. IsDigit(s[(i - 1) + 1])
    BY <2>1, <2>2 DEF T
  <2> QED
    BY <1>8, <2>1, <2>3
<1>10. Magnitude(d) \in Int
  BY <1>8, <1>9, MagnitudeIsInt
<1> QED
  BY <1>10 DEF Integer, d, s

LEMMA ReadIntTakesBytes ==
  ASSUME Escapes = {}, NEW x, Filled(x), NEW r \in ReadInt(x)
  PROVE  Filled(r.io) /\ r.io.output = x.output /\ r.value \in Int
<1>1. PICK t \in ReadToken(x) : r.io = t.io /\ r.value \in {0, Integer(t.bytes)}
  BY DEF ReadInt
<1>2. TakesBytes(x, t)
  BY ReadTokenTakesBytes
<1>3. Integer(t.bytes) \in Int
  BY <1>2, IntegerIsInt DEF TakesBytes
<1> QED
  BY <1>1, <1>2, <1>3 DEF TakesBytes

(* What is printed fits the limit, or it is a fault. *)
LEMMA WritesFit ==
  ASSUME Escapes = {}, NEW x, Filled(x), GoodIO(x), NEW text, IsSequence(text),
         NEW r \in WriteResults(x, text), Len(x.output) <= OutputLimit
  PROVE  Filled(r.io) /\ Len(r.io.output) <= OutputLimit
<1>1. x = [buffer |-> x.buffer, position |-> x.position, output |-> x.output]
  BY DEF Filled
<1>2. /\ Len(x.output \o text) = Len(x.output) + Len(text)
      /\ Len(x.output) \in Nat /\ Len(text) \in Nat
  BY ConcatIsSequence, LengthIsNatural DEF GoodIO
<1>3. CASE r = Result("fault", x, <<>>)
  BY <1>3 DEF Result
<1>4. CASE r # Result("fault", x, <<>>)
  <2>1. /\ r = Result("done", [x EXCEPT !.output = @ \o text], <<>>)
        /\ ~(Len(x.output) + Len(text) > OutputLimit)
    BY <1>4 DEF WriteResults
  <2>2. r.io = [x EXCEPT !.output = x.output \o text]
    BY <1>1, <2>1 DEF Result
  <2>3. r.io = [buffer |-> x.buffer, position |-> x.position, output |-> x.output \o text]
    BY <1>1, <2>2
  <2>4. Len(x.output \o text) <= OutputLimit
    BY <1>2, <2>1, RuntimeIOAssumption
  <2> QED
    BY <2>3, <2>4 DEF Filled
<1> QED
  BY <1>3, <1>4


-----------------------------------------------------------------------------
(* The invariant: the shape of the state now and of every state a step     *)
(* back leads to.                                                          *)

GoodCpu(c) ==
    /\ c = [pc |-> c.pc, registers |-> c.registers, fpu |-> c.fpu, hi |-> c.hi,
            lo |-> c.lo, reservation |-> c.reservation, heapBreak |-> c.heapBreak,
            exited |-> c.exited, status |-> c.status, stdio |-> c.stdio]
    /\ IsCpu(c)

HeapFits(c, m) ==
    /\ m.dataEnd <= DataLimit
    /\ c.heapBreak <= m.dataEnd \/ <<c.heapBreak, m.dataEnd>> \in FirstEnds

(* The normal forms of paths. *)
Paths == {NameOf(bytes) : bytes \in Seq(Byte)}

CacheFits(c) == \A p \in DOMAIN c : c[p] \in Offer(Byte)

Sound(v) == /\ GoodCpu(v.cpu)
            /\ v.cpu.pc = Sentinel => v.cpu.exited
            /\ v.mem \in Memory
            /\ HeapFits(v.cpu, v.mem)
            /\ Len(v.output) <= OutputLimit
            /\ Fitting(v.fs, Paths, Byte)

TypedInv == /\ Inv
            /\ Sound(Now)
            /\ \A i \in 1 .. Len(past) : /\ Sound(past[i])
                                         /\ past[i].position <= Len(io.buffer)
            /\ Filled(io) /\ CacheFits(cache)
            /\ steps <= MaxSteps /\ Len(history) <= HistoryLimit

(* An outcome that leads to such a state. *)
Proper(o) ==
    /\ o = [kind |-> o.kind, cpu |-> o.cpu, mem |-> o.mem, io |-> o.io,
            fs |-> o.fs, cache |-> o.cache, changes |-> o.changes]
    /\ GoodCpu(o.cpu) /\ o.mem \in Memory /\ HeapFits(o.cpu, o.mem)
    /\ o.mem.cell # mem.cell => o.cpu.reservation = None
    /\ Filled(o.io) /\ Len(o.io.output) <= OutputLimit
    /\ Fitting(o.fs, Paths, Byte) /\ CacheFits(o.cache)

ProperForward == \E o, next : Proper(o) /\ next \in Word /\ Finish(o, next)

LEMMA InitIsTyped == Init => TypedInv
<1> SUFFICES ASSUME Init PROVE TypedInv
  OBVIOUS
<1>1. PICK boot \in Boots :
         /\ cpu = FirstCpu(boot)
         /\ mem = boot.mem
         /\ io = [buffer |-> boot.input, position |-> 0, output |-> <<>>]
         /\ fs = NoFiles /\ cache = <<>>
         /\ steps = 0 /\ history = <<>> /\ past = <<>>
  BY DEF Init
<1>2. /\ boot \in BootState
      /\ boot.registers[0] = 0 /\ boot.pc # Sentinel
      /\ boot.mem.dataEnd <= DataLimit /\ Len(boot.input) <= InputLimit
  BY MachineAssumption
<1>3. /\ boot.mem \in Memory /\ boot.registers \in [Registers -> Word \cup {Unset}]
      /\ boot.pc \in Word /\ boot.heapBreak \in Nat /\ boot.input \in Seq(Byte)
  BY <1>2 DEF BootState
<1>4. GoodCpu(cpu)
  <2>1. IsCpu(cpu)
    BY <1>1, <1>2, <1>3 DEF IsCpu, FirstCpu
  <2> QED
    BY <1>1, <2>1 DEF GoodCpu, FirstCpu
<1>5. Filled(io)
  BY <1>1, <1>2, <1>3 DEF Filled
<1>6. Len(<<>>) = 0 /\ OutputLimit \in Nat /\ HistoryLimit \in Nat /\ MaxSteps \in Nat
  BY RuntimeIOAssumption, HistoryAssumption, MachineAssumption
<1>7. HeapFits(cpu, mem)
  BY <1>1, <1>2 DEF HeapFits, FirstEnds, FirstCpu
<1>8. Fitting(fs, Paths, Byte)
  BY <1>1, NoFilesFit
<1>9. CacheFits(cache)
  BY <1>1 DEF CacheFits
<1>10. Sound(Now)
  BY <1>1, <1>2, <1>3, <1>4, <1>6, <1>7, <1>8 DEF Sound, Now, View, FirstCpu
<1> QED
  BY <1>1, <1>5, <1>6, <1>9, <1>10, InitHolds DEF TypedInv

-----------------------------------------------------------------------------
(* Proper outcomes, from the simplest. *)

LEMMA DoneIsProper ==
  ASSUME TypedInv
  PROVE  Proper(Done) /\ Proper(Faulted)
<1>1. \A kind : Proper(Outcome(kind))
  BY DEF TypedInv, Sound, Now, View, Proper, Outcome
<1> QED
  BY <1>1 DEF Done, Faulted

LEMMA RequireIsProper ==
  ASSUME TypedInv, NEW condition, NEW o, condition => Proper(o)
  PROVE  Proper(Require(condition, o))
BY DoneIsProper DEF Require

(* The registers of an outcome changed. *)
LEMMA ChangedCpu ==
  ASSUME NEW o, Proper(o), NEW c, GoodCpu(c), c.heapBreak = o.cpu.heapBreak,
         o.mem.cell # mem.cell => c.reservation = None
  PROVE  Proper([o EXCEPT !.cpu = c])
<1> DEFINE p == [o EXCEPT !.cpu = c]
<1>1. p = [kind |-> o.kind, cpu |-> c, mem |-> o.mem, io |-> o.io,
           fs |-> o.fs, cache |-> o.cache, changes |-> o.changes]
  BY DEF Proper
<1> HIDE DEF p
<1>2. HeapFits(c, o.mem)
  BY DEF Proper, HeapFits
<1> QED
  BY <1>1, <1>2 DEF Proper, p

(* A general register written: never register 0, always with a word. *)
LEMMA WrittenRegister ==
  ASSUME NEW o, Proper(o), NEW r, NEW value \in Int
  PROVE  Proper(SetRegister(o, r, value))
<1> DEFINE w == U(value)
           registers == [o.cpu.registers EXCEPT ![r] = w]
           c == [o.cpu EXCEPT !.registers = registers]
<1>1. CASE r = 0
  BY <1>1 DEF SetRegister
<1>2. CASE r # 0
  <2>1. w \in Word
    BY UIsWord
  <2> HIDE DEF w
  <2>2. /\ o.cpu.registers \in [Registers -> Word \cup {Unset}]
        /\ o.cpu.registers[0] = 0 /\ 0 \in Registers
    BY MachineAssumption DEF Proper, GoodCpu, IsCpu
  <2>3. registers \in [Registers -> Word \cup {Unset}] /\ registers[0] = 0
    BY <1>2, <2>1, <2>2
  <2> HIDE DEF registers
  <2>4. c = [pc |-> o.cpu.pc, registers |-> registers, fpu |-> o.cpu.fpu,
             hi |-> o.cpu.hi, lo |-> o.cpu.lo, reservation |-> o.cpu.reservation,
             heapBreak |-> o.cpu.heapBreak, exited |-> o.cpu.exited,
             status |-> o.cpu.status, stdio |-> o.cpu.stdio]
    BY DEF Proper, GoodCpu
  <2> HIDE DEF c
  <2>5. GoodCpu(c)
    BY <2>3, <2>4 DEF Proper, GoodCpu, IsCpu
  <2>6. c.heapBreak = o.cpu.heapBreak /\ c.reservation = o.cpu.reservation
    BY <2>4
  <2>7. Proper([o EXCEPT !.cpu = c])
    BY <2>5, <2>6, ChangedCpu DEF Proper
  <2>8. SetRegister(o, r, value) = [o EXCEPT !.cpu = c]
    BY <1>2 DEF SetRegister, c, registers, w
  <2> QED
    BY <2>7, <2>8
<1> QED
  BY <1>1, <1>2

LEMMA WrittenFpu ==
  ASSUME NEW o, Proper(o), NEW f, NEW value \in Int
  PROVE  Proper(SetFpu(o, f, value))
<1> DEFINE w == U(value)
           fpu == [o.cpu.fpu EXCEPT ![f] = w]
           c == [o.cpu EXCEPT !.fpu = fpu]
<1>1. w \in Word
  BY UIsWord
<1> HIDE DEF w
<1>2. o.cpu.fpu \in [FpuRegisters -> Word \cup {Unset}]
  BY DEF Proper, GoodCpu, IsCpu
<1>3. fpu \in [FpuRegisters -> Word \cup {Unset}]
  BY <1>1, <1>2
<1> HIDE DEF fpu
<1>4. c = [pc |-> o.cpu.pc, registers |-> o.cpu.registers, fpu |-> fpu,
           hi |-> o.cpu.hi, lo |-> o.cpu.lo, reservation |-> o.cpu.reservation,
           heapBreak |-> o.cpu.heapBreak, exited |-> o.cpu.exited,
           status |-> o.cpu.status, stdio |-> o.cpu.stdio]
  BY DEF Proper, GoodCpu
<1> HIDE DEF c
<1>5. GoodCpu(c)
  BY <1>3, <1>4 DEF Proper, GoodCpu, IsCpu
<1>6. c.heapBreak = o.cpu.heapBreak /\ c.reservation = o.cpu.reservation
  BY <1>4
<1>7. Proper([o EXCEPT !.cpu = c])
  BY <1>5, <1>6, ChangedCpu DEF Proper
<1>8. SetFpu(o, f, value) = [o EXCEPT !.cpu = c]
  BY DEF SetFpu, c, fpu, w
<1> QED
  BY <1>7, <1>8


LEMMA WrittenHiLo ==
  ASSUME NEW o, Proper(o), NEW hi \in Word \cup {Unset}, NEW lo \in Word \cup {Unset}
  PROVE  /\ Proper([o EXCEPT !.cpu.hi = hi]) /\ Proper([o EXCEPT !.cpu.lo = lo])
         /\ Proper(SetHiLo(o, [hi |-> hi, lo |-> lo]))
<1> DEFINE With(x, y) == [pc |-> o.cpu.pc, registers |-> o.cpu.registers,
                          fpu |-> o.cpu.fpu, hi |-> x, lo |-> y,
                          reservation |-> o.cpu.reservation,
                          heapBreak |-> o.cpu.heapBreak, exited |-> o.cpu.exited,
                          status |-> o.cpu.status, stdio |-> o.cpu.stdio]
<1>1. o.cpu = With(o.cpu.hi, o.cpu.lo)
  BY DEF Proper, GoodCpu
<1>2. o.cpu.hi \in Word \cup {Unset} /\ o.cpu.lo \in Word \cup {Unset}
  BY DEF Proper, GoodCpu, IsCpu
<1>3. ASSUME NEW x \in Word \cup {Unset}, NEW y \in Word \cup {Unset}
      PROVE  Proper([o EXCEPT !.cpu = With(x, y)])
  <2>1. GoodCpu(With(x, y))
    BY DEF Proper, GoodCpu, IsCpu
  <2>2. With(x, y).heapBreak = o.cpu.heapBreak /\ With(x, y).reservation = o.cpu.reservation
    OBVIOUS
  <2> HIDE DEF With
  <2> QED
    BY <2>1, <2>2, ChangedCpu DEF Proper
<1>4. [o.cpu EXCEPT !.hi = hi] = With(hi, o.cpu.lo)
  BY <1>1
<1>5. [o.cpu EXCEPT !.lo = lo] = With(o.cpu.hi, lo)
  BY <1>1
<1>6. [With(hi, o.cpu.lo) EXCEPT !.lo = lo] = With(hi, lo)
  OBVIOUS
<1> HIDE DEF With
<1>7. Proper([o EXCEPT !.cpu.hi = hi])
  BY <1>2, <1>3, <1>4
<1>8. Proper([o EXCEPT !.cpu.lo = lo])
  BY <1>2, <1>3, <1>5
<1>9. SetHiLo(o, [hi |-> hi, lo |-> lo]) = [o EXCEPT !.cpu = With(hi, lo)]
  <2>1. SetHiLo(o, [hi |-> hi, lo |-> lo]) =
          [[o EXCEPT !.cpu = [o.cpu EXCEPT !.hi = hi]]
             EXCEPT !.cpu = [[o.cpu EXCEPT !.hi = hi] EXCEPT !.lo = lo]]
    BY DEF SetHiLo, Proper
  <2> QED
    BY <1>4, <1>6, <2>1 DEF Proper
<1> QED
  BY <1>3, <1>7, <1>8, <1>9

LEMMA WrittenPair ==
  ASSUME NEW o, Proper(o), NEW pair, IsPair(pair)
  PROVE  Proper(SetHiLo(o, pair))
<1>1. SetHiLo(o, pair) = SetHiLo(o, [hi |-> pair.hi, lo |-> pair.lo])
  BY DEF SetHiLo
<1> QED
  BY <1>1, WrittenHiLo DEF IsPair

LEMMA WrittenReservation ==
  ASSUME NEW o, Proper(o), NEW x \in Word \cup {None},
         o.mem.cell # mem.cell => x = None
  PROVE  Proper([o EXCEPT !.cpu.reservation = x])
<1> DEFINE c == [o.cpu EXCEPT !.reservation = x]
<1>1. c = [pc |-> o.cpu.pc, registers |-> o.cpu.registers, fpu |-> o.cpu.fpu,
           hi |-> o.cpu.hi, lo |-> o.cpu.lo, reservation |-> x,
           heapBreak |-> o.cpu.heapBreak, exited |-> o.cpu.exited,
           status |-> o.cpu.status, stdio |-> o.cpu.stdio]
  BY DEF Proper, GoodCpu
<1> HIDE DEF c
<1>2. GoodCpu(c)
  BY <1>1 DEF Proper, GoodCpu, IsCpu
<1>3. c.heapBreak = o.cpu.heapBreak /\ c.reservation = x
  BY <1>1
<1>4. Proper([o EXCEPT !.cpu = c])
  BY <1>2, <1>3, ChangedCpu
<1> QED
  BY <1>4 DEF c

(* Bytes written to memory, by a store or for a system call: whatever was  *)
(* changed, the reservation is gone.                                       *)
Written(o, kind, m, changes, x) ==
    [kind |-> kind, cpu |-> [o.cpu EXCEPT !.reservation = x], mem |-> m, io |-> o.io,
     fs |-> o.fs, cache |-> o.cache, changes |-> changes]

Replaced(o, kind, m, changes, x) ==
    [o EXCEPT !.kind = kind, !.mem = m, !.changes = changes, !.cpu.reservation = x]

LEMMA ReplacedIsWritten ==
  ASSUME NEW o, Proper(o), NEW kind, NEW m, NEW changes, NEW x
  PROVE  Replaced(o, kind, m, changes, x) = Written(o, kind, m, changes, x)
<1> DEFINE p == [o EXCEPT !.kind = kind]
           q == [p EXCEPT !.mem = m]
           s == [q EXCEPT !.changes = changes]
           t == [s EXCEPT !.cpu.reservation = x]
<1>1. p = [kind |-> kind, cpu |-> o.cpu, mem |-> o.mem, io |-> o.io,
           fs |-> o.fs, cache |-> o.cache, changes |-> o.changes]
  BY DEF Proper
<1> HIDE DEF p
<1>2. q = [kind |-> kind, cpu |-> o.cpu, mem |-> m, io |-> o.io,
           fs |-> o.fs, cache |-> o.cache, changes |-> o.changes]
  BY <1>1
<1> HIDE DEF q
<1>3. s = [kind |-> kind, cpu |-> o.cpu, mem |-> m, io |-> o.io,
           fs |-> o.fs, cache |-> o.cache, changes |-> changes]
  BY <1>2
<1> HIDE DEF s
<1>4. t = Written(o, kind, m, changes, x)
  BY <1>3 DEF Written
<1> QED
  BY <1>4 DEF Replaced, t, s, q, p

LEMMA WrittenMemory ==
  ASSUME TypedInv, NEW o, Proper(o), o.mem = mem, NEW a, NEW bytes \in Seq(Byte),
         NEW alignment, NEW x, x \in {o.cpu.reservation, None},
         bytes # <<>> => x = None, NEW kind
  PROVE  LET w == WriteBytes(mem, a, bytes, alignment)
         IN  Proper(Written(o, kind, w.mem, w.changes, x))
<1> DEFINE w == WriteBytes(mem, a, bytes, alignment)
           c == [o.cpu EXCEPT !.reservation = x]
           p == Written(o, kind, w.mem, w.changes, x)
<1>1. mem \in Memory /\ GoodMemory(mem)
  BY DEF TypedInv, Sound, Inv, WellFormed, Now, View
<1>2. w.mem \in Memory /\ w.mem.dataEnd = mem.dataEnd
  BY <1>1, WriteBytesIsTyped, WriteBytesIsUndoable
<1>3. w.mem.cell # mem.cell => x = None
  <2>1. CASE bytes = <<>>
    <3>1. Len(bytes) = 0
      BY <2>1
    <3> QED
      BY <3>1 DEF WriteBytes
  <2> QED
    BY <2>1
<1>4. x \in Word \cup {None}
  BY DEF Proper, GoodCpu, IsCpu
<1> HIDE DEF w
<1>5. c = [pc |-> o.cpu.pc, registers |-> o.cpu.registers, fpu |-> o.cpu.fpu,
           hi |-> o.cpu.hi, lo |-> o.cpu.lo, reservation |-> x,
           heapBreak |-> o.cpu.heapBreak, exited |-> o.cpu.exited,
           status |-> o.cpu.status, stdio |-> o.cpu.stdio]
  BY DEF Proper, GoodCpu
<1>6. p = [kind |-> kind, cpu |-> c, mem |-> w.mem, io |-> o.io,
           fs |-> o.fs, cache |-> o.cache, changes |-> w.changes]
  BY DEF Written
<1> HIDE DEF c, p
<1>7. GoodCpu(c)
  BY <1>4, <1>5 DEF Proper, GoodCpu, IsCpu
<1>8. HeapFits(c, w.mem)
  BY <1>2, <1>5 DEF Proper, HeapFits
<1>9. c.reservation = x
  BY <1>5
<1>10. Proper(p)
  BY <1>2, <1>3, <1>6, <1>7, <1>8, <1>9 DEF Proper
<1> QED
  BY <1>10 DEF p, w

LEMMA StoredIsProper ==
  ASSUME TypedInv, NEW a, NEW bytes \in Seq(Byte), NEW alignment
  PROVE  Proper(Stored(a, bytes, alignment))
<1> DEFINE w == WriteBytes(mem, a, bytes, alignment)
           kind == IF w.ok THEN "done" ELSE "fault"
<1>1. Proper(Done) /\ Done.mem = mem
  BY DoneIsProper DEF Done, Outcome
<1>2. Proper(Written(Done, kind, w.mem, w.changes, None))
  BY <1>1, WrittenMemory
<1>3. Stored(a, bytes, alignment) = Replaced(Done, kind, w.mem, w.changes, None)
  BY DEF Stored, Replaced
<1> HIDE DEF w, kind
<1>4. Stored(a, bytes, alignment) = Written(Done, kind, w.mem, w.changes, None)
  BY <1>1, <1>3, ReplacedIsWritten
<1> QED
  BY <1>2, <1>4

LEMMA DeliverIsProper ==
  ASSUME TypedInv, NEW o, Proper(o), o.mem = mem, NEW a, NEW bytes \in Seq(Byte)
  PROVE  Proper(Deliver(o, a, bytes))
<1> DEFINE w == WriteBytes(mem, a, bytes, 1)
           kind == IF w.ok THEN o.kind ELSE "fault"
           x == IF bytes = <<>> THEN o.cpu.reservation ELSE None
<1>1. x \in {o.cpu.reservation, None} /\ (bytes # <<>> => x = None)
  OBVIOUS
<1>2. Proper(Written(o, kind, w.mem, w.changes, x))
  BY <1>1, WrittenMemory
<1>3. Deliver(o, a, bytes) = Replaced(o, kind, w.mem, w.changes, x)
  BY DEF Deliver, Replaced, Proper
<1> HIDE DEF w, kind, x
<1>4. Deliver(o, a, bytes) = Written(o, kind, w.mem, w.changes, x)
  BY <1>3, ReplacedIsWritten
<1> QED
  BY <1>2, <1>4

(* What was read or printed. *)
LEMMA TransferIsProper ==
  ASSUME TypedInv, NEW r, Filled(r.io), Len(r.io.output) <= OutputLimit
  PROVE  LET o == [Done EXCEPT !.io = r.io, !.kind = r.status]
         IN  Proper(o) /\ o.mem = mem
<1> DEFINE o == [Done EXCEPT !.io = r.io, !.kind = r.status]
<1>1. Proper(Done)
  BY DoneIsProper
<1>2. o = [kind |-> r.status, cpu |-> cpu, mem |-> mem, io |-> r.io, fs |-> fs,
           cache |-> cache, changes |-> NoChanges]
  <2> DEFINE p == [Done EXCEPT !.io = r.io]
  <2>1. p = [kind |-> "done", cpu |-> cpu, mem |-> mem, io |-> r.io, fs |-> fs,
             cache |-> cache, changes |-> NoChanges]
    BY DEF Done, Outcome
  <2>2. o = [p EXCEPT !.kind = r.status]
    OBVIOUS
  <2> HIDE DEF p, o
  <2> QED
    BY <2>1, <2>2
<1>3. /\ Done.cpu = cpu /\ Done.mem = mem /\ Done.fs = fs /\ Done.cache = cache
  BY DEF Done, Outcome
<1> HIDE DEF o
<1> QED
  BY <1>1, <1>2, <1>3 DEF Proper, o

(* Files and cache changed. *)
LEMMA ChangedFilesIsProper ==
  ASSUME NEW o, Proper(o), NEW s, Fitting(s, Paths, Byte), NEW c, CacheFits(c)
  PROVE  /\ Proper([o EXCEPT !.fs = s])
         /\ Proper([o EXCEPT !.fs = s, !.cache = c])
<1> DEFINE p == [o EXCEPT !.fs = s]
           q == [o EXCEPT !.fs = s, !.cache = c]
<1>1. p = [kind |-> o.kind, cpu |-> o.cpu, mem |-> o.mem, io |-> o.io,
           fs |-> s, cache |-> o.cache, changes |-> o.changes]
  BY DEF Proper
<1>2. q = [p EXCEPT !.cache = c]
  OBVIOUS
<1> HIDE DEF p, q
<1>5. q = [kind |-> o.kind, cpu |-> o.cpu, mem |-> o.mem, io |-> o.io,
           fs |-> s, cache |-> c, changes |-> o.changes]
  BY <1>1, <1>2
<1>3. Proper(p)
  BY <1>1 DEF Proper
<1>4. Proper(q)
  BY <1>5 DEF Proper
<1> QED
  BY <1>3, <1>4 DEF p, q


-----------------------------------------------------------------------------
(* What instructions read. *)

LEMMA RegistersHoldWords ==
  ASSUME TypedInv
  PROVE  /\ \A r \in Registers : Reg(r) \in Word
         /\ \A f \in FpuRegisters : Fpu(f) \in Word
         /\ OrZero(cpu.hi) \in Word /\ OrZero(cpu.lo) \in Word
         /\ cpu.pc \in Word /\ NextPc \in Word /\ cpu.heapBreak \in Nat
<1>1. IsCpu(cpu)
  BY DEF TypedInv, Sound, GoodCpu, Now, View
<1>2. \A x \in Word \cup {Unset} : OrZero(x) \in Word
  BY WidthsAreNatural DEF OrZero
<1>3. cpu.pc \in Word /\ cpu.pc + 4 \in Int
  BY <1>1, WidthsAreNatural DEF IsCpu
<1>4. NextPc \in Word
  BY <1>3, UIsWord DEF NextPc
<1>5. \A r \in Registers : cpu.registers[r] \in Word \cup {Unset}
  BY <1>1 DEF IsCpu
<1>6. \A f \in FpuRegisters : cpu.fpu[f] \in Word \cup {Unset}
  BY <1>1 DEF IsCpu
<1> QED
  BY <1>1, <1>2, <1>3, <1>4, <1>5, <1>6 DEF IsCpu, Reg, Fpu

LEMMA FetchedInstruction ==
  ASSUME TypedInv, NEW ops, Executing(ops)
  PROVE  /\ steps < MaxSteps /\ ~cpu.exited /\ Instruction.op \in ops
         /\ Instruction.reads \in Seq(Registers) /\ Instruction.imm \in Int
         /\ Instruction.op \notin Sourceless => Instruction.reads # <<>>
         /\ Instruction.op \in {"movz", "movn", "div", "divu"} => Len(Instruction.reads) > 1
         /\ Instruction.op \in {"j", "jal"} => Instruction.imm \in Word
         /\ Instruction.op = "mfc1" => Instruction.imm \in FpuRegisters
         /\ Instruction.op = "swc1" => Instruction.dest \in FpuRegisters
         /\ Instruction.op = "sdc1" /\ Instruction.dest % 2 = 0
              => {Instruction.dest, Instruction.dest + 1} \subseteq FpuRegisters
<1> DEFINE w == FromBytes(BytesAt(mem, cpu.pc, 4))
<1>1. mem \in Memory
  BY DEF TypedInv, Sound, Now, View
<1>2. steps < MaxSteps /\ ~cpu.exited /\ Instruction.op \in ops
      /\ Readable(mem, cpu.pc, 4, "execute")
  BY DEF Executing, Fetchable
<1>3. w \in Word
  BY <1>1, <1>2, BytesOfMemory, FourBytesAreWord
<1>4. Instruction = Decode(w)
  BY DEF Instruction
<1> HIDE DEF w
<1> QED
  BY <1>2, <1>3, <1>4, DecodeAssumption

LEMMA OperandsAreWords ==
  ASSUME TypedInv, NEW ops, Executing(ops)
  PROVE  /\ Right \in Int
         /\ Instruction.reads # <<>> => Left \in Word /\ Address \in Word
         /\ Len(Instruction.reads) > 1 =>
              Right \in Word /\ Right = Reg(Instruction.reads[2])
<1> DEFINE rs == Instruction.reads
<1>1. rs \in Seq(Registers) /\ Instruction.imm \in Int /\ Len(rs) \in Nat
  BY FetchedInstruction
<1> HIDE DEF rs
<1>2. ASSUME rs # <<>>
      PROVE  Reg(rs[1]) \in Word
  <2>1. 1 \in 1 .. Len(rs)
    BY <1>1, <1>2
  <2>2. rs[1] \in Registers
    BY <1>1, <2>1, ElementOfSeq
  <2> QED
    BY <2>2, RegistersHoldWords
<1>3. ASSUME Len(rs) > 1
      PROVE  Reg(rs[2]) \in Word
  <2>1. 2 \in 1 .. Len(rs)
    BY <1>1, <1>3
  <2>2. rs[2] \in Registers
    BY <1>1, <2>1, ElementOfSeq
  <2> QED
    BY <2>2, RegistersHoldWords
<1>4. rs # <<>> => Address \in Word
  <2> SUFFICES ASSUME rs # <<>> PROVE Address \in Word
    OBVIOUS
  <2>1. Reg(rs[1]) \in Int
    BY <1>2, WidthsAreNatural
  <2>2. Reg(rs[1]) + Instruction.imm \in Int
    BY <1>1, <2>1
  <2> QED
    BY <2>2, UIsWord DEF Address, rs
<1>5. Len(rs) > 1 => Right = Reg(rs[2])
  BY DEF Right, rs
<1>6. ~(Len(rs) > 1) => Right = Instruction.imm
  BY DEF Right, rs
<1>7. Left = Reg(rs[1])
  BY DEF Left, rs
<1>8. Right \in Int
  BY <1>1, <1>3, <1>5, <1>6, WidthsAreNatural
<1> QED
  BY <1>2, <1>3, <1>4, <1>5, <1>7, <1>8 DEF rs

-----------------------------------------------------------------------------
(* Every instruction finishes a proper outcome. *)

LEMMA ArithmeticIsProper ==
  ASSUME TypedInv, StepArithmetic
  PROVE  ProperForward /\ steps < MaxSteps
<1>1. Proper(Done) /\ Proper(Faulted) /\ NextPc \in Word
  BY DoneIsProper, RegistersHoldWords
<1>2. CASE StepCompute
  <2> DEFINE i == Instruction
             value == IF i.reads = <<>> THEN Compute(i.op, i.imm, 0)
                      ELSE Compute(i.op, Left, Right)
             o == Require(KnownOperands /\ value # Overflow,
                          SetRegister(Done, i.dest, value))
  <2>1. Executing(ComputeOps) /\ Finish(o, NextPc)
    BY <1>2 DEF StepCompute
  <2>2. steps < MaxSteps /\ i.op \in ComputeOps /\ i.imm \in Int
    BY <2>1, FetchedInstruction
  <2>3. Right \in Int /\ (i.reads # <<>> => Left \in Int)
    BY <2>1, OperandsAreWords, WidthsAreNatural
  <2>4. value \in Int
    BY <2>2, <2>3, ComputeIsInt
  <2> HIDE DEF value
  <2>5. Proper(o)
    BY <1>1, <2>4, WrittenRegister, RequireIsProper
  <2> HIDE DEF o
  <2> QED
    BY <1>1, <2>1, <2>2, <2>5 DEF ProperForward
<1>3. CASE StepConditionalMove
  <2> DEFINE i == Instruction
             moves == (Reg(i.reads[1]) = 0) = (i.op = "movz")
             moved == SetRegister(Done, i.dest, Reg(i.reads[2]))
             o == Require(Known({i.reads[1]}) /\ (moves => Known({i.reads[2]})),
                          IF moves THEN moved ELSE Done)
  <2>1. Executing({"movz", "movn"}) /\ Finish(o, NextPc)
    BY <1>3 DEF StepConditionalMove
  <2>2. steps < MaxSteps /\ Len(i.reads) > 1
    BY <2>1, FetchedInstruction
  <2>3. Reg(i.reads[2]) \in Int
    BY <2>1, <2>2, OperandsAreWords, WidthsAreNatural
  <2>4. Proper(moved)
    BY <1>1, <2>3, WrittenRegister
  <2> HIDE DEF moves, moved
  <2>5. Proper(o)
    BY <1>1, <2>4, RequireIsProper
  <2> HIDE DEF o
  <2> QED
    BY <1>1, <2>1, <2>2, <2>5 DEF ProperForward
<1>4. CASE StepTrap
  <2> DEFINE o == Require(KnownOperands /\ ~Holds(Instruction.condition, Left, Right), Done)
  <2>1. Executing({"trap"}) /\ Finish(o, NextPc)
    BY <1>4 DEF StepTrap
  <2>2. Proper(o)
    BY <1>1, RequireIsProper
  <2> HIDE DEF o
  <2> QED
    BY <1>1, <2>1, <2>2, FetchedInstruction DEF ProperForward
<1>5. CASE StepBreak
  BY <1>1, <1>5, FetchedInstruction DEF StepBreak, ProperForward
<1> QED
  BY <1>2, <1>3, <1>4, <1>5 DEF StepArithmetic

LEMMA HiLoIsProper ==
  ASSUME TypedInv, StepHiLo
  PROVE  ProperForward /\ steps < MaxSteps
<1>1. Proper(Done) /\ Proper(Faulted) /\ NextPc \in Word
  BY DoneIsProper, RegistersHoldWords
<1>2. \A x \in Word : x \in Int
  BY WidthsAreNatural
<1>3. OrZero(cpu.hi) \in Word /\ OrZero(cpu.lo) \in Word
  BY RegistersHoldWords
<1>4. CASE StepMoveFromHiLo
  <2> DEFINE source == IF Instruction.op = "mfhi" THEN cpu.hi ELSE cpu.lo
             o == Require(Strict => source # Unset,
                          SetRegister(Done, Instruction.dest, OrZero(source)))
  <2>1. Executing({"mfhi", "mflo"}) /\ Finish(o, NextPc)
    BY <1>4 DEF StepMoveFromHiLo
  <2>2. OrZero(source) \in Int
    BY <1>2, <1>3
  <2> HIDE DEF source
  <2>3. Proper(o)
    BY <1>1, <2>2, WrittenRegister, RequireIsProper
  <2> HIDE DEF o
  <2> QED
    BY <1>1, <2>1, <2>3, FetchedInstruction DEF ProperForward
<1>5. CASE StepMoveToHiLo
  <2> DEFINE o == Require(KnownOperands,
                          IF Instruction.op = "mthi" THEN [Done EXCEPT !.cpu.hi = Left]
                          ELSE [Done EXCEPT !.cpu.lo = Left])
  <2>1. Executing({"mthi", "mtlo"}) /\ Finish(o, NextPc)
    BY <1>5 DEF StepMoveToHiLo
  <2>2. Left \in Word \cup {Unset}
    BY <2>1, FetchedInstruction, OperandsAreWords
    DEF Sourceless, ComputeOps, ShiftOps, AddOps, LogicOps, CompareOps, UnaryOps
  <2>3. Proper([Done EXCEPT !.cpu.hi = Left]) /\ Proper([Done EXCEPT !.cpu.lo = Left])
    BY <1>1, <2>2, WrittenHiLo
  <2>4. Proper(o)
    BY <2>3, RequireIsProper
  <2> HIDE DEF o
  <2> QED
    BY <1>1, <2>1, <2>4, FetchedInstruction DEF ProperForward
<1>6. CASE StepMultiply
  <2> DEFINE pair == Pair(Product(Instruction.op, Left, Right))
             o == Require(KnownOperands, SetHiLo(Done, pair))
  <2>1. Executing(MultiplyOps) /\ Finish(o, NextPc)
    BY <1>6 DEF StepMultiply
  <2>2. Left \in Int /\ Right \in Int
    BY <1>2, <2>1, FetchedInstruction, OperandsAreWords
    DEF MultiplyOps, Sourceless, ComputeOps, ShiftOps, AddOps, LogicOps, CompareOps, UnaryOps
  <2>3. IsPair(pair)
    BY <2>2, ProductIsInt, PairIsPair
  <2> HIDE DEF pair
  <2>4. Proper(o)
    BY <1>1, <2>3, WrittenPair, RequireIsProper
  <2> HIDE DEF o
  <2> QED
    BY <1>1, <2>1, <2>4, FetchedInstruction DEF ProperForward
<1>7. CASE StepAccumulate
  <2> DEFINE pair == Accumulated(Instruction.op, OrZero(cpu.hi), OrZero(cpu.lo), Left, Right)
             o == Require(KnownOperands /\ (Strict => cpu.hi # Unset /\ cpu.lo # Unset),
                          SetHiLo(Done, pair))
  <2>1. Executing(AccumulateOps) /\ Finish(o, NextPc)
    BY <1>7 DEF StepAccumulate
  <2>2. Left \in Int /\ Right \in Int
    BY <1>2, <2>1, FetchedInstruction, OperandsAreWords
    DEF AccumulateOps, Sourceless, ComputeOps, ShiftOps, AddOps, LogicOps, CompareOps,
        UnaryOps
  <2>3. IsPair(pair)
    BY <1>2, <1>3, <2>2, AccumulatedIsPair
  <2> HIDE DEF pair
  <2>4. Proper(o)
    BY <1>1, <2>3, WrittenPair, RequireIsProper
  <2> HIDE DEF o
  <2> QED
    BY <1>1, <2>1, <2>4, FetchedInstruction DEF ProperForward
<1>8. CASE StepDivide
  <2> DEFINE pair == Divided(Instruction.op, Left, Right)
             o == Require(KnownOperands /\ Right # 0, SetHiLo(Done, pair))
  <2>1. Executing(DivideOps) /\ Finish(o, NextPc)
    BY <1>8 DEF StepDivide
  <2>2. Left \in Int /\ Right \in Word
    BY <1>2, <2>1, FetchedInstruction, OperandsAreWords
    DEF DivideOps, Sourceless, ComputeOps, ShiftOps, AddOps, LogicOps, CompareOps, UnaryOps
  <2>3. Right # 0 => IsPair(pair)
    BY <2>2, DividedIsPair
  <2> HIDE DEF pair
  <2>4. Proper(o)
    BY <1>1, <2>3, WrittenPair, RequireIsProper
  <2> HIDE DEF o
  <2> QED
    BY <1>1, <2>1, <2>4, FetchedInstruction DEF ProperForward
<1> QED
  BY <1>4, <1>5, <1>6, <1>7, <1>8 DEF StepHiLo

LEMMA ControlIsProper ==
  ASSUME TypedInv, StepControl
  PROVE  ProperForward /\ steps < MaxSteps
<1>1. Proper(Done) /\ Proper(Faulted) /\ NextPc \in Word /\ NextPc \in Int
  BY DoneIsProper, RegistersHoldWords, WidthsAreNatural
<1>2. CASE StepBranch
  <2> DEFINE i == Instruction
             taken == Holds(i.condition, Left, IF Len(i.reads) > 1 THEN Right ELSE 0)
             o == Require(KnownOperands,
                          IF i.link THEN SetRegister(Done, 31, NextPc) ELSE Done)
             next == IF taken THEN U(NextPc + i.imm) ELSE NextPc
  <2>1. Executing({"branch"}) /\ Finish(o, next)
    BY <1>2 DEF StepBranch
  <2>2. steps < MaxSteps /\ i.imm \in Int
    BY <2>1, FetchedInstruction
  <2>3. next \in Word
    BY <1>1, <2>2, UIsWord
  <2>4. Proper(o)
    BY <1>1, WrittenRegister, RequireIsProper
  <2> HIDE DEF o, next
  <2> QED
    BY <2>1, <2>2, <2>3, <2>4 DEF ProperForward
<1>3. CASE StepJump
  <2> DEFINE o == IF Instruction.op = "jal" THEN SetRegister(Done, 31, NextPc) ELSE Done
  <2>1. Executing({"j", "jal"}) /\ Finish(o, Instruction.imm)
    BY <1>3 DEF StepJump
  <2>2. steps < MaxSteps /\ Instruction.imm \in Word
    BY <2>1, FetchedInstruction
  <2>3. Proper(o)
    BY <1>1, WrittenRegister
  <2> HIDE DEF o
  <2> QED
    BY <2>1, <2>2, <2>3 DEF ProperForward
<1>4. CASE StepJumpRegister
  <2> DEFINE o == Require(KnownOperands,
                          IF Instruction.op = "jalr"
                          THEN SetRegister(Done, Instruction.dest, NextPc) ELSE Done)
  <2>1. Executing({"jr", "jalr"}) /\ Finish(o, Left)
    BY <1>4 DEF StepJumpRegister
  <2>2. steps < MaxSteps /\ Left \in Word
    BY <2>1, FetchedInstruction, OperandsAreWords
    DEF Sourceless, ComputeOps, ShiftOps, AddOps, LogicOps, CompareOps, UnaryOps
  <2>3. Proper(o)
    BY <1>1, WrittenRegister, RequireIsProper
  <2> HIDE DEF o
  <2> QED
    BY <2>1, <2>2, <2>3 DEF ProperForward
<1> QED
  BY <1>2, <1>3, <1>4 DEF StepControl

(* Loads and stores have a base register, stores and unaligned loads       *)
(* integers to combine.                                                    *)
LEMMA LoadedIsInt ==
  ASSUME TypedInv, NEW a, NEW n \in Nat, Readable(mem, a, n, "read")
  PROVE  Loaded(a, n) \in Int /\ BytesAt(mem, a, n) \in Seq(Int)
<1>1. mem \in Memory
  BY DEF TypedInv, Sound, Now, View
<1>2. BytesAt(mem, a, n) \in Seq(Byte)
  BY <1>1, BytesOfMemory
<1>3. Seq(Byte) \subseteq Seq(Int)
  <2>1. Byte \subseteq Int
    BY WidthsAreNatural
  <2> QED
    BY <2>1, SeqMonotonic, Zenon
<1> QED
  BY <1>2, <1>3, FromBytesIsInt DEF Loaded

LEMMA LoadIsProper ==
  ASSUME TypedInv, StepLoad
  PROVE  ProperForward /\ steps < MaxSteps
<1> DEFINE i == Instruction
           n == Width(i.op)
           value == CASE i.op = "lb" -> SignExtend(Loaded(Address, n), OctetMod)
                      [] i.op = "lh" -> SignExtend(Loaded(Address, n), HalfMod)
                      [] OTHER -> Loaded(Address, n)
           loaded == SetRegister(Done, i.dest, value)
           linked == [loaded EXCEPT !.cpu.reservation = Address]
           o == Require(KnownBase /\ CanLoad(Address, n, n),
                        IF i.op = "ll" THEN linked ELSE loaded)
<1>1. Executing({"lb", "lbu", "lh", "lhu", "lw", "ll"}) /\ Finish(o, NextPc)
  BY DEF StepLoad
<1>2. steps < MaxSteps /\ Address \in Word
  BY <1>1, FetchedInstruction, OperandsAreWords
  DEF Sourceless, ComputeOps, ShiftOps, AddOps, LogicOps, CompareOps, UnaryOps
<1>3. n \in {1, 2, 4}
  BY DEF Width
<1> HIDE DEF n
<1>4. ASSUME CanLoad(Address, n, n)
      PROVE  value \in Int
  <2>1. Loaded(Address, n) \in Int
    BY <1>3, <1>4, LoadedIsInt DEF CanLoad
  <2>2. /\ SignExtend(Loaded(Address, n), OctetMod) \in Int
        /\ SignExtend(Loaded(Address, n), HalfMod) \in Int
    BY <2>1, SignExtendIsInt, WidthsAreNatural
  <2> QED
    BY <2>1, <2>2
<1> HIDE DEF value
<1>5. ASSUME CanLoad(Address, n, n)
      PROVE  Proper(loaded) /\ Proper(linked)
  <2>1. Proper(loaded)
    BY <1>4, <1>5, DoneIsProper, WrittenRegister
  <2>2. loaded.mem = mem
    BY DEF SetRegister, Done, Outcome
  <2> HIDE DEF loaded
  <2> QED
    BY <1>2, <2>1, <2>2, WrittenReservation
<1> HIDE DEF loaded, linked
<1>6. Proper(o)
  BY <1>5, RequireIsProper
<1> HIDE DEF o
<1> QED
  BY <1>1, <1>2, <1>6, RegistersHoldWords DEF ProperForward

LEMMA StoreIsProper ==
  ASSUME TypedInv, StepStore
  PROVE  ProperForward /\ steps < MaxSteps
<1> DEFINE n == Width(Instruction.op)
           o == Require(KnownOperands, Stored(Address, ToBytes(Right, n), n))
<1>1. Executing({"sb", "sh", "sw"}) /\ Finish(o, NextPc)
  BY DEF StepStore
<1>2. n \in {1, 2, 4}
  BY DEF Width
<1> HIDE DEF n
<1>3. Right \in Int /\ steps < MaxSteps
  BY <1>1, OperandsAreWords, FetchedInstruction
<1>4. ToBytes(Right, n) \in Seq(Byte)
  BY <1>2, <1>3, ToBytesAreBytes
<1>5. Proper(o)
  BY <1>4, StoredIsProper, RequireIsProper
<1> HIDE DEF o
<1> QED
  BY <1>1, <1>3, <1>5, RegistersHoldWords DEF ProperForward

LEMMA StoreConditionalIsProper ==
  ASSUME TypedInv, StepStoreConditional
  PROVE  ProperForward /\ steps < MaxSteps
<1> DEFINE i == Instruction
           reserved == cpu.reservation = Address
           cleared == SetRegister(Done, i.dest, 0)
           failed == [cleared EXCEPT !.cpu.reservation = None]
           stored == SetRegister(Stored(Address, ToBytes(Right, 4), 4), i.dest, 1)
           o == IF ~KnownBase THEN Faulted
                ELSE IF reserved THEN Require(KnownOperands, stored)
                ELSE Require(Writable(mem, Address, 4, 4), failed)
<1>1. Executing({"sc"}) /\ Finish(o, NextPc)
  BY DEF StepStoreConditional
<1>2. Right \in Int /\ steps < MaxSteps
  BY <1>1, OperandsAreWords, FetchedInstruction
<1>3. Proper(stored)
  <2>1. ToBytes(Right, 4) \in Seq(Byte)
    BY <1>2, ToBytesAreBytes
  <2> QED
    BY <2>1, StoredIsProper, WrittenRegister
<1>4. Proper(failed)
  <2>1. Proper(cleared)
    BY DoneIsProper, WrittenRegister
  <2> HIDE DEF cleared
  <2> QED
    BY <2>1, WrittenReservation
<1> HIDE DEF stored, failed, reserved
<1>5. Proper(o)
  BY <1>3, <1>4, DoneIsProper, RequireIsProper
<1> HIDE DEF o
<1> QED
  BY <1>1, <1>2, <1>5, RegistersHoldWords DEF ProperForward

LEMMA LoadUnalignedIsProper ==
  ASSUME TypedInv, StepLoadUnaligned
  PROVE  ProperForward /\ steps < MaxSteps
<1> DEFINE i == Instruction
           offset == Address % 4
           from == IF i.op = "lwl" THEN WordStart(Address) ELSE Address
           n == IF i.op = "lwl" THEN LeftCount(offset) ELSE RightCount(offset)
           bytes == BytesAt(mem, from, n)
           merged == IF i.op = "lwl" THEN MergeLeft(Right, bytes, offset)
                     ELSE MergeRight(Right, bytes, offset)
           o == Require(KnownOperands /\ CanLoad(from, n, 1),
                        SetRegister(Done, i.dest, merged))
<1>1. Executing({"lwl", "lwr"}) /\ Finish(o, NextPc)
  BY DEF StepLoadUnaligned
<1>2. Right \in Int /\ steps < MaxSteps /\ Address \in Word
  BY <1>1, OperandsAreWords, FetchedInstruction
  DEF Sourceless, ComputeOps, ShiftOps, AddOps, LogicOps, CompareOps, UnaryOps
<1>3. offset \in 0 .. 3
  BY <1>2, WidthsAreNatural
<1> HIDE DEF offset
<1>4. n \in Nat
  BY <1>3 DEF LeftCount, RightCount
<1> HIDE DEF n, from
<1>5. ASSUME CanLoad(from, n, 1)
      PROVE  merged \in Int
  <2>1. bytes \in Seq(Int)
    BY <1>4, <1>5, LoadedIsInt DEF CanLoad
  <2> HIDE DEF bytes
  <2> QED
    BY <1>2, <1>3, <2>1, MergesAreInt
<1> HIDE DEF merged
<1>6. Proper(o)
  BY <1>5, DoneIsProper, WrittenRegister, RequireIsProper
<1> HIDE DEF o
<1> QED
  BY <1>1, <1>2, <1>6, RegistersHoldWords DEF ProperForward

LEMMA StoreUnalignedIsProper ==
  ASSUME TypedInv, StepStoreUnaligned
  PROVE  ProperForward /\ steps < MaxSteps
<1>1. PICK offset \in 0 .. 3 :
         Finish(Require(KnownOperands,
                        IF Instruction.op = "swl"
                        THEN Stored(WordStart(Address), LeftBytes(Right, offset), 1)
                        ELSE Stored(Address, RightBytes(Right, offset), 1)),
                NextPc)
  BY DEF StepStoreUnaligned
<1>2. Executing({"swl", "swr"})
  BY DEF StepStoreUnaligned
<1>3. Right \in Int /\ steps < MaxSteps
  BY <1>2, OperandsAreWords, FetchedInstruction
<1>4. LeftBytes(Right, offset) \in Seq(Byte)
  <2> DEFINE w == Weight[4 - offset]
  <2>1. w \in Nat \ {0}
    BY WeightIsNatural
  <2> HIDE DEF w
  <2>2. Right \div w \in Int
    BY <1>3, <2>1, Remainders
  <2>3. LeftCount(offset) \in 0 .. 5
    BY DEF LeftCount
  <2> QED
    BY <2>2, <2>3, ToBytesAreBytes DEF LeftBytes, w
<1>5. RightBytes(Right, offset) \in Seq(Byte)
  <2>1. RightCount(offset) \in 0 .. 5
    BY DEF RightCount
  <2> QED
    BY <1>3, <2>1, ToBytesAreBytes DEF RightBytes
<1> DEFINE left == Stored(WordStart(Address), LeftBytes(Right, offset), 1)
           right == Stored(Address, RightBytes(Right, offset), 1)
           o == Require(KnownOperands, IF Instruction.op = "swl" THEN left ELSE right)
<1>6. Proper(left) /\ Proper(right)
  BY <1>4, <1>5, StoredIsProper
<1>7. Finish(o, NextPc)
  BY <1>1
<1> HIDE DEF left, right
<1>8. Proper(o)
  BY <1>6, RequireIsProper
<1> HIDE DEF o
<1> QED
  BY <1>3, <1>7, <1>8, RegistersHoldWords DEF ProperForward

LEMMA MemoryIsProper ==
  ASSUME TypedInv, StepMemory
  PROVE  ProperForward /\ steps < MaxSteps
BY LoadIsProper, StoreIsProper, StoreConditionalIsProper, LoadUnalignedIsProper,
   StoreUnalignedIsProper DEF StepMemory

(* A double is read as two words. *)
LEMMA HalvesAreInt ==
  ASSUME TypedInv, NEW a \in Nat, Readable(mem, a, 8, "read")
  PROVE  Loaded(a, 4) \in Int /\ Loaded(a + 4, 4) \in Int
<1>1. mem \in Memory
  BY DEF TypedInv, Sound, Now, View
<1>2. \A x \in Span(a, 8) : ByteAt(mem, x) \in Byte
  BY <1>1, ReadableIsMapped, ByteOfMemory
<1>3. \A x \in Byte : x \in Int
  BY WidthsAreNatural
<1>4. ASSUME NEW b \in {a, a + 4}, NEW n \in Nat, n = 4
      PROVE  Loaded(b, n) \in Int
  <2>1. ASSUME NEW i \in 1 .. n
        PROVE  ByteAt(mem, b + i - 1) \in Int
    <3>1. b + i - 1 \in Span(a, 8)
      BY <1>4 DEF Span
    <3> QED
      BY <1>2, <1>3, <3>1
  <2>2. BytesAt(mem, b, n) \in [1 .. n -> Int]
    BY <2>1 DEF BytesAt
  <2>3. BytesAt(mem, b, n) \in Seq(Int)
    BY <2>2
  <2> QED
    BY <2>3, FromBytesIsInt DEF Loaded
<1> QED
  BY <1>4

LEMMA FpuIsProper ==
  ASSUME TypedInv, StepFpu
  PROVE  ProperForward /\ steps < MaxSteps
<1>1. Proper(Done) /\ Proper(Faulted) /\ NextPc \in Word
  BY DoneIsProper, RegistersHoldWords
<1>2. \A f \in FpuRegisters : Fpu(f) \in Int
  BY RegistersHoldWords, WidthsAreNatural
<1>3. CASE StepMoveFpu
  <2> DEFINE i == Instruction
             from == SetRegister(Done, i.dest, Fpu(i.imm))
             to == SetFpu(Done, i.dest, Left)
             o == IF i.op = "mfc1" THEN Require(KnownFpu({i.imm}), from)
                  ELSE Require(KnownOperands, to)
  <2>1. Executing({"mfc1", "mtc1"}) /\ Finish(o, NextPc)
    BY <1>3 DEF StepMoveFpu
  <2>2. /\ steps < MaxSteps /\ i.op \in {"mfc1", "mtc1"}
        /\ i.op = "mfc1" => i.imm \in FpuRegisters
    BY <2>1, FetchedInstruction
  <2>3. i.op = "mtc1" => Left \in Int
    BY <2>1, FetchedInstruction, OperandsAreWords, WidthsAreNatural
    DEF Sourceless, ComputeOps, ShiftOps, AddOps, LogicOps, CompareOps, UnaryOps
  <2>4. i.op = "mfc1" => Proper(from)
    BY <1>1, <1>2, <2>2, WrittenRegister
  <2>5. i.op = "mtc1" => Proper(to)
    BY <1>1, <2>3, WrittenFpu
  <2> HIDE DEF from, to
  <2>6. Proper(o)
    BY <2>2, <2>4, <2>5, RequireIsProper
  <2> HIDE DEF o
  <2> QED
    BY <1>1, <2>1, <2>2, <2>6 DEF ProperForward
<1>4. CASE StepLoadFpu
  <2> DEFINE f == Instruction.dest
             double == Instruction.op = "ldc1"
             n == IF double THEN 8 ELSE 4
             low == SetFpu(Done, f, Loaded(Address, 4))
             both == SetFpu(low, f + 1, Loaded(Address + 4, 4))
             o == Require(KnownBase /\ (double => EvenPair(f)) /\ CanLoad(Address, n, n),
                          IF double THEN both ELSE low)
  <2>1. Executing({"lwc1", "ldc1"}) /\ Finish(o, NextPc)
    BY <1>4 DEF StepLoadFpu
  <2>2. steps < MaxSteps /\ Address \in Nat
    BY <2>1, FetchedInstruction, OperandsAreWords, WidthsAreNatural
    DEF Sourceless, ComputeOps, ShiftOps, AddOps, LogicOps, CompareOps, UnaryOps
  <2>3. ASSUME CanLoad(Address, n, n)
        PROVE  Loaded(Address, 4) \in Int /\ (double => Loaded(Address + 4, 4) \in Int)
    <3>1. CASE double
      BY <2>2, <2>3, <3>1, HalvesAreInt DEF CanLoad
    <3>2. CASE ~double
      BY <2>3, <3>2, LoadedIsInt DEF CanLoad
    <3> QED
      BY <3>1, <3>2
  <2>4. ASSUME CanLoad(Address, n, n)
        PROVE  Proper(low) /\ (double => Proper(both))
    <3>1. Proper(low)
      BY <1>1, <2>3, <2>4, WrittenFpu
    <3> HIDE DEF low
    <3>2. double => Proper(both)
      BY <2>3, <2>4, <3>1, WrittenFpu
    <3> QED
      BY <3>1, <3>2
  <2> HIDE DEF low, both, double, n
  <2>5. Proper(o)
    BY <2>4, RequireIsProper
  <2> HIDE DEF o
  <2> QED
    BY <1>1, <2>1, <2>2, <2>5 DEF ProperForward
<1>5. CASE StepStoreFpu
  <2> DEFINE f == Instruction.dest
             one == Stored(Address, ToBytes(Fpu(f), 4), 4)
             two == Stored(Address, ToBytes(Fpu(f), 4) \o ToBytes(Fpu(f + 1), 4), 8)
             o == IF Instruction.op = "swc1"
                  THEN Require(KnownBase /\ KnownFpu({f}), one)
                  ELSE Require(KnownBase /\ EvenPair(f) /\ KnownFpu({f, f + 1}), two)
  <2>1. Executing({"swc1", "sdc1"}) /\ Finish(o, NextPc)
    BY <1>5 DEF StepStoreFpu
  <2>2. /\ steps < MaxSteps /\ Instruction.op \in {"swc1", "sdc1"}
        /\ Instruction.op = "swc1" => f \in FpuRegisters
        /\ Instruction.op = "sdc1" /\ f % 2 = 0 => {f, f + 1} \subseteq FpuRegisters
    BY <2>1, FetchedInstruction
  <2>3. \A r \in FpuRegisters : ToBytes(Fpu(r), 4) \in Seq(Byte)
    BY <1>2, ToBytesAreBytes
  <2>4. Instruction.op = "swc1" => Proper(one)
    BY <2>2, <2>3, StoredIsProper
  <2>5. Instruction.op = "sdc1" /\ EvenPair(f) => Proper(two)
    <3> SUFFICES ASSUME Instruction.op = "sdc1", EvenPair(f) PROVE Proper(two)
      OBVIOUS
    <3>1. f \in FpuRegisters /\ f + 1 \in FpuRegisters
      BY <2>2 DEF EvenPair
    <3>2. ToBytes(Fpu(f), 4) \o ToBytes(Fpu(f + 1), 4) \in Seq(Byte)
      <4>1. ToBytes(Fpu(f), 4) \in Seq(Byte) /\ ToBytes(Fpu(f + 1), 4) \in Seq(Byte)
        BY <2>3, <3>1
      <4> QED
        BY <4>1
    <3> QED
      BY <3>2, StoredIsProper
  <2> HIDE DEF one, two
  <2>6. Proper(o)
    BY <2>2, <2>4, <2>5, RequireIsProper
  <2> HIDE DEF o
  <2> QED
    BY <1>1, <2>1, <2>2, <2>6 DEF ProperForward
<1> QED
  BY <1>3, <1>4, <1>5 DEF StepFpu

-----------------------------------------------------------------------------
(* System calls. *)

LEMMA WhatSyscallsRead ==
  ASSUME TypedInv
  PROVE  /\ Filled(io) /\ GoodIO(io) /\ Len(io.output) <= OutputLimit /\ mem \in Memory
         /\ Fitting(fs, Paths, Byte) /\ GoodFiles(fs) /\ CacheFits(cache)
         /\ A0 \in Nat /\ Signed(A0) \in Int /\ Signed(A1) \in Int /\ Signed(A2) \in Int
         /\ GoodCpu(cpu) /\ HeapFits(cpu, mem)
<1>1. {4, 5, 6} \subseteq Registers
  BY MachineAssumption
<1>2. A0 \in Word /\ A1 \in Word /\ A2 \in Word
  BY <1>1, RegistersHoldWords DEF A0, A1, A2
<1>3. A0 \in Nat /\ A1 \in Int /\ A2 \in Int
  BY <1>2, WidthsAreNatural
<1>4. Signed(A0) \in Int /\ Signed(A1) \in Int /\ Signed(A2) \in Int
  BY <1>3, SignedIsInt
<1>5. /\ Filled(io) /\ GoodIO(io) /\ Len(io.output) <= OutputLimit /\ mem \in Memory
      /\ Fitting(fs, Paths, Byte) /\ GoodFiles(fs) /\ CacheFits(cache)
      /\ GoodCpu(cpu) /\ HeapFits(cpu, mem)
  BY DEF TypedInv, Sound, Now, View, Inv, WellFormed
<1> QED
  BY <1>3, <1>4, <1>5

LEMMA OneOfIsProper ==
  ASSUME TypedInv, Executing({"syscall"}),
         NEW S, \A o \in S : Proper(o), FinishOneOf(S)
  PROVE  ProperForward /\ steps < MaxSteps
BY FetchedInstruction, RegistersHoldWords DEF FinishOneOf, ProperForward

LEMMA PrintingIsProper ==
  ASSUME Escapes = {}, TypedInv, SyscallPrintValue \/ SyscallPrintString
  PROVE  ProperForward /\ steps < MaxSteps
<1>1. Proper(Faulted)
  BY DoneIsProper
<1>2. ASSUME NEW text, IsSequence(text), NEW o \in WithIO(WriteResults(io, text), AsIs)
      PROVE  Proper(o)
  <2>1. PICK r \in WriteResults(io, text) : o = [Done EXCEPT !.io = r.io, !.kind = r.status]
    BY <1>2 DEF WithIO, AsIs
  <2>2. Filled(r.io) /\ Len(r.io.output) <= OutputLimit
    BY <1>2, WhatSyscallsRead, WritesFit
  <2> QED
    BY <2>1, <2>2, TransferIsProper
<1>3. CASE SyscallPrintValue
  <2>1. \A text \in Printed : IsSequence(text)
    <3>1. \A x : <<x>> \in Seq({x})
      OBVIOUS
    <3> QED
      BY <3>1, MachineAssumption DEF Printed, IsSequence
  <2> DEFINE S == IF PrintArguments
                  THEN UNION {WithIO(WriteResults(io, text), AsIs) : text \in Printed}
                  ELSE {Faulted}
  <2>2. FinishOneOf(S) /\ Executing({"syscall"})
    BY <1>3 DEF SyscallPrintValue, Syscall
  <2>3. \A o \in S : Proper(o)
    BY <1>1, <1>2, <2>1
  <2> HIDE DEF S
  <2> QED
    BY <2>2, <2>3, OneOfIsProper
<1>4. CASE SyscallPrintString
  <2> DEFINE Lengths == CStringLengths(mem, A0, MaxString)
             S == IF Known({4}) /\ Lengths # {}
                  THEN UNION {WithIO(WriteResults(io, StringAt(A0, n)), AsIs) : n \in Lengths}
                  ELSE {Faulted}
  <2>1. FinishOneOf(S) /\ Executing({"syscall"})
    BY <1>4 DEF SyscallPrintString, Syscall
  <2>2. \A n \in Lengths : n \in Nat
    BY MachineAssumption DEF CStringLengths
  <2>3. \A n \in Lengths : IsSequence(StringAt(A0, n))
    BY <2>2, BytesAreSequences DEF StringAt
  <2> HIDE DEF Lengths
  <2>4. \A o \in S : Proper(o)
    BY <1>1, <1>2, <2>3
  <2> HIDE DEF S
  <2> QED
    BY <2>1, <2>4, OneOfIsProper
<1> QED
  BY <1>3, <1>4

LEMMA FirstOrMinusOne ==
  ASSUME NEW bytes \in Seq(Byte)
  PROVE  (IF bytes = <<>> THEN -1 ELSE bytes[1]) \in Int
<1>1. bytes # <<>> => bytes[1] \in Byte
  BY EndsOfSequences
<1>2. bytes # <<>> => bytes[1] \in Int
  BY <1>1, WidthsAreNatural
<1> QED
  BY <1>2

LEMMA ReadingIsProper ==
  ASSUME Escapes = {}, TypedInv,
         SyscallReadInt \/ SyscallReadChar \/ SyscallReadFloat \/ SyscallReadLine
  PROVE  ProperForward /\ steps < MaxSteps
<1>1. Proper(Faulted) /\ Proper(Done) /\ Filled(io) /\ Len(io.output) <= OutputLimit
  BY DoneIsProper, WhatSyscallsRead
<1>2. CASE SyscallReadInt
  <2> DEFINE S == WithIO(ReadInt(io), LAMBDA o, r : SetRegister(o, 2, r.value))
  <2>1. FinishOneOf(S) /\ Executing({"syscall"})
    BY <1>2 DEF SyscallReadInt, Syscall
  <2>2. ASSUME NEW o \in S PROVE Proper(o)
    <3>1. PICK r \in ReadInt(io) :
             o = LET p == [Done EXCEPT !.io = r.io, !.kind = r.status]
                 IN  IF r.status = "done" THEN SetRegister(p, 2, r.value) ELSE p
      BY DEF WithIO
    <3>2. Filled(r.io) /\ r.io.output = io.output /\ r.value \in Int
      BY <1>1, ReadIntTakesBytes
    <3>3. Proper([Done EXCEPT !.io = r.io, !.kind = r.status])
      BY <1>1, <3>2, TransferIsProper
    <3> QED
      BY <3>1, <3>2, <3>3, WrittenRegister
  <2> HIDE DEF S
  <2> QED
    BY <2>1, <2>2, OneOfIsProper
<1>3. CASE SyscallReadChar
  <2> DEFINE Char(r) == IF r.bytes = <<>> THEN -1 ELSE r.bytes[1]
             S == WithIO(ReadBytes(io, OneByte), LAMBDA o, r : SetRegister(o, 2, Char(r)))
  <2>1. FinishOneOf(S) /\ Executing({"syscall"})
    BY <1>3 DEF SyscallReadChar, Syscall
  <2>2. ASSUME NEW o \in S PROVE Proper(o)
    <3>1. PICK r \in ReadBytes(io, OneByte) :
             o = LET p == [Done EXCEPT !.io = r.io, !.kind = r.status]
                 IN  IF r.status = "done" THEN SetRegister(p, 2, Char(r)) ELSE p
      BY DEF WithIO
    <3>2. TakesBytes(io, r)
      BY <1>1, ReadBytesTakesBytes
    <3>3. Proper([Done EXCEPT !.io = r.io, !.kind = r.status])
      BY <1>1, <3>2, TransferIsProper DEF TakesBytes
    <3>4. r.bytes \in Seq(Byte)
      BY <3>2 DEF TakesBytes
    <3>5. Char(r) \in Int
      BY <3>4, FirstOrMinusOne
    <3> HIDE DEF Char
    <3> QED
      BY <3>1, <3>3, <3>5, WrittenRegister
  <2> HIDE DEF S
  <2> QED
    BY <2>1, <2>2, OneOfIsProper
<1>4. CASE SyscallReadFloat
  <2>1. PICK low, high \in FloatImages, fits \in BOOLEAN :
           FinishOneOf(
             WithIO({FloatResults(r, fits \/ Service = 7) : r \in ReadToken(io)},
                    LAMBDA o, r : IF Service = 6 THEN SetFpu(o, 0, low)
                                  ELSE SetFpu(SetFpu(o, 0, low), 1, high)))
    BY <1>4 DEF SyscallReadFloat
  <2> DEFINE Results == {FloatResults(r, fits \/ Service = 7) : r \in ReadToken(io)}
             S == WithIO(Results, LAMBDA o, r : IF Service = 6 THEN SetFpu(o, 0, low)
                                                ELSE SetFpu(SetFpu(o, 0, low), 1, high))
  <2>2. Executing({"syscall"}) /\ low \in Int /\ high \in Int
    BY <1>4, MachineAssumption DEF SyscallReadFloat, Syscall
  <2>3. ASSUME NEW o \in S PROVE Proper(o)
    <3>1. PICK r \in Results :
             o = LET p == [Done EXCEPT !.io = r.io, !.kind = r.status]
                 IN  IF r.status = "done"
                     THEN IF Service = 6 THEN SetFpu(p, 0, low)
                          ELSE SetFpu(SetFpu(p, 0, low), 1, high)
                     ELSE p
      BY DEF WithIO
    <3>2. PICK t \in ReadToken(io) : r = FloatResults(t, fits \/ Service = 7)
      OBVIOUS
    <3>3. TakesBytes(io, t)
      BY <1>1, ReadTokenTakesBytes
    <3>4. r.io = t.io
      BY <3>2, <3>3 DEF FloatResults, TakesBytes
    <3>5. Filled(r.io) /\ r.io.output = io.output
      BY <3>3, <3>4 DEF TakesBytes
    <3> DEFINE p == [Done EXCEPT !.io = r.io, !.kind = r.status]
    <3>6. Proper(p)
      BY <1>1, <3>5, TransferIsProper
    <3>7. o \in {p, SetFpu(p, 0, low), SetFpu(SetFpu(p, 0, low), 1, high)}
      BY <3>1
    <3> HIDE DEF p
    <3>8. Proper(SetFpu(p, 0, low))
      BY <2>2, <3>6, WrittenFpu
    <3>9. Proper(SetFpu(SetFpu(p, 0, low), 1, high))
      BY <2>2, <3>8, WrittenFpu
    <3> QED
      BY <3>6, <3>7, <3>8, <3>9
  <2> HIDE DEF S
  <2> QED
    BY <2>1, <2>2, <2>3, OneOfIsProper DEF S
<1>5. CASE SyscallReadLine
  <2> DEFINE want == LineOf(Signed(A1) - 1)
             S == IF ~Known({4, 5}) THEN {Faulted}
                  ELSE IF Signed(A1) <= 0 THEN {Done}
                  ELSE WithIO(ReadBytes(io, want),
                              LAMBDA o, r : Deliver(o, A0, Append(r.bytes, 0)))
  <2>1. FinishOneOf(S) /\ Executing({"syscall"})
    BY <1>5 DEF SyscallReadLine, Syscall
  <2>2. ASSUME NEW o \in WithIO(ReadBytes(io, want),
                                LAMBDA p, r : Deliver(p, A0, Append(r.bytes, 0)))
        PROVE  Proper(o)
    <3>1. PICK r \in ReadBytes(io, want) :
             o = LET p == [Done EXCEPT !.io = r.io, !.kind = r.status]
                 IN  IF r.status = "done" THEN Deliver(p, A0, Append(r.bytes, 0)) ELSE p
      BY <2>2 DEF WithIO
    <3>2. TakesBytes(io, r)
      BY <1>1, ReadBytesTakesBytes
    <3> DEFINE p == [Done EXCEPT !.io = r.io, !.kind = r.status]
    <3>3. Proper(p) /\ p.mem = mem
      BY <1>1, <3>2, TransferIsProper DEF TakesBytes
    <3>4. Append(r.bytes, 0) \in Seq(Byte)
      <4>1. r.bytes \in Seq(Byte)
        BY <3>2 DEF TakesBytes
      <4>2. 0 \in Byte
        BY WidthsAreNatural
      <4> QED
        BY <4>1, <4>2, EndsOfSequences
    <3>5. o = IF r.status = "done" THEN Deliver(p, A0, Append(r.bytes, 0)) ELSE p
      BY <3>1
    <3> HIDE DEF p
    <3> QED
      BY <3>3, <3>4, <3>5, DeliverIsProper
  <2>3. \A o \in S : Proper(o)
    BY <1>1, <2>2
  <2> HIDE DEF S
  <2> QED
    BY <2>1, <2>3, OneOfIsProper
<1> QED
  BY <1>2, <1>3, <1>4, <1>5

LEMMA SbrkIsProper ==
  ASSUME TypedInv, SyscallSbrk
  PROVE  ProperForward /\ steps < MaxSteps
<1> DEFINE amount == Signed(A0)
           newBreak == WordAligned(cpu.heapBreak + amount)
           end == IF newBreak > mem.dataEnd THEN newBreak ELSE mem.dataEnd
           m == [cell |-> mem.cell, present |-> mem.present, dataEnd |-> end]
           c == [cpu EXCEPT !.heapBreak = newBreak]
           p == [Done EXCEPT !.mem = m]
           grown == [Done EXCEPT !.mem = GrowData(mem, newBreak), !.cpu.heapBreak = newBreak]
           condition == /\ Known({4}) /\ amount >= 0 /\ newBreak <= DataLimit
                        /\ CanGrowData(newBreak)
           o == Require(condition, SetRegister(grown, 2, cpu.heapBreak))
<1>1. Finish(o, NextPc) /\ Executing({"syscall"})
  BY DEF SyscallSbrk, Syscall
<1>2. /\ mem \in Memory /\ GoodCpu(cpu) /\ HeapFits(cpu, mem) /\ amount \in Int
      /\ cpu.heapBreak \in Int
  BY WhatSyscallsRead, RegistersHoldWords
<1>3. /\ mem = [cell |-> mem.cell, present |-> mem.present, dataEnd |-> mem.dataEnd]
      /\ mem.dataEnd \in Nat /\ mem.dataEnd <= DataLimit
  BY <1>2 DEF Memory, HeapFits
<1>4. DataLimit \in Int
  BY MemoryAssumption
<1> HIDE DEF amount
<1>5. ASSUME condition
      PROVE  Proper(grown)
  <2>1. amount \in Nat /\ cpu.heapBreak \in Nat
    BY <1>2, <1>5, RegistersHoldWords
  <2>2. cpu.heapBreak + amount \in Nat
    BY <2>1
  <2>3. newBreak \in Nat /\ newBreak <= DataLimit
    BY <1>5, <2>2 DEF WordAligned
  <2> HIDE DEF newBreak
  <2>4. GrowData(mem, newBreak) = m
    BY <1>3 DEF GrowData
  <2>5. end \in Nat /\ newBreak <= end /\ end <= DataLimit
    BY <1>3, <1>4, <2>3
  <2> HIDE DEF end
  <2>6. m \in Memory /\ m.cell = mem.cell /\ m.dataEnd = end
    BY <1>2, <2>5 DEF Memory
  <2>7. c = [pc |-> cpu.pc, registers |-> cpu.registers, fpu |-> cpu.fpu,
             hi |-> cpu.hi, lo |-> cpu.lo, reservation |-> cpu.reservation,
             heapBreak |-> newBreak, exited |-> cpu.exited,
             status |-> cpu.status, stdio |-> cpu.stdio]
    BY <1>2 DEF GoodCpu
  <2> HIDE DEF c, m
  <2>8. GoodCpu(c)
    BY <1>2, <2>3, <2>7 DEF GoodCpu, IsCpu
  <2>9. HeapFits(c, m)
    BY <2>5, <2>6, <2>7 DEF HeapFits
  <2>10. p = [kind |-> "done", cpu |-> cpu, mem |-> m, io |-> io, fs |-> fs,
              cache |-> cache, changes |-> NoChanges]
    BY DEF Done, Outcome
  <2>11. grown = [p EXCEPT !.cpu.heapBreak = newBreak]
    BY <2>4
  <2> HIDE DEF p, grown
  <2>12. grown = [kind |-> "done", cpu |-> c, mem |-> m, io |-> io, fs |-> fs,
                  cache |-> cache, changes |-> NoChanges]
    BY <2>10, <2>11 DEF c
  <2>13. Filled(io) /\ Len(io.output) <= OutputLimit /\ Fitting(fs, Paths, Byte)
         /\ CacheFits(cache)
    BY WhatSyscallsRead
  <2> QED
    BY <2>6, <2>8, <2>9, <2>12, <2>13 DEF Proper
<1> HIDE DEF grown, condition
<1>6. condition => Proper(SetRegister(grown, 2, cpu.heapBreak))
  BY <1>2, <1>5, WrittenRegister
<1>7. Proper(o)
  BY <1>6, RequireIsProper
<1> HIDE DEF o
<1> QED
  BY <1>1, <1>7, FetchedInstruction, RegistersHoldWords DEF ProperForward

LEMMA ExitIsProper ==
  ASSUME TypedInv, SyscallUnknown \/ SyscallExit \/ SyscallClose
  PROVE  ProperForward /\ steps < MaxSteps
<1>1. Proper(Faulted) /\ Proper(Done) /\ GoodCpu(cpu) /\ NextPc \in Word
      /\ Done.cpu = cpu /\ Done.mem = mem
  BY DoneIsProper, WhatSyscallsRead, RegistersHoldWords DEF Done, Outcome
<1>2. CASE SyscallUnknown
  BY <1>1, <1>2, FetchedInstruction DEF SyscallUnknown, ProperForward
<1>3. CASE SyscallExit
  <2> DEFINE status == IF Service = 10 THEN 0 ELSE Signed(A0)
             yes == TRUE
             a == [cpu EXCEPT !.exited = yes]
             c == [a EXCEPT !.status = status]
             left == [Done EXCEPT !.cpu.exited = TRUE, !.cpu.status = status]
             o == Require(Service = 17 => Known({4}), left)
  <2>1. Finish(o, NextPc) /\ Executing({"syscall"})
    BY <1>3 DEF SyscallExit, Syscall
  <2>2. status \in Int /\ yes \in BOOLEAN
    BY WhatSyscallsRead
  <2>3. left = [Done EXCEPT !.cpu = c]
    BY DEF Done, Outcome
  <2> HIDE DEF status, yes
  <2>4. a = [pc |-> cpu.pc, registers |-> cpu.registers, fpu |-> cpu.fpu,
             hi |-> cpu.hi, lo |-> cpu.lo, reservation |-> cpu.reservation,
             heapBreak |-> cpu.heapBreak, exited |-> yes,
             status |-> cpu.status, stdio |-> cpu.stdio]
    BY <1>1 DEF GoodCpu
  <2> HIDE DEF a, left
  <2>5. c = [pc |-> cpu.pc, registers |-> cpu.registers, fpu |-> cpu.fpu,
             hi |-> cpu.hi, lo |-> cpu.lo, reservation |-> cpu.reservation,
             heapBreak |-> cpu.heapBreak, exited |-> yes,
             status |-> status, stdio |-> cpu.stdio]
    BY <2>4
  <2> HIDE DEF c
  <2>6. GoodCpu(c) /\ c.heapBreak = cpu.heapBreak
    BY <1>1, <2>2, <2>5 DEF GoodCpu, IsCpu
  <2>7. Proper(left)
    BY <1>1, <2>3, <2>6, ChangedCpu
  <2>8. Proper(o)
    BY <2>7, RequireIsProper
  <2> HIDE DEF o
  <2> QED
    BY <1>1, <2>1, <2>8, FetchedInstruction DEF ProperForward
<1>4. CASE SyscallClose
  <2> DEFINE fd == Signed(A0)
             standard == fd \in cpu.stdio
             known == fd \in DOMAIN fs.handles
             c == [cpu EXCEPT !.stdio = @ \ {fd}]
             detached == [Done EXCEPT !.cpu.stdio = @ \ {fd}]
             released == [Done EXCEPT !.fs = CloseFile(fs, fd)]
             closed == IF standard THEN detached ELSE IF known THEN released ELSE Done
             result == IF standard \/ known THEN 0 ELSE -1
             o == Require(Known({4}), SetRegister(closed, 2, result))
  <2>1. Finish(o, NextPc) /\ Executing({"syscall"})
    BY <1>4 DEF SyscallClose, Syscall
  <2>2. detached = [Done EXCEPT !.cpu = c]
    BY DEF Done, Outcome
  <2>3. Proper(released)
    BY <1>1, WhatSyscallsRead, CloseFileFits, ChangedFilesIsProper
  <2> HIDE DEF fd, detached, released
  <2>4. c = [pc |-> cpu.pc, registers |-> cpu.registers, fpu |-> cpu.fpu,
             hi |-> cpu.hi, lo |-> cpu.lo, reservation |-> cpu.reservation,
             heapBreak |-> cpu.heapBreak, exited |-> cpu.exited,
             status |-> cpu.status, stdio |-> cpu.stdio \ {fd}]
    BY <1>1 DEF GoodCpu
  <2> HIDE DEF c
  <2>5. GoodCpu(c) /\ c.heapBreak = cpu.heapBreak
    BY <1>1, <2>4 DEF GoodCpu, IsCpu
  <2>6. Proper(detached)
    BY <1>1, <2>2, <2>5, ChangedCpu
  <2> HIDE DEF standard, known
  <2>7. Proper(closed) /\ result \in Int
    BY <1>1, <2>3, <2>6
  <2> HIDE DEF closed, result
  <2>8. Proper(o)
    BY <2>7, WrittenRegister, RequireIsProper
  <2> HIDE DEF o
  <2> QED
    BY <1>1, <2>1, <2>8, FetchedInstruction DEF ProperForward
<1> QED
  BY <1>2, <1>3, <1>4

LEMMA OpenIsProper ==
  ASSUME TypedInv, SyscallOpen
  PROVE  ProperForward /\ steps < MaxSteps
<1>1. /\ Proper(Faulted) /\ Proper(Done) /\ CacheFits(cache) /\ mem \in Memory /\ A0 \in Nat
      /\ GoodFiles(fs) /\ Fitting(fs, Paths, Byte)
  BY DoneIsProper, WhatSyscallsRead
<1>2. ASSUME NEW p, NEW host \in HostAnswers(p)
      PROVE  host \in Offer(Byte)
  <2>1. \A c \in HostContents : c \in Seq(Byte)
    BY MachineAssumption
  <2> QED
    BY <1>1, <1>2, <2>1 DEF HostAnswers, CacheFits, Offer
<1>3. ASSUME NEW p \in Paths, NEW host \in HostAnswers(p), NEW creatable
      PROVE  Proper(Opened(p, host, creatable))
  <2> DEFINE flags == Signed(A1)
             r == Open(fs, p, flags, host, creatable)
             asked == AsksHost(fs, p, flags)
             c == IF asked THEN Assign(cache, p, host) ELSE cache
             o == [Done EXCEPT !.fs = r.fs, !.cache = c]
  <2>1. Fitting(r.fs, Paths, Byte)
    BY <1>1, <1>2, <1>3, OpenFits
  <2>2. CacheFits(c)
    <3>1. CacheFits(Assign(cache, p, host))
      BY <1>1, <1>2, <1>3 DEF CacheFits, Assign
    <3> QED
      BY <1>1, <3>1
  <2>3. r.fd \in Int
    BY <1>1, FileResultsAreInt
  <2>4. Opened(p, host, creatable) = SetRegister(o, 2, r.fd)
    <3>1. Done.cache = cache
      BY DEF Done, Outcome
    <3>2. [Done EXCEPT !.fs = r.fs,
                       !.cache = IF asked THEN Assign(@, p, host) ELSE @] = o
      BY <3>1
    <3> QED
      BY <3>2 DEF Opened
  <2> HIDE DEF r, asked, c
  <2>5. Proper(o)
    BY <1>1, <2>1, <2>2, ChangedFilesIsProper
  <2> HIDE DEF o
  <2> QED
    BY <2>3, <2>4, <2>5, WrittenRegister
<1>4. Proper(SetRegister(Done, 2, -1))
  BY <1>1, WrittenRegister
<1>5. ASSUME NEW name \in Paths, NEW o \in OpenOutcomes(name)
      PROVE  Proper(o)
  BY <1>1, <1>3, <1>4, <1>5 DEF OpenOutcomes
<1> DEFINE Lengths == CStringLengths(mem, A0, MaxPath)
           S == IF Known({4}) /\ Lengths # {}
                THEN UNION {OpenOutcomes(NameOf(StringAt(A0, n))) : n \in Lengths}
                ELSE {Faulted}
<1>6. FinishOneOf(S) /\ Executing({"syscall"})
  BY DEF SyscallOpen, Syscall
<1>7. ASSUME NEW n \in Lengths
      PROVE  NameOf(StringAt(A0, n)) \in Paths
  <2>1. StringAt(A0, n) \in Seq(Byte)
    BY <1>1, StringOfMemory, MachineAssumption
  <2> QED
    BY <2>1 DEF Paths
<1> HIDE DEF Lengths
<1>8. \A o \in S : Proper(o)
  BY <1>1, <1>5, <1>7
<1> HIDE DEF S
<1> QED
  BY <1>6, <1>8, OneOfIsProper

LEMMA ReadIsProper ==
  ASSUME Escapes = {}, TypedInv, SyscallRead
  PROVE  ProperForward /\ steps < MaxSteps
<1> DEFINE fd == Signed(A0)
           count == Signed(A2)
           moved == ReadFile(fs, fd, count)
           Received(o, bytes) == SetRegister(Deliver(o, A1, bytes), 2, Len(bytes))
           fromInput == WithIO(ReadBytes(io, BytesOf(count)),
                               LAMBDA o, r : Received(o, r.bytes))
           fromFile == Received([Done EXCEPT !.fs = moved.fs], moved.bytes)
           refused == SetRegister(Done, 2, -1)
           S == IF ~Known({4, 5, 6}) THEN {Faulted}
                ELSE IF count \notin 0 .. MaxFileBytes THEN {refused}
                ELSE IF fd = 0 /\ 0 \in cpu.stdio THEN fromInput
                ELSE IF MayRead(fs, fd) THEN {fromFile} ELSE {refused}
<1>1. /\ Proper(Faulted) /\ Proper(Done) /\ Done.mem = mem
      /\ Filled(io) /\ Len(io.output) <= OutputLimit
      /\ GoodFiles(fs) /\ Fitting(fs, Paths, Byte)
  BY DoneIsProper, WhatSyscallsRead DEF Done, Outcome
<1>2. FinishOneOf(S) /\ Executing({"syscall"})
  BY DEF SyscallRead, Syscall
<1>3. ASSUME NEW o, Proper(o), o.mem = mem, NEW bytes \in Seq(Byte)
      PROVE  Proper(Received(o, bytes))
  BY <1>3, DeliverIsProper, WrittenRegister
<1>4. ASSUME NEW o \in fromInput
      PROVE  Proper(o)
  <2> DEFINE p(r) == [Done EXCEPT !.io = r.io, !.kind = r.status]
  <2>1. PICK r \in ReadBytes(io, BytesOf(count)) :
           o = IF r.status = "done" THEN Received(p(r), r.bytes) ELSE p(r)
    BY <1>4 DEF WithIO
  <2>2. TakesBytes(io, r)
    BY <1>1, ReadBytesTakesBytes
  <2>3. r.bytes \in Seq(Byte)
    BY <2>2 DEF TakesBytes
  <2>4. Proper(p(r)) /\ p(r).mem = mem
    BY <1>1, <2>2, TransferIsProper DEF TakesBytes
  <2> HIDE DEF p
  <2> QED
    BY <1>3, <2>1, <2>3, <2>4
<1>5. ASSUME MayRead(fs, fd), count \in 0 .. MaxFileBytes
      PROVE  Proper(fromFile)
  <2> DEFINE o == [Done EXCEPT !.fs = moved.fs]
  <2>1. count \in Nat
    BY <1>5, FileSystemAssumption
  <2>2. Fitting(moved.fs, Paths, Byte) /\ moved.bytes \in Seq(Byte)
    BY <1>1, <1>5, <2>1, ReadFileFits, ReadFileGivesBytes
  <2>3. Proper(o) /\ o.mem = mem
    <3>1. Proper(o)
      BY <1>1, <2>2, WhatSyscallsRead, ChangedFilesIsProper
    <3> QED
      BY <1>1, <3>1
  <2> HIDE DEF o, moved, count
  <2>4. Proper(Received(o, moved.bytes))
    BY <1>3, <2>2, <2>3
  <2> QED
    BY <2>4 DEF o
<1>6. Proper(refused)
  BY <1>1, WrittenRegister
<1> HIDE DEF fromInput, fromFile, refused, count, fd
<1>7. \A o \in S : Proper(o)
  BY <1>1, <1>4, <1>5, <1>6
<1> HIDE DEF S
<1> QED
  BY <1>2, <1>7, OneOfIsProper

LEMMA WriteIsProper ==
  ASSUME Escapes = {}, TypedInv, SyscallWrite
  PROVE  ProperForward /\ steps < MaxSteps
<1> DEFINE fd == Signed(A0)
           count == Signed(A2)
           bytes == BytesAt(mem, A1, count)
           written == WriteFile(fs, fd, bytes)
           printed == WithIO(WriteResults(io, bytes), LAMBDA o, r : SetRegister(o, 2, count))
           stored == SetRegister([Done EXCEPT !.fs = written.fs], 2, written.count)
           S == IF ~Known({4, 5, 6}) THEN {Faulted}
                ELSE IF count \notin 0 .. MaxFileBytes THEN {SetRegister(Done, 2, -1)}
                ELSE IF ~Readable(mem, A1, count, "read") THEN {Faulted}
                ELSE IF fd \in {1, 2} \cap cpu.stdio THEN printed
                ELSE {stored}
<1>1. /\ Proper(Faulted) /\ Proper(Done) /\ mem \in Memory
      /\ Filled(io) /\ GoodIO(io) /\ Len(io.output) <= OutputLimit
      /\ GoodFiles(fs) /\ Fitting(fs, Paths, Byte)
  BY DoneIsProper, WhatSyscallsRead
<1>2. FinishOneOf(S) /\ Executing({"syscall"})
  BY DEF SyscallWrite, Syscall
<1>3. ASSUME count \in 0 .. MaxFileBytes, Readable(mem, A1, count, "read")
      PROVE  count \in Nat /\ bytes \in Seq(Byte) /\ IsSequence(bytes)
  <2>1. count \in Nat
    BY <1>3, FileSystemAssumption
  <2> HIDE DEF count
  <2>2. bytes \in Seq(Byte)
    BY <1>1, <1>3, <2>1, BytesOfMemory
  <2> QED
    BY <2>1, <2>2 DEF IsSequence
<1>4. ASSUME count \in 0 .. MaxFileBytes, Readable(mem, A1, count, "read"),
             NEW o \in printed
      PROVE  Proper(o)
  <2> DEFINE p(r) == [Done EXCEPT !.io = r.io, !.kind = r.status]
  <2>1. PICK r \in WriteResults(io, bytes) :
           o = IF r.status = "done" THEN SetRegister(p(r), 2, count) ELSE p(r)
    BY <1>4 DEF WithIO
  <2> HIDE DEF bytes, count
  <2>2. Filled(r.io) /\ Len(r.io.output) <= OutputLimit
    BY <1>1, <1>3, <1>4, <2>1, WritesFit
  <2>3. Proper(p(r))
    BY <2>2, TransferIsProper
  <2> HIDE DEF p, printed
  <2>4. count \in Int
    BY <1>4, FileSystemAssumption
  <2>5. Proper(SetRegister(p(r), 2, count))
    BY <2>3, <2>4, WrittenRegister
  <2> QED
    BY <2>1, <2>3, <2>5
<1>5. ASSUME count \in 0 .. MaxFileBytes, Readable(mem, A1, count, "read")
      PROVE  Proper(stored)
  <2> HIDE DEF bytes, count
  <2>1. Fitting(written.fs, Paths, Byte) /\ written.count \in Int
    BY <1>1, <1>3, <1>5, WriteFileFits, FileResultsAreInt
  <2> HIDE DEF written
  <2>2. Proper([Done EXCEPT !.fs = written.fs])
    BY <1>1, <2>1, WhatSyscallsRead, ChangedFilesIsProper
  <2> QED
    BY <2>1, <2>2, WrittenRegister
<1>6. Proper(SetRegister(Done, 2, -1))
  BY <1>1, WrittenRegister
<1> HIDE DEF printed, stored, count, fd, bytes
<1>7. \A o \in S : Proper(o)
  BY <1>1, <1>4, <1>5, <1>6
<1> HIDE DEF S
<1> QED
  BY <1>2, <1>7, OneOfIsProper

LEMMA StepsAreProper ==
  ASSUME Escapes = {}, TypedInv, Step
  PROVE  ProperForward /\ steps < MaxSteps
BY ArithmeticIsProper, HiLoIsProper, ControlIsProper, MemoryIsProper, FpuIsProper,
   ExitIsProper, SbrkIsProper, PrintingIsProper, ReadingIsProper, OpenIsProper,
   ReadIsProper, WriteIsProper
DEF Step, StepSyscall

-----------------------------------------------------------------------------
(* Every step keeps the invariant. *)

LEMMA GoingKeepsCpu ==
  ASSUME NEW c, GoodCpu(c), NEW next \in Word
  PROVE  /\ GoodCpu(Goto(c, next))
         /\ Goto(c, next).pc = Sentinel => Goto(c, next).exited
         /\ Goto(c, next).heapBreak = c.heapBreak
         /\ Goto(c, next).reservation = c.reservation
<1> DEFINE exited == c.exited \/ next = Sentinel
           status == IF next = Sentinel THEN 0 ELSE c.status
           p == [c EXCEPT !.pc = next]
           q == [p EXCEPT !.exited = exited]
           g == [q EXCEPT !.status = status]
<1>1. exited \in BOOLEAN /\ status \in Int /\ (next = Sentinel => exited)
  BY DEF GoodCpu, IsCpu
<1>2. Goto(c, next) = g
  BY DEF Goto, GoodCpu
<1> HIDE DEF exited, status
<1>3. p = [pc |-> next, registers |-> c.registers, fpu |-> c.fpu,
           hi |-> c.hi, lo |-> c.lo, reservation |-> c.reservation,
           heapBreak |-> c.heapBreak, exited |-> c.exited,
           status |-> c.status, stdio |-> c.stdio]
  BY DEF GoodCpu
<1> HIDE DEF p
<1>4. q = [pc |-> next, registers |-> c.registers, fpu |-> c.fpu,
           hi |-> c.hi, lo |-> c.lo, reservation |-> c.reservation,
           heapBreak |-> c.heapBreak, exited |-> exited,
           status |-> c.status, stdio |-> c.stdio]
  BY <1>3
<1> HIDE DEF q
<1>5. g = [pc |-> next, registers |-> c.registers, fpu |-> c.fpu,
           hi |-> c.hi, lo |-> c.lo, reservation |-> c.reservation,
           heapBreak |-> c.heapBreak, exited |-> exited,
           status |-> status, stdio |-> c.stdio]
  BY <1>4
<1> HIDE DEF g
<1>6. GoodCpu(g)
  BY <1>1, <1>5 DEF GoodCpu, IsCpu
<1>7. g.pc = Sentinel => g.exited
  BY <1>1, <1>5
<1>8. g.heapBreak = c.heapBreak /\ g.reservation = c.reservation
  BY <1>5
<1> QED
  BY <1>2, <1>6, <1>7, <1>8

(* What was read before is still in the buffer. *)
LEMMA LongerBuffer ==
  ASSUME NEW x, NEW y, Filled(x), Filled(y), Begins(y.buffer, x.buffer)
  PROVE  Len(x.buffer) <= Len(y.buffer)
BY DEF Begins, Filled

(* No change of memory by an instruction leaves a reservation. *)
ReservationGone ==
    steps' > steps /\ mem'.cell # mem.cell => cpu'.reservation = None

LEMMA CompletedIsTyped ==
  ASSUME TypedInv, Inv', Begins(io'.buffer, io.buffer), steps < MaxSteps,
         NEW o, Proper(o), NEW next \in Word,
         Complete([o EXCEPT !.cpu = Goto(@, next)])
  PROVE  TypedInv' /\ ReservationGone
<1> DEFINE c == Goto(o.cpu, next)
           p == [o EXCEPT !.cpu = c]
<1>1. Complete(p) /\ p.cpu = c /\ p.mem = o.mem /\ p.io = o.io /\ p.fs = o.fs
      /\ p.cache = o.cache
  BY DEF Proper
<1> HIDE DEF p
<1>2. /\ cpu' = c /\ mem' = o.mem /\ io' = o.io /\ fs' = o.fs /\ cache' = o.cache
      /\ steps' = steps + 1
      /\ history' = Remembered(history, Snapshot(p.changes))
      /\ past' = Remembered(past, Now)
  BY <1>1 DEF Complete
<1>3. /\ GoodCpu(c) /\ (c.pc = Sentinel => c.exited)
      /\ c.heapBreak = o.cpu.heapBreak /\ c.reservation = o.cpu.reservation
  BY GoingKeepsCpu DEF Proper
<1> HIDE DEF c
<1>4. HeapFits(cpu', mem')
  BY <1>2, <1>3 DEF Proper, HeapFits
<1>5. Sound(Now')
  BY <1>2, <1>3, <1>4 DEF Proper, Sound, Now, View
<1>6. Filled(io') /\ CacheFits(cache') /\ Filled(io)
  BY <1>2 DEF Proper, TypedInv
<1>7. Len(io.buffer) <= Len(io'.buffer) /\ Len(io.buffer) \in Nat /\ Len(io'.buffer) \in Nat
      /\ io.position \in Nat /\ io.position <= Len(io.buffer)
  BY <1>6, LongerBuffer DEF Filled
<1>8. IsSequence(past) /\ IsSequence(history) /\ Len(past) = Len(history)
      /\ Len(past) \in Nat /\ Dropped(past) \in {0, 1}
  BY LengthIsNatural DEF TypedInv, Inv, UndoChain, Dropped
<1>9. /\ Len(past') = Len(past) + 1 - Dropped(past)
      /\ \A i \in 1 .. Len(past') :
            past'[i] = IF i + Dropped(past) = Len(past) + 1 THEN Now
                       ELSE past[i + Dropped(past)]
  <2>1. LET r == Remembered(past, Now)
        IN  /\ Len(r) = Len(past) + 1 - Dropped(past)
            /\ \A i \in 1 .. Len(r) :
                  r[i] = IF i + Dropped(past) = Len(past) + 1 THEN Now
                         ELSE past[i + Dropped(past)]
    BY <1>8, RememberedSequence
  <2> QED
    BY <1>2, <2>1
<1>10. ASSUME NEW i \in 1 .. Len(past')
       PROVE  Sound(past'[i]) /\ past'[i].position <= Len(io'.buffer)
  <2>1. CASE i + Dropped(past) = Len(past) + 1
    <3>1. past'[i] = Now /\ Now.position = io.position
      BY <1>9, <2>1 DEF Now, View
    <3> QED
      BY <1>7, <3>1 DEF TypedInv
  <2>2. CASE i + Dropped(past) # Len(past) + 1
    <3> DEFINE j == i + Dropped(past)
    <3>1. j \in 1 .. Len(past) /\ past'[i] = past[j]
      BY <1>8, <1>9, <2>2
    <3> HIDE DEF j
    <3>2. Sound(past[j]) /\ past[j].position <= Len(io.buffer)
      BY <3>1 DEF TypedInv
    <3>3. past[j].position \in Nat
      BY <3>1 DEF TypedInv, Inv, WellFormed
    <3> QED
      BY <1>7, <3>1, <3>2, <3>3
  <2> QED
    BY <2>1, <2>2
<1>11. Len(history') <= HistoryLimit
  <2>1. Len(history') = Len(history) + 1 - Dropped(history)
    BY <1>2, <1>8, RememberedSequence
  <2>2. Len(history) <= HistoryLimit /\ Len(history) \in Nat
    BY <1>8 DEF TypedInv
  <2> QED
    BY <2>1, <2>2, HistoryAssumption DEF Dropped
<1>12. steps' <= MaxSteps
  BY <1>2, MachineAssumption DEF TypedInv, Inv
<1>13. ReservationGone
  BY <1>2, <1>3 DEF ReservationGone, Proper
<1> QED
  BY <1>5, <1>6, <1>10, <1>11, <1>12, <1>13 DEF TypedInv

(* What leaves the state observed as it was keeps the invariant. *)
LEMMA UnobservedIsTyped ==
  ASSUME TypedInv, Inv', Now' = Now, UNCHANGED <<steps, history, past>>,
         Begins(io'.buffer, io.buffer), Filled(io'), CacheFits(cache')
  PROVE  TypedInv' /\ ReservationGone
<1>1. Sound(Now')
  BY DEF TypedInv
<1>2. Len(io.buffer) <= Len(io'.buffer) /\ Len(io.buffer) \in Nat /\ Len(io'.buffer) \in Nat
  BY LongerBuffer DEF Filled, TypedInv
<1>3. ASSUME NEW i \in 1 .. Len(past')
      PROVE  Sound(past'[i]) /\ past'[i].position <= Len(io'.buffer)
  <2>1. past'[i] = past[i] /\ i \in 1 .. Len(past)
    OBVIOUS
  <2>2. past[i].position \in Nat /\ past[i].position <= Len(io.buffer) /\ Sound(past[i])
    BY <2>1 DEF TypedInv, Inv, WellFormed
  <2> QED
    BY <1>2, <2>1, <2>2
<1>4. ReservationGone
  BY DEF ReservationGone, Now, View
<1> QED
  BY <1>1, <1>3, <1>4 DEF TypedInv

LEMMA ForwardIsTyped ==
  ASSUME TypedInv, Forward, ProperForward, steps < MaxSteps
  PROVE  TypedInv' /\ ReservationGone
<1>1. PICK o, next : Proper(o) /\ next \in Word /\ Finish(o, next)
  BY DEF ProperForward
<1>2. Inv' /\ (Completed \/ RolledBack) /\ Begins(io'.buffer, io.buffer)
  BY ForwardHolds DEF TypedInv, Completed, RolledBack
<1>3. CASE Complete([o EXCEPT !.cpu = Goto(@, next)])
  BY <1>1, <1>2, <1>3, CompletedIsTyped
<1>4. CASE RollBack(o) \/ Escape(o)
  <2>1. UNCHANGED <<steps, history, past>> /\ cache' = o.cache
    BY <1>4 DEF RollBack, Escape
  <2>2. Now' = Now
    BY <1>2, <2>1 DEF Completed, RolledBack, TypedInv, Inv
  <2>3. io'.position = io.position /\ io'.output = io.output
    BY <2>2 DEF Now, View
  <2>4. io' = [buffer |-> o.io.buffer, position |-> io'.position, output |-> io'.output]
    <3>1. o.io = [buffer |-> o.io.buffer, position |-> o.io.position,
                  output |-> o.io.output]
      BY <1>1 DEF Proper, Filled
    <3>2. CASE Escape(o)
      BY <3>1, <3>2 DEF Escape
    <3>3. CASE RollBack(o)
      <4>1. io' = RestoreIO(o.io, io.position, Len(io.output))
        BY <3>3 DEF RollBack, Snapshot, RestoredIO
      <4>2. io' = [buffer |-> o.io.buffer, position |-> io.position,
                   output |-> SubSeq(o.io.output, 1, Len(io.output))]
        BY <3>1, <4>1 DEF RestoreIO
      <4> QED
        BY <4>2
    <3> QED
      BY <1>4, <3>2, <3>3
  <2>5. /\ o.io.buffer \in Seq(Byte) /\ Len(o.io.buffer) <= InputLimit
        /\ Len(o.io.buffer) \in Nat /\ CacheFits(o.cache)
    BY <1>1 DEF Proper, Filled
  <2>6. Len(io.buffer) <= Len(io'.buffer) /\ io.position \in 0 .. Len(io.buffer)
        /\ Len(io.buffer) \in Nat
    <3>1. io.buffer \in Seq(Byte) /\ io.position \in 0 .. Len(io.buffer)
      BY DEF TypedInv, Filled
    <3>2. SubSeq(io'.buffer, 1, Len(io.buffer)) = io.buffer
          /\ Len(io.buffer) <= Len(io'.buffer)
      BY <1>2 DEF Begins
    <3> QED
      BY <3>1, <3>2
  <2>7. io'.buffer = o.io.buffer
    BY <2>4
  <2>8. Filled(io')
    BY <2>3, <2>4, <2>5, <2>6, <2>7 DEF Filled
  <2> QED
    BY <1>2, <2>1, <2>2, <2>5, <2>8, UnobservedIsTyped
<1> QED
  BY <1>1, <1>3, <1>4 DEF Finish

LEMMA RewindIsTyped ==
  ASSUME TypedInv, Rewind
  PROVE  TypedInv' /\ ReservationGone
<1>1. /\ Inv' /\ past # <<>> /\ Now' = past[Len(past)] /\ past' = Forgotten(past)
      /\ steps' = steps - 1 /\ Begins(io'.buffer, io.buffer)
  BY RewindHolds DEF TypedInv
<1>2. /\ IsSequence(past) /\ IsSequence(history) /\ history # <<>>
      /\ steps \in Nat /\ steps' \in Nat
  BY <1>1 DEF Inv, TypedInv, Rewind
<1>3. /\ Len(past) \in Nat \ {0} /\ Len(past') = Len(past) - 1
      /\ \A i \in 1 .. Len(past) - 1 : past'[i] = past[i]
  BY <1>1, <1>2, ForgottenSequence
<1>4. Len(past) \in 1 .. Len(past)
  BY <1>3
<1>5. Sound(Now') /\ Now'.position <= Len(io.buffer)
  BY <1>1, <1>4 DEF TypedInv
<1>6. io' = [buffer |-> io.buffer, position |-> io'.position, output |-> io'.output]
  <2>1. io = [buffer |-> io.buffer, position |-> io.position, output |-> io.output]
    BY DEF TypedInv, Filled
  <2>2. PICK n, l : io' = RestoreIO(io, n, l)
    BY DEF Rewind, RestoredIO
  <2> QED
    BY <2>1, <2>2 DEF RestoreIO
<1>7. Filled(io')
  <2>1. io'.position = Now'.position
    BY DEF Now, View
  <2>2. io'.position \in Nat
    BY <1>1 DEF Inv, GoodIO
  <2>3. io.buffer \in Seq(Byte) /\ Len(io.buffer) <= InputLimit /\ Len(io.buffer) \in Nat
    BY DEF TypedInv, Filled
  <2>4. io'.buffer = io.buffer
    BY <1>6
  <2>5. io'.position \in 0 .. Len(io'.buffer)
    BY <1>5, <2>1, <2>2, <2>3, <2>4
  <2> QED
    BY <1>6, <2>3, <2>4, <2>5 DEF Filled
<1>8. ASSUME NEW i \in 1 .. Len(past')
      PROVE  Sound(past'[i]) /\ past'[i].position <= Len(io'.buffer)
  <2>1. i \in 1 .. Len(past) /\ past'[i] = past[i]
    BY <1>3
  <2>2. io'.buffer = io.buffer
    BY <1>6
  <2> QED
    BY <2>1, <2>2 DEF TypedInv
<1>9. CacheFits(cache') /\ steps' <= MaxSteps
  BY <1>1, <1>2, MachineAssumption DEF Rewind, TypedInv
<1>10. Len(history') <= HistoryLimit
  <2>1. Len(history') = Len(history) - 1 /\ Len(history) \in Nat
    BY <1>2, ForgottenSequence DEF Rewind
  <2> QED
    BY <2>1, HistoryAssumption DEF TypedInv
<1>11. ReservationGone
  BY <1>1, <1>2 DEF ReservationGone
<1> QED
  BY <1>1, <1>5, <1>7, <1>8, <1>9, <1>10, <1>11 DEF TypedInv

LEMMA NextIsTyped ==
  ASSUME Escapes = {}
  PROVE  TypedInv /\ [Next]_vars => TypedInv' /\ ReservationGone
<1> SUFFICES ASSUME TypedInv, [Next]_vars PROVE TypedInv' /\ ReservationGone
  OBVIOUS
<1>1. CASE Step
  BY <1>1, StepsGoForward, StepsAreProper, ForwardIsTyped DEF TypedInv
<1>2. CASE Rewind
  BY <1>2, RewindIsTyped
<1>3. CASE UNCHANGED vars
  <2>1. Inv' /\ Filled(io') /\ CacheFits(cache') /\ Now' = Now
    BY <1>3, NextHolds DEF vars, TypedInv, Now, View
  <2>2. Begins(io'.buffer, io.buffer)
    BY <1>3, BeginsWithItself DEF vars, TypedInv, Inv, GoodIO
  <2> QED
    BY <1>3, <2>1, <2>2, UnobservedIsTyped DEF vars
<1> QED
  BY <1>1, <1>2, <1>3 DEF Next

LEMMA TypedInvariance ==
  ASSUME Escapes = {}
  PROVE  Spec => []TypedInv /\ [][TypedInv /\ ReservationGone]_vars
<1>1. TypedInv /\ [Next]_vars => TypedInv'
  BY NextIsTyped
<1>2. TypedInv /\ [Next]_vars => [TypedInv /\ ReservationGone]_vars
  BY NextIsTyped
<1> QED
  BY <1>1, <1>2, InitIsTyped, PTL DEF Spec

-----------------------------------------------------------------------------
(* The shape and the limits of the machine's state: registers and memory   *)
(* hold words and bytes, register 0 is 0, and input, output, pages, steps  *)
(* and history keep their limits (Machine.step and every handler).         *)
THEOREM MachineIsTyped ==
  ASSUME Escapes = {}
  PROVE  Spec => []TypeOK
<1>1. TypedInv => TypeOK
  <2> SUFFICES ASSUME TypedInv PROVE TypeOK
    OBVIOUS
  <2>1. /\ IsCpu(cpu) /\ mem \in Memory /\ Canonical(mem) /\ PageLimit
        /\ Len(io.output) <= OutputLimit
    BY DEF TypedInv, Sound, GoodCpu, Now, View, Inv, WellFormed, GoodMemory, PageLimit
  <2>2. io.position \in 0 .. Len(io.buffer) /\ Len(io.buffer) <= InputLimit
    BY DEF TypedInv, Filled
  <2>3. steps \in 0 .. MaxSteps /\ Len(history) <= HistoryLimit /\ HistoryWithinSteps
    BY MachineAssumption DEF TypedInv, Inv, HistoryWithinSteps
  <2>4. ASSUME NEW i \in DOMAIN history
        PROVE  IsCpu(history[i].cpu)
    <3>1. past[i] = TakenBack(After(i), history[i])
      BY <2>4 DEF TypedInv, Inv, UndoChain
    <3>2. past[i].cpu = history[i].cpu
      BY <3>1 DEF TakenBack
    <3>3. i \in 1 .. Len(past)
      BY <2>4, SequenceDomain DEF TypedInv, Inv, UndoChain
    <3> QED
      BY <3>2, <3>3 DEF TypedInv, Sound, GoodCpu
  <2> QED
    BY <2>1, <2>2, <2>3, <2>4 DEF TypeOK
<1> QED
  BY <1>1, TypedInvariance, PTL

(* The heap that sbrk handed out lies in the data segment, also after      *)
(* faults and steps back (the sbrk handler and _restore_record).           *)
THEOREM HeapStaysMapped ==
  ASSUME Escapes = {}
  PROVE  Spec => []HeapIsMapped
<1>1. TypedInv => HeapIsMapped
  BY DEF TypedInv, Sound, HeapFits, Now, View, HeapIsMapped, NothingHandedOut
<1> QED
  BY <1>1, TypedInvariance, PTL

(* At the return address of main the program has exited, whichever way it  *)
(* came there, and a step back from there makes it run again               *)
(* (RETURN_SENTINEL in Machine.step).                                      *)
THEOREM ReturningExits ==
  ASSUME Escapes = {}
  PROVE  Spec => []SentinelMeansExited
<1>1. TypedInv => SentinelMeansExited
  BY DEF TypedInv, Sound, Now, View, SentinelMeansExited
<1> QED
  BY <1>1, TypedInvariance, PTL

(* LL/SC: whichever instruction or system call changes memory, the         *)
(* reservation of an earlier LL is gone (_store and the system calls that  *)
(* write to memory).                                                       *)
THEOREM ReservationsAreDropped ==
  ASSUME Escapes = {}
  PROVE  Spec => StoreDropsReservation
<1>1. [TypedInv /\ ReservationGone]_vars
        => [steps' > steps /\ mem'.cell # mem.cell => cpu'.reservation = None]_vars
  BY DEF ReservationGone
<1> QED
  BY <1>1, TypedInvariance, PTL DEF StoreDropsReservation

-----------------------------------------------------------------------------
(* The arguments of main.  InstallArguments folds over sequences from the   *)
(* right; the fold is a table whose keys are sets of indices, and only its *)
(* rows k .. n matter: g[k .. n] is the stack when the items from the k-th *)
(* on have been pushed.                                                    *)

(* An item is pushed as a string or as a word. *)
Pushed(kind, item, s) == IF kind = "string" THEN PushString(item, s) ELSE PushWord(item, s)

(* The equation by which the community modules define the fold. *)
FoldTable(kind, items, base, S, g) ==
    g = [s \in SUBSET S |-> IF s = {} THEN base
                            ELSE Pushed(kind, items[Min(s)], g[s \ {Min(s)}])]

LEMMA MinOfRange ==
  ASSUME NEW k \in Nat, NEW n \in Nat, k <= n
  PROVE  Min(k .. n) = k
<1>1. k \in k .. n /\ \A y \in k .. n : k <= y
  OBVIOUS
<1>2. \A x \in k .. n : (\A y \in k .. n : x <= y) => x = k
  OBVIOUS
<1> QED
  BY <1>1, <1>2 DEF Min

LEMMA MinIsElement ==
  ASSUME NEW S \in SUBSET Nat, S # {}
  PROVE  Min(S) \in S
<1>1. \E x \in S : \A y \in S : x <= y
  BY LeastNatural
<1> QED
  BY <1>1 DEF Min

LEMMA FoldTableExists ==
  ASSUME NEW kind, NEW items, NEW base, NEW S \in SUBSET Nat, IsFiniteSet(S)
  PROVE  \E g : FoldTable(kind, items, base, S, g)
<1> DEFINE F(T, g) == IF T = {} THEN base
                      ELSE Pushed(kind, items[Min(T)], g[T \ {Min(T)}])
           Small(n) == {T \in SUBSET S : Cardinality(T) <= n}
           Upto == {n \in Nat : \E g : g = [T \in Small(n) |-> F(T, g)]}
<1>1. \A T \in SUBSET S : IsFiniteSet(T) /\ Cardinality(T) \in Nat
  BY FS_Subset, FS_CardinalityType
<1>2. \A T \in SUBSET S : \A x \in T : Cardinality(T \ {x}) = Cardinality(T) - 1
  BY <1>1, FS_RemoveElement
<1>3. 0 \in Upto
  <2> DEFINE g == [T \in Small(0) |-> base]
  <2>1. \A T \in Small(0) : T = {}
    BY <1>1, FS_EmptySet
  <2>2. \A T \in Small(0) : F(T, g) = base
    BY <2>1
  <2> HIDE DEF F, Small
  <2>3. g = [T \in Small(0) |-> F(T, g)]
    BY <2>2
  <2> QED
    BY <2>3
<1>4. \A n \in Nat : n \in Upto => n + 1 \in Upto
  <2> SUFFICES ASSUME NEW n \in Nat, n \in Upto PROVE n + 1 \in Upto
    OBVIOUS
  <2>1. PICK g : g = [T \in Small(n) |-> F(T, g)]
    OBVIOUS
  <2> DEFINE h == [T \in Small(n + 1) |-> F(T, g)]
  <2>2. \A T \in Small(n + 1) : T # {} => T \ {Min(T)} \in Small(n)
    <3> SUFFICES ASSUME NEW T \in SUBSET S, Cardinality(T) <= n + 1, T # {}
                 PROVE  T \ {Min(T)} \in Small(n)
      OBVIOUS
    <3> DEFINE c == Min(T)
    <3>1. c \in T
      BY MinIsElement
    <3> HIDE DEF c
    <3>2. T \ {c} \in SUBSET S /\ Cardinality(T \ {c}) = Cardinality(T) - 1
      BY <1>2, <3>1
    <3>3. Cardinality(T) \in Nat
      BY <1>1
    <3>4. T \ {c} \in Small(n)
      BY <3>2, <3>3
    <3> QED
      BY <3>4 DEF c
  <2>3. Small(n) \subseteq Small(n + 1)
    BY <1>1
  <2>4. \A T \in Small(n) : h[T] = g[T]
    <3> HIDE DEF F, Small
    <3> QED
      BY <2>1, <2>3
  <2>5. \A T \in Small(n + 1) : F(T, g) = F(T, h)
    <3> HIDE DEF h, Small
    <3> QED
      BY <2>2, <2>4
  <2> HIDE DEF F, Small
  <2>6. h = [T \in Small(n + 1) |-> F(T, h)]
    BY <2>5
  <2> HIDE DEF h
  <2> QED
    BY <2>6
<1> HIDE DEF Upto
<1>5. Nat \subseteq Upto
  BY <1>3, <1>4, NaturalInduction
<1>6. Cardinality(S) \in Upto
  BY <1>1, <1>5
<1>7. PICK g : g = [T \in Small(Cardinality(S)) |-> F(T, g)]
  BY <1>6 DEF Upto
<1>8. Small(Cardinality(S)) = SUBSET S
  BY FS_Subset
<1> QED
  BY <1>7, <1>8 DEF FoldTable

(* FoldRight pushes the last item first. *)
LEMMA FoldOfStrings ==
  ASSUME NEW items, DOMAIN items \in SUBSET Nat, IsFiniteSet(DOMAIN items), NEW base
  PROVE  \E g : /\ FoldTable("string", items, base, DOMAIN items, g)
                /\ FoldRight(PushString, items, base) = g[DOMAIN items]
<1> DEFINE Table(g) ==
      g = [s \in SUBSET DOMAIN items |->
              IF s = {} THEN base ELSE PushString(items[Min(s)], g[s \ {Min(s)}])]
<1>1. \A g : Table(g) = FoldTable("string", items, base, DOMAIN items, g)
  BY DEF FoldTable, Pushed
<1>2. \E g : FoldTable("string", items, base, DOMAIN items, g)
  BY FoldTableExists
<1>3. FoldRight(PushString, items, base) = (CHOOSE g : Table(g))[DOMAIN items]
  BY DEF FoldRight, MapThenFoldSet
<1> HIDE DEF Table
<1> QED
  BY <1>1, <1>2, <1>3

LEMMA FoldOfWords ==
  ASSUME NEW items, DOMAIN items \in SUBSET Nat, IsFiniteSet(DOMAIN items), NEW base
  PROVE  \E g : /\ FoldTable("word", items, base, DOMAIN items, g)
                /\ FoldRight(PushWord, items, base) = g[DOMAIN items]
<1> DEFINE Table(g) ==
      g = [s \in SUBSET DOMAIN items |->
              IF s = {} THEN base ELSE PushWord(items[Min(s)], g[s \ {Min(s)}])]
<1>1. \A g : Table(g) = FoldTable("word", items, base, DOMAIN items, g)
  BY DEF FoldTable, Pushed
<1>2. \E g : FoldTable("word", items, base, DOMAIN items, g)
  BY FoldTableExists
<1>3. FoldRight(PushWord, items, base) = (CHOOSE g : Table(g))[DOMAIN items]
  BY DEF FoldRight, MapThenFoldSet
<1> HIDE DEF Table
<1> QED
  BY <1>1, <1>2, <1>3

(* The result of a fold comes from its base by pushing one item at a time. *)
Unwound(kind, items, n, base, result) ==
    \E g : /\ result = g[1 .. n]
           /\ g[(n + 1) .. n] = base
           /\ \A k \in 1 .. n : g[k .. n] = Pushed(kind, items[k], g[(k + 1) .. n])

LEMMA FoldSteps ==
  ASSUME NEW kind, NEW items, NEW base, NEW n \in Nat, NEW g, NEW result,
         FoldTable(kind, items, base, 1 .. n, g), result = g[1 .. n]
  PROVE  Unwound(kind, items, n, base, result)
<1>1. ASSUME NEW s \in SUBSET (1 .. n)
      PROVE  g[s] = IF s = {} THEN base ELSE Pushed(kind, items[Min(s)], g[s \ {Min(s)}])
  BY DEF FoldTable
<1>2. (n + 1) .. n = {}
  OBVIOUS
<1>3. ASSUME NEW k \in 1 .. n
      PROVE  g[k .. n] = Pushed(kind, items[k], g[(k + 1) .. n])
  <2>1. k .. n \in SUBSET (1 .. n) /\ k .. n # {} /\ Min(k .. n) = k
    <3>1. k \in Nat /\ k <= n
      OBVIOUS
    <3> QED
      BY <3>1, MinOfRange
  <2>2. (k .. n) \ {k} = (k + 1) .. n
    OBVIOUS
  <2> QED
    BY <1>1, <2>1, <2>2
<1>4. g[(n + 1) .. n] = base
  BY <1>1, <1>2
<1> QED
  BY <1>3, <1>4 DEF Unwound

LEMMA StringsFromTheRight ==
  ASSUME NEW items, NEW n \in Nat, DOMAIN items = 1 .. n, NEW base
  PROVE  Unwound("string", items, n, base, FoldRight(PushString, items, base))
<1>1. 1 .. n \in SUBSET Nat /\ IsFiniteSet(1 .. n)
  BY FS_Interval
<1>2. PICK g : /\ FoldTable("string", items, base, 1 .. n, g)
               /\ FoldRight(PushString, items, base) = g[1 .. n]
  BY <1>1, FoldOfStrings
<1> DEFINE result == FoldRight(PushString, items, base)
<1>3. FoldTable("string", items, base, 1 .. n, g) /\ result = g[1 .. n]
  BY <1>2
<1> HIDE DEF result
<1>4. Unwound("string", items, n, base, result)
  BY <1>3, FoldSteps
<1> QED
  BY <1>4 DEF result

LEMMA WordsFromTheRight ==
  ASSUME NEW items, NEW n \in Nat, DOMAIN items = 1 .. n, NEW base
  PROVE  Unwound("word", items, n, base, FoldRight(PushWord, items, base))
<1>1. 1 .. n \in SUBSET Nat /\ IsFiniteSet(1 .. n)
  BY FS_Interval
<1>2. PICK g : /\ FoldTable("word", items, base, 1 .. n, g)
               /\ FoldRight(PushWord, items, base) = g[1 .. n]
  BY <1>1, FoldOfWords
<1> DEFINE result == FoldRight(PushWord, items, base)
<1>3. FoldTable("word", items, base, 1 .. n, g) /\ result = g[1 .. n]
  BY <1>2
<1> HIDE DEF result
<1>4. Unwound("word", items, n, base, result)
  BY <1>3, FoldSteps
<1> QED
  BY <1>4 DEF result

-----------------------------------------------------------------------------
(* A word is what its bytes say. *)

LEMMA QuotientIs ==
  ASSUME NEW x \in Nat, NEW d \in Nat \ {0}, NEW q \in Nat, NEW r \in 0 .. d - 1,
         x = r + q * d
  PROVE  x \div d = q /\ x % d = r
<1> DEFINE q1 == x \div d
           r1 == x % d
<1>1. q1 \in Int /\ r1 \in 0 .. d - 1 /\ x = d * q1 + r1
  OBVIOUS
<1> HIDE DEF q1, r1
<1>2. CASE q1 < q
  <2>1. (q - q1 - 1) * d >= 0
    BY <1>1, <1>2
  <2>2. (q - q1 - 1) * d = q * d - d * q1 - d
    BY <1>1
  <2> QED
    BY <1>1, <2>1, <2>2
<1>3. CASE q1 > q
  <2>1. (q1 - q - 1) * d >= 0
    BY <1>1, <1>3
  <2>2. (q1 - q - 1) * d = d * q1 - q * d - d
    BY <1>1
  <2> QED
    BY <1>1, <2>1, <2>2
<1>4. q1 = q
  BY <1>1, <1>2, <1>3
<1>5. r1 = r
  BY <1>1, <1>4
<1> QED
  BY <1>4, <1>5 DEF q1, r1

LEMMA DivideTwice ==
  ASSUME NEW x \in Nat, NEW m \in Nat \ {0}, NEW n \in Nat \ {0}
  PROVE  x \div (m * n) = (x \div m) \div n
<1> DEFINE q == x \div m
           r == x % m
           q2 == q \div n
           r2 == q % n
<1>1. q \in Nat /\ r \in 0 .. m - 1 /\ x = r + q * m
  OBVIOUS
<1>2. q2 \in Nat /\ r2 \in 0 .. n - 1 /\ q = r2 + q2 * n
  <2> HIDE DEF q
  <2> QED
    BY <1>1
<1> HIDE DEF q, r, q2, r2
<1>3. r + r2 * m \in 0 .. n * m - 1
  BY <1>1, <1>2, HornerStep
<1>4. x = (r + r2 * m) + q2 * (m * n)
  <2>1. (r2 + q2 * n) * m = r2 * m + q2 * (m * n)
    BY <1>2
  <2> QED
    BY <1>1, <1>2, <2>1
<1>5. m * n \in Nat \ {0} /\ m * n = n * m
  OBVIOUS
<1>6. x \div (m * n) = q2
  <2> DEFINE d == m * n
             t == r + r2 * m
  <2>1. d \in Nat \ {0} /\ t \in 0 .. d - 1 /\ x = t + q2 * d
    BY <1>3, <1>4, <1>5
  <2> HIDE DEF d, t
  <2>2. x \div d = q2
    BY <1>2, <2>1, QuotientIs
  <2> QED
    BY <2>2 DEF d
<1> QED
  BY <1>6 DEF q2, q

LEMMA WordOfBytes ==
  ASSUME NEW w \in Word
  PROVE  FromBytes(ToBytes(w, 4)) = w
<1> DEFINE m == ByteMod
           x1 == w \div m
           x2 == x1 \div m
           x3 == x2 \div m
<1>1. m \in Nat \ {0} /\ OctetMod = m /\ w \in Nat /\ w < m * m * m * m
  BY WidthsAreNatural DEF Word, WordMod
<1>2. m * m \in Nat \ {0} /\ m * m * m \in Nat \ {0}
  <2>1. m * m \in Nat \ {0}
    BY <1>1
  <2> QED
    BY <1>1, <2>1
<1>3. x1 = w \div m /\ x2 = w \div (m * m) /\ x3 = w \div (m * m * m)
  <2>1. w \div (m * m) = x2
    BY <1>1, DivideTwice
  <2>2. w \div (m * m * m) = x3
    <3>1. w \div ((m * m) * m) = (w \div (m * m)) \div m
      BY <1>1, <1>2, DivideTwice
    <3> QED
      BY <2>1, <3>1
  <2> QED
    BY <2>1, <2>2
<1>4. /\ x1 \in Nat /\ x2 \in Nat /\ x3 \in Nat
      /\ w = (w % m) + m * x1 /\ x1 = (x1 % m) + m * x2 /\ x2 = (x2 % m) + m * x3
  <2>1. \A x \in Nat : x \div m \in Nat /\ x = (x % m) + m * (x \div m) /\ x % m \in Nat
    BY <1>1
  <2>2. x1 \in Nat
    BY <1>1, <2>1
  <2> HIDE DEF x1
  <2>3. x2 \in Nat
    BY <2>1, <2>2
  <2>4. x1 = (x1 % m) + m * x2
    BY <2>1, <2>2
  <2> HIDE DEF x2
  <2>5. x3 \in Nat /\ x2 = (x2 % m) + m * x3
    BY <2>1, <2>3
  <2>6. w = (w % m) + m * x1
    BY <1>1, <2>1 DEF x1
  <2> QED
    BY <2>2, <2>3, <2>4, <2>5, <2>6
<1>5. x3 % m = x3
  <2>1. x3 < m
    <3>1. w < (m * m * m) * m
      BY <1>1, <1>2
    <3> DEFINE d == m * m * m
    <3>2. d \in Nat \ {0} /\ w < d * m /\ x3 = w \div d
      BY <1>2, <1>3, <3>1
    <3> HIDE DEF d, x3
    <3>3. d * x3 <= w
      BY <1>1, <3>2
    <3>4. CASE x3 >= m
      <4>1. d * (x3 - m) >= 0
        BY <1>1, <1>4, <3>2, <3>4
      <4>2. d * (x3 - m) = d * x3 - d * m
        BY <1>1, <1>4, <3>2
      <4> QED
        BY <1>1, <1>4, <3>2, <3>3, <4>1, <4>2
    <3> QED
      BY <1>1, <1>4, <3>4
  <2> HIDE DEF x3
  <2> QED
    BY <1>1, <1>4, <2>1
<1> DEFINE b == ToBytes(w, 4)
<1>6. /\ Len(b) = 4
      /\ b[1] = w % m /\ b[2] = x1 % m /\ b[3] = x2 % m /\ b[4] = x3 % m
  <2>1. Len(b) = 4
    BY <1>1, WidthsAreNatural, ToBytesAreBytes
  <2>2. b = [i \in 1 .. 4 |-> (w \div Weight[i]) % OctetMod]
    BY DEF ToBytes
  <2>3. Weight[1] = 1 /\ Weight[2] = m /\ Weight[3] = m * m /\ Weight[4] = m * m * m
    BY <1>1 DEF Weight
  <2>4. w \div 1 = w
    BY <1>1
  <2> HIDE DEF b, m, x1, x2, x3
  <2> QED
    BY <1>1, <1>3, <2>1, <2>2, <2>3, <2>4
<1>7. FromBytes(b) = b[1] * 1 + b[2] * m + b[3] * (m * m) + b[4] * (m * m * m)
  BY <1>1, <1>6 DEF FromBytes, Weight
<1> HIDE DEF b, m, x1, x2, x3
<1>8. b[1] \in Nat /\ b[2] \in Nat /\ b[3] \in Nat
  BY <1>1, <1>4, <1>6
<1>9. w = b[1] + m * (b[2] + m * (b[3] + m * x3))
  BY <1>4, <1>6
<1>10. w = b[1] * 1 + b[2] * m + b[3] * (m * m) + x3 * (m * m * m)
  BY <1>1, <1>4, <1>8, <1>9
<1> QED
  BY <1>5, <1>6, <1>7, <1>10 DEF b

-----------------------------------------------------------------------------
(* Pushing. *)

LEMMA WrittenWhole ==
  ASSUME NEW m \in Memory, GoodMemory(m), NEW a, NEW bytes \in Seq(Byte),
         NEW n \in Nat \ {0}, Len(bytes) = n, NEW alignment,
         WriteBytes(m, a, bytes, alignment).ok
  PROVE  /\ a \in Nat /\ a + n <= WordMod /\ Span(a, n) \subseteq Mapped
         /\ WriteBytes(m, a, bytes, alignment).mem = Put(m, a, bytes)
         /\ Put(m, a, bytes) \in Memory /\ GoodMemory(Put(m, a, bytes))
<1> DEFINE k == Storable(m, a, n)
           w == WriteBytes(m, a, bytes, alignment)
<1>1. Writable(m, a, n, alignment) /\ ~ (k < n)
  BY DEF WriteBytes
<1>2. a \in Nat /\ Span(a, n) \subseteq Mapped /\ a + n <= WordMod
  BY <1>1, WritableIsMapped DEF Writable, Accessible
<1>3. k \in 0 .. n
  BY <1>2, StorableStops DEF GoodMemory
<1>4. w.mem = Put(m, a, SubSeq(bytes, 1, k))
  BY <1>1 DEF WriteBytes
<1>5. SubSeq(bytes, 1, k) = bytes
  <2>1. SubSeq(bytes, 1, n) = bytes
    OBVIOUS
  <2>2. k = n
    <3> HIDE DEF k
    <3> QED
      BY <1>1, <1>3
  <2> QED
    BY <2>1, <2>2
<1>6. w.mem = Put(m, a, bytes)
  <2> HIDE DEF k, w
  <2> QED
    BY <1>4, <1>5
<1>7. w.mem \in Memory
  BY WriteBytesIsTyped
<1>8. GoodMemory(w.mem)
  BY WriteBytesIsUndoable
<1> HIDE DEF w, k
<1> QED
  BY <1>2, <1>6, <1>7, <1>8 DEF w

(* The record that the two ways of pushing hand on. *)
IsStack(s) == s = [mem |-> s.mem, top |-> s.top, pointers |-> s.pointers, ok |-> s.ok]

(* The state of a stack that has not run out. *)
SoundStack(s) == s.mem \in Memory /\ GoodMemory(s.mem) /\ s.top \in Nat

(* The bytes are in memory m from address a on. *)
HasBytes(m, a, bytes) ==
    /\ a \in Nat /\ Span(a, Len(bytes)) \subseteq Mapped
    /\ \A x \in Span(a, Len(bytes)) : m.cell[x] = bytes[x - a + 1]

(* The bytes from a on, and those below b, are as they were.               *)
SameFrom(m, old, a) == \A x \in Mapped : a <= x => m.cell[x] = old.cell[x]
SameBelow(m, old, b) == \A x \in Mapped : x < b => m.cell[x] = old.cell[x]

LEMMA PushWrites ==
  ASSUME NEW s, IsStack(s), s.ok => SoundStack(s), NEW bytes \in Seq(Byte),
         NEW n \in Nat \ {0}, Len(bytes) = n, NEW alignment
  PROVE  LET t == Push(bytes, alignment, s)
         IN  /\ IsStack(t) /\ t.pointers = s.pointers /\ t.top = s.top - n
             /\ t.ok => s.ok
             /\ t.ok => /\ SoundStack(t) /\ s.top <= WordMod
                        /\ t.mem.dataEnd = s.mem.dataEnd
                        /\ HasBytes(t.mem, t.top, bytes)
                        /\ SameFrom(t.mem, s.mem, s.top)
                        /\ SameBelow(t.mem, s.mem, t.top)
<1> DEFINE a == s.top - n
           w == WriteBytes(s.mem, a, bytes, alignment)
           t == Push(bytes, alignment, s)
<1>1. t = [mem |-> w.mem, top |-> a, pointers |-> s.pointers, ok |-> s.ok /\ w.ok]
  <2>1. t = [s EXCEPT !.mem = w.mem, !.top = a, !.ok = @ /\ w.ok]
    BY DEF Push
  <2> HIDE DEF t, w, a
  <2>2. s = [mem |-> s.mem, top |-> s.top, pointers |-> s.pointers, ok |-> s.ok]
    BY DEF IsStack
  <2> QED
    BY <2>1, <2>2
<1>2. IsStack(t) /\ t.pointers = s.pointers /\ (t.ok = (s.ok /\ w.ok))
      /\ t.mem = w.mem /\ t.top = a
  <2> HIDE DEF t, w, a
  <2> QED
    BY <1>1 DEF IsStack
<1> HIDE DEF t
<1>3. ASSUME t.ok
      PROVE  /\ SoundStack(t) /\ s.top <= WordMod
             /\ t.mem.dataEnd = s.mem.dataEnd
             /\ HasBytes(t.mem, t.top, bytes)
             /\ SameFrom(t.mem, s.mem, s.top)
             /\ SameBelow(t.mem, s.mem, t.top)
  <2>1. SoundStack(s) /\ w.ok
    BY <1>2, <1>3
  <2>2. /\ a \in Nat /\ a + n <= WordMod /\ Span(a, n) \subseteq Mapped
        /\ w.mem = Put(s.mem, a, bytes)
        /\ Put(s.mem, a, bytes) \in Memory /\ GoodMemory(Put(s.mem, a, bytes))
    BY <2>1, WrittenWhole DEF SoundStack
  <2>3. s.top \in Nat /\ s.top = a + n
    BY <2>1 DEF SoundStack
  <2> HIDE DEF a, w
  <2>4. /\ t.mem.dataEnd = s.mem.dataEnd
        /\ \A x \in Mapped : t.mem.cell[x] = IF x \in Span(a, n) THEN bytes[x - a + 1]
                                             ELSE s.mem.cell[x]
    BY <1>2, <2>2 DEF Put
  <2>5. \A x \in Mapped : x \in Int
    BY MemoryAssumption DEF Mapped
  <2>6. HasBytes(t.mem, a, bytes)
    BY <2>2, <2>4 DEF HasBytes
  <2>7. SameFrom(t.mem, s.mem, s.top) /\ SameBelow(t.mem, s.mem, a)
    BY <2>2, <2>3, <2>4, <2>5 DEF SameFrom, SameBelow, Span
  <2> QED
    BY <1>2, <2>2, <2>3, <2>4, <2>6, <2>7 DEF SoundStack, a
<1> QED
  BY <1>2, <1>3 DEF t, a

LEMMA StaysThere ==
  ASSUME NEW m, NEW old, NEW a, NEW bytes, NEW b \in Nat, b <= a,
         Len(bytes) \in Nat, HasBytes(old, a, bytes), SameFrom(m, old, b)
  PROVE  HasBytes(m, a, bytes)
<1>1. \A x \in Span(a, Len(bytes)) : x \in Mapped /\ b <= x
  BY DEF HasBytes, Span
<1> QED
  BY <1>1 DEF HasBytes, SameFrom

(* Arguments, as bytes without the terminating zeros. *)
AreStrings(argv) == argv \in Seq(Seq(Byte))

(* When the strings from the k-th on have been pushed onto memory m.       *)
StringsHeld(s, m, argv, k) ==
    /\ IsStack(s) /\ s.top \in Int
    /\ s.pointers \in Seq(Int) /\ Len(s.pointers) = Len(argv) + 1 - k
    /\ s.ok =>
          /\ SoundStack(s) /\ s.mem.dataEnd = m.dataEnd /\ s.top <= StackTop + 4
          /\ \A i \in k .. Len(argv) :
                /\ s.pointers[i - k + 1] \in Word /\ s.top <= s.pointers[i - k + 1]
                /\ HasBytes(s.mem, s.pointers[i - k + 1], Append(argv[i], 0))
          /\ SameBelow(s.mem, m, s.top)

LEMMA TerminatedIsBytes ==
  ASSUME NEW item \in Seq(Byte)
  PROVE  /\ Append(item, 0) \in Seq(Byte)
         /\ Len(Append(item, 0)) = Len(item) + 1 /\ Len(item) \in Nat
         /\ \A i \in 1 .. Len(item) + 1 : Append(item, 0)[i] \in Byte
<1>1. 0 \in Byte
  BY WidthsAreNatural
<1>2. Append(item, 0) \in Seq(Byte) /\ Len(Append(item, 0)) = Len(item) + 1
      /\ Len(item) \in Nat
  BY <1>1
<1> QED
  BY <1>2, ElementOfSeq

LEMMA OneMoreString ==
  ASSUME NEW m, NEW argv, AreStrings(argv), NEW k \in 1 .. Len(argv),
         NEW s, StringsHeld(s, m, argv, k + 1)
  PROVE  StringsHeld(PushString(argv[k], s), m, argv, k)
<1> DEFINE n == Len(argv)
           bytes == Append(argv[k], 0)
           pushed == Push(bytes, 1, s)
           t == PushString(argv[k], s)
<1>1. /\ n \in Nat /\ k \in Nat
      /\ \A i \in 1 .. n : argv[i] \in Seq(Byte)
  BY ElementOfSeq DEF AreStrings
<1>2. bytes \in Seq(Byte) /\ Len(bytes) \in Nat \ {0}
  BY <1>1, TerminatedIsBytes
<1>3. IsStack(s) /\ (s.ok => SoundStack(s))
  BY DEF StringsHeld
<1>4. /\ IsStack(pushed) /\ pushed.pointers = s.pointers
      /\ pushed.top = s.top - Len(bytes)
      /\ pushed.ok => s.ok
      /\ pushed.ok => /\ SoundStack(pushed) /\ s.top <= WordMod
                      /\ pushed.mem.dataEnd = s.mem.dataEnd
                      /\ HasBytes(pushed.mem, pushed.top, bytes)
                      /\ SameFrom(pushed.mem, s.mem, s.top)
                      /\ SameBelow(pushed.mem, s.mem, pushed.top)
  <2>1. PICK size \in Nat \ {0} : Len(bytes) = size
    BY <1>2
  <2> HIDE DEF bytes
  <2> QED
    BY <1>2, <1>3, <2>1, PushWrites
<1>5. t = [mem |-> pushed.mem, top |-> pushed.top,
           pointers |-> <<pushed.top>> \o s.pointers, ok |-> pushed.ok]
  <2>1. t = [pushed EXCEPT !.pointers = <<pushed.top>> \o @]
    BY DEF PushString
  <2> HIDE DEF t, pushed
  <2> QED
    BY <1>4, <2>1 DEF IsStack
<1> HIDE DEF t, pushed, n
<1>6. /\ IsStack(t) /\ t.mem = pushed.mem /\ t.top = pushed.top
      /\ t.pointers = <<pushed.top>> \o s.pointers /\ t.ok = pushed.ok
  BY <1>5 DEF IsStack
<1>7. /\ t.top \in Int /\ t.pointers \in Seq(Int) /\ Len(t.pointers) = n + 1 - k
      /\ t.pointers[1] = pushed.top
      /\ \A j \in 1 .. n - k : t.pointers[j + 1] = s.pointers[j]
  <2>1. s.top \in Int /\ s.pointers \in Seq(Int) /\ Len(s.pointers) = n + 1 - (k + 1)
    BY DEF StringsHeld, n
  <2>2. pushed.top \in Int
    BY <1>2, <1>4, <2>1
  <2> DEFINE r == <<pushed.top>> \o s.pointers
  <2>3. <<pushed.top>> \in Seq(Int) /\ Len(<<pushed.top>>) = 1
    BY <2>2
  <2>4. r \in Seq(Int) /\ Len(r) = 1 + Len(s.pointers) /\ r[1] = pushed.top
        /\ \A j \in 1 .. Len(s.pointers) : r[j + 1] = s.pointers[j]
    BY <2>1, <2>2, <2>3
  <2>5. Len(s.pointers) = n - k
    BY <1>1, <2>1
  <2> HIDE DEF r
  <2> QED
    BY <1>1, <1>6, <2>2, <2>4, <2>5 DEF r
<1>8. ASSUME t.ok
      PROVE  /\ SoundStack(t) /\ t.mem.dataEnd = m.dataEnd /\ t.top <= StackTop + 4
             /\ \A i \in k .. n :
                   /\ t.pointers[i - k + 1] \in Word /\ t.top <= t.pointers[i - k + 1]
                   /\ HasBytes(t.mem, t.pointers[i - k + 1], Append(argv[i], 0))
             /\ SameBelow(t.mem, m, t.top)
  <2>1. s.ok /\ pushed.ok
    BY <1>4, <1>6, <1>8
  <2>2. /\ SoundStack(s) /\ s.mem.dataEnd = m.dataEnd /\ s.top <= StackTop + 4
        /\ \A i \in k + 1 .. n :
              /\ s.pointers[i - (k + 1) + 1] \in Word
              /\ s.top <= s.pointers[i - (k + 1) + 1]
              /\ HasBytes(s.mem, s.pointers[i - (k + 1) + 1], Append(argv[i], 0))
        /\ SameBelow(s.mem, m, s.top)
    BY <2>1 DEF StringsHeld, n
  <2>3. /\ SoundStack(pushed) /\ s.top <= WordMod
        /\ pushed.mem.dataEnd = s.mem.dataEnd
        /\ HasBytes(pushed.mem, pushed.top, bytes)
        /\ SameFrom(pushed.mem, s.mem, s.top)
        /\ SameBelow(pushed.mem, s.mem, pushed.top)
    BY <1>4, <2>1
  <2>4. s.top \in Nat /\ pushed.top \in Nat /\ pushed.top < s.top
    BY <1>2, <1>4, <2>2, <2>3 DEF SoundStack
  <2>5. pushed.top \in Word
    BY <2>3, <2>4, WidthsAreNatural DEF Word
  <2>7. ASSUME NEW i \in k .. n
        PROVE  /\ t.pointers[i - k + 1] \in Word
               /\ t.top <= t.pointers[i - k + 1]
               /\ HasBytes(t.mem, t.pointers[i - k + 1], Append(argv[i], 0))
    <3>1. CASE i = k
      <4>1. t.pointers[i - k + 1] = pushed.top
        BY <1>1, <1>7, <3>1
      <4> QED
        BY <1>6, <2>3, <2>4, <2>5, <3>1, <4>1
    <3>2. CASE i # k
      <4>1. i \in k + 1 .. n /\ i - k \in 1 .. n - k /\ i - (k + 1) + 1 = i - k
            /\ i \in 1 .. n
        BY <1>1, <3>2
      <4>2. t.pointers[i - k + 1] = s.pointers[i - k]
        BY <1>7, <4>1
      <4> DEFINE p == s.pointers[i - k]
      <4>3. p \in Word /\ s.top <= p /\ HasBytes(s.mem, p, Append(argv[i], 0))
        BY <2>2, <4>1
      <4> HIDE DEF p
      <4>4. Len(Append(argv[i], 0)) \in Nat
        BY <1>1, <4>1, TerminatedIsBytes
      <4>5. HasBytes(pushed.mem, p, Append(argv[i], 0))
        BY <2>3, <2>4, <4>3, <4>4, StaysThere
      <4>6. p \in Nat
        BY <4>3 DEF HasBytes
      <4>7. t.pointers[i - k + 1] = p
        BY <4>2 DEF p
      <4>8. t.top <= p
        BY <1>6, <2>4, <4>3, <4>6
      <4>9. HasBytes(t.mem, p, Append(argv[i], 0))
        BY <1>6, <4>5
      <4> QED
        BY <4>3, <4>7, <4>8, <4>9
    <3> QED
      BY <3>1, <3>2
  <2>8. SameBelow(t.mem, m, t.top)
    <3>1. \A x \in Mapped : x \in Int
      BY MemoryAssumption DEF Mapped
    <3> QED
      BY <1>6, <2>2, <2>3, <2>4, <3>1 DEF SameBelow
  <2>9. t.top <= StackTop + 4
    BY <1>6, <2>2, <2>4, LoaderAssumption
  <2>10. SoundStack(t) /\ t.mem.dataEnd = m.dataEnd
    BY <1>6, <2>2, <2>3 DEF SoundStack
  <2> QED
    BY <2>7, <2>8, <2>9, <2>10
<1> QED
  BY <1>6, <1>7, <1>8 DEF StringsHeld, t, n

NoStrings(m) == [mem |-> m, top |-> StackTop + 4, pointers |-> <<>>, ok |-> TRUE]

LEMMA AllStrings ==
  ASSUME NEW m \in Memory, GoodMemory(m), NEW argv, AreStrings(argv)
  PROVE  StringsHeld(FoldRight(PushString, argv, NoStrings(m)), m, argv, 1)
<1> DEFINE n == Len(argv)
<1>1. n \in Nat /\ DOMAIN argv = 1 .. n
  BY DEF AreStrings
<1>2. PICK g : /\ FoldRight(PushString, argv, NoStrings(m)) = g[1 .. n]
               /\ g[(n + 1) .. n] = NoStrings(m)
               /\ \A k \in 1 .. n : g[k .. n] = PushString(argv[k], g[(k + 1) .. n])
  <2>1. Unwound("string", argv, n, NoStrings(m), FoldRight(PushString, argv, NoStrings(m)))
    BY <1>1, StringsFromTheRight
  <2> QED
    BY <2>1 DEF Unwound, Pushed
<1> HIDE DEF n
<1> DEFINE G == {j \in Nat : j <= n => StringsHeld(g[(n + 1 - j) .. n], m, argv, n + 1 - j)}
<1>4. 0 \in G
  <2>1. StringsHeld(NoStrings(m), m, argv, n + 1)
    <3>1. StackTop + 4 \in Nat
      BY LoaderAssumption
    <3>2. (n + 1) .. n = {} /\ n + 1 - (n + 1) = 0
      BY <1>1
    <3>2a. (n + 1) .. Len(argv) = {} /\ Len(argv) + 1 - (n + 1) = 0
      BY <3>2 DEF n
    <3>3. IsStack(NoStrings(m)) /\ SoundStack(NoStrings(m))
      BY <3>1 DEF NoStrings, IsStack, SoundStack
    <3>4. SameBelow(m, m, StackTop + 4)
      BY DEF SameBelow
    <3>5. <<>> \in Seq(Int) /\ Len(<<>>) = 0
      OBVIOUS
    <3>6. StackTop + 4 <= StackTop + 4
      BY <3>1
    <3> QED
      BY <3>1, <3>2a, <3>3, <3>4, <3>5, <3>6 DEF StringsHeld, NoStrings
  <2>2. n + 1 - 0 = n + 1
    BY <1>1
  <2> QED
    BY <1>2, <2>1, <2>2
<1>5. \A j \in Nat : j \in G => j + 1 \in G
  <2> SUFFICES ASSUME NEW j \in Nat, j \in G, j + 1 <= n
               PROVE  StringsHeld(g[(n + 1 - (j + 1)) .. n], m, argv, n + 1 - (j + 1))
    OBVIOUS
  <2> DEFINE k == n + 1 - (j + 1)
  <2>1. k \in 1 .. n /\ k + 1 = n + 1 - j /\ j <= n
    BY <1>1
  <2>2. StringsHeld(g[(k + 1) .. n], m, argv, k + 1)
    BY <2>1
  <2>3. g[k .. n] = PushString(argv[k], g[(k + 1) .. n])
    BY <1>2, <2>1
  <2> HIDE DEF k
  <2>4. StringsHeld(PushString(argv[k], g[(k + 1) .. n]), m, argv, k)
    BY <2>1, <2>2, OneMoreString DEF n
  <2> QED
    BY <2>3, <2>4 DEF k
<1> HIDE DEF G
<1>6. n \in G
  BY <1>1, <1>4, <1>5, NaturalInduction
<1>7. n + 1 - n = 1
  BY <1>1
<1> QED
  BY <1>1, <1>2, <1>6, <1>7 DEF G

(* When the pointers from the k-th on have been pushed onto stack b.       *)
WordsHeld(s, b, pointers, k) ==
    /\ IsStack(s) /\ s.top = b.top - 4 * (Len(pointers) + 1 - k)
    /\ s.ok =>
          /\ b.ok /\ SoundStack(s) /\ s.mem.dataEnd = b.mem.dataEnd
          /\ \A i \in k .. Len(pointers) :
                HasBytes(s.mem, b.top - 4 * (Len(pointers) + 1 - i), ToBytes(pointers[i], 4))
          /\ SameFrom(s.mem, b.mem, b.top)
          /\ SameBelow(s.mem, b.mem, s.top)

LEMMA PushWordWrites ==
  ASSUME NEW s, IsStack(s), s.ok => SoundStack(s), NEW w \in Int
  PROVE  LET t == PushWord(w, s)
         IN  /\ IsStack(t) /\ t.pointers = s.pointers /\ t.top = s.top - 4
             /\ t.ok => s.ok
             /\ t.ok => /\ SoundStack(t) /\ s.top <= WordMod
                        /\ t.mem.dataEnd = s.mem.dataEnd
                        /\ HasBytes(t.mem, t.top, ToBytes(w, 4))
                        /\ SameFrom(t.mem, s.mem, s.top)
                        /\ SameBelow(t.mem, s.mem, t.top)
<1> DEFINE bytes == ToBytes(w, 4)
           t == Push(bytes, 4, s)
<1>1. bytes \in Seq(Byte) /\ Len(bytes) = 4
  BY ToBytesAreBytes
<1>2. PushWord(w, s) = t
  BY DEF PushWord
<1> HIDE DEF bytes
<1>3. PICK n \in Nat \ {0} : n = 4 /\ Len(bytes) = n
  BY <1>1
<1>4. /\ IsStack(t) /\ t.pointers = s.pointers /\ t.top = s.top - n
      /\ t.ok => s.ok
      /\ t.ok => /\ SoundStack(t) /\ s.top <= WordMod
                 /\ t.mem.dataEnd = s.mem.dataEnd
                 /\ HasBytes(t.mem, t.top, bytes)
                 /\ SameFrom(t.mem, s.mem, s.top)
                 /\ SameBelow(t.mem, s.mem, t.top)
  BY <1>1, <1>3, PushWrites
<1> HIDE DEF t
<1> QED
  BY <1>2, <1>3, <1>4 DEF bytes

LEMMA OneMoreWord ==
  ASSUME NEW b, b.top \in Int, NEW pointers \in Seq(Int), NEW k \in 1 .. Len(pointers),
         NEW s, WordsHeld(s, b, pointers, k + 1)
  PROVE  WordsHeld(PushWord(pointers[k], s), b, pointers, k)
<1> DEFINE n == Len(pointers)
           w == pointers[k]
           t == PushWord(w, s)
<1>1. n \in Nat /\ k \in Nat /\ k <= n /\ w \in Int
  BY ElementOfSeq
<1>2. /\ IsStack(s) /\ (s.ok => SoundStack(s)) /\ s.top = b.top - 4 * (n + 1 - (k + 1))
  BY DEF WordsHeld
<1>3. /\ IsStack(t) /\ t.top = s.top - 4
      /\ t.ok => s.ok
      /\ t.ok => /\ SoundStack(t) /\ t.mem.dataEnd = s.mem.dataEnd
                 /\ HasBytes(t.mem, t.top, ToBytes(w, 4))
                 /\ SameFrom(t.mem, s.mem, s.top)
                 /\ SameBelow(t.mem, s.mem, t.top)
  <2> HIDE DEF w
  <2> QED
    BY <1>1, <1>2, PushWordWrites
<1> HIDE DEF n, t
<1>4. t.top = b.top - 4 * (n + 1 - k)
  BY <1>1, <1>2, <1>3
<1>5. ASSUME t.ok
      PROVE  /\ b.ok /\ SoundStack(t) /\ t.mem.dataEnd = b.mem.dataEnd
             /\ \A i \in k .. n :
                   HasBytes(t.mem, b.top - 4 * (n + 1 - i), ToBytes(pointers[i], 4))
             /\ SameFrom(t.mem, b.mem, b.top)
             /\ SameBelow(t.mem, b.mem, t.top)
  <2>1. s.ok
    BY <1>3, <1>5
  <2>2. /\ b.ok /\ SoundStack(s) /\ s.mem.dataEnd = b.mem.dataEnd
        /\ \A i \in k + 1 .. n :
              HasBytes(s.mem, b.top - 4 * (n + 1 - i), ToBytes(pointers[i], 4))
        /\ SameFrom(s.mem, b.mem, b.top)
        /\ SameBelow(s.mem, b.mem, s.top)
    BY <2>1 DEF WordsHeld, n
  <2>3. /\ SoundStack(t) /\ t.mem.dataEnd = s.mem.dataEnd
        /\ HasBytes(t.mem, t.top, ToBytes(w, 4))
        /\ SameFrom(t.mem, s.mem, s.top)
        /\ SameBelow(t.mem, s.mem, t.top)
    BY <1>3, <1>5
  <2>4. s.top \in Nat /\ s.top <= b.top /\ t.top < s.top
    BY <1>1, <1>2, <1>3, <2>2 DEF SoundStack
  <2>5. ASSUME NEW i \in k .. n
        PROVE  HasBytes(t.mem, b.top - 4 * (n + 1 - i), ToBytes(pointers[i], 4))
    <3>1. CASE i = k
      BY <1>4, <2>3, <3>1
    <3>2. CASE i # k
      <4> DEFINE a == b.top - 4 * (n + 1 - i)
                 bytes == ToBytes(pointers[i], 4)
      <4>1. i \in k + 1 .. n /\ i \in 1 .. n /\ s.top <= a
        BY <1>1, <1>2, <3>2
      <4>2. pointers[i] \in Int
        BY <4>1, ElementOfSeq DEF n
      <4>3. Len(bytes) \in Nat
        BY <4>2, ToBytesAreBytes
      <4>4. HasBytes(s.mem, a, bytes)
        BY <2>2, <4>1
      <4> HIDE DEF a, bytes
      <4>5. HasBytes(t.mem, a, bytes)
        BY <2>3, <2>4, <4>1, <4>3, <4>4, StaysThere
      <4> QED
        BY <4>5 DEF a, bytes
    <3> QED
      BY <3>1, <3>2
  <2>6. \A x \in Mapped : x \in Int
    BY MemoryAssumption DEF Mapped
  <2>7. SameFrom(t.mem, b.mem, b.top)
    BY <2>2, <2>3, <2>4, <2>6 DEF SameFrom
  <2>8. SameBelow(t.mem, b.mem, t.top)
    <3>1. t.top \in Int
      BY <1>3, <2>4
    <3> QED
      BY <2>2, <2>3, <2>4, <2>6, <3>1 DEF SameBelow
  <2> QED
    BY <2>2, <2>3, <2>5, <2>7, <2>8
<1> QED
  BY <1>3, <1>4, <1>5 DEF WordsHeld, t, n

LEMMA AllWords ==
  ASSUME NEW b, IsStack(b), b.top \in Int, b.ok => SoundStack(b), NEW pointers \in Seq(Int)
  PROVE  WordsHeld(FoldRight(PushWord, pointers, b), b, pointers, 1)
<1> DEFINE n == Len(pointers)
<1>1. n \in Nat /\ DOMAIN pointers = 1 .. n
  OBVIOUS
<1>2. PICK g : /\ FoldRight(PushWord, pointers, b) = g[1 .. n]
               /\ g[(n + 1) .. n] = b
               /\ \A k \in 1 .. n : g[k .. n] = PushWord(pointers[k], g[(k + 1) .. n])
  <2>1. Unwound("word", pointers, n, b, FoldRight(PushWord, pointers, b))
    BY <1>1, WordsFromTheRight
  <2> QED
    BY <2>1 DEF Unwound, Pushed
<1> HIDE DEF n
<1> DEFINE G == {j \in Nat : j <= n => WordsHeld(g[(n + 1 - j) .. n], b, pointers, n + 1 - j)}
<1>3. 0 \in G
  <2>1. WordsHeld(b, b, pointers, n + 1)
    <3>1. (n + 1) .. Len(pointers) = {} /\ Len(pointers) + 1 - (n + 1) = 0
      BY <1>1 DEF n
    <3>2. b.top - 4 * 0 = b.top
      OBVIOUS
    <3>3. SameFrom(b.mem, b.mem, b.top) /\ SameBelow(b.mem, b.mem, b.top)
      BY DEF SameFrom, SameBelow
    <3> QED
      BY <3>1, <3>2, <3>3 DEF WordsHeld
  <2>2. n + 1 - 0 = n + 1
    BY <1>1
  <2> QED
    BY <1>2, <2>1, <2>2
<1>4. \A j \in Nat : j \in G => j + 1 \in G
  <2> SUFFICES ASSUME NEW j \in Nat, j \in G, j + 1 <= n
               PROVE  WordsHeld(g[(n + 1 - (j + 1)) .. n], b, pointers, n + 1 - (j + 1))
    OBVIOUS
  <2> DEFINE k == n + 1 - (j + 1)
  <2>1. k \in 1 .. n /\ k + 1 = n + 1 - j /\ j <= n
    BY <1>1
  <2>2. WordsHeld(g[(k + 1) .. n], b, pointers, k + 1)
    BY <2>1
  <2>3. g[k .. n] = PushWord(pointers[k], g[(k + 1) .. n])
    BY <1>2, <2>1
  <2> HIDE DEF k
  <2>4. WordsHeld(PushWord(pointers[k], g[(k + 1) .. n]), b, pointers, k)
    BY <2>1, <2>2, OneMoreWord DEF n
  <2> QED
    BY <2>3, <2>4 DEF k
<1> HIDE DEF G
<1>5. n \in G
  BY <1>1, <1>3, <1>4, NaturalInduction
<1>6. n + 1 - n = 1
  BY <1>1
<1> QED
  BY <1>1, <1>2, <1>5, <1>6 DEF G

(* What main finds at address top: its argument vector. *)
VectorHeld(m, top, argv) ==
    /\ HasBytes(m, top + 4 * Len(argv), ToBytes(0, 4))
    /\ \A k \in 1 .. Len(argv) :
          \E a \in Word : /\ HasBytes(m, top + 4 * (k - 1), ToBytes(a, 4))
                         /\ HasBytes(m, a, Append(argv[k], 0))

LEMMA ArgumentsInstalled ==
  ASSUME NEW m \in Memory, GoodMemory(m), NEW argv, AreStrings(argv),
         InstallArguments(m, argv).ok
  PROVE  LET s == InstallArguments(m, argv)
         IN  /\ SoundStack(s) /\ s.mem.dataEnd = m.dataEnd
             /\ SameBelow(s.mem, m, s.top)
             /\ s.top + 4 * Len(argv) < WordMod
             /\ VectorHeld(s.mem, s.top, argv)
<1> DEFINE n == Len(argv)
           strings == FoldRight(PushString, argv, NoStrings(m))
           aligned == [strings EXCEPT !.top = @ - (@ % 4)]
           b == PushWord(0, aligned)
           s == FoldRight(PushWord, strings.pointers, b)
<1>1. n \in Nat /\ \A k \in 1 .. n : argv[k] \in Seq(Byte)
  BY ElementOfSeq DEF AreStrings
<1>2. InstallArguments(m, argv) = s
  BY DEF InstallArguments, NoStrings
<1>3. StringsHeld(strings, m, argv, 1)
  BY AllStrings
<1>4. /\ IsStack(strings) /\ strings.top \in Int
      /\ strings.pointers \in Seq(Int) /\ Len(strings.pointers) = n
  <2> HIDE DEF strings
  <2>1. /\ IsStack(strings) /\ strings.top \in Int
        /\ strings.pointers \in Seq(Int) /\ Len(strings.pointers) = n + 1 - 1
    BY <1>3 DEF StringsHeld
  <2> QED
    BY <1>1, <2>1
<1> HIDE DEF strings
<1>5. /\ aligned = [mem |-> strings.mem, top |-> strings.top - (strings.top % 4),
                    pointers |-> strings.pointers, ok |-> strings.ok]
      /\ aligned.top \in Int /\ aligned.top <= strings.top
      /\ strings.top \in Nat => aligned.top \in Nat
  <2> DEFINE low == strings.top - (strings.top % 4)
  <2>1. low \in Int /\ low <= strings.top /\ (strings.top \in Nat => low \in Nat)
    <3> DEFINE x == strings.top
    <3>1. x \in Int
      BY <1>4
    <3> HIDE DEF x
    <3>2. x % 4 \in 0 .. 3 /\ (x \in Nat => x % 4 <= x)
      BY <3>1
    <3>3. x - (x % 4) \in Int /\ x - (x % 4) <= x /\ (x \in Nat => x - (x % 4) \in Nat)
      BY <3>1, <3>2
    <3> QED
      BY <3>3 DEF x
  <2> HIDE DEF low
  <2>2. aligned = [strings EXCEPT !.top = low]
    BY DEF low
  <2>3. aligned = [mem |-> strings.mem, top |-> low,
                   pointers |-> strings.pointers, ok |-> strings.ok]
    <3> HIDE DEF aligned
    <3> QED
      BY <1>4, <2>2 DEF IsStack
  <2> HIDE DEF aligned
  <2> QED
    BY <2>1, <2>3 DEF low
<1> HIDE DEF aligned
<1>6. /\ IsStack(aligned) /\ aligned.mem = strings.mem /\ aligned.ok = strings.ok
      /\ aligned.ok => SoundStack(aligned)
  BY <1>3, <1>5 DEF IsStack, SoundStack, StringsHeld
<1>7. /\ IsStack(b) /\ b.top = aligned.top - 4 /\ b.top \in Int
      /\ b.ok => aligned.ok
      /\ b.ok => /\ SoundStack(b) /\ aligned.top <= WordMod
                 /\ b.mem.dataEnd = aligned.mem.dataEnd
                 /\ HasBytes(b.mem, b.top, ToBytes(0, 4))
                 /\ SameFrom(b.mem, aligned.mem, aligned.top)
                 /\ SameBelow(b.mem, aligned.mem, b.top)
  <2>1. /\ IsStack(b) /\ b.top = aligned.top - 4
        /\ b.ok => aligned.ok
        /\ b.ok => /\ SoundStack(b) /\ aligned.top <= WordMod
                   /\ b.mem.dataEnd = aligned.mem.dataEnd
                   /\ HasBytes(b.mem, b.top, ToBytes(0, 4))
                   /\ SameFrom(b.mem, aligned.mem, aligned.top)
                   /\ SameBelow(b.mem, aligned.mem, b.top)
    BY <1>6, PushWordWrites
  <2> HIDE DEF b
  <2> QED
    BY <1>5, <2>1
<1> HIDE DEF b
<1>8. WordsHeld(s, b, strings.pointers, 1)
  BY <1>4, <1>7, AllWords
<1> HIDE DEF s
<1>9. /\ s.top = b.top - 4 * n /\ b.ok
      /\ SoundStack(s) /\ s.mem.dataEnd = b.mem.dataEnd
      /\ \A i \in 1 .. n : HasBytes(s.mem, b.top - 4 * (n + 1 - i), ToBytes(strings.pointers[i], 4))
      /\ SameFrom(s.mem, b.mem, b.top)
      /\ SameBelow(s.mem, b.mem, s.top)
  <2>1. s.ok /\ n + 1 - 1 = n
    BY <1>1, <1>2
  <2> QED
    BY <1>4, <1>8, <2>1 DEF WordsHeld
<1>10. /\ SoundStack(strings) /\ strings.mem.dataEnd = m.dataEnd
       /\ \A i \in 1 .. n :
             /\ strings.pointers[i] \in Word /\ strings.top <= strings.pointers[i]
             /\ HasBytes(strings.mem, strings.pointers[i], Append(argv[i], 0))
       /\ SameBelow(strings.mem, m, strings.top)
  <2>1. strings.ok
    BY <1>6, <1>7, <1>9
  <2>2. \A i \in 1 .. n : i - 1 + 1 = i
    BY <1>1
  <2> HIDE DEF n
  <2> QED
    BY <1>3, <2>1, <2>2 DEF StringsHeld, n
<1>11. /\ s.top \in Nat /\ b.top \in Nat /\ aligned.top \in Nat /\ strings.top \in Nat
       /\ s.top <= b.top /\ b.top < aligned.top /\ aligned.top <= strings.top
  BY <1>1, <1>5, <1>7, <1>9, <1>10 DEF SoundStack
<1>12. s.top + 4 * n < WordMod
  <2>1. s.top + 4 * n = b.top
    BY <1>1, <1>9, <1>11
  <2> QED
    BY <1>7, <1>9, <1>11, <2>1, WidthsAreNatural
<1>13. SameBelow(s.mem, m, s.top)
  <2>1. \A x \in Mapped : x \in Int
    BY MemoryAssumption DEF Mapped
  <2>2. \A x \in Mapped : x < s.top => x < b.top /\ x < strings.top
    BY <1>11, <2>1
  <2> QED
    BY <1>6, <1>7, <1>9, <1>10, <2>2 DEF SameBelow
<1>14. HasBytes(s.mem, s.top + 4 * n, ToBytes(0, 4))
  <2> DEFINE bytes == ToBytes(0, 4)
  <2>1. Len(bytes) \in Nat
    BY ToBytesAreBytes
  <2>2. s.top + 4 * n = b.top /\ b.top <= b.top
    BY <1>1, <1>9, <1>11
  <2>3. HasBytes(b.mem, b.top, bytes)
    BY <1>7, <1>9
  <2> HIDE DEF bytes
  <2>4. HasBytes(s.mem, b.top, bytes)
    BY <1>9, <1>11, <2>1, <2>2, <2>3, StaysThere
  <2> QED
    BY <2>2, <2>4 DEF bytes
<1>15. ASSUME NEW k \in 1 .. n
       PROVE  \E a \in Word : /\ HasBytes(s.mem, s.top + 4 * (k - 1), ToBytes(a, 4))
                              /\ HasBytes(s.mem, a, Append(argv[k], 0))
  <2> DEFINE a == strings.pointers[k]
             bytes == Append(argv[k], 0)
  <2>1. a \in Word /\ strings.top <= a /\ HasBytes(strings.mem, a, bytes)
    BY <1>10
  <2>2. HasBytes(s.mem, s.top + 4 * (k - 1), ToBytes(a, 4))
    <3>1. b.top - 4 * (n + 1 - k) = s.top + 4 * (k - 1)
      BY <1>1, <1>9, <1>11
    <3> QED
      BY <1>9, <3>1
  <2>3. Len(bytes) \in Nat
    BY <1>1, TerminatedIsBytes
  <2>4. a \in Nat
    BY <2>1 DEF HasBytes
  <2> HIDE DEF a, bytes
  <2>5. HasBytes(b.mem, a, bytes)
    <3>1. SameFrom(b.mem, strings.mem, aligned.top)
      BY <1>6, <1>7, <1>9
    <3>2. aligned.top <= a
      BY <1>11, <2>1, <2>4
    <3> QED
      BY <1>11, <2>1, <2>3, <3>1, <3>2, StaysThere
  <2>6. HasBytes(s.mem, a, bytes)
    <3>1. b.top <= a
      BY <1>11, <2>1, <2>4
    <3> QED
      BY <1>9, <1>11, <2>3, <2>5, <3>1, StaysThere
  <2> QED
    BY <2>1, <2>2, <2>6 DEF bytes
<1>16. s.mem.dataEnd = m.dataEnd
  BY <1>6, <1>7, <1>9, <1>10
<1> QED
  BY <1>2, <1>9, <1>12, <1>13, <1>14, <1>15, <1>16 DEF VectorHeld

LEMMA HeldWordIsRead ==
  ASSUME NEW m, NEW a, NEW w \in Word, HasBytes(m, a, ToBytes(w, 4))
  PROVE  FromBytes(BytesAt(m, a, 4)) = w
<1> DEFINE bytes == ToBytes(w, 4)
<1>1. /\ bytes = [i \in 1 .. 4 |-> bytes[i]] /\ Len(bytes) = 4
      /\ \A i \in 1 .. 4 : bytes[i] \in Byte
  <2>1. bytes \in Seq(Byte) /\ Len(bytes) = 4
    BY WidthsAreNatural, ToBytesAreBytes
  <2> HIDE DEF bytes
  <2>2. \A i \in 1 .. 4 : bytes[i] \in Byte
    BY <2>1, ElementOfSeq
  <2>3. bytes = [i \in 1 .. 4 |-> bytes[i]]
    BY <2>1
  <2> QED
    BY <2>1, <2>2, <2>3
<1>2. FromBytes(bytes) = w
  BY WordOfBytes
<1> HIDE DEF bytes
<1>3. a \in Nat /\ \A x \in Span(a, 4) : m.cell[x] = bytes[x - a + 1]
  BY <1>1 DEF HasBytes, bytes
<1>4. ASSUME NEW i \in 1 .. 4
      PROVE  ByteAt(m, a + i - 1) = bytes[i]
  <2>1. a + i - 1 \in Span(a, 4) /\ (a + i - 1) - a + 1 = i
    BY <1>3 DEF Span
  <2>2. m.cell[a + i - 1] = bytes[i]
    BY <1>3, <2>1
  <2>3. bytes[i] # Unset
    BY <1>1, WidthsAreNatural DEF Unset
  <2> QED
    BY <2>2, <2>3 DEF ByteAt
<1>5. BytesAt(m, a, 4) = bytes
  BY <1>1, <1>4 DEF BytesAt
<1> QED
  BY <1>2, <1>5

LEMMA HeldStringIsRead ==
  ASSUME NEW a, NEW item \in Seq(Byte), HasBytes(mem, a, Append(item, 0))
  PROVE  IsStringAt(a, item)
<1> DEFINE bytes == Append(item, 0)
           n == Len(item) + 1
<1>1. /\ bytes \in Seq(Byte) /\ Len(bytes) = n /\ n \in Nat
      /\ \A i \in 1 .. n : bytes[i] \in Byte
  BY TerminatedIsBytes
<1> HIDE DEF bytes, n
<1>2. bytes = [i \in 1 .. n |-> bytes[i]]
  BY <1>1
<1>3. a \in Nat /\ Span(a, n) \subseteq Mapped
      /\ \A x \in Span(a, n) : mem.cell[x] = bytes[x - a + 1]
  BY <1>1 DEF HasBytes, bytes
<1>4. ASSUME NEW i \in 1 .. n
      PROVE  ByteAt(mem, a + i - 1) = bytes[i]
  <2>1. a + i - 1 \in Span(a, n) /\ (a + i - 1) - a + 1 = i
    BY <1>1, <1>3 DEF Span
  <2>2. mem.cell[a + i - 1] = bytes[i]
    BY <1>3, <2>1
  <2>3. bytes[i] # Unset
    BY <1>1, WidthsAreNatural DEF Unset
  <2> QED
    BY <2>2, <2>3 DEF ByteAt
<1>5. BytesAt(mem, a, n) = bytes
  BY <1>2, <1>4 DEF BytesAt
<1> QED
  BY <1>3, <1>5 DEF IsStringAt, bytes, n

-----------------------------------------------------------------------------
(* Loading. *)

(* A memory in which nothing is known of an absent page. *)
LoadedSoundly(m) == m \in Memory /\ Canonical(m) /\ IsFiniteSet(m.present)

LEMMA LoadIsSound ==
  ASSUME NEW m, LoadedSoundly(m), NEW a \in Nat, NEW bytes \in Seq(Byte \cup {Unset})
  PROVE  LET l == Load(m, a, bytes)
         IN  /\ LoadedSoundly(l) /\ l.dataEnd = m.dataEnd
             /\ SameFrom(l, m, a + Len(bytes))
<1> DEFINE n == Len(bytes)
           given == {x \in Span(a, n) : bytes[x - a + 1] # Unset}
           cells == [x \in Mapped |-> IF x \in given THEN bytes[x - a + 1] ELSE m.cell[x]]
           pages == {PageOf(x) : x \in given}
           l == Load(m, a, bytes)
<1>1. n \in Nat /\ \A i \in 1 .. n : bytes[i] \in Byte \cup {Unset}
  BY ElementOfSeq
<1>2. /\ m = [cell |-> m.cell, present |-> m.present, dataEnd |-> m.dataEnd]
      /\ m.cell \in [Mapped -> Byte \cup {Unset}] /\ m.present \in SUBSET Nat
      /\ m.dataEnd \in Nat
  BY DEF LoadedSoundly, Memory
<1>3. l = [cell |-> cells, present |-> m.present \cup pages, dataEnd |-> m.dataEnd]
  <2>1. l = [m EXCEPT !.cell = cells, !.present = m.present \cup pages]
    BY DEF Load
  <2> HIDE DEF cells, pages, l
  <2> QED
    BY <1>2, <2>1
<1>4. \A x \in Span(a, n) : x - a + 1 \in 1 .. n /\ x \in Nat
  BY <1>1 DEF Span
<1>5. cells \in [Mapped -> Byte \cup {Unset}]
  <2> SUFFICES ASSUME NEW x \in Mapped
               PROVE  (IF x \in given THEN bytes[x - a + 1] ELSE m.cell[x]) \in Byte \cup {Unset}
    OBVIOUS
  <2>1. x \in given => bytes[x - a + 1] \in Byte \cup {Unset}
    BY <1>1, <1>4
  <2>2. m.cell[x] \in Byte \cup {Unset}
    BY <1>2
  <2> HIDE DEF given
  <2> QED
    BY <2>1, <2>2
<1>6. pages \subseteq PagesOf(a, n) /\ pages \in SUBSET Nat
  BY <1>4, PageNumbers DEF PagesOf
<1>7. IsFiniteSet(m.present \cup pages)
  <2>1. IsFiniteSet(PagesOf(a, n))
    BY <1>1, PagesAreFinite
  <2>2. IsFiniteSet(pages)
    BY <1>6, <2>1, FS_Subset
  <2> QED
    BY <2>2, FS_Union DEF LoadedSoundly
<1>8. ASSUME NEW x \in Mapped, PageOf(x) \notin m.present \cup pages
      PROVE  cells[x] = Unset
  <2>1. x \notin given
    BY <1>8
  <2> HIDE DEF given
  <2> QED
    BY <1>8, <2>1 DEF LoadedSoundly, Canonical
<1>9. SameFrom(l, m, a + n)
  <2>1. \A x \in Mapped : x \in Int
    BY MemoryAssumption DEF Mapped
  <2>2. \A x \in Mapped : a + n <= x => x \notin given
    BY <1>1, <2>1 DEF Span
  <2> HIDE DEF given, l
  <2> QED
    BY <1>3, <2>2 DEF SameFrom
<1> HIDE DEF l, cells, pages, n
<1>10. l \in Memory
  BY <1>2, <1>3, <1>5, <1>6 DEF Memory
<1> QED
  BY <1>3, <1>7, <1>8, <1>9, <1>10 DEF LoadedSoundly, Canonical, l, n

LEMMA TextIsBytes ==
  ASSUME NEW text \in Seq(Word)
  PROVE  /\ TextBytes(text) \in Seq(Byte \cup {Unset})
         /\ Len(TextBytes(text)) = 4 * Len(text)
<1> DEFINE n == Len(text)
<1>1. n \in Nat /\ 4 * n \in Nat
  OBVIOUS
<1>2. ASSUME NEW k \in 1 .. 4 * n
      PROVE  ToBytes(text[((k - 1) \div 4) + 1], 4)[((k - 1) % 4) + 1] \in Byte
  <2> DEFINE i == ((k - 1) \div 4) + 1
             j == ((k - 1) % 4) + 1
             bytes == ToBytes(text[i], 4)
  <2>1. i \in 1 .. n /\ j \in 1 .. 4
    BY <1>1
  <2> HIDE DEF i, j
  <2>2. text[i] \in Int
    BY <2>1, ElementOfSeq, WidthsAreNatural
  <2>3. bytes \in Seq(Byte) /\ Len(bytes) = 4
    BY <2>2, ToBytesAreBytes
  <2> HIDE DEF bytes
  <2>4. bytes[j] \in Byte
    BY <2>1, <2>3, ElementOfSeq
  <2> QED
    BY <2>4 DEF bytes, i, j
<1> DEFINE bytes == TextBytes(text)
<1>3. bytes \in [1 .. 4 * n -> Byte \cup {Unset}]
  BY <1>2 DEF TextBytes
<1> HIDE DEF bytes, n
<1>4. bytes \in Seq(Byte \cup {Unset}) /\ Len(bytes) = 4 * n
  BY <1>1, <1>3
<1> QED
  BY <1>4 DEF bytes, n

LEMMA MaxOfTwo ==
  ASSUME NEW x \in Nat, NEW y \in Nat
  PROVE  Max({x, y}) \in Nat /\ x <= Max({x, y})
<1>1. \E z \in {x, y} : \A t \in {x, y} : z >= t
  <2>1. CASE x >= y
    BY <2>1
  <2>2. CASE ~(x >= y)
    BY <2>2
  <2> QED
    BY <2>1, <2>2
<1>2. Max({x, y}) \in {x, y} /\ \A t \in {x, y} : Max({x, y}) >= t
  BY <1>1 DEF Max
<1> QED
  BY <1>2

(* The memory of a program that fits, before its arguments are there.      *)
LEMMA ProgramIsLoaded ==
  ASSUME NEW p, IsProgram(p)
  PROVE  /\ LoadedSoundly(LoadedMemory(p))
         /\ LoadedMemory(p).dataEnd = DataBase + Max({Len(p.data), DataInitial})
         /\ DataBase + Len(p.data) <= DataLimit
         /\ \A x \in Mapped : StackBase <= x => LoadedMemory(p).cell[x] = Unset
<1> DEFINE size == Len(p.data)
           end == DataBase + Max({size, DataInitial})
           empty == EmptyMemory(size)
           text == TextBytes(p.text)
           m1 == Load(empty, TextBase, text)
           m2 == Load(m1, DataBase, p.data)
           m3 == [m2 EXCEPT !.present = @ \cup p.kernel]
<1>1. /\ p.text \in Seq(Word) /\ TextBase + 4 * Len(p.text) <= StackBase
      /\ p.data \in Seq(Byte \cup {Unset}) /\ size \in Nat
      /\ end <= DataLimit
      /\ p.kernel \in SUBSET Nat /\ IsFiniteSet(p.kernel)
  BY DEF IsProgram
<1>2. /\ TextBase \in Nat /\ DataInitial \in Nat /\ DataLimit <= StackBase
      /\ StackBase \in Nat /\ DataBase \in Nat /\ DataLimit \in Nat
  BY LoaderAssumption, MemoryAssumption
<1>3. end \in Nat /\ DataBase + size <= end
  <2> DEFINE top == Max({size, DataInitial})
  <2>1. top \in Nat /\ size <= top
    BY <1>1, <1>2, MaxOfTwo
  <2> HIDE DEF top, size
  <2>2. DataBase + top \in Nat /\ DataBase + size <= DataBase + top
    BY <1>1, <1>2, <2>1
  <2> QED
    BY <2>2 DEF top
<1>4. /\ LoadedSoundly(empty) /\ empty.dataEnd = end
      /\ \A x \in Mapped : empty.cell[x] = Unset
  <2> HIDE DEF size
  <2>1. empty = [cell |-> [x \in Mapped |-> Unset], present |-> {}, dataEnd |-> end]
    BY DEF EmptyMemory
  <2>2. IsFiniteSet({})
    BY FS_EmptySet
  <2> HIDE DEF empty, end
  <2> QED
    BY <1>3, <2>1, <2>2 DEF LoadedSoundly, Memory, Canonical
<1>5. text \in Seq(Byte \cup {Unset}) /\ Len(text) = 4 * Len(p.text)
  BY <1>1, TextIsBytes
<1> HIDE DEF empty, text, end, size
<1>6. /\ LoadedSoundly(m1) /\ m1.dataEnd = end
      /\ SameFrom(m1, empty, TextBase + Len(text))
  BY <1>2, <1>4, <1>5, LoadIsSound
<1> HIDE DEF m1
<1>7. /\ LoadedSoundly(m2) /\ m2.dataEnd = end
      /\ SameFrom(m2, m1, DataBase + size)
  BY <1>1, <1>2, <1>6, LoadIsSound DEF size
<1> HIDE DEF m2
<1>8. m3 = [cell |-> m2.cell, present |-> m2.present \cup p.kernel, dataEnd |-> m2.dataEnd]
  <2>1. m2 = [cell |-> m2.cell, present |-> m2.present, dataEnd |-> m2.dataEnd]
    BY <1>7 DEF LoadedSoundly, Memory
  <2>2. m3 = [m2 EXCEPT !.present = m2.present \cup p.kernel]
    BY DEF m3
  <2> HIDE DEF m3
  <2> QED
    BY <2>1, <2>2
<1> HIDE DEF m3
<1>9. LoadedSoundly(m3)
  <2>1. IsFiniteSet(m2.present \cup p.kernel)
    BY <1>1, <1>7, FS_Union DEF LoadedSoundly
  <2>2. m3 \in Memory
    BY <1>1, <1>7, <1>8 DEF LoadedSoundly, Memory
  <2>3. Canonical(m3)
    BY <1>7, <1>8 DEF LoadedSoundly, Canonical
  <2> QED
    BY <1>8, <2>1, <2>2, <2>3 DEF LoadedSoundly
<1>10. \A x \in Mapped : StackBase <= x => m3.cell[x] = Unset
  <2> SUFFICES ASSUME NEW x \in Mapped, StackBase <= x PROVE m3.cell[x] = Unset
    OBVIOUS
  <2>1. x \in Int
    BY MemoryAssumption DEF Mapped
  <2>2. DataBase + size <= x
    BY <1>1, <1>2, <1>3, <2>1
  <2>3. TextBase + Len(text) <= x
    <3>1. Len(p.text) \in Nat
      BY <1>1
    <3> QED
      BY <1>1, <1>2, <1>5, <2>1, <3>1
  <2> QED
    BY <1>4, <1>6, <1>7, <1>8, <2>2, <2>3 DEF SameFrom
<1>11. LoadedMemory(p) = m3
  BY DEF LoadedMemory, m3, m2, m1, text, empty, size
<1> QED
  BY <1>1, <1>2, <1>3, <1>7, <1>8, <1>9, <1>10, <1>11 DEF end, size

LEMMA LoadedIsGood ==
  ASSUME NEW m, LoadedSoundly(m), Cardinality(m.present) <= MaxPages
  PROVE  m \in Memory /\ GoodMemory(m)
BY DEF LoadedSoundly, Memory, GoodMemory

-----------------------------------------------------------------------------
(* What __init__ builds. *)

(* What MachineAssumption says of the states machines start in. *)
IsSoundBoot(boot) ==
    /\ boot \in BootState
    /\ Canonical(boot.mem)
    /\ IsFiniteSet(boot.mem.present)
    /\ Cardinality(boot.mem.present) <= MaxPages
    /\ boot.registers[0] = 0 /\ boot.pc # Sentinel
    /\ boot.mem.dataEnd <= DataLimit
    /\ Len(boot.input) <= InputLimit

LEMMA StackPointerIs ==
  ASSUME NEW top \in Nat
  PROVE  /\ StackPointer(top) \in Nat /\ StackPointer(top) <= top
         /\ StackPointer(top) % 8 = 0
<1>1. /\ top \div 8 \in Nat /\ top % 8 \in 0 .. 7 /\ top = 8 * (top \div 8) + (top % 8)
  OBVIOUS
<1>2. StackPointer(top) = 8 * (top \div 8)
  BY <1>1 DEF StackPointer
<1> DEFINE q == top \div 8
<1>3. q \in Nat
  BY <1>1
<1> HIDE DEF q
<1>4. 8 * q \in Nat /\ (8 * q) % 8 = 0
  BY <1>3
<1>5. 8 * q <= top
  BY <1>1 DEF q
<1> QED
  BY <1>2, <1>4, <1>5 DEF q

LEMMA StackIsSound ==
  ASSUME NEW p, NEW argv, IsProgram(p), AreStrings(argv), Startable(p, argv)
  PROVE  LET s == InstallArguments(LoadedMemory(p), argv)
         IN  /\ SoundStack(s) /\ s.mem.dataEnd <= DataLimit
             /\ s.top + 4 * Len(argv) < WordMod
             /\ VectorHeld(s.mem, s.top, argv)
             /\ \A x \in Mapped : StackBase <= x /\ x < s.top => s.mem.cell[x] = Unset
<1> DEFINE m == LoadedMemory(p)
           s == InstallArguments(m, argv)
<1>1. /\ LoadedSoundly(m) /\ m.dataEnd = DataBase + Max({Len(p.data), DataInitial})
      /\ \A x \in Mapped : StackBase <= x => m.cell[x] = Unset
  BY ProgramIsLoaded
<1>2. Cardinality(m.present) <= MaxPages /\ s.ok
  BY DEF Startable
<1>3. m.dataEnd <= DataLimit
  BY <1>1 DEF IsProgram
<1> HIDE DEF m
<1>4. m \in Memory /\ GoodMemory(m)
  BY <1>1, <1>2, LoadedIsGood
<1>5. /\ SoundStack(s) /\ s.mem.dataEnd = m.dataEnd
      /\ SameBelow(s.mem, m, s.top)
      /\ s.top + 4 * Len(argv) < WordMod
      /\ VectorHeld(s.mem, s.top, argv)
  BY <1>2, <1>4, ArgumentsInstalled
<1> HIDE DEF s
<1>6. \A x \in Mapped : StackBase <= x /\ x < s.top => s.mem.cell[x] = Unset
  BY <1>1, <1>5 DEF SameBelow
<1> QED
  BY <1>3, <1>5, <1>6 DEF s, m

(* __init__ builds a state as the other theorems assume it                 *)
(* (MachineAssumption), from every program the assembler accepts and all   *)
(* arguments that fit.                                                     *)
THEOREM BootIsSound ==
  ASSUME NEW p, NEW argv, NEW input \in Seq(Byte),
         IsProgram(p), AreStrings(argv), Startable(p, argv),
         Len(input) <= InputLimit
  PROVE  IsSoundBoot(Boot(p, argv, input))
<1> DEFINE s == InstallArguments(LoadedMemory(p), argv)
           top == s.top
           argc == Len(argv)
           registers == [r \in Registers |-> InitialRegister(r, argc, top)]
           break == WordAligned(DataBase + Len(p.data))
<1>1. SoundStack(s) /\ s.mem.dataEnd <= DataLimit /\ top + 4 * argc < WordMod
  BY StackIsSound
<1>2. argc \in Nat
  BY DEF AreStrings
<1>3. p.entry \in Word \ {Sentinel} /\ Len(p.data) \in Nat
  BY DEF IsProgram
<1>4. Boot(p, argv, input) = [mem |-> s.mem, registers |-> registers, pc |-> p.entry,
                              heapBreak |-> break, input |-> input]
  BY DEF Boot
<1> HIDE DEF s
<1>5. /\ s.mem \in Memory /\ Canonical(s.mem) /\ IsFiniteSet(s.mem.present)
      /\ Cardinality(s.mem.present) <= MaxPages
  BY <1>1 DEF SoundStack, GoodMemory
<1>6. top \in Nat
  BY <1>1 DEF SoundStack
<1> HIDE DEF top, argc
<1>7. argc \in Word /\ top \in Word /\ StackPointer(top) \in Word
  <2>1. StackPointer(top) \in Nat /\ StackPointer(top) <= top
    BY <1>6, StackPointerIs
  <2> QED
    BY <1>1, <1>2, <1>6, <2>1, WidthsAreNatural DEF Word
<1>8. ASSUME NEW r \in Registers
      PROVE  InitialRegister(r, argc, top) \in Word \cup {Unset}
  <2>1. InitialRegister(r, argc, top)
            \in {0, argc, top, GlobalPointer, StackPointer(top), Sentinel, Unset}
    BY DEF InitialRegister
  <2>2. GlobalPointer \in Word /\ Sentinel \in Word /\ 0 \in Word
    BY LoaderAssumption, MachineAssumption, WidthsAreNatural
  <2> QED
    BY <1>7, <2>1, <2>2
<1>9. registers \in [Registers -> Word \cup {Unset}]
  BY <1>8
<1>10. registers[0] = 0
  BY MachineAssumption DEF InitialRegister
<1>11. break \in Nat
  <2>1. DataBase + Len(p.data) + 3 \in Nat
    BY <1>3, MemoryAssumption
  <2>2. (DataBase + Len(p.data) + 3) \div 4 \in Nat
    BY <2>1
  <2> QED
    BY <2>2 DEF WordAligned
<1> HIDE DEF registers, break
<1>12. Boot(p, argv, input) \in BootState
  BY <1>3, <1>4, <1>5, <1>9, <1>11 DEF BootState
<1> QED
  BY <1>1, <1>3, <1>4, <1>5, <1>10, <1>12 DEF IsSoundBoot

(* The arguments are readable in a state whose memory and registers are    *)
(* those of __init__.                                                      *)
LEMMA FirstArgumentsAreReadable ==
  ASSUME NEW p, NEW argv, NEW input,
         IsProgram(p), AreStrings(argv), Startable(p, argv),
         mem = Boot(p, argv, input).mem,
         cpu.registers = Boot(p, argv, input).registers
  PROVE  AreReadable(argv)
<1> DEFINE s == InstallArguments(LoadedMemory(p), argv)
           top == s.top
           argc == Len(argv)
<1>1. /\ SoundStack(s) /\ VectorHeld(s.mem, top, argv)
      /\ \A x \in Mapped : StackBase <= x /\ x < top => s.mem.cell[x] = Unset
  BY StackIsSound
<1>2. mem = s.mem /\ cpu.registers = [r \in Registers |-> InitialRegister(r, argc, top)]
  BY DEF Boot
<1> HIDE DEF s
<1>3. top \in Nat
  BY <1>1 DEF SoundStack
<1>4. /\ argc \in Nat /\ DOMAIN argv = 1 .. argc
      /\ \A k \in 1 .. argc : argv[k] \in Seq(Byte)
  BY ElementOfSeq DEF AreStrings
<1> HIDE DEF top
<1>5. /\ cpu.registers[4] = argc /\ cpu.registers[5] = top
      /\ cpu.registers[29] = StackPointer(top)
  BY <1>2, MachineAssumption, LoaderAssumption DEF InitialRegister
<1>6. /\ HasBytes(mem, top + 4 * argc, ToBytes(0, 4))
      /\ \A k \in 1 .. argc :
            \E a \in Word : /\ HasBytes(mem, top + 4 * (k - 1), ToBytes(a, 4))
                           /\ HasBytes(mem, a, Append(argv[k], 0))
  BY <1>1, <1>2 DEF VectorHeld
<1> HIDE DEF argc
<1>7. WordAt(top + 4 * argc) = 0
  BY <1>6, HeldWordIsRead, WidthsAreNatural DEF WordAt
<1>8. ASSUME NEW k \in 1 .. argc
      PROVE  IsStringAt(WordAt(top + 4 * (k - 1)), argv[k])
  <2>1. PICK a \in Word : /\ HasBytes(mem, top + 4 * (k - 1), ToBytes(a, 4))
                          /\ HasBytes(mem, a, Append(argv[k], 0))
    BY <1>6
  <2>2. WordAt(top + 4 * (k - 1)) = a
    BY <2>1, HeldWordIsRead DEF WordAt
  <2>3. IsStringAt(a, argv[k])
    BY <1>4, <2>1, HeldStringIsRead
  <2> QED
    BY <2>2, <2>3
<1>9. StackPointer(top) % 8 = 0 /\ StackPointer(top) <= top /\ StackPointer(top) \in Nat
  BY <1>3, StackPointerIs
<1>10. ASSUME NEW a \in Mapped, StackBase <= a, a < StackPointer(top)
       PROVE  mem.cell[a] = Unset
  <2>1. a \in Int
    BY MemoryAssumption DEF Mapped
  <2>2. a < top
    BY <1>3, <1>9, <1>10, <2>1
  <2> QED
    BY <1>1, <1>2, <1>10, <2>2
<1> QED
  BY <1>4, <1>5, <1>7, <1>8, <1>9, <1>10 DEF AreReadable, argc

(* main finds its arguments as C has them, whatever was run before and     *)
(* taken back: what __init__ put on the stack is there whenever no         *)
(* instruction is completed.                                               *)
THEOREM MainFindsItsArguments ==
  ASSUME Escapes = {},
         \A boot \in Boots :
            \E p, input : \E argv \in ArgumentVectors :
               IsProgram(p) /\ Startable(p, argv) /\ boot = Boot(p, argv, input)
  PROVE  Spec => []ArgumentsAreReadable
<1>1. (steps = 0 => Now \in FirstViews) => ArgumentsAreReadable
  <2> SUFFICES ASSUME Now \in FirstViews
               PROVE  \E vector \in ArgumentVectors : AreReadable(vector)
    BY DEF ArgumentsAreReadable
  <2>1. PICK boot \in Boots : Now = FirstView(boot)
    BY DEF FirstViews
  <2>2. mem = boot.mem /\ cpu.registers = boot.registers
    BY <2>1 DEF Now, FirstView, View, FirstCpu
  <2>3. PICK p, input : \E argv \in ArgumentVectors :
           IsProgram(p) /\ Startable(p, argv) /\ boot = Boot(p, argv, input)
    OBVIOUS
  <2>4. PICK argv \in ArgumentVectors :
           IsProgram(p) /\ Startable(p, argv) /\ boot = Boot(p, argv, input)
    BY <2>3
  <2>5. AreStrings(argv)
    BY LoaderAssumption DEF AreStrings
  <2>6. AreReadable(argv)
    BY <2>2, <2>4, <2>5, FirstArgumentsAreReadable
  <2> QED
    BY <2>6
<1> QED
  BY <1>1, BackAtTheStart, PTL

-----------------------------------------------------------------------------
(* The laws of AluLaws, for words of any width.  Sums, products and        *)
(* quotients are exact up to a multiple of the word size; a rotation moves *)
(* a set of bits, of which a word is the sum.  Arithmetic needs little     *)
(* more than these facts about powers of two.                              *)

LEMMA PowerSum ==
  ASSUME NEW m \in Nat, NEW n \in Nat
  PROVE  2 ^ (m + n) = 2 ^ m * 2 ^ n
<1> DEFINE A == 1 .. m
           B == m + 1 .. m + n
           f == [X \in SUBSET (A \cup B) |-> <<X \cap A, X \cap B>>]
<1>1. /\ IsFiniteSet(A) /\ Cardinality(A) = m
      /\ IsFiniteSet(B) /\ Cardinality(B) = n
  BY FS_Interval
<1>2. A \cap B = {}
  OBVIOUS
<1> HIDE DEF A, B
<1>3. IsFiniteSet(A \cup B) /\ Cardinality(A \cup B) = m + n
  <2>1. Cardinality(A \cup B) = Cardinality(A) + Cardinality(B) - Cardinality(A \cap B)
    BY <1>1, FS_Union
  <2>2. Cardinality(A \cap B) = 0
    BY <1>2, FS_EmptySet
  <2>3. Cardinality(A \cup B) = m + n
    BY <1>1, <2>1, <2>2
  <2> QED
    BY <1>1, <2>3, FS_Union
<1>4. IsFiniteSet(SUBSET A) /\ Cardinality(SUBSET A) = 2 ^ m
  BY <1>1, FS_SUBSET
<1>5. IsFiniteSet(SUBSET B) /\ Cardinality(SUBSET B) = 2 ^ n
  BY <1>1, FS_SUBSET
<1>6. IsFiniteSet(SUBSET (A \cup B)) /\ Cardinality(SUBSET (A \cup B)) = 2 ^ (m + n)
  BY <1>3, FS_SUBSET
<1>7. Cardinality((SUBSET A) \X (SUBSET B)) = 2 ^ m * 2 ^ n
  BY <1>4, <1>5, FS_Product
<1>8. f \in Bijection(SUBSET (A \cup B), (SUBSET A) \X (SUBSET B))
  <2>1. f \in [SUBSET (A \cup B) -> (SUBSET A) \X (SUBSET B)]
    OBVIOUS
  <2>2. ASSUME NEW X \in SUBSET (A \cup B), NEW Y \in SUBSET (A \cup B), f[X] = f[Y]
        PROVE  X = Y
    <3>1. X \cap A = Y \cap A /\ X \cap B = Y \cap B
      BY <2>2
    <3> QED
      BY <3>1
  <2>3. ASSUME NEW t \in (SUBSET A) \X (SUBSET B)
        PROVE  \E X \in SUBSET (A \cup B) : f[X] = t
    <3>1. PICK P \in SUBSET A, Q \in SUBSET B : t = <<P, Q>>
      OBVIOUS
    <3>2. P \cup Q \in SUBSET (A \cup B)
      OBVIOUS
    <3>3. (P \cup Q) \cap A = P /\ (P \cup Q) \cap B = Q
      BY <1>2
    <3>4. f[P \cup Q] = <<P, Q>>
      BY <3>2, <3>3
    <3> QED
      BY <3>1, <3>2, <3>4
  <2> HIDE DEF f
  <2> QED
    BY <2>1, <2>2, <2>3 DEF Bijection, Injection, IsInjective, Surjection
<1>9. ExistsBijection(SUBSET (A \cup B), (SUBSET A) \X (SUBSET B))
  BY <1>8 DEF ExistsBijection
<1> QED
  BY <1>6, <1>7, <1>9, FS_Bijection

LEMMA SmallPowers == 2 ^ 0 = 1 /\ 2 ^ 1 = 2
<1>1. 2 ^ 0 * 2 ^ 0 = 2 ^ 0 /\ 2 ^ 0 \in Nat \ {0}
  BY PowerSum, PowerOfTwo
<1> DEFINE S == {0}
<1>2. IsFiniteSet(S) /\ Cardinality(S) = 1
  BY FS_Singleton
<1>3. Cardinality(SUBSET S) = 2 ^ 1
  BY <1>2, FS_SUBSET
<1>4. SUBSET S = {{}} \cup {{0}} /\ {{}} \cap {{0}} = {}
  OBVIOUS
<1>5. Cardinality({{}} \cup {{0}}) = 2
  <2> DEFINE P == {{}}
             Q == {{0}}
  <2>1. /\ IsFiniteSet(P) /\ Cardinality(P) = 1
        /\ IsFiniteSet(Q) /\ Cardinality(Q) = 1
    BY FS_Singleton
  <2>2. P \cap Q = {}
    OBVIOUS
  <2> HIDE DEF P, Q
  <2>3. Cardinality(P \cup Q) = Cardinality(P) + Cardinality(Q) - Cardinality(P \cap Q)
    BY <2>1, FS_Union
  <2>4. Cardinality(P \cap Q) = 0
    BY <2>2, FS_EmptySet
  <2>5. Cardinality(P \cup Q) = 2
    BY <2>1, <2>3, <2>4
  <2> QED
    BY <2>5 DEF P, Q
<1> DEFINE p == 2 ^ 0
<1>6. p * p = p /\ p \in Nat \ {0}
  BY <1>1
<1> HIDE DEF p
<1>7. p = 1
  BY <1>6
<1> QED
  BY <1>3, <1>4, <1>5, <1>7 DEF p

LEMMA WordHalves ==
  /\ Bound \in Nat \ {0} /\ WordMod = 2 * Bound /\ Modulus = 2 * Bound
  /\ Word = 0 .. 2 * Bound - 1
<1>1. WordBits - 1 \in Nat /\ (WordBits - 1) + 1 = WordBits
  BY WidthsAreNatural
<1>2. 2 ^ WordBits = Bound * 2
  BY <1>1, PowerSum, SmallPowers DEF Bound
<1>3. Bound \in Nat \ {0}
  BY <1>1, PowerOfTwo DEF Bound
<1> QED
  BY <1>2, <1>3, WidthsAreNatural DEF Modulus, Word

-----------------------------------------------------------------------------
(* Numbers that differ by a multiple of m. *)

Congruent(x, y, m) == \E k \in Int : x = y + k * m

LEMMA CongruentTo ==
  ASSUME NEW x \in Int, NEW y \in Int, NEW m \in Int, NEW k \in Int, x = y + k * m
  PROVE  Congruent(x, y, m)
BY DEF Congruent

LEMMA CongruentBack ==
  ASSUME NEW x \in Int, NEW y \in Int, NEW m \in Int, Congruent(x, y, m)
  PROVE  Congruent(y, x, m)
<1>1. PICK k \in Int : x = y + k * m
  BY DEF Congruent
<1>2. -k \in Int /\ (-k) * m = -(k * m)
  OBVIOUS
<1>3. y = x + (-k) * m
  BY <1>1, <1>2
<1> QED
  BY <1>2, <1>3, CongruentTo

LEMMA CongruentThrough ==
  ASSUME NEW x \in Int, NEW y \in Int, NEW z \in Int, NEW m \in Int,
         Congruent(x, y, m), Congruent(y, z, m)
  PROVE  Congruent(x, z, m)
<1>1. PICK k \in Int : x = y + k * m
  BY DEF Congruent
<1>2. PICK l \in Int : y = z + l * m
  BY DEF Congruent
<1>3. k + l \in Int /\ (k + l) * m = k * m + l * m /\ k * m \in Int /\ l * m \in Int
  OBVIOUS
<1>4. x = z + (k + l) * m
  BY <1>1, <1>2, <1>3
<1> QED
  BY <1>3, <1>4, CongruentTo

LEMMA CongruentSum ==
  ASSUME NEW x \in Int, NEW y \in Int, NEW u \in Int, NEW v \in Int, NEW m \in Int,
         Congruent(x, y, m), Congruent(u, v, m)
  PROVE  Congruent(x + u, y + v, m)
<1>1. PICK k \in Int : x = y + k * m
  BY DEF Congruent
<1>2. PICK l \in Int : u = v + l * m
  BY DEF Congruent
<1>3. k + l \in Int /\ (k + l) * m = k * m + l * m /\ k * m \in Int /\ l * m \in Int
  OBVIOUS
<1>4. x + u = (y + v) + (k + l) * m
  BY <1>1, <1>2, <1>3
<1>5. x + u \in Int /\ y + v \in Int
  OBVIOUS
<1> QED
  BY <1>3, <1>4, <1>5, CongruentTo

LEMMA CongruentMultiple ==
  ASSUME NEW x \in Int, NEW y \in Int, NEW z \in Int, NEW m \in Int, Congruent(x, y, m)
  PROVE  Congruent(x * z, y * z, m)
<1>1. PICK k \in Int : x = y + k * m
  BY DEF Congruent
<1>2. k * z \in Int /\ (y + k * m) * z = y * z + (k * z) * m
  OBVIOUS
<1>3. x * z = y * z + (k * z) * m
  BY <1>1, <1>2
<1>4. x * z \in Int /\ y * z \in Int
  OBVIOUS
<1> QED
  BY <1>2, <1>3, <1>4, CongruentTo

(* The remainder is the one congruent number in its range. *)
LEMMA RemainderIs ==
  ASSUME NEW x \in Int, NEW m \in Nat \ {0}, NEW w \in 0 .. m - 1, Congruent(x, w, m)
  PROVE  x % m = w
<1>1. PICK k \in Int : x = w + k * m
  BY DEF Congruent
<1> DEFINE q == x \div m
           r == x % m
<1>2. q \in Int /\ r \in 0 .. m - 1 /\ x = m * q + r
  OBVIOUS
<1> HIDE DEF q, r
<1>3. (q - k) * m = w - r
  <2>1. (q - k) * m = m * q - k * m
    BY <1>2
  <2> QED
    BY <1>1, <1>2, <2>1
<1>4. CASE q - k >= 1
  <2>1. (q - k - 1) * m >= 0
    BY <1>2, <1>4
  <2>2. (q - k - 1) * m = (q - k) * m - m
    BY <1>2
  <2> QED
    BY <1>2, <1>3, <2>1, <2>2
<1>5. CASE q - k <= -1
  <2>1. (k - q - 1) * m >= 0
    BY <1>2, <1>5
  <2>2. (k - q - 1) * m = -((q - k) * m) - m
    BY <1>2
  <2> QED
    BY <1>2, <1>3, <2>1, <2>2
<1>6. CASE q - k = 0
  <2>1. r = w
    BY <1>2, <1>3, <1>6
  <2> QED
    BY <2>1 DEF r
<1> QED
  BY <1>2, <1>4, <1>5, <1>6

LEMMA RemainderIsCongruent ==
  ASSUME NEW x \in Int, NEW m \in Nat \ {0}
  PROVE  x % m \in 0 .. m - 1 /\ Congruent(x, x % m, m)
<1> DEFINE q == x \div m
           r == x % m
<1>1. q \in Int /\ r \in 0 .. m - 1 /\ x = m * q + r
  OBVIOUS
<1> HIDE DEF q, r
<1>2. q * m = m * q /\ q * m \in Int
  BY <1>1
<1>3. x = r + q * m /\ r \in Int
  BY <1>1, <1>2
<1>4. Congruent(x, r, m)
  BY <1>1, <1>3, Zenon DEF Congruent
<1> QED
  BY <1>1, <1>4 DEF r

LEMMA WrapIs ==
  ASSUME NEW x \in Int, NEW w \in Word, Congruent(x, w, Modulus)
  PROVE  U(x) = w
<1>1. Modulus \in Nat \ {0} /\ w \in 0 .. Modulus - 1
  BY WordHalves
<1> QED
  BY <1>1, RemainderIs DEF U

LEMMA WrapIsCongruent ==
  ASSUME NEW x \in Int
  PROVE  U(x) \in Word /\ U(x) \in Int /\ Congruent(x, U(x), Modulus)
<1>1. Modulus \in Nat \ {0} /\ Word = 0 .. Modulus - 1
  BY WordHalves
<1>2. U(x) \in 0 .. Modulus - 1 /\ Congruent(x, U(x), Modulus)
  BY <1>1, RemainderIsCongruent DEF U
<1> QED
  BY <1>1, <1>2

(* Numbers at most one Modulus away from a word. *)
LEMMA WrapNearby ==
  ASSUME NEW w \in Word
  PROVE  /\ U(w) = w /\ U(w + Modulus) = w /\ U(w - Modulus) = w
<1>1. /\ Modulus \in Nat \ {0} /\ w \in Int /\ w + Modulus \in Int /\ w - Modulus \in Int
      /\ 0 \in Int /\ 1 \in Int /\ -1 \in Int
  BY WordHalves
<1>2. w = w + 0 * Modulus /\ w + Modulus = w + 1 * Modulus /\ w - Modulus = w + (-1) * Modulus
  BY <1>1
<1>3. Congruent(w, w, Modulus)
  BY <1>1, <1>2, Zenon DEF Congruent
<1>4. Congruent(w + Modulus, w, Modulus)
  BY <1>1, <1>2, Zenon DEF Congruent
<1>5. Congruent(w - Modulus, w, Modulus)
  BY <1>1, <1>2, Zenon DEF Congruent
<1> QED
  BY <1>1, <1>3, <1>4, <1>5, WrapIs

(* A word and the number it stands for. *)
LEMMA SignedIs ==
  ASSUME NEW w \in Word
  PROVE  /\ Signed(w) \in -Bound .. Bound - 1
         /\ Signed(w) = IF Negative(w) THEN w - Modulus ELSE w
         /\ (Signed(w) < 0) = Negative(w)
         /\ U(Signed(w)) = w
<1>1. Bound \in Nat \ {0} /\ Modulus = 2 * Bound /\ w \in 0 .. 2 * Bound - 1
  BY WordHalves
<1>2. Signed(w) = IF Negative(w) THEN w - Modulus ELSE w
  BY DEF Signed, Negative
<1>3. Signed(w) \in -Bound .. Bound - 1 /\ ((Signed(w) < 0) = Negative(w))
  BY <1>1, <1>2 DEF Negative
<1>4. U(Signed(w)) = w
  BY <1>2, WrapNearby
<1> QED
  BY <1>2, <1>3, <1>4

(* The word of a number in the signed range stands for that number. *)
LEMMA SignedOfWrapped ==
  ASSUME NEW x \in -Bound .. Bound - 1
  PROVE  /\ U(x) \in Word /\ Signed(U(x)) = x
         /\ U(x) = IF x < 0 THEN x + Modulus ELSE x
<1>1. Bound \in Nat \ {0} /\ Modulus = 2 * Bound /\ Word = 0 .. 2 * Bound - 1 /\ x \in Int
  BY WordHalves
<1>2. CASE x < 0
  <2>1. x + Modulus \in Word /\ (x + Modulus) - Modulus = x
    BY <1>1, <1>2
  <2>2. U(x) = x + Modulus
    BY <2>1, WrapNearby
  <2> QED
    BY <1>1, <1>2, <2>1, <2>2 DEF Signed
<1>3. CASE ~(x < 0)
  <2>1. x \in Word
    BY <1>1, <1>3
  <2>2. U(x) = x
    BY <2>1, WrapNearby
  <2> QED
    BY <1>1, <1>3, <2>1, <2>2 DEF Signed
<1> QED
  BY <1>2, <1>3

-----------------------------------------------------------------------------
LEMMA ComputesAdd ==
  ASSUME NEW a, NEW b
  PROVE  /\ Compute("add", a, b) = Checked(Signed(a) + Signed(b))
         /\ Compute("addu", a, b) = U(a + b)
         /\ Compute("sub", a, b) = Checked(Signed(a) - Signed(b))
         /\ Compute("subu", a, b) = U(a - b)
<1>1. ASSUME NEW op \in AddOps
      PROVE  Compute(op, a, b) = Add(op, a, b)
  <2>1. op \notin ShiftOps \cup LogicOps \cup UnaryOps /\ op # "slt" /\ op # "sltu"
    BY DEF AddOps, ShiftOps, LogicOps, UnaryOps
  <2> HIDE DEF AddOps
  <2> QED
    BY <2>1 DEF Compute
<1>2. /\ Add("add", a, b) = Checked(Signed(a) + Signed(b))
      /\ Add("addu", a, b) = U(a + b)
      /\ Add("sub", a, b) = Checked(Signed(a) - Signed(b))
      /\ Add("subu", a, b) = U(a - b)
  BY DEF Add
<1> QED
  BY <1>1, <1>2 DEF AddOps

(* checked_add_i32, checked_sub_i32: the exact result fits unless the      *)
(* signs say otherwise.                                                    *)
LEMMA CheckedIs ==
  ASSUME NEW x \in Int
  PROVE  Checked(x) = IF x \in -Bound .. Bound - 1 THEN U(x) ELSE Overflow
BY WordHalves DEF Checked

(* ADD and SUB overflow by the rule of signs, in words of any width. *)
THEOREM AdditionIsExact ==
  ASSUME NEW a \in Word, NEW b \in Word
  PROVE  OverflowBySigns(a, b)
<1>1. /\ Bound \in Nat \ {0} /\ Modulus = 2 * Bound /\ Word = 0 .. 2 * Bound - 1
      /\ a \in 0 .. 2 * Bound - 1 /\ b \in 0 .. 2 * Bound - 1
  BY WordHalves
<1>2. /\ Signed(a) = IF Negative(a) THEN a - Modulus ELSE a
      /\ Signed(b) = IF Negative(b) THEN b - Modulus ELSE b
  BY SignedIs
<1> DEFINE x == Signed(a) + Signed(b)
           y == Signed(a) - Signed(b)
<1>3. Compute("add", a, b) = IF x \in -Bound .. Bound - 1 THEN U(x) ELSE Overflow
  <2>1. x \in Int
    BY <1>1, <1>2
  <2> QED
    BY <2>1, ComputesAdd, CheckedIs
<1>4. Compute("sub", a, b) = IF y \in -Bound .. Bound - 1 THEN U(y) ELSE Overflow
  <2>1. y \in Int
    BY <1>1, <1>2
  <2> QED
    BY <2>1, ComputesAdd, CheckedIs
<1>5. U(a + b) = IF a + b < Modulus THEN a + b ELSE a + b - Modulus
  <2>1. CASE a + b < Modulus
    <3>1. a + b \in Word
      BY <1>1, <2>1
    <3> QED
      BY <2>1, <3>1, WrapNearby
  <2>2. CASE ~(a + b < Modulus)
    <3>1. a + b - Modulus \in Word /\ (a + b - Modulus) + Modulus = a + b
      BY <1>1, <2>2
    <3>2. U(a + b) = a + b - Modulus
      BY <3>1, WrapNearby
    <3> QED
      BY <2>2, <3>2
  <2> QED
    BY <2>1, <2>2
<1>6. U(a - b) = IF a < b THEN a - b + Modulus ELSE a - b
  <2>1. CASE a < b
    <3>1. a - b + Modulus \in Word /\ (a - b + Modulus) - Modulus = a - b
      BY <1>1, <2>1
    <3>2. U(a - b) = a - b + Modulus
      BY <3>1, WrapNearby
    <3> QED
      BY <2>1, <3>2
  <2>2. CASE ~(a < b)
    <3>1. a - b \in Word
      BY <1>1, <2>2
    <3> QED
      BY <2>2, <3>1, WrapNearby
  <2> QED
    BY <2>1, <2>2
<1>7. x \in -Bound .. Bound - 1 => U(x) = IF x < 0 THEN x + Modulus ELSE x
  BY SignedOfWrapped
<1>8. y \in -Bound .. Bound - 1 => U(y) = IF y < 0 THEN y + Modulus ELSE y
  BY SignedOfWrapped
<1>9. Compute("add", a, b) =
        IF Negative(a) = Negative(b) /\ Negative(U(a + b)) # Negative(a)
        THEN Overflow ELSE U(a + b)
  BY <1>1, <1>2, <1>3, <1>5, <1>7 DEF Negative
<1>10. Compute("sub", a, b) =
        IF Negative(a) # Negative(b) /\ Negative(U(a - b)) # Negative(a)
        THEN Overflow ELSE U(a - b)
  BY <1>1, <1>2, <1>4, <1>6, <1>8 DEF Negative
<1> QED
  BY <1>9, <1>10, ComputesAdd DEF OverflowBySigns

-----------------------------------------------------------------------------
(* Division. *)

LEMMA QuotientIsTruncated ==
  ASSUME NEW x \in Int, NEW y \in Int, y # 0
  PROVE  /\ Quotient(x, y) \in Int
         /\ AbsoluteValue(x - Quotient(x, y) * y) < AbsoluteValue(y)
         /\ x - Quotient(x, y) * y \in Int
         /\ x - Quotient(x, y) * y # 0 => ((x - Quotient(x, y) * y < 0) = (x < 0))
         /\ x >= 0 /\ y > 0 => Quotient(x, y) = x \div y
<1> DEFINE p == AbsoluteValue(x)
           d == AbsoluteValue(y)
           q == p \div d
           r == p % d
<1>1. p \in Nat /\ d \in Nat \ {0}
  BY DEF AbsoluteValue
<1> DEFINE product == q * y
<1>2. q \in Int /\ r \in 0 .. d - 1 /\ p = d * q + r
  <2> HIDE DEF p, d
  <2> QED
    BY <1>1
<1>3. Quotient(x, y) = IF (x < 0) # (y < 0) THEN -q ELSE q
  BY DEF Quotient
<1>4. d = (IF y < 0 THEN -y ELSE y) /\ p = (IF x < 0 THEN -x ELSE x)
  BY DEF AbsoluteValue
<1>5. x >= 0 /\ y > 0 => q = x \div y
  BY <1>4
<1> HIDE DEF p, d, q, r
<1>6. product \in Int /\ (-q) * y = -product
  BY <1>2
<1>7. d * q = IF y < 0 THEN -product ELSE product
  BY <1>2, <1>4
<1>8. Quotient(x, y) * y = IF (x < 0) # (y < 0) THEN -product ELSE product
  BY <1>3, <1>6
<1> HIDE DEF product
<1>9. x - Quotient(x, y) * y = IF x < 0 THEN -r ELSE r
  BY <1>2, <1>4, <1>6, <1>7, <1>8
<1>10. Quotient(x, y) \in Int
  BY <1>2, <1>3
<1>11. AbsoluteValue(IF x < 0 THEN -r ELSE r) = r
  BY <1>2 DEF AbsoluteValue
<1>12. x >= 0 /\ y > 0 => Quotient(x, y) = x \div y
  BY <1>3, <1>5
<1> DEFINE rest == x - Quotient(x, y) * y
<1>13. rest = (IF x < 0 THEN -r ELSE r) /\ AbsoluteValue(rest) = r
  BY <1>9, <1>11
<1>14. AbsoluteValue(y) = d
  BY DEF d
<1> HIDE DEF rest
<1>15. /\ rest \in Int /\ AbsoluteValue(rest) < AbsoluteValue(y)
       /\ rest # 0 => ((rest < 0) = (x < 0))
  <2>1. r \in Nat /\ r < d
    BY <1>1, <1>2
  <2>2. AbsoluteValue(rest) < AbsoluteValue(y)
    BY <1>13, <1>14, <2>1
  <2>3. rest \in Int /\ (rest # 0 => ((rest < 0) = (x < 0)))
    BY <1>13, <2>1
  <2> QED
    BY <2>2, <2>3
<1> QED
  BY <1>10, <1>12, <1>15 DEF rest

LEMMA SignedDivision ==
  ASSUME NEW a \in Word, NEW b \in Word, b # 0
  PROVE  LET s == Divided("div", a, b)
         IN  /\ U(Signed(s.lo) * Signed(b) + Signed(s.hi)) = a
             /\ AbsoluteValue(Signed(s.hi)) < AbsoluteValue(Signed(b))
             /\ s.hi # 0 => Negative(s.hi) = Negative(a)
<1> DEFINE x == Signed(a)
           y == Signed(b)
           q == Quotient(x, y)
           product == q * y
           r == x - product
           s == Divided("div", a, b)
<1>1. /\ x \in -Bound .. Bound - 1 /\ (x < 0) = Negative(a) /\ U(x) = a
      /\ y \in -Bound .. Bound - 1 /\ U(y) = b
  BY SignedIs
<1>2. Bound \in Nat \ {0} /\ Modulus = 2 * Bound /\ Word = 0 .. 2 * Bound - 1
  BY WordHalves
<1>3. y # 0
  <2>1. U(0) = 0
    BY <1>2, WrapNearby
  <2> QED
    BY <1>1, <2>1
<1>4. s = [hi |-> U(r), lo |-> U(q)]
  BY DEF Divided
<1>5. x \in Int /\ y \in Int
  BY <1>1, <1>2
<1>6. /\ q \in Int /\ AbsoluteValue(r) < AbsoluteValue(y)
      /\ r \in Int /\ (r # 0 => ((r < 0) = (x < 0)))
  <2> HIDE DEF x, y
  <2> QED
    BY <1>3, <1>5, QuotientIsTruncated
<1> HIDE DEF x, y, q, s
<1>7. product \in Int
  BY <1>5, <1>6
<1> HIDE DEF product
<1>8. r \in -Bound .. Bound - 1
  BY <1>1, <1>2, <1>5, <1>6 DEF AbsoluteValue
<1>9. x = product + r
  BY <1>5, <1>7
<1> HIDE DEF r
<1>10. U(r) \in Word /\ Signed(U(r)) = r
  BY <1>8, SignedOfWrapped
<1>11. s.hi = U(r) /\ s.lo = U(q)
  BY <1>4
<1>12. Signed(s.hi) = r
  BY <1>10, <1>11
<1>13. s.hi # 0 => Negative(s.hi) = Negative(a)
  <2>1. (r < 0) = Negative(U(r))
    BY <1>10, SignedIs
  <2>2. r = 0 => U(r) = 0
    BY <1>2, WrapNearby
  <2> QED
    BY <1>1, <1>6, <1>11, <2>1, <2>2
<1>14. U(Signed(s.lo) * y + r) = a
  <2> DEFINE t == Signed(U(q))
  <2>1. U(q) \in Word /\ Congruent(q, U(q), Modulus)
    BY <1>6, WrapIsCongruent
  <2>2. t \in Int /\ U(t) = U(q)
    <3>1. t \in -Bound .. Bound - 1 /\ U(t) = U(q)
      BY <2>1, SignedIs
    <3> QED
      BY <1>2, <3>1
  <2> HIDE DEF t
  <2>3. Congruent(t, U(q), Modulus)
    BY <2>2, WrapIsCongruent
  <2>4. U(q) \in Int /\ Modulus \in Int
    BY <1>2, <2>1
  <2>5. Congruent(U(q), q, Modulus)
    BY <1>6, <2>1, <2>4, CongruentBack
  <2>6. Congruent(t, q, Modulus)
    BY <1>6, <2>2, <2>3, <2>4, <2>5, CongruentThrough
  <2>7. Congruent(t * y, q * y, Modulus)
    BY <1>5, <1>6, <2>2, <2>4, <2>6, CongruentMultiple
  <2>8. Congruent(r, r, Modulus)
    <3>1. r = r + 0 * Modulus /\ 0 \in Int
      BY <1>6, <2>4
    <3> QED
      BY <3>1, Zenon DEF Congruent
  <2> DEFINE u == t * y
  <2>9. u \in Int
    BY <1>5, <2>2
  <2>10. Congruent(u, product, Modulus)
    BY <2>7 DEF product
  <2> HIDE DEF u
  <2>11. Congruent(u + r, product + r, Modulus)
    BY <1>6, <1>7, <2>4, <2>8, <2>9, <2>10, CongruentSum
  <2>12. Congruent(u + r, x, Modulus)
    BY <1>9, <2>11
  <2>13. Congruent(x, a, Modulus)
    BY <1>1, <1>5, WrapIsCongruent
  <2>14. u + r \in Int /\ a \in Int
    BY <1>2, <1>6, <2>9
  <2>15. Congruent(u + r, a, Modulus)
    BY <1>5, <2>4, <2>12, <2>13, <2>14, CongruentThrough
  <2>16. U(u + r) = a
    BY <2>14, <2>15, WrapIs
  <2> QED
    BY <1>11, <2>16 DEF u, t
<1> QED
  BY <1>6, <1>12, <1>13, <1>14 DEF s, y

LEMMA UnsignedDivision ==
  ASSUME NEW a \in Word, NEW b \in Word, b # 0
  PROVE  LET u == Divided("divu", a, b)
         IN  u.lo * b + u.hi = a /\ u.hi < b
<1> DEFINE q == Quotient(a, b)
           product == q * b
           r == a - product
           u == Divided("divu", a, b)
<1>1. a \in Nat /\ b \in Nat \ {0} /\ Word = 0 .. Modulus - 1 /\ Modulus \in Nat \ {0}
  BY WordHalves
<1>2. u = [hi |-> U(r), lo |-> U(q)]
  BY DEF Divided
<1>3. /\ q \in Int /\ AbsoluteValue(r) < AbsoluteValue(b)
      /\ r \in Int /\ (r # 0 => ((r < 0) = (a < 0)))
      /\ q = a \div b
  <2>1. a \in Int /\ b \in Int /\ b # 0 /\ a >= 0 /\ b > 0
    BY <1>1
  <2>2. /\ q \in Int /\ AbsoluteValue(r) < AbsoluteValue(b)
        /\ r \in Int /\ (r # 0 => ((r < 0) = (a < 0)))
    BY <2>1, QuotientIsTruncated
  <2>3. q = a \div b
    BY <2>1, QuotientIsTruncated
  <2> QED
    BY <2>2, <2>3
<1>4. q \in Nat
  BY <1>1, <1>3, Remainders
<1> HIDE DEF q, u
<1>5. product \in Nat /\ product >= q
  <2>1. q * (b - 1) \in Nat /\ q * (b - 1) = q * b - q
    BY <1>1, <1>4
  <2> QED
    BY <1>1, <1>4, <2>1
<1> HIDE DEF product
<1>6. r \in 0 .. b - 1 /\ a = product + r
  BY <1>1, <1>3, <1>5 DEF AbsoluteValue
<1> HIDE DEF r
<1>7. q \in Word /\ r \in Word
  BY <1>1, <1>4, <1>5, <1>6
<1>8. U(r) = r /\ U(q) = q
  BY <1>7, WrapNearby
<1> QED
  BY <1>2, <1>6, <1>8 DEF product, u

(* DIV and DIVU: dividend = quotient * divisor + remainder, as words.      *)
THEOREM DivisionIsExact ==
  ASSUME NEW a \in Word, NEW b \in Word, b # 0
  PROVE  DivisionIdentity(a, b)
BY SignedDivision, UnsignedDivision DEF DivisionIdentity

-----------------------------------------------------------------------------
(* Accumulation.  HI and LO hold a number of twice the word size. *)

LEMMA PairMeans ==
  ASSUME NEW z \in Int
  PROVE  LET p == Pair(z)
         IN  /\ p.hi \in Word /\ p.lo \in Word
             /\ Congruent(p.hi * Modulus + p.lo, z, Modulus * Modulus)
<1> DEFINE m == Modulus
           q == z \div m
           lo == z % m
           q2 == q \div m
           hi == q % m
           p == Pair(z)
<1>1. m \in Nat \ {0} /\ Word = 0 .. m - 1
  BY WordHalves
<1>2. p = [hi |-> hi, lo |-> lo]
  BY DEF Pair
<1> HIDE DEF m, p
<1>3. q \in Int /\ lo \in 0 .. m - 1 /\ z = m * q + lo
  BY <1>1
<1> HIDE DEF q, lo
<1>4. q2 \in Int /\ hi \in 0 .. m - 1 /\ q = m * q2 + hi
  BY <1>1, <1>3
<1> HIDE DEF q2, hi
<1>5. z = m * (m * q2 + hi) + lo
  BY <1>3, <1>4
<1>6. m * (m * q2 + hi) = q2 * (m * m) + hi * m
  BY <1>1, <1>4
<1>7. hi * m + lo = z + (-q2) * (m * m)
  BY <1>1, <1>3, <1>4, <1>5, <1>6
<1>8. -q2 \in Int
  BY <1>4
<1>9. Congruent(hi * m + lo, z, m * m)
  BY <1>7, <1>8, Zenon DEF Congruent
<1>10. p.hi = hi /\ p.lo = lo
  BY <1>2
<1> QED
  BY <1>1, <1>3, <1>4, <1>9, <1>10 DEF m, p

LEMMA PairIs ==
  ASSUME NEW z \in Int, NEW hi \in Word, NEW lo \in Word,
         Congruent(z, hi * Modulus + lo, Modulus * Modulus)
  PROVE  Pair(z) = [hi |-> hi, lo |-> lo]
<1> DEFINE m == Modulus
           q == z \div m
           r == z % m
<1>1. m \in Nat \ {0} /\ hi \in 0 .. m - 1 /\ lo \in 0 .. m - 1
  BY WordHalves
<1>2. PICK k \in Int : z = (hi * m + lo) + k * (m * m)
  BY DEF Congruent
<1> HIDE DEF m
<1>3. q \in Int /\ r \in 0 .. m - 1 /\ z = m * q + r
  BY <1>1
<1> DEFINE t == hi + k * m
<1>4. t \in Int /\ t * m = hi * m + k * (m * m)
  BY <1>1, <1>2
<1>5. z = lo + t * m
  BY <1>1, <1>2, <1>4
<1>6. Congruent(z, lo, m)
  BY <1>4, <1>5, Zenon DEF Congruent
<1>7. r = lo
  BY <1>1, <1>6, RemainderIs
<1> HIDE DEF q, r, t
<1>8. q = t
  <2>1. m * q = t * m
    BY <1>1, <1>3, <1>4, <1>5, <1>7
  <2>2. m * (q - t) = 0
    BY <1>1, <1>3, <1>4, <2>1
  <2> QED
    BY <1>1, <1>3, <1>4, <2>2
<1>9. Congruent(q, hi, m)
  BY <1>2, <1>8, Zenon DEF Congruent, t
<1>10. q % m = hi
  BY <1>1, <1>3, <1>9, RemainderIs
<1> QED
  BY <1>7, <1>10 DEF Pair, q, r, m

(* MADD and MADDU are undone by MSUB and MSUBU, however they wrap. *)
THEOREM AccumulationIsReversible ==
  ASSUME NEW hi \in Word, NEW lo \in Word, NEW a \in Word, NEW b \in Word
  PROVE  AccumulateIsReversible(hi, lo, a, b)
<1> SUFFICES ASSUME NEW op \in {"madd", "maddu"}
             PROVE  LET there == Accumulated(op, hi, lo, a, b)
                        back == IF op = "madd" THEN "msub" ELSE "msubu"
                    IN  Accumulated(back, there.hi, there.lo, a, b) = [hi |-> hi, lo |-> lo]
  BY DEF AccumulateIsReversible
<1> DEFINE m == Modulus
           mm == m * m
           back == IF op = "madd" THEN "msub" ELSE "msubu"
           p == Product(op, a, b)
           x == hi * m + lo
           y == x + p
           there == Pair(y)
           z == there.hi * m + there.lo
<1>1. /\ Accumulated(op, hi, lo, a, b) = Pair(y)
      /\ Accumulated(back, there.hi, there.lo, a, b) = Pair(z - p)
  BY DEF Accumulated, Product
<1>2. m \in Nat /\ hi \in Nat /\ lo \in Nat /\ a \in Int /\ b \in Int
  BY WordHalves
<1>3. p \in Int
  <2>1. Signed(a) \in Int /\ Signed(b) \in Int
    BY <1>2, SignedIsInt
  <2>2. Signed(a) * Signed(b) \in Int /\ a * b \in Int
    BY <1>2, <2>1
  <2> QED
    BY <2>2 DEF Product
<1> HIDE DEF m, p
<1>4. x \in Int /\ mm \in Int
  BY <1>2
<1> HIDE DEF x
<1>5. y \in Int
  BY <1>3, <1>4
<1>6. there.hi \in Word /\ there.lo \in Word /\ Congruent(z, y, mm)
  BY <1>5, PairMeans DEF m
<1> HIDE DEF there, mm
<1>7. z \in Int
  <2>1. there.hi \in Nat /\ there.lo \in Nat
    BY <1>6, WidthsAreNatural
  <2> QED
    BY <1>2, <2>1
<1> HIDE DEF z
<1>8. PICK k \in Int : z = y + k * mm
  BY <1>6 DEF Congruent
<1>9. z - p = x + k * mm
  <2>1. k * mm \in Int
    BY <1>4
  <2> QED
    BY <1>3, <1>4, <1>7, <1>8, <2>1
<1>10. Congruent(z - p, x, mm)
  BY <1>9, Zenon DEF Congruent
<1>11. z - p \in Int
  BY <1>3, <1>7
<1>12. Pair(z - p) = [hi |-> hi, lo |-> lo]
  BY <1>10, <1>11, PairIs DEF x, m, mm
<1> QED
  BY <1>1, <1>12 DEF there, z

-----------------------------------------------------------------------------
(* Bits. *)

BitOf(x, i) == (x \div 2 ^ i) % 2

(* What is above bit i does not change it. *)
LEMMA BitBelow ==
  ASSUME NEW x \in Nat, NEW q \in Nat, NEW n \in Nat, NEW i \in Nat, i < n
  PROVE  BitOf(x + q * 2 ^ n, i) = BitOf(x, i)
<1> DEFINE d == 2 ^ i
           e == 2 ^ (n - i - 1)
           c == q * e
           h == x \div d
           l == x % d
           y == x + q * 2 ^ n
<1>1. d \in Nat \ {0} /\ e \in Nat \ {0}
  BY PowerOfTwo
<1>2. 2 ^ n = (d * 2) * e
  <2>1. 2 ^ (i + 1) = d * 2
    BY PowerSum, SmallPowers
  <2>2. 2 ^ ((i + 1) + (n - i - 1)) = 2 ^ (i + 1) * e
    BY PowerSum
  <2>3. (i + 1) + (n - i - 1) = n
    OBVIOUS
  <2> QED
    BY <2>1, <2>2, <2>3
<1> HIDE DEF d, e
<1>3. h \in Nat /\ l \in 0 .. d - 1 /\ x = d * h + l
  <2>1. h \in Int /\ l \in 0 .. d - 1 /\ x = d * h + l
    BY <1>1
  <2>2. h \in Nat
    BY <1>1, Remainders
  <2> HIDE DEF h, l
  <2> QED
    BY <2>1, <2>2
<1>4. c \in Nat /\ q * 2 ^ n = d * (2 * c)
  <2>1. c \in Nat
    BY <1>1
  <2>2. q * ((d * 2) * e) = d * (2 * (q * e))
    BY <1>1
  <2> QED
    BY <1>2, <2>1, <2>2
<1> HIDE DEF h, l, c
<1>5. y \in Nat /\ h + 2 * c \in Nat /\ y = l + (h + 2 * c) * d
  <2>1. (h + 2 * c) * d = d * h + d * (2 * c) /\ d * (2 * c) \in Nat
    BY <1>1, <1>3, <1>4
  <2> QED
    BY <1>1, <1>3, <1>4, <2>1
<1> HIDE DEF y
<1>6. y \div d = h + 2 * c
  BY <1>1, <1>3, <1>5, QuotientIs
<1>7. (h + 2 * c) % 2 = h % 2
  BY <1>3, <1>4
<1> QED
  BY <1>6, <1>7 DEF BitOf, d, h, y

LEMMA BitAbove ==
  ASSUME NEW x \in Nat, NEW i \in Nat, x < 2 ^ i
  PROVE  BitOf(x, i) = 0
<1> DEFINE d == 2 ^ i
<1>1. d \in Nat \ {0} /\ x \in 0 .. d - 1
  BY PowerOfTwo
<1> HIDE DEF d
<1>2. x = x + 0 * d
  BY <1>1
<1>3. x \div d = 0
  BY <1>1, <1>2, QuotientIs
<1> QED
  BY <1>3 DEF BitOf, d

LEMMA PowersGrow ==
  ASSUME NEW m \in Nat, NEW n \in Nat, m <= n
  PROVE  2 ^ m <= 2 ^ n
<1> DEFINE d == 2 ^ m
           e == 2 ^ (n - m)
<1>1. d \in Nat \ {0} /\ e \in Nat \ {0}
  BY PowerOfTwo
<1>2. 2 ^ (m + (n - m)) = d * e /\ m + (n - m) = n
  BY PowerSum
<1> HIDE DEF d, e
<1>3. d * (e - 1) \in Nat /\ d * (e - 1) = d * e - d
  BY <1>1
<1> QED
  BY <1>1, <1>2, <1>3 DEF d

(* The sum of the powers of a set of bits, below bit n. *)
IsSumBelow(S, n) ==
    /\ FromBits(S) \in 0 .. 2 ^ n - 1
    /\ \A i \in AllBits : BitOf(FromBits(S), i) = IF i \in S THEN 1 ELSE 0

LEMMA AllBitsAreFinite ==
  IsFiniteSet(AllBits) /\ AllBits \subseteq Nat /\ WordBits - 1 \in Nat
BY WidthsAreNatural, FS_Interval DEF AllBits

LEMMA SumOfBits ==
  ASSUME NEW S \in SUBSET AllBits
  PROVE  /\ FromBits({}) = 0
         /\ \A i \in S : FromBits(S) = 2 ^ i + FromBits(S \ {i})
<1> DEFINE powers == [i \in AllBits |-> 2 ^ i]
<1>1. IsFiniteSet(S)
  BY AllBitsAreFinite, FS_Subset
<1>2. \A i \in S : powers[i] = 2 ^ i /\ powers[i] \in Int
  BY AllBitsAreFinite, PowerOfTwo
<1> HIDE DEF powers
<1>3. /\ SumFunctionOnSet(powers, {}) = 0
      /\ \A i \in S : SumFunctionOnSet(powers, S) = powers[i] + SumFunctionOnSet(powers, S \ {i})
  BY <1>1, <1>2, SumOfSet
<1> QED
  BY <1>2, <1>3 DEF FromBits, powers

LEMMA SumBelowStep ==
  ASSUME NEW n \in AllBits, NEW S \in SUBSET AllBits, S \subseteq 0 .. n,
         IsSumBelow(S \ {n}, n)
  PROVE  IsSumBelow(S, n + 1)
<1> DEFINE d == 2 ^ n
           v == FromBits(S \ {n})
<1>1. n \in Nat /\ d \in Nat \ {0} /\ 2 ^ (n + 1) = d * 2
  <2>1. n \in Nat /\ 1 \in Nat
    BY AllBitsAreFinite
  <2>2. 2 ^ (n + 1) = d * 2 ^ 1
    BY <2>1, PowerSum
  <2> QED
    BY <2>1, <2>2, PowerOfTwo, SmallPowers
<1>2. /\ v \in 0 .. d - 1
      /\ \A i \in AllBits : BitOf(v, i) = IF i \in S \ {n} THEN 1 ELSE 0
  BY DEF IsSumBelow
<1>3. CASE n \notin S
  <2>1. S \ {n} = S
    BY <1>3
  <2>2. v \in 0 .. 2 ^ (n + 1) - 1
    <3> HIDE DEF d, v
    <3> QED
      BY <1>1, <1>2
  <2> QED
    BY <1>2, <2>1, <2>2 DEF IsSumBelow
<1>4. CASE n \in S
  <2>1. FromBits(S) = d + v
    BY <1>4, SumOfBits
  <2> HIDE DEF v
  <2>2. v \in Nat /\ d + v \in 0 .. 2 ^ (n + 1) - 1
    <3> HIDE DEF d
    <3> QED
      BY <1>1, <1>2
  <2>3. ASSUME NEW i \in AllBits
        PROVE  BitOf(d + v, i) = IF i \in S THEN 1 ELSE 0
    <3>1. i \in Nat
      BY AllBitsAreFinite
    <3>2. CASE i < n
      <4> DEFINE q == 1
      <4>1. v + q * d = d + v /\ q \in Nat /\ v \in Nat
        BY <1>1, <2>2
      <4> HIDE DEF q
      <4>2. BitOf(v + q * 2 ^ n, i) = BitOf(v, i)
        <5>1. n \in Nat /\ i \in Nat /\ i < n /\ q \in Nat /\ v \in Nat
          BY <1>1, <3>1, <3>2, <4>1
        <5> QED
          BY <5>1, BitBelow
      <4>3. i # n
        BY <1>1, <3>1, <3>2
      <4> QED
        BY <1>2, <4>1, <4>2, <4>3
    <3>3. CASE i = n
      <4>1. d + v = v + 1 * d /\ d + v \in Nat
        BY <1>1, <2>2
      <4>2. (d + v) \div d = 1
        <5> HIDE DEF d
        <5> QED
          BY <1>1, <1>2, <4>1, QuotientIs
      <4> QED
        BY <1>4, <3>3, <4>2 DEF BitOf
    <3>4. CASE i > n
      <4>1. 2 ^ (n + 1) <= 2 ^ i
        BY <1>1, <3>1, <3>4, PowersGrow
      <4>2. d + v < 2 ^ i /\ d + v \in Nat
        <5>1. 2 ^ i \in Nat /\ 2 ^ (n + 1) \in Nat
          BY <1>1, <3>1, PowerOfTwo
        <5> HIDE DEF d
        <5> QED
          BY <2>2, <4>1, <5>1
      <4>3. BitOf(d + v, i) = 0
        BY <3>1, <4>2, BitAbove
      <4>4. i \notin S
        BY <1>1, <3>1, <3>4
      <4> QED
        BY <4>3, <4>4
    <3> QED
      BY <1>1, <3>1, <3>2, <3>3, <3>4
  <2> QED
    BY <2>1, <2>2, <2>3 DEF IsSumBelow
<1> QED
  BY <1>3, <1>4

(* A word is the sum of its bits: FromBits and Bits are inverse. *)
LEMMA BitsOfSum ==
  ASSUME NEW S \in SUBSET AllBits
  PROVE  Bits(FromBits(S)) = S
<1> DEFINE G == {n \in Nat : n <= WordBits => \A T \in SUBSET AllBits :
                                T \subseteq 0 .. n - 1 => IsSumBelow(T, n)}
<1>1. 0 \in G
  <2> SUFFICES ASSUME NEW T \in SUBSET AllBits, T \subseteq 0 .. 0 - 1 PROVE IsSumBelow(T, 0)
    OBVIOUS
  <2>1. T = {}
    OBVIOUS
  <2>2. FromBits(T) = 0
    BY <2>1, SumOfBits
  <2>3. \A i \in AllBits : BitOf(0, i) = 0
    <3> SUFFICES ASSUME NEW i \in AllBits PROVE BitOf(0, i) = 0
      OBVIOUS
    <3>1. i \in Nat /\ 0 < 2 ^ i
      BY AllBitsAreFinite, PowerOfTwo
    <3> QED
      BY <3>1, BitAbove
  <2>4. 0 \in 0 .. 2 ^ 0 - 1
    BY SmallPowers
  <2> QED
    BY <2>1, <2>2, <2>3, <2>4 DEF IsSumBelow
<1>2. ASSUME NEW n \in Nat, n \in G
      PROVE  n + 1 \in G
  <2> SUFFICES ASSUME n + 1 <= WordBits, NEW T \in SUBSET AllBits, T \subseteq 0 .. (n + 1) - 1
               PROVE  IsSumBelow(T, n + 1)
    OBVIOUS
  <2>1. n \in AllBits /\ T \subseteq 0 .. n /\ T \ {n} \subseteq 0 .. n - 1 /\ n <= WordBits
    BY WidthsAreNatural DEF AllBits
  <2>2. T \ {n} \in SUBSET AllBits
    OBVIOUS
  <2>3. IsSumBelow(T \ {n}, n)
    BY <1>2, <2>1, <2>2
  <2> QED
    BY <2>1, <2>3, SumBelowStep
<1>3. WordBits \in G
  <2> HIDE DEF G
  <2>1. Nat \subseteq G
    BY <1>1, <1>2, NaturalInduction
  <2> QED
    BY <2>1, WidthsAreNatural
<1>4. IsSumBelow(S, WordBits)
  <2>1. S \subseteq 0 .. WordBits - 1 /\ WordBits <= WordBits
    BY WidthsAreNatural DEF AllBits
  <2> QED
    BY <1>3, <2>1
<1>5. Bits(FromBits(S)) = {i \in AllBits : BitOf(FromBits(S), i) = 1}
  BY DEF Bits, BitOf
<1> QED
  BY <1>4, <1>5 DEF IsSumBelow

(* A rotation to the right by n takes the upper bits down by n, and the    *)
(* lower n bits to the top.                                                *)
LEMMA BitsOfRight ==
  ASSUME NEW w \in Word, NEW n \in Nat
  PROVE  Bits(ShiftRight(w, n)) = {j \in AllBits : j + n \in Bits(w)}
<1>1. w \in Nat /\ w < 2 ^ WordBits /\ WordBits \in Nat
  BY WordHalves, WidthsAreNatural DEF Modulus
<1>2. ASSUME NEW j \in AllBits
      PROVE  (ShiftRight(w, n) \div 2 ^ j) % 2 = BitOf(w, j + n)
  <2> DEFINE d == 2 ^ n
             e == 2 ^ j
  <2>1. j \in Nat
    BY AllBitsAreFinite
  <2>2. d \in Nat \ {0} /\ e \in Nat \ {0} /\ 2 ^ (n + j) = d * e /\ n + j = j + n
    BY <2>1, PowerOfTwo, PowerSum
  <2> HIDE DEF d, e
  <2>3. w \div (d * e) = (w \div d) \div e
    BY <1>1, <2>2, DivideTwice
  <2> QED
    BY <2>2, <2>3 DEF ShiftRight, BitOf, d, e
<1>3. ASSUME NEW j \in AllBits, BitOf(w, j + n) = 1
      PROVE  j + n \in AllBits
  <2>1. j \in Nat /\ j + n \in Nat
    BY AllBitsAreFinite
  <2>2. CASE WordBits <= j + n
    <3>1. 2 ^ WordBits <= 2 ^ (j + n) /\ 2 ^ WordBits \in Nat /\ 2 ^ (j + n) \in Nat
      BY <1>1, <2>1, <2>2, PowersGrow, PowerOfTwo
    <3>2. w < 2 ^ (j + n)
      BY <1>1, <3>1
    <3>3. BitOf(w, j + n) = 0
      BY <1>1, <2>1, <3>2, BitAbove
    <3> QED
      BY <1>3, <3>3
  <2>3. CASE ~(WordBits <= j + n)
    BY <1>1, <2>1, <2>3 DEF AllBits
  <2> QED
    BY <2>2, <2>3
<1>4. Bits(w) = {i \in AllBits : BitOf(w, i) = 1}
  BY DEF Bits, BitOf
<1>5. Bits(ShiftRight(w, n)) = {j \in AllBits : BitOf(w, j + n) = 1}
  BY <1>2 DEF Bits
<1> QED
  BY <1>3, <1>4, <1>5

LEMMA BitsOfLeft ==
  ASSUME NEW w \in Word, NEW n \in Nat \ {0}, n < WordBits
  PROVE  Bits(ShiftLeft(w, WordBits - n))
            = {j \in AllBits : /\ j >= WordBits - n
                               /\ j - (WordBits - n) \in Bits(w)}
<1> DEFINE k == WordBits - n
           d == 2 ^ n
           e == 2 ^ k
           q == w \div d
           s == w % d
<1>1. /\ w \in Nat /\ WordBits \in Nat /\ k \in Nat /\ n + k = WordBits /\ k + n = WordBits
  BY WordHalves, WidthsAreNatural
<1>2. d \in Nat \ {0} /\ e \in Nat \ {0} /\ Modulus = d * e
  <2>1. 2 ^ (n + k) = d * e
    BY <1>1, PowerSum
  <2> QED
    BY <1>1, <2>1, PowerOfTwo DEF Modulus
<1>3. q \in Nat /\ s \in 0 .. d - 1 /\ w = d * q + s
  <2> HIDE DEF d
  <2>1. q \in Int /\ s \in 0 .. d - 1 /\ w = d * q + s
    BY <1>1, <1>2
  <2>2. q \in Nat
    <3>1. w \in Int /\ w \in Nat /\ d \in Nat \ {0}
      BY <1>1, <1>2
    <3> QED
      BY <3>1, Remainders
  <2> HIDE DEF q, s
  <2> QED
    BY <2>1, <2>2
<1> HIDE DEF q, s, k
<1>4. ShiftLeft(w, k) = s * e
  <2> DEFINE m == d * e
  <2>1. s * e \in 0 .. m - 1
    <3>1. 0 + s * e \in 0 .. d * e - 1
      <4> HIDE DEF d, e
      <4>1. 0 \in 0 .. e - 1 /\ d \in Nat /\ e \in Nat
        BY <1>2
      <4> QED
        BY <1>3, <4>1, HornerStep
    <3>2. s * e \in Int
      <4> HIDE DEF d, e
      <4> QED
        BY <1>2, <1>3
    <3> QED
      BY <3>1, <3>2
  <2>2. w * e = s * e + q * m /\ w * e \in Int /\ m \in Nat \ {0}
    <3> HIDE DEF d, e
    <3>1. (d * q + s) * e = s * e + q * (d * e)
      BY <1>2, <1>3
    <3> QED
      BY <1>1, <1>2, <1>3, <3>1
  <2> HIDE DEF m, d, e
  <2>3. Congruent(w * e, s * e, m)
    <3>1. q \in Int
      BY <1>3
    <3> QED
      BY <2>2, <3>1, Zenon DEF Congruent
  <2>4. (w * e) % m = s * e
    BY <2>1, <2>2, <2>3, RemainderIs
  <2> QED
    BY <1>2, <2>4 DEF ShiftLeft, U, m, e
<1>5. ASSUME NEW j \in AllBits, j < k
      PROVE  BitOf(s * e, j) = 0
  <2>1. j \in Nat
    BY AllBitsAreFinite
  <2>2. BitOf(0 + s * e, j) = BitOf(0, j)
    BY <1>1, <1>3, <1>5, <2>1, BitBelow
  <2>3. 0 + s * e = s * e
    <3> HIDE DEF e
    <3> QED
      BY <1>2, <1>3
  <2>4. 0 < 2 ^ j
    BY <2>1, PowerOfTwo
  <2> QED
    BY <2>1, <2>2, <2>3, <2>4, BitAbove
<1>6. ASSUME NEW j \in AllBits, j >= k
      PROVE  BitOf(s * e, j) = BitOf(w, j - k) /\ j - k \in AllBits
  <2> DEFINE i == j - k
             f == 2 ^ i
  <2>1. j \in Nat /\ i \in Nat /\ j = k + i /\ i < n /\ i \in AllBits
    BY <1>1, <1>6, WidthsAreNatural DEF AllBits, k
  <2> HIDE DEF i
  <2>2. 2 ^ j = e * f /\ f \in Nat \ {0}
    BY <1>1, <2>1, PowerSum, PowerOfTwo
  <2>3. (s * e) \div (e * f) = s \div f
    <3> HIDE DEF d, e, f
    <3>1. s * e \in Nat /\ s \in Nat
      BY <1>2, <1>3
    <3>2. (s * e) \div (e * f) = ((s * e) \div e) \div f
      BY <1>2, <2>2, <3>1, DivideTwice
    <3>3. s * e = 0 + s * e /\ 0 \in 0 .. e - 1
      BY <1>2, <3>1
    <3>4. (s * e) \div e = s
      BY <1>2, <3>1, <3>3, QuotientIs
    <3> QED
      BY <3>2, <3>4
  <2>4. BitOf(s * e, j) = BitOf(s, i)
    BY <2>2, <2>3 DEF BitOf
  <2>5. BitOf(s + q * 2 ^ n, i) = BitOf(s, i)
    <3>1. s \in Nat
      <4> HIDE DEF d
      <4> QED
        BY <1>3
    <3> QED
      BY <1>3, <2>1, <3>1, BitBelow
  <2>6. s + q * 2 ^ n = w
    <3>1. s + q * d = w
      <4> HIDE DEF d
      <4> QED
        BY <1>2, <1>3
    <3> QED
      BY <3>1
  <2> QED
    BY <2>1, <2>4, <2>5, <2>6 DEF i
<1>7. Bits(w) = {i \in AllBits : BitOf(w, i) = 1}
  BY DEF Bits, BitOf
<1>8. Bits(s * e) = {j \in AllBits : BitOf(s * e, j) = 1}
  BY DEF Bits, BitOf
<1>9. \A j \in AllBits : j \in Int
  BY AllBitsAreFinite
<1> HIDE DEF e, d
<1>10. Bits(s * e) = {j \in AllBits : j >= k /\ j - k \in Bits(w)}
  <2>1. ASSUME NEW j \in AllBits
        PROVE  j \in Bits(s * e) <=> (j >= k /\ j - k \in Bits(w))
    <3>1. CASE j < k
      BY <1>1, <1>5, <1>8, <1>9, <3>1
    <3>2. CASE j >= k
      BY <1>6, <1>7, <1>8, <3>2
    <3> QED
      BY <1>1, <1>9, <3>1, <3>2
  <2> QED
    BY <1>8, <2>1
<1> QED
  BY <1>4, <1>10 DEF k

(* ROTR and ROTRV lose no bit and invent none. *)
THEOREM RotationIsExact ==
  ASSUME NEW a \in Word, NEW n \in 0 .. WordBits - 1
  PROVE  RotationMovesEveryBit(a, n)
<1> DEFINE B == WordBits
           Moved == {(i + B - n) % B : i \in Bits(a)}
<1>1. B \in Nat \ {0} /\ n \in Nat /\ n < B /\ AllBits = 0 .. B - 1
  BY WidthsAreNatural DEF AllBits
<1>2. Bits(a) \subseteq AllBits
  BY DEF Bits
<1>3. Compute("rotr", a, n) = RotateRight(a, n)
  <2>1. Compute("rotr", a, n) = Shift("rotr", a, n)
    BY DEF Compute, ShiftOps, AddOps, LogicOps, UnaryOps
  <2>2. n % B = n
    BY <1>1
  <2> QED
    BY <2>1, <2>2 DEF Shift
<1> HIDE DEF B
<1>4. ASSUME NEW i \in AllBits
      PROVE  (i + B - n) % B = IF i >= n THEN i - n ELSE i + B - n
  BY <1>1
<1>5. CASE n = 0
  <2>1. Moved = Bits(a)
    <3>1. \A i \in Bits(a) : (i + B - n) % B = i
      BY <1>1, <1>2, <1>4, <1>5
    <3> QED
      BY <3>1
  <2>2. RotateRight(a, n) = a
    BY <1>5 DEF RotateRight
  <2> QED
    BY <1>3, <2>1, <2>2 DEF RotationMovesEveryBit, B
<1>6. CASE n # 0
  <2> DEFINE R == Bits(ShiftRight(a, n))
             L == Bits(ShiftLeft(a, B - n))
  <2>1. R = {j \in AllBits : j + n \in Bits(a)}
    BY <1>1, BitsOfRight
  <2>2. L = {j \in AllBits : j >= B - n /\ j - (B - n) \in Bits(a)}
    BY <1>1, <1>6, BitsOfLeft DEF B
  <2>3. RotateRight(a, n) = FromBits(R \cup L)
    BY <1>6 DEF RotateRight, B
  <2> HIDE DEF R, L
  <2>4. R \cup L \in SUBSET AllBits
    BY <2>1, <2>2
  <2>5. Bits(RotateRight(a, n)) = R \cup L
    BY <2>3, <2>4, BitsOfSum
  <2>6. \A j \in Moved : j \in R \cup L
    <3> SUFFICES ASSUME NEW i \in Bits(a) PROVE (i + B - n) % B \in R \cup L
      OBVIOUS
    <3>1. i \in AllBits /\ i \in 0 .. B - 1
      BY <1>1, <1>2
    <3>2. CASE i >= n
      <4>1. i - n \in AllBits /\ (i - n) + n = i
        BY <1>1, <3>1, <3>2
      <4> QED
        BY <1>4, <2>1, <3>1, <3>2, <4>1
    <3>3. CASE ~(i >= n)
      <4>1. /\ i + B - n \in AllBits /\ i + B - n >= B - n
            /\ (i + B - n) - (B - n) = i
        BY <1>1, <3>1, <3>3
      <4> QED
        BY <1>4, <2>2, <3>1, <3>3, <4>1
    <3> QED
      BY <3>2, <3>3
  <2>7. \A j \in R \cup L : j \in Moved
    <3> SUFFICES ASSUME NEW j \in R \cup L PROVE j \in Moved
      OBVIOUS
    <3>1. CASE j \in R
      <4>1. j + n \in Bits(a) /\ j + n \in AllBits /\ j \in 0 .. B - 1
        BY <1>1, <1>2, <2>1, <3>1
      <4>2. ((j + n) + B - n) % B = j
        BY <1>1, <1>4, <4>1
      <4> QED
        BY <4>1, <4>2
    <3>2. CASE j \in L
      <4> DEFINE i == j - (B - n)
      <4>1. i \in Bits(a) /\ i \in AllBits /\ j \in 0 .. B - 1 /\ i < n /\ i + B - n = j
        BY <1>1, <1>2, <2>2, <3>2
      <4>2. (i + B - n) % B = j
        BY <1>1, <1>4, <4>1
      <4> QED
        BY <4>1, <4>2
    <3> QED
      BY <3>1, <3>2
  <2> QED
    BY <1>3, <2>5, <2>6, <2>7 DEF RotationMovesEveryBit, B
<1> QED
  BY <1>5, <1>6

-----------------------------------------------------------------------------
(* The two halves of an unaligned access. *)

(* The byte at a place of a word, and 0 above the bytes given. *)
ByteOf(s, i) == IF i <= Len(s) THEN s[i] ELSE 0

LEMMA PartOfBytes ==
  ASSUME NEW s \in Seq(Byte), NEW i \in 1 .. Len(s) + 1, NEW j \in i - 1 .. Len(s)
  PROVE  /\ SubSeq(s, i, j) \in Seq(Byte) /\ Len(SubSeq(s, i, j)) = j - i + 1
         /\ \A n \in 1 .. j - i + 1 : SubSeq(s, i, j)[n] = s[i + n - 1]
<1>1. Len(s) \in Nat
  OBVIOUS
<1>2. ASSUME NEW n \in i .. j PROVE s[n] \in Byte
  <2>1. n \in 1 .. Len(s)
    BY <1>1
  <2> QED
    BY <2>1, ElementOfSeq
<1>3. /\ SubSeq(s, i, j) \in Seq(Byte)
      /\ Len(SubSeq(s, i, j)) = IF i <= j THEN j - i + 1 ELSE 0
      /\ \A n \in 1 .. j - i + 1 : SubSeq(s, i, j)[n] = s[i + n - 1]
  BY <1>1, <1>2, SubSeqProperties
<1> QED
  BY <1>1, <1>3

LEMMA FromBytesSum ==
  ASSUME NEW s \in Seq(Byte)
  PROVE  /\ \A i \in 1 .. 4 : ByteOf(s, i) \in 0 .. OctetMod - 1
         /\ FromBytes(s) = ByteOf(s, 1) + ByteOf(s, 2) * OctetMod
                           + ByteOf(s, 3) * (OctetMod * OctetMod)
                           + ByteOf(s, 4) * (OctetMod * OctetMod * OctetMod)
<1> DEFINE m == OctetMod
           digit(i) == IF i <= Len(s) THEN s[i] * Weight[i] ELSE 0
<1>1. m \in Nat \ {0} /\ m = ByteMod
  BY WidthsAreNatural
<1>2. \A i \in 1 .. 4 : ByteOf(s, i) \in 0 .. m - 1
  <2> SUFFICES ASSUME NEW i \in 1 .. 4 PROVE ByteOf(s, i) \in 0 .. m - 1
    OBVIOUS
  <2>1. CASE i <= Len(s)
    <3>1. s[i] \in Byte
      BY <2>1, ElementOfSeq
    <3> QED
      BY <1>1, <2>1, <3>1 DEF ByteOf, Byte
  <2>2. CASE ~(i <= Len(s))
    BY <1>1, <2>2 DEF ByteOf
  <2> QED
    BY <2>1, <2>2
<1>3. Weight[1] = 1 /\ Weight[2] = m /\ Weight[3] = m * m /\ Weight[4] = m * m * m
  BY DEF Weight
<1>4. m * m \in Nat /\ m * m * m \in Nat
  BY <1>1
<1>5. FromBytes(s) = digit(1) + digit(2) + digit(3) + digit(4)
  BY DEF FromBytes
<1>6. ASSUME NEW i \in 1 .. 4
      PROVE  digit(i) = IF i <= Len(s) THEN ByteOf(s, i) * Weight[i] ELSE 0
  BY DEF ByteOf
<1>7. ASSUME NEW i \in 1 .. 4, ~(i <= Len(s)) PROVE ByteOf(s, i) = 0
  BY <1>7 DEF ByteOf
<1> HIDE DEF m, digit
<1>8. digit(1) = ByteOf(s, 1)
  BY <1>2, <1>3, <1>6, <1>7
<1>9. digit(2) = ByteOf(s, 2) * m
  BY <1>1, <1>3, <1>6, <1>7
<1>10. digit(3) = ByteOf(s, 3) * (m * m)
  BY <1>4, <1>3, <1>6, <1>7
<1>11. digit(4) = ByteOf(s, 4) * (m * m * m)
  BY <1>4, <1>3, <1>6, <1>7
<1> QED
  BY <1>2, <1>5, <1>8, <1>9, <1>10, <1>11 DEF m

(* v is written with four digits in base m. *)
HasDigits(m, v, b1, b2, b3, b4) ==
    /\ b1 \in 0 .. m - 1 /\ b2 \in 0 .. m - 1 /\ b3 \in 0 .. m - 1 /\ b4 \in 0 .. m - 1
    /\ v = b1 + b2 * m + b3 * (m * m) + b4 * (m * m * m)

LEMMA DigitsOf ==
  ASSUME NEW m \in Nat \ {0}, NEW v, NEW b1, NEW b2, NEW b3, NEW b4,
         HasDigits(m, v, b1, b2, b3, b4)
  PROVE  /\ v \in Nat /\ v % m = b1 /\ (v \div m) % m = b2
         /\ (v \div (m * m)) % m = b3 /\ (v \div (m * m * m)) % m = b4
<1>0. /\ b1 \in 0 .. m - 1 /\ b2 \in 0 .. m - 1 /\ b3 \in 0 .. m - 1 /\ b4 \in 0 .. m - 1
      /\ v = b1 + b2 * m + b3 * (m * m) + b4 * (m * m * m)
  BY DEF HasDigits
<1> DEFINE x2 == b3 + b4 * m
           x1 == b2 + x2 * m
<1>1. x2 \in Nat
  BY <1>0
<1>2. x2 \div m = b4 /\ x2 % m = b3
  <2>1. b3 \in 0 .. m - 1 /\ b4 \in Nat /\ x2 = b3 + b4 * m
    BY <1>0
  <2> HIDE DEF x2
  <2> QED
    BY <1>1, <2>1, QuotientIs
<1>3. x1 * m = b2 * m + b3 * (m * m) + b4 * (m * m * m)
  BY <1>0
<1> HIDE DEF x2
<1>4. x1 \in Nat
  BY <1>0, <1>1
<1>5. x1 \div m = x2 /\ x1 % m = b2
  BY <1>0, <1>1, <1>4, QuotientIs
<1> HIDE DEF x1
<1>6. v = b1 + x1 * m
  BY <1>0, <1>3, <1>4
<1>7. v \in Nat
  BY <1>0, <1>4, <1>6
<1>8. v \div m = x1 /\ v % m = b1
  BY <1>0, <1>4, <1>6, <1>7, QuotientIs
<1>9. m * m \in Nat \ {0}
  OBVIOUS
<1>10. v \div (m * m) = x2
  BY <1>5, <1>7, <1>8, DivideTwice
<1>11. v \div (m * m * m) = b4
  <2>1. v \div ((m * m) * m) = (v \div (m * m)) \div m
    BY <1>7, <1>9, DivideTwice
  <2> QED
    BY <1>2, <1>10, <2>1
<1>12. b4 % m = b4
  BY <1>0
<1> QED
  BY <1>2, <1>5, <1>7, <1>8, <1>10, <1>11, <1>12

LEMMA BytesBack ==
  ASSUME NEW s \in Seq(Byte), Len(s) <= 4, NEW n \in 0 .. Len(s)
  PROVE  ToBytes(FromBytes(s), n) = SubSeq(s, 1, n)
<1> DEFINE m == OctetMod
           v == FromBytes(s)
<1>1. m \in Nat \ {0}
  BY WidthsAreNatural
<1>2. Weight[1] = 1 /\ Weight[2] = m /\ Weight[3] = m * m /\ Weight[4] = m * m * m
  BY DEF Weight
<1>3. /\ v \in Nat /\ v % m = ByteOf(s, 1) /\ (v \div m) % m = ByteOf(s, 2)
      /\ (v \div (m * m)) % m = ByteOf(s, 3) /\ (v \div (m * m * m)) % m = ByteOf(s, 4)
  <2> HIDE DEF v
  <2>1. /\ ByteOf(s, 1) \in 0 .. m - 1 /\ ByteOf(s, 2) \in 0 .. m - 1
        /\ ByteOf(s, 3) \in 0 .. m - 1 /\ ByteOf(s, 4) \in 0 .. m - 1
    BY FromBytesSum
  <2>2. v = ByteOf(s, 1) + ByteOf(s, 2) * m + ByteOf(s, 3) * (m * m) + ByteOf(s, 4) * (m * m * m)
    BY FromBytesSum DEF v
  <2>3. HasDigits(m, v, ByteOf(s, 1), ByteOf(s, 2), ByteOf(s, 3), ByteOf(s, 4))
    BY <2>1, <2>2 DEF HasDigits
  <2> HIDE DEF m
  <2> QED
    BY <1>1, <2>3, DigitsOf
<1> HIDE DEF m, v
<1>4. v \div 1 = v
  BY <1>3
<1>5. ASSUME NEW i \in 1 .. n
      PROVE  (v \div Weight[i]) % m = s[i]
  <2>1. i \in {1, 2, 3, 4} /\ ByteOf(s, i) = s[i]
    BY DEF ByteOf
  <2> QED
    BY <1>2, <1>3, <1>4, <2>1
<1>6. SubSeq(s, 1, n) = [i \in 1 .. n |-> s[i]]
  OBVIOUS
<1>7. ToBytes(v, n) = [i \in 1 .. n |-> (v \div Weight[i]) % m]
  BY DEF ToBytes, m
<1> QED
  BY <1>5, <1>6, <1>7 DEF v

(* Four bytes are k low bytes and the 4 - k above them. *)
LEMMA FourBytesSplit ==
  ASSUME NEW s \in Seq(Byte), Len(s) = 4, NEW k \in 1 .. 3
  PROVE  LET low == FromBytes(SubSeq(s, 1, k))
             high == FromBytes(SubSeq(s, k + 1, 4))
         IN  /\ low \in 0 .. Weight[k + 1] - 1 /\ high \in Nat
             /\ FromBytes(s) = low + high * Weight[k + 1]
<1> DEFINE m == OctetMod
           l == SubSeq(s, 1, k)
           h == SubSeq(s, k + 1, 4)
           low == FromBytes(l)
           high == FromBytes(h)
           a == s[1]
           b == s[2]
           c == s[3]
           d == s[4]
<1>1. m \in Nat \ {0} /\ m = ByteMod
  BY WidthsAreNatural
<1>2. Weight[2] = m /\ Weight[3] = m * m /\ Weight[4] = m * m * m
  BY DEF Weight
<1>3. a \in 0 .. m - 1 /\ b \in 0 .. m - 1 /\ c \in 0 .. m - 1 /\ d \in 0 .. m - 1
  <2>1. \A i \in 1 .. Len(s) : s[i] \in Byte
    BY ElementOfSeq
  <2>2. a \in Byte /\ b \in Byte /\ c \in Byte /\ d \in Byte
    BY <2>1
  <2> QED
    BY <1>1, <2>2 DEF Byte
<1>4. /\ l \in Seq(Byte) /\ h \in Seq(Byte) /\ Len(l) = k /\ Len(h) = 4 - k
      /\ \A i \in 1 .. k : l[i] = s[i]
      /\ \A i \in 1 .. 4 - k : h[i] = s[k + i]
  <2>1. /\ l \in Seq(Byte) /\ Len(l) = k - 1 + 1
        /\ \A i \in 1 .. k - 1 + 1 : l[i] = s[1 + i - 1]
    <3>1. 1 \in 1 .. Len(s) + 1 /\ k \in 1 - 1 .. Len(s)
      OBVIOUS
    <3> QED
      BY <3>1, PartOfBytes
  <2>2. /\ h \in Seq(Byte) /\ Len(h) = 4 - (k + 1) + 1
        /\ \A i \in 1 .. 4 - (k + 1) + 1 : h[i] = s[(k + 1) + i - 1]
    <3>1. k + 1 \in 1 .. Len(s) + 1 /\ 4 \in (k + 1) - 1 .. Len(s)
      OBVIOUS
    <3> QED
      BY <3>1, PartOfBytes
  <2> HIDE DEF l, h
  <2> QED
    BY <2>1, <2>2
<1>5. /\ \A i \in 1 .. k : ByteOf(l, i) = s[i]
      /\ \A i \in k + 1 .. 4 : ByteOf(l, i) = 0
      /\ \A i \in 1 .. 4 - k : ByteOf(h, i) = s[k + i]
      /\ \A i \in 5 - k .. 4 : ByteOf(h, i) = 0
      /\ \A i \in 1 .. 4 : ByteOf(s, i) = s[i]
  <2> HIDE DEF l, h
  <2> QED
    BY <1>4 DEF ByteOf
<1>6. FromBytes(s) = a + b * m + c * (m * m) + d * (m * m * m)
  BY <1>5, FromBytesSum
<1>7. low = ByteOf(l, 1) + ByteOf(l, 2) * m + ByteOf(l, 3) * (m * m) + ByteOf(l, 4) * (m * m * m)
  <2> HIDE DEF l
  <2> QED
    BY <1>4, FromBytesSum
<1>8. high = ByteOf(h, 1) + ByteOf(h, 2) * m + ByteOf(h, 3) * (m * m) + ByteOf(h, 4) * (m * m * m)
  <2> HIDE DEF h
  <2> QED
    BY <1>4, FromBytesSum
<1>9. m * m \in Nat /\ m * m * m \in Nat
  BY <1>1
<1> HIDE DEF m, low, high
<1>10. CASE k = 1
  <2>1. ByteOf(l, 1) = a /\ ByteOf(l, 2) = 0 /\ ByteOf(l, 3) = 0 /\ ByteOf(l, 4) = 0
    <3> HIDE DEF l, h
    <3> QED
      BY <1>5, <1>10
  <2>2. ByteOf(h, 1) = b /\ ByteOf(h, 2) = c /\ ByteOf(h, 3) = d /\ ByteOf(h, 4) = 0
    <3> HIDE DEF l, h
    <3> QED
      BY <1>5, <1>10
  <2> HIDE DEF l, h, a, b, c, d
  <2>3. low = a /\ high = b + c * m + d * (m * m)
    BY <1>1, <1>3, <1>7, <1>8, <1>9, <2>1, <2>2
  <2>4. low + high * m = a + b * m + c * (m * m) + d * (m * m * m)
    BY <1>1, <1>3, <2>3
  <2>5. high \in Nat
    BY <1>1, <1>3, <1>9, <2>3
  <2> QED
    BY <1>2, <1>3, <1>6, <1>10, <2>3, <2>4, <2>5 DEF low, high, l, h
<1>11. CASE k = 2
  <2>1. ByteOf(l, 1) = a /\ ByteOf(l, 2) = b /\ ByteOf(l, 3) = 0 /\ ByteOf(l, 4) = 0
    <3> HIDE DEF l, h
    <3> QED
      BY <1>5, <1>11
  <2>2. ByteOf(h, 1) = c /\ ByteOf(h, 2) = d /\ ByteOf(h, 3) = 0 /\ ByteOf(h, 4) = 0
    <3> HIDE DEF l, h
    <3> QED
      BY <1>5, <1>11
  <2> HIDE DEF l, h, a, b, c, d
  <2>3. low = a + b * m /\ high = c + d * m
    BY <1>1, <1>3, <1>7, <1>8, <1>9, <2>1, <2>2
  <2>4. low + high * (m * m) = a + b * m + c * (m * m) + d * (m * m * m)
    BY <1>1, <1>3, <2>3
  <2>5. high \in Nat
    BY <1>1, <1>3, <2>3
  <2>6. low \in 0 .. m * m - 1
    BY <1>1, <1>3, <2>3, HornerStep
  <2> QED
    BY <1>2, <1>6, <1>11, <2>4, <2>5, <2>6 DEF low, high, l, h
<1>12. CASE k = 3
  <2>1. ByteOf(l, 1) = a /\ ByteOf(l, 2) = b /\ ByteOf(l, 3) = c /\ ByteOf(l, 4) = 0
    <3> HIDE DEF l, h
    <3> QED
      BY <1>5, <1>12
  <2>2. ByteOf(h, 1) = d /\ ByteOf(h, 2) = 0 /\ ByteOf(h, 3) = 0 /\ ByteOf(h, 4) = 0
    <3> HIDE DEF l, h
    <3> QED
      BY <1>5, <1>12
  <2> HIDE DEF l, h, a, b, c, d
  <2>3. low = a + b * m + c * (m * m) /\ high = d
    BY <1>1, <1>3, <1>7, <1>8, <1>9, <2>1, <2>2
  <2>4. low + high * (m * m * m) = a + b * m + c * (m * m) + d * (m * m * m)
    BY <1>1, <1>3, <1>9, <2>3
  <2>5. low = a + (b + c * m) * m
    BY <1>1, <1>3, <2>3
  <2>6. b + c * m \in 0 .. m * m - 1
    BY <1>1, <1>3, HornerStep
  <2>7. low \in 0 .. (m * m) * m - 1
    BY <1>1, <1>3, <1>9, <2>5, <2>6, HornerStep
  <2> QED
    BY <1>2, <1>3, <1>6, <1>12, <2>3, <2>4, <2>7 DEF low, high, l, h
<1> QED
  BY <1>10, <1>11, <1>12

(* LWR and LWL at the two ends of an unaligned word load the four bytes    *)
(* that it consists of, in either order and whatever the register held,    *)
(* and SWR and SWL store exactly those four bytes.                         *)
THEOREM UnalignedAccessIsExact ==
  ASSUME NEW a \in Word, NEW b \in Word, NEW old \in Word
  PROVE  UnalignedPair(a, b, old)
<1> DEFINE memory == ToBytes(a, 4) \o ToBytes(b, 4)
<1>1. memory \in Seq(Byte) /\ Len(memory) = 8
  <2>1. a \in Nat /\ b \in Nat
    BY WidthsAreNatural DEF Word
  <2>2. /\ ToBytes(a, 4) \in Seq(Byte) /\ Len(ToBytes(a, 4)) = 4
        /\ ToBytes(b, 4) \in Seq(Byte) /\ Len(ToBytes(b, 4)) = 4
    BY <2>1, ToBytesAreBytes
  <2> DEFINE A == ToBytes(a, 4)
             B == ToBytes(b, 4)
  <2> HIDE DEF A, B
  <2>3. A \in Seq(Byte) /\ B \in Seq(Byte) /\ Len(A) = 4 /\ Len(B) = 4
    BY <2>2 DEF A, B
  <2>4. A \o B \in Seq(Byte) /\ Len(A \o B) = Len(A) + Len(B)
    BY <2>3, ConcatProperties
  <2>5. Len(A \o B) = 8
    BY <2>3, <2>4
  <2> QED
    BY <2>4, <2>5 DEF A, B
<1> SUFFICES ASSUME NEW offset \in 1 .. 3
             PROVE  LET last == offset - 1
                        right == SubSeq(memory, offset + 1, 4)
                        left == SubSeq(memory, 5, 5 + last)
                        word == FromBytes(SubSeq(memory, offset + 1, offset + 4))
                    IN  /\ MergeLeft(MergeRight(old, right, offset), left, last) = word
                        /\ MergeRight(MergeLeft(old, left, last), right, offset) = word
                        /\ RightBytes(word, offset) \o LeftBytes(word, last)
                            = SubSeq(memory, offset + 1, offset + 4)
  BY DEF UnalignedPair
<1> HIDE DEF memory
<1> DEFINE last == offset - 1
           k == 4 - offset
           s == SubSeq(memory, offset + 1, offset + 4)
           right == SubSeq(memory, offset + 1, 4)
           left == SubSeq(memory, 5, 5 + last)
           word == FromBytes(s)
           K == Weight[5 - offset]
           R == FromBytes(right)
           L == FromBytes(left)
<1>2. /\ s \in Seq(Byte) /\ Len(s) = 4 /\ k \in 1 .. 3
      /\ right = SubSeq(s, 1, k) /\ left = SubSeq(s, k + 1, 4)
      /\ left \in Seq(Byte) /\ Len(left) = offset
  <2>1. /\ s \in Seq(Byte) /\ Len(s) = (offset + 4) - (offset + 1) + 1
        /\ \A i \in 1 .. (offset + 4) - (offset + 1) + 1 : s[i] = memory[(offset + 1) + i - 1]
    <3>1. offset + 1 \in 1 .. Len(memory) + 1 /\ offset + 4 \in (offset + 1) - 1 .. Len(memory)
      BY <1>1
    <3> QED
      BY <1>1, <3>1, PartOfBytes
  <2>2. /\ right \in Seq(Byte) /\ Len(right) = 4 - (offset + 1) + 1
        /\ \A i \in 1 .. 4 - (offset + 1) + 1 : right[i] = memory[(offset + 1) + i - 1]
    <3>1. offset + 1 \in 1 .. Len(memory) + 1 /\ 4 \in (offset + 1) - 1 .. Len(memory)
      BY <1>1
    <3> QED
      BY <1>1, <3>1, PartOfBytes
  <2>3. /\ left \in Seq(Byte) /\ Len(left) = (5 + last) - 5 + 1
        /\ \A i \in 1 .. (5 + last) - 5 + 1 : left[i] = memory[5 + i - 1]
    <3>1. 5 \in 1 .. Len(memory) + 1 /\ 5 + last \in 5 - 1 .. Len(memory)
      BY <1>1
    <3> QED
      BY <1>1, <3>1, PartOfBytes
  <2> HIDE DEF s, right, left
  <2>4. Len(s) = 4 /\ Len(right) = k /\ Len(left) = offset /\ k \in 1 .. 3
    BY <2>1, <2>2, <2>3
  <2>5. right = SubSeq(s, 1, k)
    <3>1. \A i \in 1 .. k : right[i] = s[i]
      BY <2>1, <2>2
    <3> DEFINE l == SubSeq(s, 1, k)
    <3>2. 1 \in 1 .. Len(s) + 1 /\ k \in 1 - 1 .. Len(s)
      BY <2>4
    <3>3. /\ l \in Seq(Byte) /\ Len(l) = k - 1 + 1
          /\ \A i \in 1 .. k - 1 + 1 : l[i] = s[1 + i - 1]
      BY <2>1, <3>2, PartOfBytes
    <3> HIDE DEF l
    <3>4. Len(l) = k /\ \A i \in 1 .. k : l[i] = s[i]
      BY <2>4, <3>3
    <3>5. right = l
      BY <2>2, <2>4, <3>1, <3>3, <3>4, SeqEqual
    <3> QED
      BY <3>5 DEF l
  <2>6. left = SubSeq(s, k + 1, 4)
    <3> DEFINE h == SubSeq(s, k + 1, 4)
    <3>1. /\ h \in Seq(Byte) /\ Len(h) = 4 - (k + 1) + 1
          /\ \A i \in 1 .. 4 - (k + 1) + 1 : h[i] = s[(k + 1) + i - 1]
      <4>1. k + 1 \in 1 .. Len(s) + 1 /\ 4 \in (k + 1) - 1 .. Len(s)
        BY <2>4
      <4> QED
        BY <2>1, <4>1, PartOfBytes
    <3> HIDE DEF h
    <3>2. Len(h) = offset /\ \A i \in 1 .. offset : h[i] = s[k + i]
      BY <3>1
    <3>3. ASSUME NEW i \in 1 .. offset PROVE left[i] = s[k + i]
      <4>1. left[i] = memory[4 + i]
        <5>1. i \in 1 .. (5 + last) - 5 + 1 /\ 5 + i - 1 = 4 + i
          OBVIOUS
        <5> QED
          BY <2>3, <5>1
      <4>2. s[k + i] = memory[4 + i]
        <5>1. k + i \in 1 .. (offset + 4) - (offset + 1) + 1 /\ (offset + 1) + (k + i) - 1 = 4 + i
          OBVIOUS
        <5> QED
          BY <2>1, <5>1
      <4> QED
        BY <4>1, <4>2
    <3>4. left = h
      BY <2>3, <2>4, <3>1, <3>2, <3>3, SeqEqual
    <3> QED
      BY <3>4 DEF h
  <2> QED
    BY <2>1, <2>3, <2>4, <2>5, <2>6
<1> HIDE DEF s, right, left
<1>3. k + 1 = 5 - offset /\ 4 - last = 5 - offset
  OBVIOUS
<1>4. R \in 0 .. K - 1 /\ L \in Nat /\ word = R + L * K
  BY <1>2, <1>3, FourBytesSplit
<1>5. K \in Nat \ {0} /\ old \in Nat
  BY WeightIsNatural, WidthsAreNatural DEF Word
<1>6. /\ \A x \in Nat : MergeRight(x, right, offset) = (x - (x % K)) + R
      /\ \A x \in Nat : MergeLeft(x, left, last) = (x % K) + L * K
  BY <1>3 DEF MergeRight, MergeLeft
<1>7. LeftBytes(word, last) = ToBytes(word \div K, offset)
  <2>1. LeftCount(last) = offset
    BY DEF LeftCount
  <2> QED
    BY <1>3, <2>1 DEF LeftBytes
<1>8. RightBytes(word, offset) = ToBytes(word, k)
  BY DEF RightBytes, RightCount
<1> HIDE DEF K
<1>9. word \div K = L
  <2> HIDE DEF word, R, L
  <2>1. word \in Nat
    BY <1>4, <1>5
  <2> QED
    BY <1>4, <1>5, <2>1, QuotientIs
<1>10. RightBytes(word, offset) = right
  <2>1. k \in 0 .. Len(s) /\ Len(s) <= 4
    BY <1>2
  <2>2. ToBytes(FromBytes(s), k) = SubSeq(s, 1, k)
    BY <1>2, <2>1, BytesBack
  <2> QED
    BY <1>2, <1>8, <2>2
<1>11. LeftBytes(word, last) = left
  <2>1. SubSeq(left, 1, offset) = left
    BY <1>2
  <2>2. ToBytes(L, offset) = SubSeq(left, 1, offset)
    <3>1. offset \in 0 .. Len(left) /\ Len(left) <= 4
      BY <1>2
    <3> QED
      BY <1>2, <3>1, BytesBack
  <2> QED
    BY <1>7, <1>9, <2>1, <2>2
<1>12. right \o left = s
  <2> HIDE DEF k
  <2>1. SubSeq(s, 1, k) \o SubSeq(s, k + 1, 4) = s
    BY <1>2
  <2> QED
    BY <1>2, <2>1
<1> DEFINE q == old \div K
           r == old % K
<1>13. q \in Nat /\ r \in 0 .. K - 1 /\ old = r + q * K
  BY <1>5
<1>14. MergeLeft(MergeRight(old, right, offset), left, last) = word
  <2> DEFINE x == R + q * K
  <2>1. MergeRight(old, right, offset) = (old - r) + R
    BY <1>5, <1>6
  <2> HIDE DEF q, r, R, L, word
  <2>2. x \in Nat /\ (old - r) + R = x
    BY <1>4, <1>5, <1>13
  <2>3. x % K = R
    BY <1>4, <1>5, <1>13, <2>2, QuotientIs
  <2> HIDE DEF x
  <2>4. MergeLeft(x, left, last) = R + L * K
    BY <1>6, <2>2, <2>3
  <2> QED
    BY <1>4, <2>1, <2>2, <2>4
<1>15. MergeRight(MergeLeft(old, left, last), right, offset) = word
  <2> DEFINE x == r + L * K
  <2>1. MergeLeft(old, left, last) = x
    BY <1>5, <1>6
  <2> HIDE DEF q, r, R, L, word
  <2>2. x \in Nat /\ x - r = L * K
    BY <1>4, <1>5, <1>13
  <2>3. x % K = r
    BY <1>4, <1>5, <1>13, <2>2, QuotientIs
  <2> HIDE DEF x
  <2>4. MergeRight(x, right, offset) = L * K + R
    BY <1>6, <2>2, <2>3
  <2>5. L * K + R = R + L * K
    BY <1>4, <1>5
  <2> QED
    BY <1>4, <2>1, <2>4, <2>5
<1> QED
  BY <1>10, <1>11, <1>12, <1>14, <1>15 DEF s, right, left, memory, last, word
=============================================================================
