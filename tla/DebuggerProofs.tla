--------------------------- MODULE DebuggerProofs ---------------------------
(***************************************************************************)
(* What the debugger (debugger.py) promises its user, for every program,   *)
(* every limit and every sequence of commands.                             *)
(***************************************************************************)
EXTENDS Debugger, BasicFacts

(* s is how t begins. *)
Begins(s, t) == Len(s) <= Len(t) /\ SubSeq(t, 1, Len(s)) = s

(* The history leads from place to place, and the output of each begins    *)
(* with that of those before it.                                           *)
MachineShape(m) ==
    /\ m = [program |-> m.program, place |-> m.place, history |-> m.history, steps |-> m.steps]
    /\ m.program \in Startable
    /\ m.place \in Places
    /\ m.steps \in Nat
    /\ IsSequence(m.history)
    /\ \A i \in 1 .. Len(m.history) : m.history[i].place \in Places

OutputsGrow(m) ==
    \A j \in 1 .. Len(m.history) + 1 : \A i \in 1 .. j : Begins(Output(m, i), Output(m, j))

MachineSound(m) == MachineShape(m) /\ OutputsGrow(m)

-----------------------------------------------------------------------------
(* Beginnings of sequences. *)

LEMMA BeginsReflexive ==
  ASSUME NEW S, NEW s \in Seq(S)
  PROVE  Begins(s, s)
BY DEF Begins

LEMMA BeginsTransitive ==
  ASSUME NEW S, NEW s \in Seq(S), NEW t \in Seq(S), NEW u \in Seq(S),
         Begins(s, t), Begins(t, u)
  PROVE  Begins(s, u)
<1>1. /\ Len(s) \in Nat /\ Len(t) \in Nat /\ Len(u) \in Nat
      /\ Len(s) <= Len(t) /\ Len(t) <= Len(u)
  BY DEF Begins
<1>2. \A i \in 1 .. Len(s) : s[i] = t[i]
  BY <1>1 DEF Begins
<1>3. \A i \in 1 .. Len(t) : t[i] = u[i]
  BY <1>1 DEF Begins
<1>4. \A i \in 1 .. Len(s) : SubSeq(u, 1, Len(s))[i] = s[i]
  BY <1>1, <1>2, <1>3
<1>5. SubSeq(u, 1, Len(s)) \in Seq(S) /\ Len(SubSeq(u, 1, Len(s))) = Len(s)
  BY <1>1
<1>6. SubSeq(u, 1, Len(s)) = s
  BY <1>4, <1>5, SeqEqual
<1> QED
  BY <1>1, <1>6 DEF Begins

(* What lies in the beginning of a sequence, and what lies in the rest. *)
LEMMA InTheBeginning ==
  ASSUME NEW S, NEW s \in Seq(S), NEW t \in Seq(S), Begins(s, t),
         NEW i \in 1 .. Len(s), NEW j \in 1 .. Len(s)
  PROVE  s[i] = t[i] /\ SubSeq(s, i, j) = SubSeq(t, i, j)
<1>1. Len(s) \in Nat /\ Len(t) \in Nat /\ Len(s) <= Len(t)
  BY DEF Begins
<1>2. \A l \in 1 .. Len(s) : s[l] = t[l]
  BY <1>1 DEF Begins
<1>3. /\ SubSeq(s, i, j) \in Seq(S) /\ SubSeq(t, i, j) \in Seq(S)
      /\ Len(SubSeq(s, i, j)) = Len(SubSeq(t, i, j))
  BY <1>1
<1>4. \A l \in 1 .. Len(SubSeq(s, i, j)) : SubSeq(s, i, j)[l] = SubSeq(t, i, j)[l]
  BY <1>1, <1>2
<1>5. SubSeq(s, i, j) = SubSeq(t, i, j)
  BY <1>3, <1>4, SeqEqual
<1> QED
  BY <1>2, <1>5

LEMMA InTheRest ==
  ASSUME NEW S, NEW t \in Seq(S), NEW l \in Nat, l <= Len(t),
         NEW r, r = SubSeq(t, l + 1, Len(t)),
         NEW i \in l + 1 .. Len(t), NEW j \in l + 1 .. Len(t)
  PROVE  /\ r \in Seq(S) /\ Len(r) = Len(t) - l
         /\ r[i - l] = t[i]
         /\ SubSeq(r, i - l, j - l) = SubSeq(t, i, j)
<1>1. Len(t) \in Nat
  OBVIOUS
<1>2. /\ r \in Seq(S) /\ Len(r) = Len(t) - l
      /\ \A k \in 1 .. Len(t) - l : r[k] = t[k + l]
  BY <1>1
<1>3. /\ SubSeq(r, i - l, j - l) \in Seq(S) /\ SubSeq(t, i, j) \in Seq(S)
      /\ Len(SubSeq(r, i - l, j - l)) = Len(SubSeq(t, i, j))
  <2>1. PICK a, b : a = i - l /\ b = j - l
    OBVIOUS
  <2>2. a \in 1 .. Len(r) /\ b \in 1 .. Len(r) /\ b - a = j - i
    BY <1>1, <1>2, <2>1
  <2>3. SubSeq(r, a, b) \in Seq(S) /\ Len(SubSeq(r, a, b)) = IF a <= b THEN b - a + 1 ELSE 0
    BY <1>2, <2>2
  <2>4. SubSeq(t, i, j) \in Seq(S) /\ Len(SubSeq(t, i, j)) = IF i <= j THEN j - i + 1 ELSE 0
    BY <1>1
  <2>5. a <= b <=> i <= j
    BY <1>1, <2>1
  <2> QED
    BY <2>1, <2>2, <2>3, <2>4, <2>5
<1>4. \A k \in 1 .. Len(SubSeq(t, i, j)) : SubSeq(r, i - l, j - l)[k] = SubSeq(t, i, j)[k]
  <2> TAKE k \in 1 .. Len(SubSeq(t, i, j))
  <2>1. /\ k \in 1 .. j - i + 1 /\ i - l + k - 1 \in 1 .. Len(t) - l
        /\ (i - l + k - 1) + l = i + k - 1
    BY <1>1
  <2>2. SubSeq(t, i, j)[k] = t[i + k - 1]
    BY <1>1, <2>1
  <2>3. SubSeq(r, i - l, j - l)[k] = r[i - l + k - 1]
    <3>1. PICK a, b : a = i - l /\ b = j - l
      OBVIOUS
    <3>2. a \in 1 .. Len(r) /\ b \in 1 .. Len(r) /\ k \in 1 .. b - a + 1
      BY <1>1, <1>2, <2>1, <3>1
    <3>3. SubSeq(r, a, b)[k] = r[a + k - 1]
      BY <1>2, <3>2
    <3> QED
      BY <3>1, <3>3
  <2> QED
    BY <1>2, <2>1, <2>2, <2>3
<1>5. SubSeq(r, i - l, j - l) = SubSeq(t, i, j)
  BY <1>3, <1>4, SeqEqual
<1>6. r[i - l] = t[i]
  <2>1. i - l \in 1 .. Len(t) - l /\ (i - l) + l = i
    BY <1>1
  <2> QED
    BY <1>2, <2>1
<1> QED
  BY <1>2, <1>5, <1>6

-----------------------------------------------------------------------------
(* What each command does to the machine. *)

LEMMA OutputsAreSequences ==
  ASSUME NEW m, MachineShape(m)
  PROVE  /\ Len(m.history) \in Nat
         /\ \A i \in 1 .. Len(m.history) + 1 : Output(m, i) \in Seq(Printed)
         /\ Output(m, Len(m.history) + 1) = m.place.output
<1>1. Len(m.history) \in Nat
  BY LengthIsNatural DEF MachineShape
<1>2. /\ m.place.output \in Seq(Printed)
      /\ \A i \in 1 .. Len(m.history) : m.history[i].place.output \in Seq(Printed)
  BY OutcomeAssumption DEF MachineShape
<1> QED
  BY <1>1, <1>2 DEF Output

(* A machine's parts change one by one. *)
LEMMA MachineParts ==
  ASSUME NEW m, MachineShape(m), NEW place, NEW history, NEW steps,
         NEW n, n = [m EXCEPT !.place = place, !.history = history, !.steps = steps]
  PROVE  n = [program |-> m.program, place |-> place, history |-> history, steps |-> steps]
<1>1. PICK a, b, c, d : m = [program |-> a, place |-> b, history |-> c, steps |-> d]
  BY DEF MachineShape
<1>2. DOMAIN n = {"program", "place", "history", "steps"}
  BY <1>1
<1>3. n.program = m.program /\ n.place = place /\ n.history = history /\ n.steps = steps
  BY <1>1
<1>4. n = [part \in DOMAIN n |-> n[part]]
  OBVIOUS
<1> QED
  BY <1>2, <1>3, <1>4

LEMMA NewMachineIsSound ==
  ASSUME NEW p \in Startable
  PROVE  MachineSound([program |-> p, place |-> Start(p), history |-> <<>>, steps |-> 0])
<1> DEFINE m == [program |-> p, place |-> Start(p), history |-> <<>>, steps |-> 0]
<1>1. MachineShape(m)
  BY OutcomeAssumption, EmptyIsSequence DEF MachineShape
<1>2. OutputsGrow(m)
  <2>1. m.history = <<>> /\ Len(m.history) = 0
    OBVIOUS
  <2> HIDE DEF m
  <2> QED
    BY <1>1, <2>1, OutputsAreSequences, BeginsReflexive DEF OutputsGrow
<1> QED
  BY <1>1, <1>2 DEF MachineSound

(* The outputs of n are those of m, less the d oldest, and a new one. *)
OutputsShift(m, n, d) ==
    /\ d \in {0, 1}
    /\ Len(n.history) = Len(m.history) + 1 - d
    /\ \A i \in 1 .. Len(n.history) :
          i + d \in 1 .. Len(m.history) + 1 /\ Output(n, i) = Output(m, i + d)

Executed1(m, o) ==
    [m EXCEPT !.place = o.place,
              !.history = Remembered(@, [place |-> m.place, writes |-> o.writes]),
              !.steps = @ + 1]

LEMMA StepIsSound ==
  ASSUME NEW m, MachineSound(m), NEW o \in Outcomes(m.program, m.place), o.ok
  PROVE  /\ MachineSound(Executed1(m, o))
         /\ Executed1(m, o).place = o.place
         /\ Executed1(m, o).steps = m.steps + 1
         /\ Len(Executed1(m, o).history) <= Len(m.history) + 1
         /\ Begins(m.place.output, o.place.output)
         /\ \E d \in {0, 1} : OutputsShift(m, Executed1(m, o), d)
<1> DEFINE n == Executed1(m, o)
           e == [place |-> m.place, writes |-> o.writes]
           h == Remembered(m.history, e)
           k == Len(m.history)
           d == Dropped(m.history)
<1>1. MachineShape(m) /\ OutputsGrow(m)
  BY DEF MachineSound
<1>2. n = [program |-> m.program, place |-> o.place, history |-> h, steps |-> m.steps + 1]
  <2> HIDE DEF h
  <2>1. n = [m EXCEPT !.place = o.place, !.history = h, !.steps = m.steps + 1]
    BY DEF Executed1, h
  <2> QED
    BY <1>1, <2>1, MachineParts
<1>3. PICK S : m.history \in Seq(S)
  BY <1>1 DEF MachineShape, IsSequence
<1>4. m.history \in Seq(S \cup {e}) /\ e \in S \cup {e} /\ e.place = m.place
  BY <1>3, SeqMonotonic
<1>5. k \in Nat /\ d \in {0, 1}
  BY <1>3 DEF Dropped
<1>6. o.place \in Places /\ Begins(m.place.output, o.place.output)
  BY <1>1, OutcomeAssumption DEF MachineShape, Begins
<1> HIDE DEF n, e
<1>7. /\ h \in Seq(S \cup {e})
      /\ Len(h) = k + 1 - d
      /\ \A i \in 1 .. Len(h) : h[i] = IF i + d = k + 1 THEN e ELSE m.history[i + d]
  <2> HIDE DEF d
  <2>1. /\ h \in Seq(S \cup {e}) /\ Len(h) = k + 1 - Dropped(m.history)
        /\ \A i \in 1 .. Len(h) :
              h[i] = IF i + Dropped(m.history) = k + 1 THEN e ELSE m.history[i + Dropped(m.history)]
    <3> HIDE DEF h, e
    <3>1. PICK T : T = S \cup {e}
      OBVIOUS
    <3>2. m.history \in Seq(T) /\ e \in T
      BY <1>4, <3>1
    <3>3. /\ Remembered(m.history, e) \in Seq(T)
          /\ Len(Remembered(m.history, e)) = k + 1 - Dropped(m.history)
          /\ \A i \in 1 .. Len(Remembered(m.history, e)) :
                Remembered(m.history, e)[i] = IF i + Dropped(m.history) = k + 1 THEN e
                                              ELSE m.history[i + Dropped(m.history)]
      BY <3>2, RememberedEntries, ZenonT(60)
    <3>4. h = Remembered(m.history, e)
      BY DEF h
    <3> QED
      BY <3>1, <3>3, <3>4
  <2> QED
    BY <2>1 DEF d
<1> HIDE DEF h, d
<1>8. MachineShape(n)
  <2>1. \A i \in 1 .. Len(h) : h[i].place \in Places
    <3> TAKE i \in 1 .. Len(h)
    <3>1. i + d \in 1 .. k + 1
      BY <1>5, <1>7
    <3>2. \A l \in 1 .. k : m.history[l].place \in Places
      BY <1>1 DEF MachineShape
    <3>3. CASE i + d = k + 1
      BY <1>1, <1>4, <1>7, <3>3 DEF MachineShape
    <3>4. CASE i + d # k + 1
      <4>1. i + d \in 1 .. k /\ h[i] = m.history[i + d]
        BY <1>5, <1>7, <3>1, <3>4
      <4> QED
        BY <3>2, <4>1
    <3> QED
      BY <3>3, <3>4
  <2>2. IsSequence(h)
    BY <1>7 DEF IsSequence
  <2>3. n.program \in Startable /\ n.steps \in Nat /\ n.place = o.place /\ n.history = h
    BY <1>1, <1>2 DEF MachineShape
  <2> QED
    BY <1>2, <1>6, <2>1, <2>2, <2>3 DEF MachineShape
<1>9. OutputsGrow(n) /\ OutputsShift(m, n, d)
  <2>1. n.history = h /\ n.place = o.place
    BY <1>2
  <2>2. \A i \in 1 .. Len(h) : i + d \in 1 .. k + 1 /\ Output(n, i) = Output(m, i + d)
    <3> TAKE i \in 1 .. Len(h)
    <3>1. i + d \in 1 .. k + 1 /\ i # Len(h) + 1
      BY <1>5, <1>7
    <3>2. Output(n, i) = h[i].place.output
      BY <2>1, <3>1 DEF Output
    <3> QED
      BY <1>4, <1>7, <3>1, <3>2 DEF Output
  <2>3. Output(n, Len(h) + 1) = o.place.output
    BY <2>1 DEF Output
  <2>4. /\ \A i \in 1 .. k + 1 : Output(m, i) \in Seq(Printed)
        /\ Output(m, k + 1) = m.place.output
    BY <1>1, OutputsAreSequences
  <2>4a. o.place.output \in Seq(Printed)
    BY <1>6, OutcomeAssumption
  <2>5. \A i \in 1 .. k + 1 : Begins(Output(m, i), o.place.output)
    <3> TAKE i \in 1 .. k + 1
    <3>1. Begins(Output(m, i), m.place.output)
      BY <1>1, <1>5, <2>4 DEF OutputsGrow
    <3> QED
      BY <1>5, <1>6, <2>4, <2>4a, <3>1, BeginsTransitive
  <2>5a. OutputsShift(m, n, d)
    BY <1>5, <1>7, <2>1, <2>2 DEF OutputsShift
  <2> SUFFICES ASSUME NEW j \in 1 .. Len(h) + 1, NEW i \in 1 .. j
               PROVE  Begins(Output(n, i), Output(n, j))
    BY <2>1, <2>5a DEF OutputsGrow
  <2>6. CASE j = Len(h) + 1 /\ i = j
    BY <2>3, <2>4a, <2>6, BeginsReflexive
  <2>7. CASE j = Len(h) + 1 /\ i # j
    <3>1. i \in 1 .. Len(h)
      BY <1>5, <1>7, <2>7
    <3> QED
      BY <2>2, <2>3, <2>5, <2>7, <3>1
  <2>8. CASE j # Len(h) + 1
    <3>0. Len(h) \in Nat
      BY <1>5, <1>7
    <3>1. i \in 1 .. Len(h) /\ j \in 1 .. Len(h)
      BY <2>8, <3>0
    <3>2. j + d \in 1 .. k + 1 /\ i + d \in 1 .. j + d
      BY <1>5, <2>2, <3>1
    <3>3. Begins(Output(m, i + d), Output(m, j + d))
      BY <1>1, <3>2 DEF OutputsGrow
    <3> QED
      BY <2>2, <3>1, <3>3
  <2> QED
    BY <2>6, <2>7, <2>8
<1>10. n.place = o.place /\ n.steps = m.steps + 1 /\ Len(n.history) <= k + 1
  BY <1>2, <1>5, <1>7
<1> QED
  BY <1>5, <1>6, <1>8, <1>9, <1>10 DEF MachineSound, n

TakenBack(m) ==
    [m EXCEPT !.place = Latest(m.history).place, !.history = Forgotten(@), !.steps = @ - 1]

LEMMA StepBackIsSound ==
  ASSUME NEW m, MachineSound(m), m.history # <<>>, Len(m.history) <= m.steps
  PROVE  /\ MachineSound(TakenBack(m))
         /\ TakenBack(m).steps = m.steps - 1
         /\ Len(TakenBack(m).history) = Len(m.history) - 1
         /\ Begins(TakenBack(m).place.output, m.place.output)
         /\ \A i \in 1 .. Len(m.history) : Output(TakenBack(m), i) = Output(m, i)
<1> DEFINE n == TakenBack(m)
           h == Forgotten(m.history)
           k == Len(m.history)
<1>1. MachineShape(m) /\ OutputsGrow(m)
  BY DEF MachineSound
<1>2. PICK S : m.history \in Seq(S)
  BY <1>1 DEF MachineShape, IsSequence
<1>3. /\ k \in Nat \ {0} /\ h \in Seq(S) /\ Len(h) = k - 1
      /\ \A i \in 1 .. k - 1 : h[i] = m.history[i]
  BY <1>2, ForgottenEntries
<1>4. n = [program |-> m.program, place |-> m.history[k].place, history |-> h,
           steps |-> m.steps - 1]
  <2> HIDE DEF h
  <2>1. n = [m EXCEPT !.place = m.history[k].place, !.history = h, !.steps = m.steps - 1]
    BY DEF TakenBack, Latest, h
  <2> QED
    BY <1>1, <2>1, MachineParts
<1> HIDE DEF n, h
<1>5. n.history = h /\ n.place = m.history[k].place
  BY <1>4
<1>6. MachineShape(n)
  <2>1. \A i \in 1 .. k : m.history[i].place \in Places
    BY <1>1 DEF MachineShape
  <2>2. n.place \in Places /\ \A i \in 1 .. Len(h) : h[i].place \in Places
    BY <1>3, <1>5, <2>1
  <2>3. n.program \in Startable /\ n.steps \in Nat
    BY <1>1, <1>3, <1>4 DEF MachineShape
  <2>4. IsSequence(n.history)
    BY <1>3, <1>5 DEF IsSequence
  <2> QED
    BY <1>4, <1>5, <2>2, <2>3, <2>4 DEF MachineShape
<1>7. \A i \in 1 .. k : Output(n, i) = Output(m, i)
  BY <1>3, <1>5 DEF Output
<1>8. OutputsGrow(n)
  BY <1>1, <1>3, <1>5, <1>7 DEF OutputsGrow
<1>9. Begins(n.place.output, m.place.output)
  <2>1. Begins(Output(m, k), Output(m, k + 1))
    BY <1>1, <1>3 DEF OutputsGrow
  <2> QED
    BY <1>3, <1>5, <2>1 DEF Output
<1> QED
  BY <1>3, <1>4, <1>5, <1>6, <1>7, <1>8, <1>9 DEF MachineSound, n

Committed(m, succeeds) ==
    [m EXCEPT !.place.dirty = IF succeeds THEN {} ELSE @, !.history = <<>>]

LEMMA CommitIsSound ==
  ASSUME NEW m, MachineSound(m), NEW succeeds \in BOOLEAN
  PROVE  /\ MachineSound(Committed(m, succeeds))
         /\ Committed(m, succeeds).steps = m.steps
         /\ Committed(m, succeeds).history = <<>>
         /\ Committed(m, succeeds).place.output = m.place.output
<1> DEFINE place == [m.place EXCEPT !.dirty = IF succeeds THEN {} ELSE @]
           n == Committed(m, succeeds)
<1>1. MachineShape(m)
  BY DEF MachineSound
<1>2. m.place \in Places /\ DOMAIN m.place = {"pc", "registers", "bytes", "output", "exited", "dirty"}
  <2>1. m.place \in Places
    BY <1>1 DEF MachineShape
  <2>2. PICK f : m.place = [part \in {"pc", "registers", "bytes", "output", "exited", "dirty"} |-> f[part]]
    BY <2>1, OutcomeAssumption
  <2> QED
    BY <2>1, <2>2
<1>3. place \in Places /\ place.output = m.place.output
  <2>1. CASE succeeds
    <3>1. place = [m.place EXCEPT !.dirty = {}]
      BY <2>1
    <3>2. place \in Places
      BY <1>2, <3>1, OutcomeAssumption
    <3>3. place.output = m.place.output
      BY <1>2, <3>1
    <3> QED
      BY <3>2, <3>3
  <2>2. CASE ~succeeds
    <3>1. place = [m.place EXCEPT !.dirty = m.place.dirty]
      BY <2>2
    <3>2. PICK f : m.place = [part \in {"pc", "registers", "bytes", "output", "exited", "dirty"} |-> f[part]]
      BY <1>2, OutcomeAssumption
    <3>3. place = m.place
      BY <3>1, <3>2
    <3> QED
      BY <1>2, <3>3
  <2> HIDE DEF place
  <2> QED
    BY <2>1, <2>2
<1>4. n = [program |-> m.program, place |-> place, history |-> <<>>, steps |-> m.steps]
  <2> HIDE DEF place
  <2>1. n = [m EXCEPT !.place = place, !.history = <<>>, !.steps = m.steps]
    BY DEF Committed, place
  <2> QED
    BY <1>1, <2>1, MachineParts
<1> HIDE DEF n, place
<1>5. n.history = <<>> /\ Len(n.history) = 0 /\ n.place = place /\ n.steps = m.steps
  BY <1>4
<1>6. MachineShape(n)
  BY <1>1, <1>3, <1>4, <1>5, EmptyIsSequence DEF MachineShape
<1>7. OutputsGrow(n)
  BY <1>5, <1>6, OutputsAreSequences, BeginsReflexive DEF OutputsGrow
<1> QED
  BY <1>3, <1>5, <1>6, <1>7 DEF MachineSound, n

-----------------------------------------------------------------------------
(* What is shown of a machine's output. *)

Texts == Seq(Printed \cup {Replaced})

Shows(m, text) ==
    /\ text \in Texts
    /\ Len(m.place.output) <= Len(text)
    /\ EveryByteIsShown(m, text)
    /\ CharactersAreShown(m, text)

LEMMA NothingToShow ==
  ASSUME NEW m, m.place.output = <<>>, m.history = <<>>
  PROVE  Shows(m, <<>>)
<1>1. Len(m.place.output) = 0 /\ Len(m.history) = 0
  OBVIOUS
<1>2. EveryByteIsShown(m, <<>>) /\ CharactersAreShown(m, <<>>)
  BY <1>1 DEF EveryByteIsShown, CharactersAreShown
<1> QED
  BY <1>1, <1>2 DEF Shows, Texts

LEMMA DecodedChunk ==
  ASSUME NEW chunk \in Seq(Printed)
  PROVE  /\ Decoded(chunk) \in Texts
         /\ Len(Decoded(chunk)) = Len(chunk)
         /\ \A t \in 1 .. Len(chunk) :
               \/ Decoded(chunk)[t] = chunk[t]
               \/ Decoded(chunk)[t] = Replaced /\ <<chunk[t]>> \notin Characters
         /\ \A i, j \in 1 .. Len(chunk) : SubSeq(chunk, i, j) \in Characters =>
               \A t \in i .. j : Decoded(chunk)[t] = chunk[t]
<1>1. Len(chunk) \in Nat /\ \A t \in 1 .. Len(chunk) : chunk[t] \in Printed
  OBVIOUS
<1> DEFINE Within(t) == \E i \in 1 .. t : \E j \in t .. Len(chunk) : SubSeq(chunk, i, j) \in Characters
<1>2. Decoded(chunk) = [t \in 1 .. Len(chunk) |-> IF Within(t) THEN chunk[t] ELSE Replaced]
  BY DEF Decoded
<1> HIDE DEF Within
<1>3. /\ Decoded(chunk) \in [1 .. Len(chunk) -> Printed \cup {Replaced}]
      /\ \A t \in 1 .. Len(chunk) :
            Decoded(chunk)[t] = IF Within(t) THEN chunk[t] ELSE Replaced
  BY <1>1, <1>2
<1>4. Decoded(chunk) \in Texts /\ Len(Decoded(chunk)) = Len(chunk)
  BY <1>1, <1>3 DEF Texts
<1>5. ASSUME NEW t \in 1 .. Len(chunk), ~Within(t) PROVE <<chunk[t]>> \notin Characters
  <2>1. SubSeq(chunk, t, t) = <<chunk[t]>>
    <3>1. /\ SubSeq(chunk, t, t) \in Seq(Printed) /\ Len(SubSeq(chunk, t, t)) = 1
          /\ SubSeq(chunk, t, t)[1] = chunk[t]
      BY <1>1
    <3>2. PICK x : x = chunk[t] /\ x \in Printed
      BY <1>1
    <3>3. <<x>> \in Seq(Printed) /\ Len(<<x>>) = 1 /\ <<x>>[1] = x
      BY <3>2
    <3>4. \A k \in 1 .. 1 : SubSeq(chunk, t, t)[k] = <<x>>[k]
      BY <3>1, <3>2, <3>3
    <3>5. SubSeq(chunk, t, t) = <<x>>
      BY <3>1, <3>3, <3>4, SeqEqual
    <3> QED
      BY <3>2, <3>5
  <2>2. t \in 1 .. t /\ t \in t .. Len(chunk)
    BY <1>1
  <2> QED
    BY <1>5, <2>1, <2>2 DEF Within
<1>6. ASSUME NEW i \in 1 .. Len(chunk), NEW j \in 1 .. Len(chunk),
             SubSeq(chunk, i, j) \in Characters, NEW t \in i .. j
      PROVE  Decoded(chunk)[t] = chunk[t]
  <2>1. t \in 1 .. Len(chunk) /\ i \in 1 .. t /\ j \in t .. Len(chunk)
    BY <1>1
  <2>2. Within(t)
    BY <1>6, <2>1 DEF Within
  <2> QED
    BY <1>3, <2>1, <2>2
<1> QED
  BY <1>3, <1>4, <1>5, <1>6

(* Outputs along the history are beginnings of the present one. *)
LEMMA OutputsBeginTheLast ==
  ASSUME NEW m, MachineSound(m), NEW k \in 1 .. Len(m.history) + 1
  PROVE  /\ Len(m.history) \in Nat
         /\ Output(m, k) \in Seq(Printed) /\ m.place.output \in Seq(Printed)
         /\ Begins(Output(m, k), m.place.output)
<1>1. MachineShape(m) /\ OutputsGrow(m)
  BY DEF MachineSound
<1>2. /\ Len(m.history) \in Nat
      /\ \A i \in 1 .. Len(m.history) + 1 : Output(m, i) \in Seq(Printed)
      /\ Output(m, Len(m.history) + 1) = m.place.output
  BY <1>1, OutputsAreSequences
<1>3. Len(m.history) + 1 \in 1 .. Len(m.history) + 1 /\ k \in 1 .. Len(m.history) + 1
  BY <1>2
<1>4. Begins(Output(m, k), Output(m, Len(m.history) + 1))
  BY <1>1, <1>3 DEF OutputsGrow
<1>5. m.place.output \in Seq(Printed)
  BY <1>2, <1>3
<1> QED
  BY <1>2, <1>4, <1>5

(* What an earlier instruction printed lies in the present output. *)
LEMMA InsideTheOutput ==
  ASSUME NEW a \in Nat, NEW b \in Nat, NEW l \in Nat, b <= l,
         NEW i \in a + 1 .. b, NEW j \in a + 1 .. b, NEW t \in i .. j
  PROVE  i \in 1 .. l /\ j \in 1 .. l /\ t \in 1 .. l
OBVIOUS

(* A step back takes from the output; what is left stays shown. *)
LEMMA StepBackIsShown ==
  ASSUME NEW m, MachineSound(m), m.history # <<>>, Len(m.history) <= m.steps,
         NEW text, Shows(m, text)
  PROVE  Shows(TakenBack(m), text)
<1> DEFINE n == TakenBack(m)
<1>1. /\ MachineSound(n) /\ Len(n.history) = Len(m.history) - 1
      /\ Begins(n.place.output, m.place.output)
      /\ \A i \in 1 .. Len(m.history) : Output(n, i) = Output(m, i)
  BY StepBackIsSound
<1> HIDE DEF n
<1>2. /\ Len(m.history) \in Nat /\ Len(n.history) \in Nat
      /\ m.place.output \in Seq(Printed) /\ n.place.output \in Seq(Printed)
  BY <1>1, OutputsAreSequences, OutcomeAssumption DEF MachineSound, MachineShape
<1>3. /\ text \in Texts /\ Len(text) \in Nat /\ Len(m.place.output) <= Len(text)
      /\ Len(n.place.output) <= Len(m.place.output)
      /\ Len(n.place.output) \in Nat /\ Len(m.place.output) \in Nat
  BY <1>1, <1>2 DEF Shows, Texts, Begins
<1>4. \A i \in 1 .. Len(n.place.output) :
         i \in 1 .. Len(m.place.output) /\ n.place.output[i] = m.place.output[i]
  BY <1>1, <1>2, <1>3, InTheBeginning
<1>5. EveryByteIsShown(n, text)
  BY <1>4 DEF EveryByteIsShown, Shows
<1>6. CharactersAreShown(n, text)
  <2> SUFFICES ASSUME NEW k \in 1 .. Len(n.history),
                      NEW i \in Len(Output(n, k)) + 1 .. Len(Output(n, k + 1)),
                      NEW j \in Len(Output(n, k)) + 1 .. Len(Output(n, k + 1)),
                      SubSeq(n.place.output, i, j) \in Characters,
                      NEW t \in i .. j
               PROVE  text[t] = n.place.output[t]
    BY DEF CharactersAreShown
  <2>1. /\ k \in 1 .. Len(m.history) /\ k + 1 \in 1 .. Len(m.history)
        /\ k + 1 \in 1 .. Len(n.history) + 1 /\ k \in 1 .. Len(n.history) + 1
    BY <1>1, <1>2
  <2>2. Output(n, k) = Output(m, k) /\ Output(n, k + 1) = Output(m, k + 1)
    BY <1>1, <2>1
  <2>3. /\ Begins(Output(n, k + 1), n.place.output)
        /\ Output(n, k) \in Seq(Printed) /\ Output(n, k + 1) \in Seq(Printed)
    BY <1>1, <2>1, OutputsBeginTheLast
  <2>4. /\ i \in 1 .. Len(n.place.output) /\ j \in 1 .. Len(n.place.output)
        /\ t \in 1 .. Len(n.place.output)
    <3>1. PICK a, b : a = Len(Output(n, k)) /\ b = Len(Output(n, k + 1))
      OBVIOUS
    <3>2. PICK l : l = Len(n.place.output)
      OBVIOUS
    <3>3. a \in Nat /\ b \in Nat /\ l \in Nat /\ b <= l
      BY <1>3, <2>3, <3>1, <3>2 DEF Begins
    <3>4. i \in a + 1 .. b /\ j \in a + 1 .. b
      BY <3>1
    <3>5. i \in 1 .. l /\ j \in 1 .. l /\ t \in 1 .. l
      BY <3>3, <3>4, InsideTheOutput
    <3> QED
      BY <3>2, <3>5
  <2>5. SubSeq(n.place.output, i, j) = SubSeq(m.place.output, i, j)
    <3>1. Begins(n.place.output, m.place.output)
      BY <1>1
    <3> QED
      BY <1>2, <2>4, <3>1, InTheBeginning, SMTT(60)
  <2>6. text[t] = m.place.output[t]
    BY <2>1, <2>2, <2>5 DEF Shows, CharactersAreShown
  <2> QED
    BY <1>4, <2>4, <2>6
<1> QED
  BY <1>3, <1>5, <1>6 DEF Shows, n

(* What is added to the output is decoded. *)
Adds(old, new, text, longer) ==
    /\ old \in Seq(Printed) /\ new \in Seq(Printed) /\ Len(old) <= Len(new)
    /\ text \in Texts /\ Len(text) = Len(old)
    /\ longer = text \o Decoded(SubSeq(new, Len(text) + 1, Len(new)))

IsAdded(l, new, text, longer) ==
    /\ longer \in Texts /\ Len(longer) = Len(new)
    /\ \A t \in 1 .. l : longer[t] = text[t]
    /\ \A t \in l + 1 .. Len(new) :
          \/ longer[t] = new[t]
          \/ longer[t] = Replaced /\ <<new[t]>> \notin Characters
    /\ \A i, j \in l + 1 .. Len(new) : SubSeq(new, i, j) \in Characters =>
          \A t \in i .. j : longer[t] = new[t]

LEMMA RestIsDecoded ==
  ASSUME NEW old, NEW new, NEW text, NEW longer, Adds(old, new, text, longer)
  PROVE  IsAdded(Len(old), new, text, longer)
<1>0. /\ old \in Seq(Printed) /\ new \in Seq(Printed) /\ Len(old) <= Len(new)
      /\ text \in Texts /\ Len(text) = Len(old)
      /\ longer = text \o Decoded(SubSeq(new, Len(text) + 1, Len(new)))
  BY DEF Adds
<1>1. PICK l, chunk : l = Len(old) /\ chunk = SubSeq(new, l + 1, Len(new))
  OBVIOUS
<1>2. l \in Nat /\ Len(new) \in Nat /\ l <= Len(new) /\ Len(text) = l
  BY <1>0, <1>1
<1>3. chunk \in Seq(Printed) /\ Len(chunk) = Len(new) - l
  BY <1>0, <1>1, <1>2
<1>4. \A i, j \in l + 1 .. Len(new) :
         chunk[i - l] = new[i] /\ SubSeq(chunk, i - l, j - l) = SubSeq(new, i, j)
  <2> TAKE i, j \in l + 1 .. Len(new)
  <2>1. chunk = SubSeq(new, l + 1, Len(new)) /\ l \in Nat /\ l <= Len(new)
    BY <1>1, <1>2
  <2>2. chunk[i - l] = new[i]
    BY <1>0, <2>1, InTheRest
  <2>3. SubSeq(chunk, i - l, j - l) = SubSeq(new, i, j)
    BY <1>0, <2>1, InTheRest
  <2> QED
    BY <2>2, <2>3
<1>5. PICK shownChunk : shownChunk = Decoded(chunk)
  OBVIOUS
<1>6. /\ shownChunk \in Texts /\ Len(shownChunk) = Len(new) - l
      /\ \A t \in 1 .. Len(new) - l :
            \/ shownChunk[t] = chunk[t]
            \/ shownChunk[t] = Replaced /\ <<chunk[t]>> \notin Characters
      /\ \A i, j \in 1 .. Len(new) - l : SubSeq(chunk, i, j) \in Characters =>
            \A t \in i .. j : shownChunk[t] = chunk[t]
  BY <1>3, <1>5, DecodedChunk
<1>7. longer = text \o shownChunk
  BY <1>0, <1>1, <1>2, <1>5
<1>7a. PICK T : T = Printed \cup {Replaced}
  OBVIOUS
<1>7b. text \in Seq(T) /\ shownChunk \in Seq(T)
  BY <1>0, <1>6, <1>7a DEF Texts
<1>8. longer \in Texts /\ Len(longer) = Len(new)
  <2>1. text \o shownChunk \in Seq(T) /\ Len(text \o shownChunk) = Len(text) + Len(shownChunk)
    BY <1>7b
  <2>2. Len(text) + Len(shownChunk) = Len(new)
    BY <1>2, <1>6
  <2> QED
    BY <1>7, <1>7a, <2>1, <2>2 DEF Texts
<1>9. \A t \in 1 .. l : longer[t] = text[t]
  BY <1>2, <1>7, <1>7b
<1>10. ASSUME NEW t \in l + 1 .. Len(new)
       PROVE  /\ t - l \in 1 .. Len(new) - l
              /\ longer[t] = shownChunk[t - l]
              /\ chunk[t - l] = new[t]
  <2>1. t - l \in 1 .. Len(new) - l
    BY <1>2
  <2>2. t \in 1 .. Len(text) + Len(shownChunk) /\ ~(t <= Len(text))
    BY <1>2, <1>6
  <2>3. longer[t] = shownChunk[t - Len(text)]
    BY <1>7, <1>7b, <2>2
  <2> QED
    BY <1>2, <1>4, <2>1, <2>3
<1>11. ASSUME NEW t \in l + 1 .. Len(new)
       PROVE  longer[t] = new[t] \/ (longer[t] = Replaced /\ <<new[t]>> \notin Characters)
  <2>1. t - l \in 1 .. Len(new) - l /\ longer[t] = shownChunk[t - l] /\ chunk[t - l] = new[t]
    BY <1>10
  <2>2. PICK u : u = t - l /\ u \in 1 .. Len(new) - l
    BY <2>1
  <2>3. \/ shownChunk[u] = chunk[u]
        \/ shownChunk[u] = Replaced /\ <<chunk[u]>> \notin Characters
    BY <1>6, <2>2
  <2> QED
    BY <2>1, <2>2, <2>3
<1>12. ASSUME NEW i \in l + 1 .. Len(new), NEW j \in l + 1 .. Len(new),
              SubSeq(new, i, j) \in Characters, NEW t \in i .. j
       PROVE  longer[t] = new[t]
  <2>1. t \in l + 1 .. Len(new)
    BY <1>2
  <2>2. longer[t] = shownChunk[t - l] /\ chunk[t - l] = new[t]
    BY <1>10, <2>1
  <2>3. /\ i - l \in 1 .. Len(new) - l /\ j - l \in 1 .. Len(new) - l
        /\ t - l \in i - l .. j - l
    BY <1>2
  <2>4. SubSeq(chunk, i - l, j - l) \in Characters
    BY <1>4, <1>12
  <2>5. shownChunk[t - l] = chunk[t - l]
    BY <1>6, <2>3, <2>4
  <2> QED
    BY <2>2, <2>5
<1> QED
  BY <1>1, <1>8, <1>9, <1>11, <1>12 DEF IsAdded

(* An instruction adds to the output; what it adds is shown too. *)
StepShows(m, o, text, longer) ==
    /\ MachineSound(m) /\ o \in Outcomes(m.program, m.place) /\ o.ok
    /\ Shows(m, text) /\ Len(text) = Len(m.place.output)
    /\ longer = text \o Decoded(SubSeq(o.place.output, Len(text) + 1, Len(o.place.output)))

LEMMA StepIsShown ==
  ASSUME NEW m, NEW o, NEW text, NEW longer, StepShows(m, o, text, longer)
  PROVE  /\ Shows(Executed1(m, o), longer)
         /\ Len(longer) = Len(o.place.output)
<1>0a. /\ MachineSound(m) /\ o \in Outcomes(m.program, m.place) /\ o.ok
       /\ Shows(m, text) /\ Len(text) = Len(m.place.output)
       /\ longer = text \o Decoded(SubSeq(o.place.output, Len(text) + 1, Len(o.place.output)))
  BY DEF StepShows
<1>0. PICK n, old, new, l : /\ n = Executed1(m, o) /\ old = m.place.output
                            /\ new = o.place.output /\ l = Len(old)
  OBVIOUS
<1>1. /\ MachineSound(n) /\ n.place = o.place /\ Begins(old, new)
      /\ \E d \in {0, 1} : OutputsShift(m, n, d)
  BY <1>0a, <1>0, StepIsSound
<1>2. PICK d \in {0, 1} : OutputsShift(m, n, d)
  BY <1>1
<1>3. /\ Len(m.history) \in Nat /\ Len(n.history) \in Nat
      /\ old \in Seq(Printed) /\ new \in Seq(Printed)
  BY <1>0a, <1>0, <1>1, OutputsAreSequences, OutcomeAssumption DEF MachineSound, MachineShape
<1>4. l \in Nat /\ Len(new) \in Nat /\ l <= Len(new)
  BY <1>0, <1>1, <1>3 DEF Begins
<1>5. text \in Texts /\ Len(text) = l
  BY <1>0a, <1>0 DEF Shows
<1>6. \A i, j \in 1 .. l : old[i] = new[i] /\ SubSeq(old, i, j) = SubSeq(new, i, j)
  <2> TAKE i, j \in 1 .. l
  <2>1. i \in 1 .. Len(old) /\ j \in 1 .. Len(old)
    BY <1>0
  <2> QED
    BY <1>1, <1>3, <2>1, InTheBeginning
<1>7. Adds(old, new, text, longer)
  BY <1>0a, <1>0, <1>3, <1>4, <1>5 DEF Adds
<1>8. /\ longer \in Texts /\ Len(longer) = Len(new)
      /\ \A t \in 1 .. l : longer[t] = text[t]
      /\ \A t \in l + 1 .. Len(new) :
            \/ longer[t] = new[t]
            \/ longer[t] = Replaced /\ <<new[t]>> \notin Characters
      /\ \A i, j \in l + 1 .. Len(new) : SubSeq(new, i, j) \in Characters =>
            \A t \in i .. j : longer[t] = new[t]
  <2>1. IsAdded(Len(old), new, text, longer)
    BY <1>7, RestIsDecoded
  <2>2. IsAdded(l, new, text, longer)
    BY <1>0, <2>1
  <2> QED
    BY <2>2, Zenon DEF IsAdded
<1>11. n.place.output = new
  BY <1>0, <1>1
<1>12. EveryByteIsShown(n, longer)
  <2> SUFFICES ASSUME NEW i \in 1 .. Len(new)
               PROVE  \/ longer[i] = new[i]
                      \/ longer[i] = Replaced /\ <<new[i]>> \notin Characters
    BY <1>11 DEF EveryByteIsShown
  <2>1. CASE i \in 1 .. l
    <3>1. \/ text[i] = old[i]
          \/ text[i] = Replaced /\ <<old[i]>> \notin Characters
      BY <1>0a, <1>0, <2>1 DEF Shows, EveryByteIsShown
    <3>2. old[i] = new[i] /\ longer[i] = text[i]
      BY <1>6, <1>8, <2>1
    <3> QED
      BY <3>1, <3>2
  <2>2. CASE i \in l + 1 .. Len(new)
    BY <1>8, <2>2
  <2>3. i \in 1 .. l \/ i \in l + 1 .. Len(new)
    BY <1>4
  <2> QED
    BY <2>1, <2>2, <2>3
<1>13. CharactersAreShown(n, longer)
  <2> SUFFICES ASSUME NEW k \in 1 .. Len(n.history),
                      NEW i \in Len(Output(n, k)) + 1 .. Len(Output(n, k + 1)),
                      NEW j \in Len(Output(n, k)) + 1 .. Len(Output(n, k + 1)),
                      SubSeq(new, i, j) \in Characters,
                      NEW t \in i .. j
               PROVE  longer[t] = new[t]
    BY <1>11 DEF CharactersAreShown
  <2>1. k + d \in 1 .. Len(m.history) + 1 /\ Output(n, k) = Output(m, k + d)
    BY <1>2 DEF OutputsShift
  <2>2. CASE k # Len(n.history)
    <3>1. k + 1 \in 1 .. Len(n.history) /\ (k + 1) + d = (k + d) + 1
      BY <1>2, <1>3, <2>2
    <3>2. (k + d) + 1 \in 1 .. Len(m.history) + 1 /\ Output(n, k + 1) = Output(m, (k + d) + 1)
      BY <1>2, <3>1 DEF OutputsShift
    <3>3. k + d \in 1 .. Len(m.history)
      BY <1>3, <2>1, <3>2
    <3>4. /\ Output(m, k + d) \in Seq(Printed) /\ Output(m, (k + d) + 1) \in Seq(Printed)
          /\ Begins(Output(m, (k + d) + 1), old)
      BY <1>0a, <1>0, <2>1, <3>2, OutputsBeginTheLast
    <3>5. i \in 1 .. l /\ j \in 1 .. l /\ t \in 1 .. l
      <4>1. PICK a, b : a = Len(Output(n, k)) /\ b = Len(Output(n, k + 1))
        OBVIOUS
      <4>2. a \in Nat /\ b \in Nat /\ b <= l
        BY <1>0, <1>4, <2>1, <3>2, <3>4, <4>1 DEF Begins
      <4>3. i \in a + 1 .. b /\ j \in a + 1 .. b
        BY <4>1
      <4> QED
        BY <1>4, <4>2, <4>3, InsideTheOutput
    <3>6. SubSeq(old, i, j) \in Characters
      BY <1>6, <3>5
    <3>7. text[t] = old[t]
      <4>1. CharactersAreShown(m, text)
        BY <1>0a DEF Shows
      <4>2. /\ i \in Len(Output(m, k + d)) + 1 .. Len(Output(m, (k + d) + 1))
            /\ j \in Len(Output(m, k + d)) + 1 .. Len(Output(m, (k + d) + 1))
        BY <2>1, <3>2
      <4>3. SubSeq(m.place.output, i, j) \in Characters
        BY <1>0, <3>6
      <4>4. text[t] = m.place.output[t]
        BY <3>3, <4>1, <4>2, <4>3, Zenon DEF CharactersAreShown
      <4> QED
        BY <1>0, <4>4
    <3> QED
      BY <1>6, <1>8, <3>5, <3>7
  <2>3. CASE k = Len(n.history)
    <3>1. Output(n, k + 1) = new
      BY <1>11, <2>3 DEF Output
    <3>2. k + d = Len(m.history) + 1
      BY <1>2, <1>3, <2>3 DEF OutputsShift
    <3>3. Output(n, k) = old
      BY <1>0, <2>1, <3>2 DEF Output
    <3>4. i \in l + 1 .. Len(new) /\ j \in l + 1 .. Len(new)
      BY <1>0, <3>1, <3>3
    <3> QED
      BY <1>8, <3>4
  <2> QED
    BY <2>2, <2>3
<1>14. Shows(n, longer)
  BY <1>4, <1>8, <1>11, <1>12, <1>13 DEF Shows
<1> QED
  BY <1>0, <1>8, <1>14

(* What a notice takes back is no longer output. *)
LEMMA CutIsShown ==
  ASSUME NEW m, MachineSound(m), NEW text, Shows(m, text),
         NEW cut, cut = SubSeq(text, 1, Len(m.place.output))
  PROVE  Shows(m, cut) /\ Len(cut) = Len(m.place.output)
<1> DEFINE l == Len(m.place.output)
<1>1. /\ Len(m.history) \in Nat /\ l \in Nat
      /\ text \in Texts /\ Len(text) \in Nat /\ l <= Len(text)
  BY OutputsAreSequences, OutcomeAssumption DEF MachineSound, MachineShape, Shows, Texts
<1>2. cut \in Texts /\ Len(cut) = l /\ \A t \in 1 .. l : cut[t] = text[t]
  BY <1>1 DEF Texts
<1>3. EveryByteIsShown(m, cut)
  BY <1>2 DEF Shows, EveryByteIsShown
<1>4. CharactersAreShown(m, cut)
  <2> SUFFICES ASSUME NEW k \in 1 .. Len(m.history),
                      NEW i \in Len(Output(m, k)) + 1 .. Len(Output(m, k + 1)),
                      NEW j \in Len(Output(m, k)) + 1 .. Len(Output(m, k + 1)),
                      SubSeq(m.place.output, i, j) \in Characters,
                      NEW t \in i .. j
               PROVE  cut[t] = m.place.output[t]
    BY DEF CharactersAreShown
  <2>1. k \in 1 .. Len(m.history) + 1 /\ k + 1 \in 1 .. Len(m.history) + 1
    BY <1>1
  <2>2. /\ Output(m, k) \in Seq(Printed) /\ Output(m, k + 1) \in Seq(Printed)
        /\ Len(Output(m, k + 1)) <= l
    BY <2>1, OutputsBeginTheLast DEF Begins
  <2>3. t \in 1 .. l
    <3>1. PICK a, b : a = Len(Output(m, k)) /\ b = Len(Output(m, k + 1))
      OBVIOUS
    <3>2. a \in Nat /\ b \in Nat /\ b <= l
      BY <2>2, <3>1
    <3>3. i \in a + 1 .. b /\ j \in a + 1 .. b
      BY <3>1
    <3> QED
      BY <1>1, <3>2, <3>3, InsideTheOutput
  <2> QED
    BY <1>2, <2>3 DEF Shows, CharactersAreShown
<1> QED
  BY <1>1, <1>2, <1>3, <1>4 DEF Shows

-----------------------------------------------------------------------------
(* The invariant. *)

Typed ==
    /\ task \in [loop : {"idle", "step", "continue", "back"}, left : Nat, passing : BOOLEAN]
    /\ watched \in [registers : SUBSET WatchRegisters, addresses : SUBSET Targets]
    /\ kept \in Nat

(* Every record left is of a step made since the last commit. *)
RecordsAreRecent == Len(machine.history) <= machine.steps - kept

(* While back goes back, the screen runs ahead of the output. *)
ScreenFollows ==
    ~stale => /\ Shows(machine, screen) /\ shown = Len(screen)
              /\ task.loop # "back" => shown = Len(machine.place.output)

PassesOnlyFirst == task.loop = "continue" /\ task.passing => machine.steps = began

Loaded == MachineSound(machine) /\ RecordsAreRecent /\ ScreenFollows /\ PassesOnlyFirst

Inv == Typed /\ ((machine = NoMachine /\ task = Idle) \/ Loaded)

LEMMA AtPromptOrLooping ==
  ASSUME Inv
  PROVE  /\ AtPrompt /\ machine # NoMachine => Loaded
         /\ Looping({"step", "continue"}) => Loaded /\ ~AtPrompt
         /\ Looping({"back"}) => Loaded /\ ~AtPrompt
BY DEF Inv, AtPrompt, Looping, Idle

LEMMA InitInv == Init => Inv
BY DEF Init, Inv, Typed, Idle, NothingWatched

-----------------------------------------------------------------------------
(* The commands. *)

LEMMA IdleIsTyped ==
  Idle \in [loop : {"idle", "step", "continue", "back"}, left : Nat, passing : BOOLEAN]
BY DEF Idle

(* A new machine, with whatever command begins it. *)
LEMMA RestartKeepsInv ==
  ASSUME Inv, NEW p \in Startable, Restart(p), Typed', task'.loop # "back", ~task'.passing
  PROVE  Inv'
<1>1. /\ machine' = [program |-> p, place |-> Start(p), history |-> <<>>, steps |-> 0]
      /\ shown' = 0 /\ screen' = <<>> /\ kept' = 0
  BY DEF Restart
<1>2. MachineSound(machine')
  BY <1>1, NewMachineIsSound
<1>3. /\ machine'.history = <<>> /\ machine'.steps = 0
      /\ machine'.place.output = <<>> /\ Len(machine'.history) = 0
  BY <1>1, OutcomeAssumption
<1>4. Shows(machine', screen') /\ Len(screen') = 0
  BY <1>1, <1>3, NothingToShow
<1>5. RecordsAreRecent'
  BY <1>1, <1>3 DEF RecordsAreRecent
<1>6. ScreenFollows'
  BY <1>1, <1>3, <1>4 DEF ScreenFollows
<1>7. PassesOnlyFirst'
  BY DEF PassesOnlyFirst
<1> QED
  BY <1>2, <1>5, <1>6, <1>7 DEF Inv, Loaded

LEMMA LoadKeepsInv ==
  ASSUME Inv, NEW p \in Programs, Load(p)
  PROVE  Inv'
<1>1. task = Idle /\ task' = task /\ watched' = NothingWatched
  BY DEF Load, AtPrompt
<1>2. task'.loop = "idle" /\ ~task'.passing
  BY <1>1 DEF Idle
<1>3. CASE p \in Startable
  <2>1. Restart(p)
    BY <1>3 DEF Load
  <2>2. kept' = 0
    BY <2>1 DEF Restart
  <2>3. Typed'
    BY <1>1, <2>2, IdleIsTyped DEF Typed, NothingWatched
  <2> QED
    BY <1>2, <1>3, <2>1, <2>3, RestartKeepsInv
<1>4. CASE p \notin Startable
  <2>1. UNCHANGED <<machine, kept, shown, screen, stale, began, task>>
    BY <1>4 DEF Load, shownVars
  <2>2. Typed'
    BY <1>1, <2>1 DEF Inv, Typed, NothingWatched
  <2>3. Loaded => Loaded'
    BY <2>1 DEF Loaded, RecordsAreRecent, ScreenFollows, PassesOnlyFirst
  <2> QED
    BY <2>1, <2>2, <2>3 DEF Inv
<1> QED
  BY <1>3, <1>4

LEMMA ResetKeepsInv ==
  ASSUME Inv, Reset
  PROVE  Inv'
<1>1. /\ task = Idle /\ task' = task /\ watched' = watched
      /\ program \in Startable /\ Restart(program)
  BY DEF Reset, AtPrompt, sessionVars
<1>2. kept' = 0
  BY <1>1 DEF Restart
<1>3. Typed'
  BY <1>1, <1>2 DEF Inv, Typed
<1> QED
  BY <1>1, <1>3, RestartKeepsInv DEF Idle

LEMMA RunKeepsInv ==
  ASSUME Inv, Run
  PROVE  Inv'
<1>1. /\ task' = [loop |-> "continue", left |-> 0, passing |-> FALSE]
      /\ watched' = watched /\ program \in Startable /\ Restart(program)
  BY DEF Run, Begin, sessionVars
<1>2. kept' = 0
  BY <1>1 DEF Restart
<1>3. Typed'
  BY <1>1, <1>2 DEF Inv, Typed
<1> QED
  BY <1>1, <1>3, RestartKeepsInv

(* A loop begins at the machine that is there. *)
LEMMA BeginningKeepsInv ==
  ASSUME Inv, AtPrompt, machine # NoMachine,
         NEW loop \in {"step", "continue", "back"}, NEW left \in Nat, NEW passing \in BOOLEAN,
         Begin(loop, left, passing), UNCHANGED <<sessionVars, machine, shownVars, kept>>,
         loop = "continue" => began' = machine.steps
  PROVE  Inv'
<1>1. Loaded /\ task = Idle
  BY AtPromptOrLooping DEF AtPrompt
<1>2. task' = [loop |-> loop, left |-> left, passing |-> passing]
  BY DEF Begin
<1>3. UNCHANGED <<watched, machine, shown, screen, stale, kept>>
  BY DEF sessionVars, shownVars
<1>4. Typed'
  BY <1>2, <1>3 DEF Inv, Typed
<1>5. ScreenFollows'
  BY <1>1, <1>3 DEF Loaded, ScreenFollows, Idle
<1>6. PassesOnlyFirst'
  BY <1>2, <1>3 DEF PassesOnlyFirst
<1>7. MachineSound(machine') /\ RecordsAreRecent'
  BY <1>1, <1>3 DEF Loaded, RecordsAreRecent
<1> QED
  BY <1>4, <1>5, <1>6, <1>7 DEF Inv, Loaded

LEMMA CommitKeepsInv ==
  ASSUME Inv, NEW succeeds \in BOOLEAN, CommitFiles(succeeds)
  PROVE  Inv'
<1>1. Loaded /\ task = Idle
  BY AtPromptOrLooping DEF CommitFiles, AtPrompt
<1>2. /\ machine' = Committed(machine, succeeds)
      /\ kept' = machine.steps
      /\ UNCHANGED <<watched, task, shown, screen, stale, began>>
  BY DEF CommitFiles, Committed, sessionVars, shownVars
<1>3. /\ MachineSound(machine') /\ machine'.steps = machine.steps
      /\ machine'.history = <<>> /\ machine'.place.output = machine.place.output
  BY <1>1, <1>2, CommitIsSound DEF Loaded
<1>4. machine.steps \in Nat
  BY <1>1 DEF Loaded, MachineSound, MachineShape
<1>5. RecordsAreRecent'
  BY <1>2, <1>3, <1>4 DEF RecordsAreRecent
<1>6. Shows(machine, screen) => Shows(machine', screen')
  <2>1. Len(machine'.history) = 0
    BY <1>3
  <2>2. CharactersAreShown(machine', screen)
    BY <2>1 DEF CharactersAreShown
  <2> QED
    BY <1>2, <1>3, <2>2 DEF Shows, EveryByteIsShown
<1>6a. ScreenFollows' /\ PassesOnlyFirst'
  BY <1>1, <1>2, <1>3, <1>6 DEF Loaded, ScreenFollows, PassesOnlyFirst
<1>7. Typed'
  BY <1>2, <1>4 DEF Inv, Typed
<1> QED
  BY <1>3, <1>5, <1>6a, <1>7 DEF Inv, Loaded

(* The commands that leave the machine alone. *)
LEMMA SettingKeepsInv ==
  ASSUME Inv, SetBreakpoints \/ SetWatchpoints
  PROVE  Inv'
<1>1. UNCHANGED <<machine, task, shown, screen, stale, began, kept>>
  BY DEF SetBreakpoints, SetWatchpoints, WatchRegister, UnwatchRegister, WatchAddress,
         UnwatchAddress, UnwatchAll, Rewatch, shownVars
<1>2. watched' \in [registers : SUBSET WatchRegisters, addresses : SUBSET Targets]
  <2> USE DEF Inv, Typed
  <2>1. CASE SetBreakpoints
    BY <2>1 DEF SetBreakpoints
  <2>2. ASSUME NEW name \in DOMAIN RegisterNames \cup DOMAIN FpuNames,
               WatchRegister(name) \/ UnwatchRegister(name)
        PROVE  watched' \in [registers : SUBSET WatchRegisters, addresses : SUBSET Targets]
    <3>1. Resolved(name) \subseteq WatchRegisters
      BY DebuggerAssumption DEF Resolved
    <3> QED
      BY <2>2, <3>1 DEF WatchRegister, UnwatchRegister, Rewatch
  <2>3. ASSUME NEW a \in Targets, WatchAddress(a) \/ UnwatchAddress(a)
        PROVE  watched' \in [registers : SUBSET WatchRegisters, addresses : SUBSET Targets]
    BY <2>3 DEF WatchAddress, UnwatchAddress, Rewatch
  <2>4. CASE UnwatchAll
    BY <2>4 DEF UnwatchAll, Rewatch
  <2> QED
    BY <2>1, <2>2, <2>3, <2>4 DEF SetWatchpoints
<1>3. Loaded => Loaded'
  BY <1>1 DEF Loaded, RecordsAreRecent, ScreenFollows, PassesOnlyFirst
<1> QED
  BY <1>1, <1>2, <1>3 DEF Inv, Typed


-----------------------------------------------------------------------------
(* The loops. *)

LEMMA ExecuteKeepsInv ==
  ASSUME Inv, Executing, NEW o \in Outcomes(machine.program, machine.place), Execute(o)
  PROVE  /\ Inv'
         /\ machine'.place = o.place
         /\ machine'.steps = machine.steps + 1
<1>1. Loaded /\ ~Over /\ task.loop \in {"step", "continue"}
  BY AtPromptOrLooping DEF Executing, Looping
<1>2. /\ o.ok
      /\ machine' = Executed1(machine, o)
      /\ Flush(o.place.output)
      /\ task' \in {Idle, NextRound}
      /\ UNCHANGED <<watched, stale, began, kept>>
  BY DEF Execute, Executed1, sessionVars
<1>3. /\ MachineSound(machine')
      /\ machine'.place = o.place
      /\ machine'.steps = machine.steps + 1
      /\ Len(machine'.history) <= Len(machine.history) + 1
      /\ Begins(machine.place.output, o.place.output)
  BY <1>1, <1>2, StepIsSound DEF Loaded
<1>4. /\ task' \in [loop : {"idle", "step", "continue", "back"}, left : Nat, passing : BOOLEAN]
      /\ task'.loop # "back" /\ ~task'.passing
  <2>1. PICK left, passing : /\ task = [loop |-> task.loop, left |-> left, passing |-> passing]
                             /\ left \in Nat /\ passing \in BOOLEAN
    BY DEF Inv, Typed
  <2>2. task.left = left
    BY <2>1
  <2>3. task.loop = "step" => left - 1 \in Nat
    BY <1>1, <2>1, <2>2 DEF Over
  <2>4. NextRound = [loop |-> task.loop, left |-> IF task.loop = "step" THEN left - 1 ELSE left,
                     passing |-> FALSE]
    <3>1. PICK n : n = NextRound
      OBVIOUS
    <3>2. DOMAIN n = {"loop", "left", "passing"}
      BY <2>1, <3>1 DEF NextRound
    <3>3. /\ n.loop = task.loop
          /\ n.left = IF task.loop = "step" THEN left - 1 ELSE left
          /\ n.passing = FALSE
      BY <2>1, <2>2, <3>1 DEF NextRound
    <3>4. n = [part \in DOMAIN n |-> n[part]]
      BY <3>1 DEF NextRound
    <3> QED
      BY <3>1, <3>2, <3>3, <3>4
  <2>5. /\ NextRound \in [loop : {"idle", "step", "continue", "back"}, left : Nat, passing : BOOLEAN]
        /\ NextRound.loop # "back" /\ ~NextRound.passing
    <3>1. PICK l : l = (IF task.loop = "step" THEN left - 1 ELSE left) /\ l \in Nat
      BY <2>1, <2>3
    <3>2. NextRound = [loop |-> task.loop, left |-> l, passing |-> FALSE]
      BY <2>4, <3>1
    <3> QED
      BY <1>1, <3>1, <3>2
  <2>6. Idle.loop # "back" /\ ~Idle.passing
    BY DEF Idle
  <2> QED
    BY <1>2, <2>5, <2>6, IdleIsTyped
<1>5. Typed'
  BY <1>2, <1>4 DEF Inv, Typed
<1>6. machine.steps \in Nat /\ kept \in Nat /\ Len(machine.history) \in Nat
  BY <1>1, OutputsAreSequences DEF Loaded, MachineSound, MachineShape, Inv, Typed
<1>7. RecordsAreRecent'
  <2>1. Len(machine'.history) \in Nat
    BY <1>3, OutputsAreSequences DEF MachineSound
  <2> QED
    BY <1>1, <1>2, <1>3, <1>6, <2>1 DEF Loaded, RecordsAreRecent
<1>8. ScreenFollows'
  <2> SUFFICES ASSUME ~stale
               PROVE  /\ Shows(machine', screen') /\ shown' = Len(screen')
                      /\ shown' = Len(machine'.place.output)
    BY <1>2, <1>4 DEF ScreenFollows
  <2>1. Shows(machine, screen) /\ shown = Len(screen) /\ shown = Len(machine.place.output)
    BY <1>1 DEF Loaded, ScreenFollows
  <2>2. Len(machine.place.output) <= Len(o.place.output) /\ Len(o.place.output) \in Nat
    <3>1. o.place.output \in Seq(Printed)
      BY <1>3, OutcomeAssumption DEF MachineSound, MachineShape
    <3> QED
      BY <1>3, <3>1 DEF Begins
  <2>3. Len(machine.place.output) \in Nat
    BY <1>1, OutcomeAssumption DEF Loaded, MachineSound, MachineShape
  <2>4. /\ shown' = Len(o.place.output)
        /\ screen' = screen \o Decoded(SubSeq(o.place.output, Len(screen) + 1, Len(o.place.output)))
    BY <1>2, <2>1, <2>2, <2>3 DEF Flush
  <2>5. Shows(machine', screen') /\ Len(screen') = Len(o.place.output)
    <3>1. MachineSound(machine) /\ o.ok /\ Len(screen) = Len(machine.place.output)
      BY <1>1, <1>2, <2>1 DEF Loaded
    <3>1a. o \in Outcomes(machine.program, machine.place) /\ Shows(machine, screen)
      BY <2>1
    <3>1b. screen' = screen \o Decoded(SubSeq(o.place.output, Len(screen) + 1, Len(o.place.output)))
      BY <2>4
    <3>2. Shows(Executed1(machine, o), screen') /\ Len(screen') = Len(o.place.output)
      BY <3>1, <3>1a, <3>1b, StepIsShown DEF StepShows
    <3> QED
      BY <1>2, <3>2
  <2> QED
    BY <1>3, <2>4, <2>5
<1>9. PassesOnlyFirst'
  BY <1>4 DEF PassesOnlyFirst
<1> QED
  BY <1>3, <1>5, <1>7, <1>8, <1>9 DEF Inv, Loaded

LEMMA TakeBackKeepsInv ==
  ASSUME Inv, TakeBack
  PROVE  Inv' /\ machine'.steps = machine.steps - 1
<1>1. Loaded /\ task.loop = "back" /\ task.left > 0
  BY AtPromptOrLooping DEF TakeBack, Looping
<1>2. /\ machine.history # <<>>
      /\ machine' = TakenBack(machine)
      /\ task' = [task EXCEPT !.left = task.left - 1]
      /\ UNCHANGED <<watched, shown, screen, stale, began, kept>>
  BY DEF TakeBack, TakenBack, sessionVars, shownVars
<1>3. /\ machine.steps \in Nat /\ kept \in Nat /\ Len(machine.history) \in Nat
      /\ Len(machine.history) <= machine.steps - kept
  BY <1>1, OutputsAreSequences
     DEF Loaded, MachineSound, MachineShape, Inv, Typed, RecordsAreRecent
<1>4. Len(machine.history) <= machine.steps
  BY <1>3
<1>5. /\ MachineSound(machine')
      /\ machine'.steps = machine.steps - 1
      /\ Len(machine'.history) = Len(machine.history) - 1
      /\ Begins(machine'.place.output, machine.place.output)
  BY <1>1, <1>2, <1>4, StepBackIsSound DEF Loaded
<1>6. task' \in [loop : {"back"}, left : Nat, passing : BOOLEAN]
  BY <1>1, <1>2 DEF Inv, Typed
<1>7. Typed'
  BY <1>2, <1>6 DEF Inv, Typed
<1>8. RecordsAreRecent'
  BY <1>2, <1>3, <1>5 DEF RecordsAreRecent
<1>9. ScreenFollows'
  <2> SUFFICES ASSUME ~stale PROVE ScreenFollows'
    BY <1>2 DEF ScreenFollows
  <2>1. Shows(machine, screen) /\ shown = Len(screen)
    BY <1>1 DEF Loaded, ScreenFollows
  <2>2. Shows(machine', screen)
    BY <1>1, <1>2, <1>4, <2>1, StepBackIsShown DEF Loaded
  <2> QED
    BY <1>2, <1>6, <2>1, <2>2 DEF ScreenFollows
<1>10. PassesOnlyFirst'
  BY <1>6 DEF PassesOnlyFirst
<1> QED
  BY <1>5, <1>7, <1>8, <1>9, <1>10 DEF Inv, Loaded

(* A loop ends: the prompt again, and the machine as it is. *)
LEMMA EndKeepsInv ==
  ASSUME Inv, StopLoop \/ Fail \/ BackIsOver \/ BackFails
  PROVE  Inv' /\ machine' = machine
<1>1. Loaded
  BY AtPromptOrLooping DEF StopLoop, Fail, BackIsOver, BackFails, Executing
<1>2. task' = Idle /\ UNCHANGED <<watched, machine, kept>>
  BY DEF StopLoop, Fail, BackIsOver, BackFails, sessionVars
<1>3. machine.place.output \in Seq(Printed)
  BY <1>1, OutcomeAssumption DEF Loaded, MachineSound, MachineShape
<1>4. ScreenFollows'
  <2> SUFFICES ASSUME ~stale'
               PROVE  /\ Shows(machine, screen') /\ shown' = Len(screen')
                      /\ shown' = Len(machine.place.output)
    BY <1>2 DEF ScreenFollows, Idle
  <2>1. ~stale
    BY DEF StopLoop, Fail, BackIsOver, BackFails, shownVars
  <2>2. Shows(machine, screen) /\ shown = Len(screen)
    BY <1>1, <2>1 DEF Loaded, ScreenFollows
  <2>3. CASE StopLoop \/ Fail
    <3>1. task.loop # "back" /\ UNCHANGED <<screen, shown>>
      BY <2>3 DEF StopLoop, Fail, Executing, Looping, shownVars
    <3> QED
      BY <1>1, <2>1, <2>2, <3>1 DEF Loaded, ScreenFollows
  <2>4. /\ Len(machine.place.output) \in Nat /\ Len(screen) \in Nat
        /\ Len(machine.place.output) <= Len(screen)
    BY <1>3, <2>2 DEF Shows, Texts
  <2>5. CASE BackIsOver
    <3>1. Flush(machine.place.output)
      BY <2>5 DEF BackIsOver
    <3>2. CASE Len(machine.place.output) < shown
      <4>1. /\ screen' = SubSeq(screen, 1, Len(machine.place.output))
            /\ shown' = Len(machine.place.output)
        BY <3>1, <3>2 DEF Flush
      <4> QED
        BY <1>1, <2>2, <4>1, CutIsShown DEF Loaded
    <3>3. CASE ~(Len(machine.place.output) < shown)
      <4>1. Len(machine.place.output) = shown
        BY <2>2, <2>4, <3>3
      <4>2. screen' = screen
        <5>1. screen' = screen \o Decoded(SubSeq(machine.place.output, shown + 1, shown))
          BY <3>1, <4>1 DEF Flush
        <5>2. SubSeq(machine.place.output, shown + 1, shown) = <<>>
          BY <1>3, <2>2, <2>4
        <5>3. Decoded(<<>>) = <<>>
          <6>1. <<>> \in Seq(Printed) /\ Len(<<>>) = 0
            OBVIOUS
          <6>2. Decoded(<<>>) \in Texts /\ Len(Decoded(<<>>)) = 0
            BY <6>1, DecodedChunk
          <6> QED
            BY <6>2 DEF Texts
        <5>4. screen \in Texts /\ screen \o <<>> = screen
          BY <2>2 DEF Shows, Texts
        <5> QED
          BY <5>1, <5>2, <5>3, <5>4
      <4> QED
        BY <2>2, <3>1, <4>1, <4>2 DEF Flush
    <3> QED
      BY <3>2, <3>3
  <2>6. CASE BackFails
    <3>1. ~(Len(machine.place.output) < shown) /\ UNCHANGED <<screen, shown>>
      BY <2>6 DEF BackFails
    <3> QED
      BY <2>2, <2>4, <3>1
  <2> QED
    BY <2>3, <2>5, <2>6
<1>5. PassesOnlyFirst'
  BY <1>2 DEF PassesOnlyFirst, Idle
<1>6. MachineSound(machine') /\ RecordsAreRecent'
  BY <1>1, <1>2 DEF Loaded, RecordsAreRecent
<1>7. Typed'
  BY <1>2, IdleIsTyped DEF Inv, Typed
<1> QED
  BY <1>2, <1>4, <1>5, <1>6, <1>7 DEF Inv, Loaded

-----------------------------------------------------------------------------
(* The session. *)

LEMMA CommandKeepsInv ==
  ASSUME Inv, Command
  PROVE  Inv'
<1>1. ASSUME NEW p \in Programs, Load(p) PROVE Inv'
  BY <1>1, LoadKeepsInv
<1>2. CASE Reset
  BY <1>2, ResetKeepsInv
<1>3. CASE Run
  BY <1>3, RunKeepsInv
<1>4. CASE Continue
  BY <1>4, BeginningKeepsInv DEF Continue
<1>5. ASSUME NEW n \in Counts, StepCommand(n) PROVE Inv'
  <2>1. n \in Nat
    BY DebuggerAssumption
  <2> QED
    BY <1>5, <2>1, BeginningKeepsInv DEF StepCommand
<1>6. ASSUME NEW n \in Counts, BackCommand(n) PROVE Inv'
  <2>1. n \in Nat
    BY DebuggerAssumption
  <2> QED
    BY <1>6, <2>1, BeginningKeepsInv DEF BackCommand
<1>7. ASSUME NEW succeeds \in BOOLEAN, CommitFiles(succeeds) PROVE Inv'
  BY <1>7, CommitKeepsInv
<1>8. CASE SetBreakpoints \/ SetWatchpoints
  BY <1>8, SettingKeepsInv
<1> QED
  BY <1>1, <1>2, <1>3, <1>4, <1>5, <1>6, <1>7, <1>8 DEF Command

LEMMA NextKeepsInv ==
  ASSUME Inv, [Next]_vars
  PROVE  Inv'
<1>1. CASE Command
  BY <1>1, CommandKeepsInv
<1>2. CASE ExecuteOne
  BY <1>2, ExecuteKeepsInv DEF ExecuteOne
<1>3. CASE TakeBack
  BY <1>3, TakeBackKeepsInv
<1>4. CASE StopLoop \/ Fail \/ BackIsOver \/ BackFails
  BY <1>4, EndKeepsInv
<1>5. CASE UNCHANGED vars
  BY <1>5 DEF vars, Inv, Typed, Loaded, RecordsAreRecent, ScreenFollows, PassesOnlyFirst
<1> QED
  BY <1>1, <1>2, <1>3, <1>4, <1>5 DEF Next, Proceed

(* The prompt or a loop, before or after anything was loaded. *)
LEMMA Invariance == Spec => []Inv
<1>1. Inv /\ [Next]_vars => Inv'
  BY NextKeepsInv
<1> QED
  BY InitInv, <1>1, PTL DEF Spec

(* commit-files writes to the host, which back cannot undo: no record from *)
(* before the last commit is left to step back over (_execute_command   *)
(* clears the machine's history, also when the commit fails).              *)
THEOREM CommitsStay == Spec => []NothingSavedIsTakenBack
<1>1. Inv => NothingSavedIsTakenBack
  BY DEF Inv, Loaded, RecordsAreRecent, NothingSavedIsTakenBack
<1> QED
  BY <1>1, Invariance, PTL

(* At the prompt every byte of the program's output has been shown, once   *)
(* and in its place, whatever was stepped, taken back and stepped anew     *)
(* (_flush_program_output): a character as itself if it is one byte or an  *)
(* instruction of the history printed all of it, else perhaps replaced.    *)
THEOREM PromptShowsOutput == Spec => []OutputIsShown
<1>1. Inv => OutputIsShown
  BY DEF Inv, Loaded, ScreenFollows, Shows, OutputIsShown, AtPrompt, Idle
<1> QED
  BY <1>1, Invariance, PTL

(* Only an instruction of step, continue or run makes steps grow. *)
LEMMA OnlyExecutionExecutes ==
  ASSUME Inv, Next, Executed
  PROVE  ExecuteOne
<1>1. /\ Loaded /\ ~AtPrompt /\ task.loop \in {"step", "continue"}
      /\ machine'.steps > machine.steps
  BY AtPromptOrLooping DEF Executed, Looping
<1>2. machine.steps \in Nat
  BY <1>1 DEF Loaded, MachineSound, MachineShape
<1>3. ~Command
  BY <1>1 DEF Command, Load, Reset, Run, Continue, StepCommand, BackCommand, CommitFiles,
              SetBreakpoints, SetWatchpoints, WatchRegister, UnwatchRegister,
              WatchAddress, UnwatchAddress, UnwatchAll, Rewatch
<1>4. ~TakeBack
  BY <1>1 DEF TakeBack, Looping
<1>5. ~(StopLoop \/ Fail \/ BackIsOver \/ BackFails)
  BY <1>1, <1>2, EndKeepsInv
<1> QED
  BY <1>3, <1>4, <1>5 DEF Next, Proceed

(* run and continue stop before an instruction at a breakpoint, except     *)
(* that continue passes the one it stands on (_continue).                 *)
THEOREM BreakpointsHold == Spec => StopsBeforeBreakpoint
<1>1. Inv /\ [Next]_vars =>
        [Executed /\ task.loop = "continue" /\ machine.place.pc \in breakpoints
            => machine.steps = began]_vars
  <2> SUFFICES ASSUME Inv, Next, Executed, task.loop = "continue",
                      machine.place.pc \in breakpoints
               PROVE  machine.steps = began
    BY DEF vars
  <2>1. ExecuteOne
    BY OnlyExecutionExecutes
  <2>2. ~AtBreakpoint
    BY <2>1 DEF ExecuteOne, Executing, Over
  <2>3. task.passing /\ Loaded
    BY <2>1, <2>2, AtPromptOrLooping DEF AtBreakpoint, ExecuteOne, Executing
  <2> QED
    BY <2>3 DEF Loaded, PassesOnlyFirst
<1> QED
  BY <1>1, Invariance, PTL DEF Spec, StopsBeforeBreakpoint

(* An instruction that changes a watched register or a watched byte is the *)
(* last one of step, continue and run (_watch_trigger).                    *)
THEOREM WatchpointsHold == Spec => StopsOnWatch
<1>1. Inv /\ [Next]_vars =>
        [Executed /\ WatchedChange(machine.place, machine'.place) => task' = Idle]_vars
  <2> SUFFICES ASSUME Inv, Next, Executed, WatchedChange(machine.place, machine'.place)
               PROVE  task' = Idle
    BY DEF vars
  <2>1. PICK o \in Outcomes(machine.program, machine.place) : Executing /\ Execute(o)
    BY OnlyExecutionExecutes DEF ExecuteOne
  <2>2. machine'.place = o.place
    BY <2>1, ExecuteKeepsInv
  <2>3. Triggers(machine.place, o.place, o.writes)
    <3>1. o.ok /\ Loaded
      BY <2>1, AtPromptOrLooping DEF Execute, Executing
    <3>2. machine.program \in Startable /\ machine.place \in Places
      BY <3>1 DEF Loaded, MachineSound, MachineShape
    <3>3. \A a \in Targets : machine.place.bytes[a] # o.place.bytes[a] => a \in o.writes
      BY <3>1, <3>2, OutcomeAssumption
    <3>4. watched.registers \subseteq WatchRegisters /\ watched.addresses \subseteq Targets
      BY DEF Inv, Typed
    <3> QED
      BY <2>2, <3>3, <3>4 DEF WatchedChange, Triggers, Differ
  <2> QED
    BY <2>1, <2>3 DEF Execute
<1> QED
  BY <1>1, Invariance, PTL DEF Spec, StopsOnWatch
=============================================================================
