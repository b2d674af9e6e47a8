-------------------------- MODULE MemoryUndoProofs --------------------------
(***************************************************************************)
(* SparseMemory under its undo log, for every layout, page size, page      *)
(* limit, payload and history limit: taking back is exact, the page limit  *)
(* holds, and a write that fails leaves nothing behind.                    *)
(***************************************************************************)
EXTENDS MemoryUndo, MemoryProofs

(* The memories the program can be in, with typed cells. *)
State == {m \in Memory : GoodMemory(m) /\ m.dataEnd \in DataBase .. DataLimit}

Entry == [changes : UNION {[A -> Change] : A \in SUBSET Mapped},
          dataEnd : DataBase .. DataLimit]

(* The induction: taking the newest entry back leads to the remembered     *)
(* memory, so that memory must itself be one the program can be in.        *)
Inv == /\ mem \in State
       /\ log \in Seq(Entry)
       /\ past \in Seq(State)
       /\ Len(past) = Len(log) /\ Len(log) <= HistoryLimit
       /\ UndoChain

-----------------------------------------------------------------------------
LEMMA InitHolds == Init => Inv
<1> SUFFICES ASSUME Init PROVE Inv
  OBVIOUS
<1>1. mem \in State
  <2>1. /\ InitialMemory \in Memory /\ Canonical(InitialMemory)
        /\ IsFiniteSet(InitialMemory.present)
        /\ Cardinality(InitialMemory.present) <= MaxPages
        /\ InitialMemory.dataEnd \in DataBase .. DataLimit
    BY MemoryUndoAssumption
  <2>2. InitialMemory = [cell |-> [x \in Mapped |-> InitialMemory.cell[x]],
                         present |-> InitialMemory.present,
                         dataEnd |-> InitialMemory.dataEnd]
    BY <2>1 DEF Memory
  <2>3. InitialMemory.present \in SUBSET Nat
    BY <2>1 DEF Memory
  <2> QED
    BY <2>1, <2>2, <2>3 DEF Init, State, GoodMemory
<1>2. log = <<>> /\ past = <<>>
  BY DEF Init
<1> QED
  BY <1>1, <1>2, HistoryAssumption DEF Inv, UndoChain

(* Every step that is recorded keeps the chain: this is what is left to    *)
(* show of a write and of a growing data segment.                          *)
LEMMA RecordedStep ==
  ASSUME Inv, NEW e \in Entry, mem' \in State, Undone(mem', e) = mem,
         log' = Remembered(log, e), past' = Remembered(past, mem)
  PROVE  Inv'
<1>1. /\ log \in Seq(Entry) /\ past \in Seq(State) /\ mem \in State
      /\ Len(past) = Len(log) /\ Len(log) \in Nat
  BY DEF Inv
<1>2. Dropped(log) = Dropped(past) /\ Dropped(log) \in {0, 1}
  BY <1>1 DEF Dropped
<1> DEFINE d == Dropped(log)
           n == Len(log)
<1>3. /\ log' \in Seq(Entry)
      /\ Len(log') = n + 1 - d
      /\ \A i \in 1 .. Len(log') : log'[i] = IF i + d = n + 1 THEN e ELSE log[i + d]
  BY <1>1, RememberedEntries
<1>4. /\ past' \in Seq(State)
      /\ Len(past') = n + 1 - d
      /\ \A i \in 1 .. Len(past') :
            past'[i] = IF i + d = n + 1 THEN mem ELSE past[i + d]
  <2>1. LET r == Remembered(past, mem)
        IN  /\ r \in Seq(State)
            /\ Len(r) = Len(past) + 1 - Dropped(past)
            /\ \A i \in 1 .. Len(r) :
                  r[i] = IF i + Dropped(past) = Len(past) + 1 THEN mem
                         ELSE past[i + Dropped(past)]
    BY <1>1, RememberedEntries
  <2> QED
    BY <1>1, <1>2, <2>1
<1>5. Len(log') <= HistoryLimit
  <2>1. Len(log) <= HistoryLimit
    BY DEF Inv
  <2> QED
    BY <1>1, <2>1, RememberedIsBounded
<1> HIDE DEF d, n
<1>6. ASSUME NEW i \in 1 .. Len(log')
      PROVE  Undone(After(i)', log'[i]) = past'[i]
  <2>1. n \in Nat /\ d \in {0, 1} /\ Len(log') = n + 1 - d
    BY <1>1, <1>2, <1>3 DEF n, d
  <2>2. CASE i + d = n + 1
    <3>1. After(i)' = mem' /\ log'[i] = e /\ past'[i] = mem
      BY <1>3, <1>4, <2>1, <2>2 DEF After
    <3> QED
      BY <3>1
  <2>3. CASE i + d # n + 1
    <3>1. i + d \in 1 .. n /\ i # Len(log') /\ i + 1 \in 1 .. Len(log')
      BY <2>1, <2>3
    <3>2. log'[i] = log[i + d] /\ past'[i] = past[i + d]
      BY <1>3, <1>4, <2>1, <2>3
    <3>3. After(i)' = past'[i + 1]
      BY <3>1 DEF After
    <3>4. past'[i + 1] = IF i + d = n THEN mem ELSE past[i + d + 1]
      BY <1>4, <2>1, <3>1
    <3>5. past'[i + 1] = After(i + d)
      BY <3>4 DEF After, n
    <3>6. Undone(After(i + d), log[i + d]) = past[i + d]
      BY <3>1 DEF Inv, UndoChain, n
    <3> QED
      BY <3>2, <3>3, <3>5, <3>6
  <2> QED
    BY <2>2, <2>3
<1> QED
  BY <1>3, <1>4, <1>5, <1>6 DEF Inv, UndoChain

-----------------------------------------------------------------------------
(* The types of what write_bytes returns. *)
LEMMA WriteBytesTypes ==
  ASSUME NEW m \in State, NEW a, NEW bytes \in Seq(Byte), NEW alignment
  PROVE  LET w == WriteBytes(m, a, bytes, alignment)
         IN  /\ w.mem \in State
             /\ w.changes \in UNION {[A -> Change] : A \in SUBSET Mapped}
<1> DEFINE w == WriteBytes(m, a, bytes, alignment)
<1>1. m \in Memory /\ GoodMemory(m) /\ m.dataEnd \in DataBase .. DataLimit
  BY DEF State
<1>2. GoodMemory(w.mem) /\ w.mem.dataEnd = m.dataEnd
  BY <1>1, WriteBytesIsUndoable
<1>3. w.mem \in Memory /\ w.changes \in UNION {[A -> OldByte] : A \in SUBSET Mapped}
  BY <1>1, WriteBytesIsTyped
<1> HIDE DEF w
<1> QED
  BY <1>1, <1>2, <1>3 DEF State, Change, OldByte, w

(* What RestoreDataEnd does to a memory of the right shape. *)
LEMMA SameDataEnd ==
  ASSUME NEW m \in State
  PROVE  /\ RestoreDataEnd(m, m.dataEnd) = m
         /\ \A end \in DataBase .. DataLimit :
               /\ [m EXCEPT !.dataEnd = end] \in State
               /\ RestoreDataEnd([m EXCEPT !.dataEnd = end], m.dataEnd) = m
<1>1. /\ m = [cell |-> m.cell, present |-> m.present, dataEnd |-> m.dataEnd]
      /\ m.cell \in [Mapped -> Byte \cup {Unset}] /\ m.present \in SUBSET Nat
      /\ GoodMemory(m)
  BY DEF State, Memory
<1>2. RestoreDataEnd(m, m.dataEnd) = m
  BY <1>1 DEF RestoreDataEnd
<1>3. ASSUME NEW end \in DataBase .. DataLimit
      PROVE  /\ [m EXCEPT !.dataEnd = end] \in State
             /\ RestoreDataEnd([m EXCEPT !.dataEnd = end], m.dataEnd) = m
  <2> DEFINE g == [m EXCEPT !.dataEnd = end]
  <2>1. g = [cell |-> m.cell, present |-> m.present, dataEnd |-> end]
    BY <1>1
  <2>2. end \in Nat
    BY MemoryAssumption
  <2>3. g \in Memory
    BY <1>1, <2>1, <2>2 DEF Memory
  <2>4. m.cell = [x \in Mapped |-> m.cell[x]]
    BY <1>1
  <2>5. GoodMemory(g)
    BY <1>1, <2>1, <2>4 DEF GoodMemory, Canonical
  <2>6. RestoreDataEnd(g, m.dataEnd) = m
    BY <1>1, <2>1 DEF RestoreDataEnd
  <2> QED
    BY <2>1, <2>3, <2>5, <2>6 DEF State
<1> QED
  BY <1>2, <1>3

-----------------------------------------------------------------------------
(* The actions. *)

(* A write that succeeds is undone by the entry it adds. *)
LEMMA WriteHolds ==
  ASSUME Inv, NEW a, NEW bytes \in Payloads, NEW alignment,
         Write(a, bytes, alignment)
  PROVE  Inv'
<1> DEFINE w == WriteBytes(mem, a, bytes, alignment)
           e == [changes |-> w.changes, dataEnd |-> mem.dataEnd]
<1>1. /\ mem \in State /\ GoodMemory(mem) /\ bytes \in Seq(Byte)
      /\ mem.dataEnd \in DataBase .. DataLimit
  BY MemoryUndoAssumption DEF Inv, State
<1>2. /\ w.mem \in State
      /\ w.changes \in UNION {[A -> Change] : A \in SUBSET Mapped}
  BY <1>1, WriteBytesTypes
<1>3. w.ok \in BOOLEAN /\ Restore(w.mem, w.changes) = mem /\ (~w.ok => w.mem = mem)
  BY <1>1, WriteBytesIsUndoable
<1>4. mem' = w.mem /\ IF w.ok THEN Remember(w.changes) ELSE UNCHANGED <<log, past>>
  BY DEF Write
<1> HIDE DEF w
<1>5. CASE w.ok
  <2>1. e \in Entry
    BY <1>1, <1>2 DEF Entry
  <2>2. Undone(mem', e) = mem
    BY <1>1, <1>3, <1>4, SameDataEnd DEF Undone
  <2>3. log' = Remembered(log, e) /\ past' = Remembered(past, mem)
    BY <1>4, <1>5 DEF Remember
  <2> QED
    BY <1>2, <1>4, <2>1, <2>2, <2>3, RecordedStep
<1>6. CASE ~w.ok
  BY <1>3, <1>4, <1>6 DEF Inv, UndoChain, After
<1> QED
  BY <1>3, <1>5, <1>6

LEMMA GrowHolds ==
  ASSUME Inv, NEW newEnd \in DataBase .. DataLimit, Grow(newEnd)
  PROVE  Inv'
<1> DEFINE e == [changes |-> NoChanges, dataEnd |-> mem.dataEnd]
           end == IF newEnd > mem.dataEnd THEN newEnd ELSE mem.dataEnd
<1>1. mem \in State /\ GoodMemory(mem) /\ mem.dataEnd \in DataBase .. DataLimit
  BY DEF Inv, State
<1>2. end \in DataBase .. DataLimit /\ mem' = [mem EXCEPT !.dataEnd = end]
  BY <1>1 DEF Grow, GrowData
<1> HIDE DEF end
<1>3. mem' \in State /\ RestoreDataEnd(mem', mem.dataEnd) = mem
  BY <1>1, <1>2, SameDataEnd
<1>4. Undone(mem', e) = mem
  BY <1>3, RestoreNothing DEF Undone, State
<1>5. e \in Entry
  <2>1. NoChanges \in [{} -> Change]
    BY DEF NoChanges
  <2>2. NoChanges \in UNION {[A -> Change] : A \in SUBSET Mapped}
    BY <2>1
  <2> QED
    BY <1>1, <2>2 DEF Entry
<1>6. log' = Remembered(log, e) /\ past' = Remembered(past, mem)
  BY DEF Grow, Remember
<1> QED
  BY <1>3, <1>4, <1>5, <1>6, RecordedStep

(* Taking back: the chain says that the memory becomes the newest one      *)
(* remembered.                                                             *)
LEMMA UndoHolds ==
  ASSUME Inv, Undo
  PROVE  Inv' /\ Len(log') < Len(log)
<1>1. /\ log \in Seq(Entry) /\ past \in Seq(State) /\ Len(past) = Len(log)
      /\ log # <<>>
  BY DEF Inv, Undo
<1>2. past # <<>> /\ Len(log) \in Nat \ {0} /\ Len(log) <= HistoryLimit
  BY <1>1 DEF Inv
<1> DEFINE n == Len(log)
<1>3. mem' = past[n]
  BY <1>2 DEF Inv, UndoChain, Undo, After, Latest
<1>4. mem' \in State
  BY <1>1, <1>2, <1>3
<1>5. /\ log' \in Seq(Entry) /\ Len(log') = n - 1
      /\ \A i \in 1 .. n - 1 : log'[i] = log[i]
  BY <1>1, ForgottenEntries DEF Undo
<1>6. /\ past' \in Seq(State) /\ Len(past') = n - 1
      /\ \A i \in 1 .. n - 1 : past'[i] = past[i]
  BY <1>1, <1>2, ForgottenEntries DEF Undo
<1>7. ASSUME NEW i \in 1 .. Len(log')
      PROVE  Undone(After(i)', log'[i]) = past'[i]
  <2>1. i \in 1 .. n /\ i # n /\ log'[i] = log[i] /\ past'[i] = past[i]
    BY <1>2, <1>5, <1>6
  <2>2. After(i)' = After(i)
    <3>1. CASE i = Len(log')
      BY <1>2, <1>3, <1>5, <2>1, <3>1 DEF After
    <3>2. CASE i # Len(log')
      <4>1. i + 1 \in 1 .. n - 1
        BY <1>2, <1>5, <3>2
      <4> QED
        BY <1>6, <2>1, <3>2, <4>1 DEF After
    <3> QED
      BY <3>1, <3>2
  <2> QED
    BY <2>1, <2>2 DEF Inv, UndoChain
<1>8. Len(log') <= HistoryLimit /\ Len(log') = Len(past') /\ Len(log') < Len(log)
  BY <1>2, <1>5, <1>6, HistoryAssumption
<1> QED
  BY <1>4, <1>5, <1>6, <1>7, <1>8 DEF Inv, UndoChain

LEMMA NextHolds == Inv /\ [Next]_vars => Inv'
<1> SUFFICES ASSUME Inv, [Next]_vars PROVE Inv'
  OBVIOUS
<1>1. CASE \E a \in Mapped, bytes \in Payloads, n \in Alignments : Write(a, bytes, n)
  BY <1>1, WriteHolds
<1>2. CASE \E newEnd \in DataBase .. DataLimit : Grow(newEnd)
  BY <1>2, GrowHolds
<1>3. CASE Undo
  BY <1>3, UndoHolds
<1>4. CASE UNCHANGED vars
  BY <1>4 DEF vars, Inv, UndoChain, After
<1> QED
  BY <1>1, <1>2, <1>3, <1>4 DEF Next

THEOREM Invariance == Spec => []Inv
BY InitHolds, NextHolds, PTL DEF Spec

-----------------------------------------------------------------------------
(* The memory and its log keep their shape; in particular a byte outside   *)
(* an allocated page is never marked initialized.                          *)
THEOREM TypeCorrect == Spec => []TypeOK
<1>1. Inv => TypeOK
  <2> SUFFICES ASSUME Inv PROVE TypeOK
    OBVIOUS
  <2>1. mem \in Memory /\ Canonical(mem) /\ mem.dataEnd \in DataBase .. DataLimit
    BY DEF Inv, State, GoodMemory
  <2>2. ASSUME NEW i \in 1 .. Len(log)
        PROVE  /\ DOMAIN log[i].changes \subseteq Mapped
               /\ \A x \in DOMAIN log[i].changes : log[i].changes[x] \in Change
               /\ log[i].dataEnd \in DataBase .. DataLimit
    <3>1. log[i] \in Entry
      BY DEF Inv
    <3>2. PICK A \in SUBSET Mapped : log[i].changes \in [A -> Change]
      BY <3>1 DEF Entry
    <3> QED
      BY <3>1, <3>2 DEF Entry
  <2> QED
    BY <2>1, <2>2 DEF Inv, TypeOK
<1> QED
  BY <1>1, Invariance, PTL

(* Taking the log's entries back one after the other gives exactly the     *)
(* memory before each of them.                                             *)
THEOREM UndoIsExact == Spec => []UndoChain
<1>1. Inv => UndoChain
  BY DEF Inv
<1> QED
  BY <1>1, Invariance, PTL

(* The limit on pages holds after every write and every undo. *)
THEOREM PagesAreLimited == Spec => []PageLimit
<1>1. Inv => PageLimit
  BY DEF Inv, State, GoodMemory, PageLimit
<1> QED
  BY <1>1, Invariance, PTL

(* Whatever changes the memory can be taken back, if anything can be kept  *)
(* to take back: a write that fails half way changes nothing.              *)
THEOREM NothingIsUnlogged ==
  ASSUME HistoryLimit > 0
  PROVE  Spec => NoUnloggedChange
<1> DEFINE Logged == \/ mem' = mem
                     \/ Len(log') < Len(log)
                     \/ log' # <<>> /\ Undone(mem', Latest(log')) = mem
<1>1. Inv /\ [Next]_vars => [Logged]_vars
  <2> SUFFICES ASSUME Inv, Next PROVE Logged
    OBVIOUS
  <2>1. CASE Undo
    BY <2>1, UndoHolds
  <2>2. CASE ~Undo
    <3>1. Inv' /\ log \in Seq(Entry) /\ past \in Seq(State) /\ mem \in State
      BY NextHolds DEF Inv
    <3>2. mem' = mem \/ past' = Remembered(past, mem)
      <4>1. CASE \E a \in Mapped, bytes \in Payloads, n \in Alignments :
                    Write(a, bytes, n)
        <5>1. PICK a \in Mapped, bytes \in Payloads, n \in Alignments :
                 Write(a, bytes, n)
          BY <4>1
        <5>2. bytes \in Seq(Byte) /\ GoodMemory(mem)
          BY MemoryUndoAssumption, <3>1 DEF State
        <5> DEFINE w == WriteBytes(mem, a, bytes, n)
        <5>3. w.ok \in BOOLEAN /\ (~w.ok => w.mem = mem)
          BY <5>2, WriteBytesIsUndoable
        <5> QED
          BY <5>1, <5>3 DEF Write, Remember
      <4>2. CASE \E newEnd \in DataBase .. DataLimit : Grow(newEnd)
        BY <4>2 DEF Grow, Remember
      <4> QED
        BY <2>2, <4>1, <4>2 DEF Next
    <3>3. CASE past' = Remembered(past, mem)
      <4>1. past'[Len(past')] = mem /\ Len(past') \in Nat \ {0}
        <5>1. /\ Len(past') = Len(past) + 1 - Dropped(past)
              /\ \A i \in 1 .. Len(past') :
                    past'[i] = IF i + Dropped(past) = Len(past) + 1 THEN mem
                               ELSE past[i + Dropped(past)]
          BY <3>1, <3>3, RememberedEntries
        <5>2. Len(past') \in Nat \ {0} /\ Len(past) \in Nat /\ Dropped(past) \in {0, 1}
          BY <3>1, <5>1, HistoryAssumption DEF Dropped
        <5>3. Len(past') \in 1 .. Len(past') /\ Len(past') + Dropped(past) = Len(past) + 1
          BY <5>1, <5>2
        <5> QED
          BY <5>1, <5>2, <5>3
      <4>2. Undone(mem', log'[Len(log')]) = past'[Len(past')] /\ log' # <<>>
        BY <3>1, <4>1 DEF Inv, UndoChain, After
      <4> QED
        BY <4>1, <4>2 DEF Latest
    <3> QED
      BY <3>2, <3>3
  <2> QED
    BY <2>1, <2>2
<1> QED
  BY <1>1, Invariance, PTL DEF Spec, NoUnloggedChange
=============================================================================
