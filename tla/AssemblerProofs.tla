-------------------------- MODULE AssemblerProofs --------------------------
(***************************************************************************)
(* For every program, every number of files, every set of names and every  *)
(* size of the sections:                                                   *)
(*   - where the first pass puts things: objects do not overlap, labels    *)
(*     are where their objects are, constants do not move and exported     *)
(*     names have one value;                                               *)
(*   - what the two passes make of one statement: the second emits the     *)
(*     words the first reserved, and the words keep the promises of .set   *)
(*     noat and .set nomacro.                                              *)
(***************************************************************************)
EXTENDS Assembler, BasicFacts

Tables == UNION {[N -> Int] : N \in SUBSET Names}
Mark == [section : Sections, epoch : Nat, after : Nat]
MarkTables == UNION {[N -> Mark] : N \in SUBSET Names}

IsObject(o) ==
    /\ o.file \in 1 .. Files /\ o.section \in Sections
    /\ o.address \in Nat /\ o.size \in Nat /\ o.epoch \in Nat

Shapes ==
    /\ corpus \in [kind : DOMAIN Corpus, next : Nat]
    /\ declared \in [1 .. Files -> SUBSET Names]
    /\ file \in 1 .. Files /\ section \in Sections
    /\ cursor \in [Sections -> Nat]
    /\ pending \in [Sections -> SUBSET Names]
    /\ local \in [1 .. Files -> Tables]
    /\ global \in Tables
    /\ marks \in [1 .. Files -> MarkTables]
    /\ epoch \in [Sections -> Nat]
    /\ IsSequence(located)
    /\ \A i \in 1 .. Len(located) : IsObject(located[i])
    /\ phase = "first" => DOMAIN public.plain = {}

(* Sections grow from their base to their limit, and everything placed in  *)
(* one lies below its cursor.                                              *)
CursorsFit ==
    /\ \A s \in Sections : /\ SectionBase[s] <= cursor[s]
                           /\ cursor[s] <= SectionBase[s] + SectionSize[s]
    /\ \A s \in TextSections : cursor[s] % 4 = 0
    /\ \A i \in 1 .. Len(located) :
          located[i].address + located[i].size <= cursor[located[i].section]

(* The objects a label with mark m of file f may belong to: it is at the   *)
(* first of them.                                                          *)
MayName(o, f, m) ==
    o.file = f /\ o.section = m.section /\ o.size > 0 /\ o.epoch = m.epoch
ObjectsOf(f, m) ==
    {i \in 1 .. Len(located) : m.after < i /\ MayName(located[i], f, m)}
IsFirst(i, S) == i \in S /\ \A j \in S : i <= j

(* A label waits exactly as long as there is none, in the file and under   *)
(* the origin it was written.                                              *)
LabelIsRight(f, n, m) ==
    /\ m.after <= Len(located) /\ m.epoch <= epoch[m.section]
    /\ \A i \in Nat : IsFirst(i, ObjectsOf(f, m)) => local[f][n] = located[i].address
    /\ ObjectsOf(f, m) = {} /\ f = file /\ epoch[m.section] = m.epoch =>
          n \in pending[m.section] /\ local[f][n] = cursor[m.section]
MayWait(s, n, m) ==
    m.section = s /\ m.epoch = epoch[s] /\ ObjectsOf(file, m) = {}

LabelsWait ==
    /\ \A f \in 1 .. Files : /\ DOMAIN marks[f] \subseteq DOMAIN local[f]
                             /\ f > file => DOMAIN marks[f] = {}
    /\ \A f \in 1 .. Files : \A n \in DOMAIN marks[f] : \A m \in Mark :
          m = marks[f][n] => LabelIsRight(f, n, m)
    /\ \A s \in Sections : \A n \in pending[s] :
          n \in DOMAIN marks[file] /\ \A m \in Mark : m = marks[file][n] => MayWait(s, n, m)

IsExport(n, f) == f \in 1 .. Files /\ n \in DOMAIN local[f] /\ n \in declared[f]
Exported ==
    /\ \A f \in 1 .. Files : DOMAIN local[f] \cap declared[f] \subseteq DOMAIN global
    /\ \A n \in DOMAIN global : \E f \in 1 .. Files :
          /\ IsExport(n, f) /\ local[f][n] = global[n]
          /\ \A g \in 1 .. Files : IsExport(n, g) => g = f

PublicAgrees ==
    \A n \in DOMAIN public.plain : \A f \in FilesWith(n) :
        local[f][n] # public.plain[n] => n \in DOMAIN global /\ n \notin declared[f]

Inv == Shapes /\ CursorsFit /\ LayoutIsSound /\ LabelsWait /\ Exported /\ PublicAgrees

(* What a step may not do to a constant. *)
ConstantsStay ==
    \A f \in 1 .. Files : \A n \in DOMAIN local[f] \ DOMAIN marks[f] :
        local'[f][n] = local[f][n]


-----------------------------------------------------------------------------
(* Diagnostics. *)

LEMMA LeastOf ==
  ASSUME NEW T \in SUBSET Nat, T # {}
  PROVE  Min(T) \in T /\ \A y \in T : Min(T) <= y
<1>1. \E x \in T : \A y \in T : x <= y
  BY LeastNatural
<1> QED
  BY <1>1 DEF Min

LEMMA NoErrors ==
  ASSUME NEW n \in Nat, NEW errors, DOMAIN errors = 1 .. n, FirstError(errors) = "none"
  PROVE  \A i \in 1 .. n : errors[i] = "none"
<1> DEFINE raised == {i \in DOMAIN errors : errors[i] # "none"}
<1>1. CASE raised = {}
  BY <1>1
<1>2. CASE raised # {}
  <2>1. Min(raised) \in raised
    BY <1>2, LeastOf
  <2>2. FirstError(errors) = errors[Min(raised)]
    BY <1>2 DEF FirstError
  <2> QED
    BY <2>1, <2>2
<1> QED
  BY <1>1, <1>2

LEMMA NotRaised ==
  ASSUME NEW condition \in BOOLEAN, NEW code, code # "none", Raise(condition, code) = "none"
  PROVE  ~ condition
BY DEF Raise

(* The first diagnostic is one of those the checks give. *)
LEMMA FirstIsOne ==
  ASSUME NEW n \in Nat, NEW errors, DOMAIN errors = 1 .. n
  PROVE  FirstError(errors) = "none" \/ \E i \in 1 .. n : FirstError(errors) = errors[i]
<1> DEFINE raised == {i \in DOMAIN errors : errors[i] # "none"}
<1>1. CASE raised = {}
  BY <1>1 DEF FirstError
<1>2. CASE raised # {}
  <2>1. Min(raised) \in raised
    BY <1>2, LeastOf
  <2>2. FirstError(errors) = errors[Min(raised)]
    BY <1>2 DEF FirstError
  <2> QED
    BY <2>1, <2>2
<1> QED
  BY <1>1, <1>2

LEMMA Diagnosed ==
  ASSUME NEW n \in Nat, NEW errors, DOMAIN errors = 1 .. n,
         \A i \in 1 .. n : errors[i] # "internal"
  PROVE  FirstError(errors) # "internal"
BY FirstIsOne

LEMMA TwoChecks ==
  ASSUME NEW e1, NEW e2, e1 # "internal", e2 # "internal"
  PROVE  FirstError(<<e1, e2>>) # "internal"
<1> DEFINE errors == <<e1, e2>>
<1>1. DOMAIN errors = 1 .. 2 /\ \A i \in 1 .. 2 : errors[i] # "internal"
  OBVIOUS
<1> HIDE DEF errors
<1>2. FirstError(errors) # "internal"
  BY <1>1, Diagnosed
<1> QED
  BY <1>2 DEF errors

LEMMA ThreeChecks ==
  ASSUME NEW e1, NEW e2, NEW e3, e1 # "internal", e2 # "internal", e3 # "internal"
  PROVE  /\ FirstError(<<e1, e2, e3>>) # "internal"
         /\ FirstError(<<e1, e2, e3>>) = "none" => e1 = "none" /\ e2 = "none" /\ e3 = "none"
<1> DEFINE errors == <<e1, e2, e3>>
<1>1. /\ DOMAIN errors = 1 .. 3 /\ \A i \in 1 .. 3 : errors[i] # "internal"
      /\ errors[1] = e1 /\ errors[2] = e2 /\ errors[3] = e3
  OBVIOUS
<1> HIDE DEF errors
<1>2. FirstError(errors) # "internal"
  BY <1>1, Diagnosed
<1>3. ASSUME FirstError(errors) = "none" PROVE e1 = "none" /\ e2 = "none" /\ e3 = "none"
  <2>1. \A n \in Nat : DOMAIN errors = 1 .. n => \A i \in 1 .. n : errors[i] = "none"
    BY <1>3, NoErrors
  <2>2. errors[1] = "none" /\ errors[2] = "none" /\ errors[3] = "none"
    BY <1>1, <2>1
  <2> QED
    BY <1>1, <2>2
<1> QED
  BY <1>2, <1>3 DEF errors

LEMMA WithinSections ==
  ASSUME NEW cursors, LimitError(cursors) = "none", NEW s \in Sections
  PROVE  ~ (cursors[s] - SectionBase[s] > SectionSize[s])
<1> DEFINE full == {t \in Sections : cursors[t] - SectionBase[t] > SectionSize[t]}
<1>1. LimitError(cursors) = CASE full = {} -> "none"
                              [] full \cap TextSections # {} -> "A216"
                              [] OTHER -> "A217"
  BY DEF LimitError
<1>2. CASE full = {}
  BY <1>2
<1>3. CASE full # {}
  <2> HIDE DEF full
  <2>1. LimitError(cursors) \in {"A216", "A217"}
    BY <1>1, <1>3
  <2> QED
    BY <2>1
<1> QED
  BY <1>2, <1>3

-----------------------------------------------------------------------------
(* Sizes and addresses. *)

LEMMA WholeWords ==
  ASSUME NEW a \in Nat, NEW b \in Nat, a % 4 = 0, b % 4 = 0
  PROVE  (a + b) % 4 = 0
OBVIOUS

LEMMA AlignedUp ==
  ASSUME NEW address \in Nat, NEW n \in Nat \ {0}
  PROVE  /\ Aligned(address, n) \in Nat /\ address <= Aligned(address, n)
         /\ n % 4 = 0 => Aligned(address, n) % 4 = 0
         /\ n \in {1, 2} /\ address % 4 = 0 => Aligned(address, n) = address
<1> DEFINE q == (address + n - 1) \div n
           r == (address + n - 1) % n
<1>1. q \in Int /\ r \in 0 .. n - 1 /\ address + n - 1 = n * q + r
  OBVIOUS
<1>2. Aligned(address, n) = q * n
  BY DEF Aligned
<1> HIDE DEF q, r
<1>3. q * n \in Int /\ q * n = n * q
  BY <1>1
<1>4. q * n \in Int /\ address <= q * n
  <2> DEFINE p == q * n
  <2>1. p \in Int /\ address + n - 1 = p + r
    BY <1>1, <1>3
  <2> HIDE DEF p
  <2>2. address <= p
    BY <1>1, <2>1
  <2> QED
    BY <2>1, <2>2 DEF p
<1>5. ASSUME n % 4 = 0
      PROVE  (q * n) % 4 = 0
  <2>1. PICK k \in Int : n = 4 * k
    BY <1>5
  <2> DEFINE j == q * k
  <2>2. j \in Int /\ q * n = 4 * j
    BY <1>1, <2>1
  <2> HIDE DEF j
  <2> QED
    BY <2>2
<1>6. ASSUME n \in {1, 2}, address % 4 = 0
      PROVE  q * n = address
  <2>1. CASE n = 1
    BY <1>1, <2>1 DEF r
  <2>2. CASE n = 2
    BY <1>1, <1>6, <2>2
  <2> QED
    BY <1>6, <2>1, <2>2
<1> QED
  BY <1>2, <1>4, <1>5, <1>6

(* No instruction is empty: a label before one is its address. *)
LEMMA InstructionsHaveWords ==
  ASSUME NEW st, Ok(WordCount(st))
  PROVE  WordCount(st).value \in Nat \ {0}
<1>1. \A x : LoadWords(x) \in {1, 2}
  BY DEF LoadWords
<1>2. \A op : FinishWords(op) \in {1, 2}
  BY DEF FinishWords
<1>3. ASSUME NEW sources, NEW base \in Nat \ {0}, Ok(ValueWords(sources, base))
      PROVE  ValueWords(sources, base).value \in Nat \ {0}
  <2>1. PICK k \in {0, 1, 2} : \/ ValueWords(sources, base) = Refuse("A242")
                               \/ ValueWords(sources, base) = Yield(base + k)
    BY <1>1 DEF ValueWords
  <2> QED
    BY <1>3, <2>1 DEF Refuse, Yield, Ok
<1>4. \A x, base : MemoryWords(x, base) \in Nat \ {0}
  BY <1>1 DEF MemoryWords
<1>5. \A n \in Nat \ {0} : Yield(n).value = n
  BY DEF Yield
<1> QED
  BY <1>1, <1>2, <1>3, <1>4, <1>5, 1 \in Nat \ {0} DEF WordCount


-----------------------------------------------------------------------------
(* Symbols. *)

LEMMA BoundSymbols ==
  ASSUME NEW t \in Tables, NEW n \in Names, NEW v \in Int
  PROVE  /\ Bind(t, n, v) \in Tables
         /\ DOMAIN Bind(t, n, v) = DOMAIN t \cup {n}
         /\ Bind(t, n, v)[n] = v
         /\ \A k \in DOMAIN t \ {n} : Bind(t, n, v)[k] = t[k]
<1>1. PICK N \in SUBSET Names : t \in [N -> Int]
  BY DEF Tables
<1>2. Bind(t, n, v) = [k \in N \cup {n} |-> IF k = n THEN v ELSE t[k]]
  BY <1>1 DEF Bind, Override
<1>3. Bind(t, n, v) \in [N \cup {n} -> Int]
  BY <1>1, <1>2
<1> QED
  BY <1>1, <1>2, <1>3 DEF Tables

LEMMA BoundMarks ==
  ASSUME NEW t \in MarkTables, NEW n \in Names, NEW v \in Mark
  PROVE  /\ Bind(t, n, v) \in MarkTables
         /\ DOMAIN Bind(t, n, v) = DOMAIN t \cup {n}
         /\ Bind(t, n, v)[n] = v
         /\ \A k \in DOMAIN t \ {n} : Bind(t, n, v)[k] = t[k]
<1>1. PICK N \in SUBSET Names : t \in [N -> Mark]
  BY DEF MarkTables
<1>2. Bind(t, n, v) = [k \in N \cup {n} |-> IF k = n THEN v ELSE t[k]]
  BY <1>1 DEF Bind, Override
<1>3. Bind(t, n, v) \in [N \cup {n} -> Mark]
  BY <1>1, <1>2
<1> QED
  BY <1>1, <1>2, <1>3 DEF MarkTables

LEMMA MovedTable ==
  ASSUME NEW t \in Tables, NEW names, NEW address \in Int
  PROVE  /\ Moved(t, names, address) \in Tables
         /\ DOMAIN Moved(t, names, address) = DOMAIN t
         /\ \A n \in DOMAIN t : Moved(t, names, address)[n]
                                   = IF n \in names THEN address ELSE t[n]
<1>1. PICK N \in SUBSET Names : t \in [N -> Int]
  BY DEF Tables
<1>2. Moved(t, names, address) \in [N -> Int]
  BY <1>1 DEF Moved
<1> QED
  BY <1>1, <1>2 DEF Moved, Tables

LEMMA ResolvedIsInt ==
  ASSUME Shapes, NEW x, IsExpression(x)
  PROVE  Resolve(x, ViewOf(local, global, file)).value \in Int
<1>1. local[file] \in Tables /\ global \in Tables
  BY DEF Shapes
<1> DEFINE view == ViewOf(local, global, file)
<1>2. \A n \in DOMAIN view : view[n] \in Int
  BY <1>1 DEF ViewOf, Override, Tables
<1> HIDE DEF view
<1> QED
  BY <1>2 DEF Resolve, IsExpression, Symbolic, Unknown, view

LEMMA DefineKeepsExports ==
  ASSUME Shapes, Exported, NEW name \in Names, NEW v \in Int,
         DefineError(name) = "none", Define(name, v), declared' = declared
  PROVE  /\ local' \in [1 .. Files -> Tables] /\ global' \in Tables
         /\ name \notin DOMAIN local[file]
         /\ DOMAIN local'[file] = DOMAIN local[file] \cup {name}
         /\ local'[file][name] = v
         /\ \A f \in 1 .. Files \ {file} : local'[f] = local[f]
         /\ \A f \in 1 .. Files : \A n \in DOMAIN local[f] :
               n \in DOMAIN local'[f] /\ local'[f][n] = local[f][n]
         /\ Exported'
<1>1. /\ file \in 1 .. Files /\ local \in [1 .. Files -> Tables] /\ global \in Tables
      /\ local[file] \in Tables
  BY DEF Shapes
<1>2. name \notin DOMAIN local[file] /\ (name \in declared[file] => name \notin DOMAIN global)
  <2> DEFINE errors == <<Raise(name \in DOMAIN local[file], "A211"),
                         Raise(SymbolCount >= MaxSymbols, "A212"),
                         Raise(name \in declared[file] /\ name \in DOMAIN global, "A235")>>
  <2>1. /\ DOMAIN errors = 1 .. 3 /\ errors[1] = Raise(name \in DOMAIN local[file], "A211")
        /\ errors[3] = Raise(name \in declared[file] /\ name \in DOMAIN global, "A235")
    OBVIOUS
  <2>2. FirstError(errors) = "none"
    BY DEF DefineError
  <2> HIDE DEF errors
  <2>3. \A n \in Nat : DOMAIN errors = 1 .. n => \A i \in 1 .. n : errors[i] = "none"
    BY <2>2, NoErrors
  <2>4. \A i \in 1 .. 3 : errors[i] = "none"
    BY <2>1, <2>3
  <2>5. errors[1] = "none" /\ errors[3] = "none"
    BY <2>4
  <2> QED
    BY <2>1, <2>5 DEF Raise
<1> DEFINE t == Bind(local[file], name, v)
           g == Bind(global, name, v)
<1>3. /\ t \in Tables /\ DOMAIN t = DOMAIN local[file] \cup {name} /\ t[name] = v
      /\ \A k \in DOMAIN local[file] \ {name} : t[k] = local[file][k]
  BY <1>1, BoundSymbols, ZenonT(60)
<1>4. /\ g \in Tables /\ DOMAIN g = DOMAIN global \cup {name} /\ g[name] = v
      /\ \A k \in DOMAIN global \ {name} : g[k] = global[k]
  <2>1. global \in Tables
    BY <1>1
  <2> QED
    BY <2>1, BoundSymbols, ZenonT(60)
<1>5. /\ local' = [local EXCEPT ![file] = t]
      /\ global' = IF name \in declared[file] THEN g ELSE global
  BY DEF Define
<1> HIDE DEF t, g
<1>6. local' \in [1 .. Files -> Tables] /\ global' \in Tables
  BY <1>1, <1>3, <1>4, <1>5
<1>7. local'[file] = t /\ \A f \in 1 .. Files \ {file} : local'[f] = local[f]
  BY <1>1, <1>5
<1>8. \A f \in 1 .. Files : \A n \in DOMAIN local[f] :
         n \in DOMAIN local'[f] /\ local'[f][n] = local[f][n]
  BY <1>1, <1>2, <1>3, <1>7
<1>9. \A f \in 1 .. Files : DOMAIN local'[f] \cap declared'[f] \subseteq DOMAIN global'
  BY <1>1, <1>3, <1>4, <1>5, <1>7 DEF Exported
<1>10. \A n, f : IsExport(n, f)' <=> IsExport(n, f) \/ (n = name /\ f = file /\ name \in declared[file])
  BY <1>1, <1>3, <1>7 DEF IsExport
<1>11. ASSUME NEW n \in DOMAIN global'
       PROVE  \E f \in 1 .. Files : /\ IsExport(n, f)' /\ local'[f][n] = global'[n]
                                    /\ \A h \in 1 .. Files : IsExport(n, h)' => h = f
  <2>1. CASE n = name /\ name \in declared[file]
    <3>1. ASSUME NEW h, IsExport(n, h)
          PROVE  FALSE
      <4>1. h \in 1 .. Files /\ n \in DOMAIN local[h] \cap declared[h]
        BY <3>1 DEF IsExport
      <4>2. n \in DOMAIN global
        BY <4>1 DEF Exported
      <4> QED
        BY <1>2, <2>1, <4>2
    <3>2. \A f : f = file => IsExport(n, f)'
      BY <1>10, <2>1
    <3>3. local'[file][n] = v /\ global'[n] = v
      BY <1>3, <1>4, <1>5, <1>7, <2>1
    <3> QED
      BY <1>1, <1>10, <3>1, <3>2, <3>3
  <2>2. CASE ~ (n = name /\ name \in declared[file])
    <3>1. n \in DOMAIN global /\ global'[n] = global[n]
      BY <1>4, <1>5, <2>2
    <3>2. PICK f \in 1 .. Files : /\ IsExport(n, f) /\ local[f][n] = global[n]
                                  /\ \A h \in 1 .. Files : IsExport(n, h) => h = f
      BY <3>1 DEF Exported
    <3>3. local'[f][n] = global'[n]
      BY <1>8, <3>1, <3>2 DEF IsExport
    <3> QED
      BY <1>10, <2>2, <3>2, <3>3
  <2> QED
    BY <2>1, <2>2
<1>12. Exported'
  BY <1>9, <1>11 DEF Exported
<1> QED
  BY <1>2, <1>3, <1>6, <1>7, <1>8, <1>12

LEMMA MoveKeepsExports ==
  ASSUME Shapes, Exported, LabelsWait, NEW address \in Nat, MovePending(address),
         declared' = declared
  PROVE  /\ local' \in [1 .. Files -> Tables] /\ global' \in Tables
         /\ \A f \in 1 .. Files \ {file} : local'[f] = local[f]
         /\ DOMAIN local'[file] = DOMAIN local[file]
         /\ \A n \in DOMAIN local[file] :
               local'[file][n] = IF n \in pending[section] THEN address ELSE local[file][n]
         /\ Exported'
<1>1. /\ file \in 1 .. Files /\ local \in [1 .. Files -> Tables] /\ global \in Tables
      /\ local[file] \in Tables /\ section \in Sections
  BY DEF Shapes
<1> DEFINE t == Moved(local[file], pending[section], address)
           g == Moved(global, pending[section] \cap declared[file], address)
<1>2. /\ t \in Tables /\ DOMAIN t = DOMAIN local[file]
      /\ \A n \in DOMAIN local[file] :
            t[n] = IF n \in pending[section] THEN address ELSE local[file][n]
  BY <1>1, MovedTable
<1>3. /\ g \in Tables /\ DOMAIN g = DOMAIN global
      /\ \A n \in DOMAIN global :
            g[n] = IF n \in pending[section] \cap declared[file] THEN address ELSE global[n]
  BY <1>1, MovedTable
<1>4. local' = [local EXCEPT ![file] = t] /\ global' = g
  BY DEF MovePending
<1> HIDE DEF t, g
<1>5. local'[file] = t /\ \A f \in 1 .. Files \ {file} : local'[f] = local[f]
  BY <1>1, <1>4
<1>6. local' \in [1 .. Files -> Tables]
  BY <1>1, <1>2, <1>4
<1>7. \A n, f : IsExport(n, f)' <=> IsExport(n, f)
  BY <1>1, <1>2, <1>5 DEF IsExport
<1>8. pending[section] \subseteq DOMAIN local[file]
  BY <1>1 DEF LabelsWait
<1>9. \A f \in 1 .. Files : DOMAIN local'[f] \cap declared'[f] \subseteq DOMAIN global'
  BY <1>1, <1>2, <1>3, <1>4, <1>5 DEF Exported
<1>10. ASSUME NEW n \in DOMAIN global'
       PROVE  \E f \in 1 .. Files : /\ IsExport(n, f)' /\ local'[f][n] = global'[n]
                                    /\ \A h \in 1 .. Files : IsExport(n, h)' => h = f
  <2>1. PICK f \in 1 .. Files : /\ IsExport(n, f) /\ local[f][n] = global[n]
                                /\ \A h \in 1 .. Files : IsExport(n, h) => h = f
    BY <1>3, <1>4, <1>10 DEF Exported
  <2>2. local'[f][n] = global'[n]
    <3>1. CASE n \in pending[section] \cap declared[file]
      <4>1. f = file
        BY <1>1, <1>8, <2>1, <3>1 DEF IsExport
      <4> QED
        BY <1>2, <1>3, <1>4, <1>5, <1>8, <1>10, <3>1, <4>1
    <3>2. CASE n \notin pending[section] \cap declared[file]
      <4>1. f = file => n \notin pending[section]
        BY <2>1, <3>2 DEF IsExport
      <4> QED
        BY <1>1, <1>2, <1>3, <1>4, <1>5, <1>10, <2>1, <3>2, <4>1 DEF IsExport
    <3> QED
      BY <3>1, <3>2
  <2> QED
    BY <1>7, <2>1, <2>2
<1>11. Exported'
  BY <1>9, <1>10 DEF Exported
<1> QED
  BY <1>2, <1>3, <1>4, <1>5, <1>6, <1>11


-----------------------------------------------------------------------------
(* Placing an object. *)

LEMMA PlacedObjects ==
  ASSUME Shapes, NEW o, IsObject(o), located' = Append(located, o)
  PROVE  /\ Len(located) \in Nat /\ Len(located') = Len(located) + 1
         /\ DOMAIN located = 1 .. Len(located) /\ DOMAIN located' = 1 .. Len(located) + 1
         /\ located'[Len(located) + 1] = o
         /\ \A i \in 1 .. Len(located) : located'[i] = located[i]
         /\ IsSequence(located') /\ \A i \in 1 .. Len(located') : IsObject(located'[i])
         /\ \A f \in 1 .. Files : \A m \in Mark :
               m.after <= Len(located) =>
                  ObjectsOf(f, m)' = ObjectsOf(f, m) \cup (IF MayName(o, f, m)
                                                          THEN {Len(located) + 1} ELSE {})
<1>1. IsSequence(located) /\ \A i \in 1 .. Len(located) : IsObject(located[i])
  BY DEF Shapes
<1>2. PICK S : located \in Seq(S)
  BY <1>1 DEF IsSequence
<1>3. /\ Len(located) \in Nat /\ Len(located') = Len(located) + 1
      /\ DOMAIN located = 1 .. Len(located) /\ DOMAIN located' = 1 .. Len(located) + 1
      /\ located'[Len(located) + 1] = o
      /\ \A i \in 1 .. Len(located) : located'[i] = located[i]
  <2> DEFINE T == S \cup {o}
  <2>1. located \in Seq(T) /\ o \in T
    BY <1>2, SeqMonotonic
  <2> HIDE DEF T
  <2> QED
    BY <2>1, AppendProperties
<1>4. IsSequence(located')
  BY <1>1, AppendIsSequence
<1>5. \A i \in 1 .. Len(located') : IsObject(located'[i])
  <2> SUFFICES ASSUME NEW i \in 1 .. Len(located') PROVE IsObject(located'[i])
    OBVIOUS
  <2>1. i \in 1 .. Len(located) \/ i = Len(located) + 1
    BY <1>3
  <2> QED
    BY <1>1, <1>3, <2>1
<1>6. ASSUME NEW f \in 1 .. Files, NEW m \in Mark, m.after <= Len(located)
      PROVE  ObjectsOf(f, m)' = ObjectsOf(f, m) \cup (IF MayName(o, f, m)
                                                     THEN {Len(located) + 1} ELSE {})
  <2>1. m.after \in Nat
    BY DEF Mark
  <2>2. ObjectsOf(f, m)' = {i \in 1 .. Len(located) + 1 : m.after < i /\ MayName(located'[i], f, m)}
    BY <1>3 DEF ObjectsOf
  <2>3. ASSUME NEW i
        PROVE  i \in ObjectsOf(f, m)'
                  <=> i \in ObjectsOf(f, m) \/ (MayName(o, f, m) /\ i = Len(located) + 1)
    <3>1. CASE i \in 1 .. Len(located)
      BY <1>3, <2>2, <3>1 DEF ObjectsOf
    <3>2. CASE i = Len(located) + 1
      <4>1. i \notin ObjectsOf(f, m) /\ i \in 1 .. Len(located) + 1 /\ m.after < i
        BY <1>3, <1>6, <2>1, <3>2 DEF ObjectsOf
      <4> QED
        BY <1>3, <2>2, <3>2, <4>1
    <3>3. CASE i \notin 1 .. Len(located) /\ i # Len(located) + 1
      <4>1. i \notin 1 .. Len(located) + 1
        BY <1>3, <3>3
      <4> QED
        BY <2>2, <3>3, <4>1 DEF ObjectsOf
    <3> QED
      BY <3>1, <3>2, <3>3
  <2> QED
    BY <2>3
<1> QED
  BY <1>3, <1>4, <1>5, <1>6

LEMMA ObjectsAreBelow ==
  ASSUME Shapes, NEW f, NEW m, NEW i \in ObjectsOf(f, m)
  PROVE  i \in 1 .. Len(located)
BY DEF ObjectsOf

LEMMA PlaceKeepsLayout ==
  ASSUME Shapes, CursorsFit, LayoutIsSound,
         NEW o, IsObject(o), located' = Append(located, o), o.section = section,
         cursor[section] <= o.address,
         cursor' = [cursor EXCEPT ![section] = o.address + o.size],
         o.address + o.size <= SectionBase[section] + SectionSize[section],
         section \in TextSections => o.address % 4 = 0 /\ o.size % 4 = 0
  PROVE  cursor' \in [Sections -> Nat] /\ CursorsFit' /\ LayoutIsSound'
<1>1. /\ section \in Sections /\ cursor \in [Sections -> Nat]
      /\ \A i \in 1 .. Len(located) : IsObject(located[i])
      /\ \A s \in Sections : SectionBase[s] \in Nat /\ SectionSize[s] \in Nat
  BY AssemblerAssumption DEF Shapes
<1>2. /\ o.address \in Nat /\ o.size \in Nat
      /\ \A i \in 1 .. Len(located) :
            located[i].address \in Nat /\ located[i].size \in Nat /\ located[i].section \in Sections
  BY <1>1 DEF IsObject
<1>3. /\ Len(located) \in Nat /\ Len(located') = Len(located) + 1
      /\ DOMAIN located = 1 .. Len(located) /\ DOMAIN located' = 1 .. Len(located) + 1
      /\ located'[Len(located) + 1] = o
      /\ \A i \in 1 .. Len(located) : located'[i] = located[i]
  BY PlacedObjects
<1>4. /\ cursor' \in [Sections -> Nat] /\ cursor'[section] = o.address + o.size
      /\ \A s \in Sections \ {section} : cursor'[s] = cursor[s]
      /\ \A s \in Sections : cursor[s] <= cursor'[s]
  BY <1>1, <1>2
<1>5. \A s \in Sections : /\ SectionBase[s] <= cursor'[s]
                          /\ cursor'[s] <= SectionBase[s] + SectionSize[s]
  <2>1. \A s \in Sections : /\ SectionBase[s] <= cursor[s]
                            /\ cursor[s] <= SectionBase[s] + SectionSize[s]
    BY DEF CursorsFit
  <2> QED
    BY <1>1, <1>4, <2>1
<1>6. \A s \in TextSections : cursor'[s] % 4 = 0
  <2>1. \A s \in TextSections : s \in Sections /\ cursor[s] % 4 = 0
    BY DEF CursorsFit, TextSections, Sections
  <2>2. section \in TextSections => (o.address + o.size) % 4 = 0
    BY <1>2, WholeWords
  <2> QED
    BY <1>4, <2>1, <2>2
<1>7. ASSUME NEW i \in 1 .. Len(located')
      PROVE  located'[i].address + located'[i].size <= cursor'[located'[i].section]
  <2>1. CASE i = Len(located) + 1
    BY <1>2, <1>3, <1>4, <2>1
  <2>2. CASE i \in 1 .. Len(located)
    <3>1. located[i].address + located[i].size <= cursor[located[i].section]
      BY <2>2 DEF CursorsFit
    <3> QED
      BY <1>1, <1>2, <1>3, <1>4, <2>2, <3>1, SMTT(60)
  <2> QED
    BY <1>3, <2>1, <2>2
<1>8. CursorsFit'
  BY <1>5, <1>6, <1>7 DEF CursorsFit
<1>9. ASSUME NEW i \in DOMAIN located', NEW j \in DOMAIN located', i < j,
             located'[i].section = located'[j].section
      PROVE  located'[i].address + located'[i].size <= located'[j].address
  <2>1. i \in 1 .. Len(located)
    BY <1>3, <1>9
  <2>2. CASE j = Len(located) + 1
    <3>1. located[i].section = section
      BY <1>3, <1>9, <2>1, <2>2
    <3>2. located[i].address + located[i].size <= cursor[section]
      BY <2>1, <3>1 DEF CursorsFit
    <3> QED
      BY <1>1, <1>2, <1>3, <2>1, <2>2, <3>2
  <2>3. CASE j \in 1 .. Len(located)
    BY <1>3, <1>9, <2>1, <2>3 DEF LayoutIsSound
  <2> QED
    BY <1>3, <2>2, <2>3
<1>10. ASSUME NEW i \in DOMAIN located'
       PROVE  LET p == located'[i]
              IN  /\ p.address >= SectionBase[p.section]
                  /\ p.address + p.size <= SectionBase[p.section] + SectionSize[p.section]
                  /\ p.section \in TextSections => p.address % 4 = 0
  <2>1. CASE i = Len(located) + 1
    <3>1. SectionBase[section] <= cursor[section]
      BY <1>1 DEF CursorsFit
    <3> QED
      BY <1>1, <1>2, <1>3, <2>1, <3>1
  <2>2. CASE i \in 1 .. Len(located)
    BY <1>3, <2>2 DEF LayoutIsSound
  <2> QED
    BY <1>3, <2>1, <2>2
<1>11. LayoutIsSound'
  <2> HIDE DEF LayoutIsSound
  <2> QED
    BY <1>9, <1>10 DEF LayoutIsSound
<1> QED
  BY <1>4, <1>8, <1>11


LEMMA PlaceKeepsLabels ==
  ASSUME Shapes, LabelsWait,
         NEW o, IsObject(o), located' = Append(located, o),
         o.file = file, o.section = section, o.epoch = epoch[section],
         cursor' = [cursor EXCEPT ![section] = o.address + o.size],
         pending' = [pending EXCEPT ![section] = IF o.size > 0 THEN {} ELSE pending[section]],
         UNCHANGED <<file, section, marks, epoch>>,
         \A f \in 1 .. Files : DOMAIN local'[f] = DOMAIN local[f],
         \A f \in 1 .. Files \ {file} : local'[f] = local[f],
         \A n \in DOMAIN local[file] :
            local'[file][n] = IF n \in pending[section] THEN o.address ELSE local[file][n]
  PROVE  LabelsWait'
<1>1. /\ section \in Sections /\ file \in 1 .. Files /\ cursor \in [Sections -> Nat]
      /\ pending \in [Sections -> SUBSET Names] /\ epoch \in [Sections -> Nat]
      /\ o.address \in Nat /\ o.size \in Nat
  BY DEF Shapes, IsObject
<1>2. /\ Len(located) \in Nat /\ Len(located') = Len(located) + 1
      /\ located'[Len(located) + 1] = o
      /\ \A i \in 1 .. Len(located) : located'[i] = located[i]
  BY PlacedObjects
<1>3. /\ cursor'[section] = o.address + o.size
      /\ \A s \in Sections \ {section} : cursor'[s] = cursor[s]
      /\ pending'[section] = IF o.size > 0 THEN {} ELSE pending[section]
      /\ \A s \in Sections \ {section} : pending'[s] = pending[s]
  BY <1>1
<1>4. \A f \in 1 .. Files : \A m \in Mark : m.after <= Len(located) =>
         ObjectsOf(f, m)' = ObjectsOf(f, m) \cup (IF MayName(o, f, m)
                                                 THEN {Len(located) + 1} ELSE {})
  BY PlacedObjects
<1>5. \A f \in 1 .. Files : /\ DOMAIN marks'[f] \subseteq DOMAIN local'[f]
                            /\ f > file' => DOMAIN marks'[f] = {}
  BY DEF LabelsWait
<1>6. \A m \in Mark : m.section \in Sections /\ m.epoch \in Nat /\ m.after \in Nat
  BY DEF Mark
<1>7. ASSUME NEW s \in Sections, NEW n \in pending[s], NEW m \in Mark, m = marks[file][n]
      PROVE  m.section = s /\ m.epoch = epoch[s] /\ ObjectsOf(file, m) = {}
  <2>1. MayWait(s, n, m)
    BY <1>7 DEF LabelsWait
  <2> QED
    BY <2>1 DEF MayWait
<1>8. ASSUME NEW f \in 1 .. Files, NEW n \in DOMAIN marks[f], NEW m \in Mark, m = marks[f][n]
      PROVE  LabelIsRight(f, n, m)'
  <2>1. /\ m.after <= Len(located) /\ m.epoch <= epoch[m.section]
        /\ \A i \in Nat : IsFirst(i, ObjectsOf(f, m)) => local[f][n] = located[i].address
        /\ ObjectsOf(f, m) = {} /\ f = file /\ epoch[m.section] = m.epoch =>
              n \in pending[m.section] /\ local[f][n] = cursor[m.section]
    <3>1. LabelIsRight(f, n, m)
      BY <1>8 DEF LabelsWait
    <3> QED
      BY <3>1 DEF LabelIsRight
  <2>2. ObjectsOf(f, m)' = ObjectsOf(f, m) \cup (IF MayName(o, f, m)
                                                THEN {Len(located) + 1} ELSE {})
    BY <1>4, <2>1
  <2>3. n \in DOMAIN local[f]
    BY <1>8 DEF LabelsWait
  <2>4. ObjectsOf(f, m) # {} => local'[f][n] = local[f][n]
    <3>1. f = file /\ ObjectsOf(f, m) # {} => n \notin pending[section]
      BY <1>1, <1>7, <1>8
    <3> QED
      BY <1>1, <2>3, <3>1
  <2>5. ASSUME NEW i \in Nat, IsFirst(i, ObjectsOf(f, m)')
        PROVE  local'[f][n] = located'[i].address
    <3>1. CASE ObjectsOf(f, m) # {}
      <4>1. PICK j \in ObjectsOf(f, m) : TRUE
        BY <3>1
      <4>2. i <= j /\ j \in 1 .. Len(located)
        BY <2>2, <2>5, <4>1, ObjectsAreBelow DEF IsFirst
      <4>3. i # Len(located) + 1
        BY <1>2, <4>2
      <4>4. IsFirst(i, ObjectsOf(f, m))
        BY <2>2, <2>5, <4>3 DEF IsFirst
      <4>5. i \in 1 .. Len(located)
        BY <4>4, ObjectsAreBelow DEF IsFirst
      <4> QED
        BY <1>2, <2>1, <2>4, <3>1, <4>4, <4>5
    <3>2. CASE ObjectsOf(f, m) = {}
      <4>1. i = Len(located) + 1 /\ MayName(o, f, m)
        BY <2>2, <2>5, <3>2 DEF IsFirst
      <4>2. f = file /\ m.section = section /\ m.epoch = epoch[section]
        BY <4>1 DEF MayName
      <4>3. n \in pending[section]
        BY <2>1, <3>2, <4>2
      <4> QED
        BY <1>2, <2>3, <4>1, <4>2, <4>3
    <3> QED
      BY <3>1, <3>2
  <2>6. ASSUME ObjectsOf(f, m)' = {}, f = file, epoch[m.section] = m.epoch
        PROVE  n \in pending'[m.section] /\ local'[f][n] = cursor'[m.section]
    <3>1. ObjectsOf(f, m) = {} /\ ~ MayName(o, f, m)
      BY <2>2, <2>6
    <3>2. n \in pending[m.section] /\ local[f][n] = cursor[m.section]
      BY <2>1, <2>6, <3>1
    <3>3. CASE m.section = section
      <4>1. ~ (o.size > 0)
        BY <2>6, <3>1, <3>3 DEF MayName
      <4>2. o.size = 0 /\ cursor'[section] = o.address
        BY <1>1, <1>3, <4>1
      <4> QED
        BY <1>3, <2>3, <2>6, <3>2, <3>3, <4>1, <4>2
    <3>4. CASE m.section # section
      <4>1. n \notin pending[section]
        BY <1>1, <1>7, <1>8, <2>6, <3>4, SMTT(60)
      <4> QED
        BY <1>3, <1>6, <2>3, <2>6, <3>2, <3>4, <4>1
    <3> QED
      BY <3>3, <3>4
  <2>7. m.after <= Len(located') /\ m.epoch <= epoch'[m.section]
    BY <1>2, <1>6, <2>1
  <2> QED
    BY <2>5, <2>6, <2>7 DEF LabelIsRight
<1>9. ASSUME NEW s \in Sections, NEW n \in pending'[s]
      PROVE  /\ n \in DOMAIN marks'[file']
             /\ \A m \in Mark : m = marks'[file'][n] => MayWait(s, n, m)'
  <2>1. n \in pending[s] /\ (s = section => ~ (o.size > 0))
    BY <1>1, <1>3, <1>9
  <2>2. n \in DOMAIN marks[file]
    BY <2>1 DEF LabelsWait
  <2>3. ASSUME NEW m \in Mark, m = marks[file][n]
        PROVE  MayWait(s, n, m)'
    <3>1. m.section = s /\ m.epoch = epoch[s] /\ ObjectsOf(file, m) = {}
      <4>1. MayWait(s, n, m)
        BY <2>1, <2>3 DEF LabelsWait
      <4> QED
        BY <4>1 DEF MayWait
    <3>2. ~ MayName(o, file, m)
      BY <2>1, <3>1 DEF MayName
    <3>3. m.after <= Len(located)
      BY <1>1, <2>2, <2>3 DEF LabelsWait, LabelIsRight
    <3>4. \A f : f = file => ObjectsOf(f, m)' = {}
      BY <1>1, <1>4, <3>1, <3>2, <3>3
    <3>5. ObjectsOf(file, m)' = {}
      BY <3>4
    <3> QED
      BY <3>1, <3>5 DEF MayWait
  <2> QED
    BY <2>2, <2>3
<1>10. \A f \in 1 .. Files : \A n \in DOMAIN marks'[f] : \A m \in Mark :
          m = marks'[f][n] => LabelIsRight(f, n, m)'
  BY <1>8
<1> QED
  BY <1>5, <1>9, <1>10 DEF LabelsWait


-----------------------------------------------------------------------------
(* The steps of the first pass. *)

Corpora == [kind : DOMAIN Corpus, next : Nat]

LEMMA LayoutStays ==
  ASSUME Inv, UNCHANGED <<declared, file, layout, public>>,
         corpus' \in Corpora, section' \in Sections,
         phase' = "first" => phase = "first"
  PROVE  Inv' /\ ConstantsStay
<1>1. UNCHANGED <<cursor, pending, local, global, located, marks, epoch>>
  BY DEF layout
<1>2. Shapes'
  BY <1>1 DEF Inv, Shapes, Corpora
<1>3. CursorsFit' /\ LayoutIsSound'
  BY <1>1 DEF Inv, CursorsFit, LayoutIsSound
<1>4. LabelsWait'
  BY <1>1 DEF Inv, LabelsWait, LabelIsRight, MayWait, ObjectsOf
<1>5. Exported'
  BY <1>1 DEF Inv, Exported, IsExport
<1>6. PublicAgrees'
  BY <1>1 DEF Inv, PublicAgrees, FilesWith
<1>7. ConstantsStay
  BY <1>1 DEF ConstantsStay
<1> QED
  BY <1>2, <1>3, <1>4, <1>5, <1>6, <1>7 DEF Inv

LEMMA RefusedKeepsInv ==
  ASSUME Inv, NEW code, Refused(code), corpus' \in Corpora
  PROVE  Inv' /\ ConstantsStay
<1>1. /\ UNCHANGED <<declared, file, section, layout, public>>
      /\ phase' # "first"
  BY DEF Refused, reading
<1>2. section' \in Sections
  BY <1>1 DEF Inv, Shapes
<1> QED
  BY <1>1, <1>2, LayoutStays

LEMMA SettingKeepsInv ==
  ASSUME Inv, NEW st, ReadSetting(st), corpus' \in Corpora
  PROVE  Inv' /\ ConstantsStay
<1>1. CASE Refused("A238")
  BY <1>1, RefusedKeepsInv
<1>2. CASE ~ Refused("A238")
  <2>1. UNCHANGED <<declared, file, section, layout, public, phase>>
    BY <1>2 DEF ReadSetting
  <2>2. section' \in Sections
    BY <2>1 DEF Inv, Shapes
  <2> QED
    BY <2>1, <2>2, LayoutStays
<1> QED
  BY <1>1, <1>2

(* A new symbol, while the rest of the layout stays. *)
LEMMA SymbolKeepsLabels ==
  ASSUME Shapes, LabelsWait, UNCHANGED <<file, cursor, pending, located, marks, epoch>>,
         \A f \in 1 .. Files : \A n \in DOMAIN local[f] :
            n \in DOMAIN local'[f] /\ local'[f][n] = local[f][n]
  PROVE  LabelsWait'
<1>1. ASSUME NEW f \in 1 .. Files, NEW n \in DOMAIN marks[f], NEW m \in Mark, m = marks[f][n]
      PROVE  LabelIsRight(f, n, m)'
  <2>1. LabelIsRight(f, n, m) /\ n \in DOMAIN local[f]
    BY <1>1 DEF LabelsWait
  <2> QED
    BY <2>1 DEF LabelIsRight, ObjectsOf
<1>2. \A s \in Sections : \A n \in pending'[s] :
         /\ n \in DOMAIN marks'[file']
         /\ \A m \in Mark : m = marks'[file'][n] => MayWait(s, n, m)'
  BY DEF LabelsWait, MayWait, ObjectsOf
<1>3. \A f \in 1 .. Files : DOMAIN marks'[f] \subseteq DOMAIN local'[f]
  BY DEF LabelsWait
<1> QED
  BY <1>1, <1>2, <1>3 DEF LabelsWait

LEMMA ConstantKeepsInv ==
  ASSUME Inv, phase = "first", NEW st, IsLine(st), ReadConstant(st), corpus' \in Corpora
  PROVE  Inv' /\ ConstantsStay
<1> DEFINE x == Resolve(st.value, ViewOf(local, global, file))
           code == FirstError(<<Undefined(x), DefineError(st.name)>>)
<1>1. CASE code # "none"
  BY <1>1, RefusedKeepsInv DEF ReadConstant
<1>2. CASE code = "none"
  <2>1. DefineError(st.name) = "none"
    <3> DEFINE errors == <<Undefined(x), DefineError(st.name)>>
    <3>1. DOMAIN errors = 1 .. 2 /\ errors[2] = DefineError(st.name)
      OBVIOUS
    <3>2. FirstError(errors) = "none"
      BY <1>2
    <3> HIDE DEF errors
    <3>3. \A n \in Nat : DOMAIN errors = 1 .. n => \A i \in 1 .. n : errors[i] = "none"
      BY <3>2, NoErrors
    <3> QED
      BY <3>1, <3>3
  <2>2. /\ Define(st.name, x.value)
        /\ UNCHANGED <<declared, phase, error, reading, cursor, pending, located, marks,
                       epoch, image, public>>
    BY <1>2 DEF ReadConstant
  <2>3. st.name \in Names /\ IsExpression(st.value)
    BY DEF IsLine, ReadConstant
  <2>4. x.value \in Int
    BY <2>3, ResolvedIsInt DEF Inv
  <2> HIDE DEF x, code
  <2>5. /\ local' \in [1 .. Files -> Tables] /\ global' \in Tables
        /\ \A f \in 1 .. Files : \A n \in DOMAIN local[f] :
              n \in DOMAIN local'[f] /\ local'[f][n] = local[f][n]
        /\ Exported'
    BY <2>1, <2>2, <2>3, <2>4, DefineKeepsExports DEF Inv
  <2>6. UNCHANGED <<file, section, phase, declared, cursor, pending, located, marks, epoch, public>>
    BY <2>2 DEF reading
  <2>7. Shapes'
    BY <2>5, <2>6 DEF Inv, Shapes, Corpora
  <2>8. CursorsFit' /\ LayoutIsSound'
    BY <2>6 DEF Inv, CursorsFit, LayoutIsSound
  <2>9. LabelsWait'
    BY <2>5, <2>6, SymbolKeepsLabels DEF Inv
  <2>10. PublicAgrees'
    BY <2>6 DEF Inv, Shapes, PublicAgrees
  <2>11. ConstantsStay
    BY <2>5 DEF ConstantsStay
  <2> QED
    BY <2>5, <2>7, <2>8, <2>9, <2>10, <2>11 DEF Inv
<1> QED
  BY <1>1, <1>2

LEMMA LabelKeepsInv ==
  ASSUME Inv, phase = "first", NEW st, IsLine(st), ReadLabel(st), corpus' \in Corpora
  PROVE  Inv' /\ ConstantsStay
<1>1. CASE DefineError(st.name) # "none"
  BY <1>1, RefusedKeepsInv DEF ReadLabel
<1>2. CASE DefineError(st.name) = "none"
  <2> DEFINE name == st.name
             mark == [section |-> section, epoch |-> epoch[section], after |-> Len(located)]
             t == Bind(marks[file], name, mark)
  <2>1. /\ section \in Sections /\ file \in 1 .. Files /\ cursor \in [Sections -> Nat]
        /\ epoch \in [Sections -> Nat] /\ pending \in [Sections -> SUBSET Names]
        /\ marks \in [1 .. Files -> MarkTables] /\ IsSequence(located)
    BY DEF Inv, Shapes
  <2>2. name \in Names /\ mark \in Mark
    BY <2>1, LengthIsNatural DEF IsLine, ReadLabel, Mark
  <2>3. mark.section = section /\ mark.epoch = epoch[section] /\ mark.after = Len(located)
    OBVIOUS
  <2>4. /\ Define(name, cursor[section])
        /\ pending' = [pending EXCEPT ![section] = pending[section] \cup {name}]
        /\ marks' = [marks EXCEPT ![file] = t]
        /\ UNCHANGED <<declared, phase, file, section, cursor, located, epoch, public>>
    BY <1>2 DEF ReadLabel, reading
  <2>5. /\ t \in MarkTables /\ DOMAIN t = DOMAIN marks[file] \cup {name} /\ t[name] = mark
        /\ \A k \in DOMAIN marks[file] \ {name} : t[k] = marks[file][k]
    <3>1. marks[file] \in MarkTables
      BY <2>1
    <3> HIDE DEF mark, name
    <3> QED
      BY <2>2, <3>1, BoundMarks
  <2> HIDE DEF name, mark, t
  <2>6. cursor[section] \in Int
    BY <2>1
  <2>7. /\ local' \in [1 .. Files -> Tables] /\ global' \in Tables
        /\ name \notin DOMAIN local[file]
        /\ DOMAIN local'[file] = DOMAIN local[file] \cup {name}
        /\ local'[file][name] = cursor[section]
        /\ \A f \in 1 .. Files : \A n \in DOMAIN local[f] :
              n \in DOMAIN local'[f] /\ local'[f][n] = local[f][n]
        /\ Exported'
    <3>1. DefineError(name) = "none"
      BY <1>2 DEF name
    <3> QED
      BY <2>2, <2>4, <2>6, <3>1, DefineKeepsExports DEF Inv
  <2>8. marks'[file] = t /\ \A f \in 1 .. Files \ {file} : marks'[f] = marks[f]
    BY <2>1, <2>4
  <2>9. marks' \in [1 .. Files -> MarkTables]
    BY <2>1, <2>4, <2>5
  <2>10. /\ pending' \in [Sections -> SUBSET Names]
         /\ pending'[section] = pending[section] \cup {name}
         /\ \A s \in Sections \ {section} : pending'[s] = pending[s]
    BY <2>1, <2>2, <2>4
  <2>11. Shapes'
    BY <2>4, <2>7, <2>9, <2>10 DEF Inv, Shapes, Corpora
  <2>12. CursorsFit' /\ LayoutIsSound'
    BY <2>4 DEF Inv, CursorsFit, LayoutIsSound
  <2>13. \A f, m : ObjectsOf(f, m)' = ObjectsOf(f, m)
    BY <2>4 DEF ObjectsOf
  <2>14. \A f : ObjectsOf(f, mark) = {}
    <3>1. Len(located) \in Nat
      BY <2>1, LengthIsNatural
    <3> QED
      BY <2>3, <3>1 DEF ObjectsOf
  <2>15. name \notin DOMAIN marks[file]
    BY <2>1, <2>7 DEF Inv, LabelsWait
  <2>16. ASSUME NEW f \in 1 .. Files
         PROVE  DOMAIN marks'[f] \subseteq DOMAIN local'[f] /\ (f > file' => DOMAIN marks'[f] = {})
    <3>1. DOMAIN marks[f] \subseteq DOMAIN local[f] /\ (f > file => DOMAIN marks[f] = {})
      BY DEF Inv, LabelsWait
    <3>2. CASE f = file
      <4>1. ~ (f > file')
        BY <2>1, <2>4, <3>2, AssemblerAssumption
      <4>2. DOMAIN marks'[f] = DOMAIN marks[f] \cup {name}
        BY <2>5, <2>8, <3>2
      <4> QED
        BY <2>7, <3>1, <3>2, <4>1, <4>2
    <3>3. CASE f # file
      <4>1. marks'[f] = marks[f] /\ file' = file
        BY <2>4, <2>8, <3>3
      <4>2. DOMAIN local[f] \subseteq DOMAIN local'[f]
        BY <2>7
      <4> QED
        BY <3>1, <4>1, <4>2
    <3> QED
      BY <3>2, <3>3
  <2>17. ASSUME NEW f \in 1 .. Files, NEW n \in DOMAIN marks'[f], NEW m \in Mark, m = marks'[f][n]
         PROVE  LabelIsRight(f, n, m)'
    <3>1. CASE f = file /\ n = name
      <4>1. m = mark
        BY <2>5, <2>8, <2>17, <3>1
      <4>2. \A i \in Nat : ~ IsFirst(i, ObjectsOf(f, m)')
        BY <2>13, <2>14, <4>1 DEF IsFirst
      <4>3. m.after <= Len(located) /\ m.epoch <= epoch[m.section]
        BY <2>1, <2>3, <4>1, LengthIsNatural
      <4>4. n \in pending'[m.section] /\ local'[f][n] = cursor[m.section]
        BY <2>3, <2>7, <2>10, <3>1, <4>1
      <4> QED
        BY <2>4, <4>2, <4>3, <4>4 DEF LabelIsRight
    <3>2. CASE ~ (f = file /\ n = name)
      <4>1. n \in DOMAIN marks[f] /\ m = marks[f][n]
        BY <2>5, <2>8, <2>17, <3>2
      <4>2. LabelIsRight(f, n, m) /\ n \in DOMAIN local[f]
        BY <4>1 DEF Inv, LabelsWait
      <4>3. local'[f][n] = local[f][n] /\ m.section \in Sections
        BY <2>7, <4>2 DEF Mark
      <4>4. n \in pending[m.section] => n \in pending'[m.section]
        BY <2>10, <4>3
      <4> QED
        BY <2>4, <2>13, <4>2, <4>3, <4>4 DEF LabelIsRight
    <3> QED
      BY <3>1, <3>2
  <2>18. ASSUME NEW s \in Sections, NEW n \in pending'[s]
         PROVE  /\ n \in DOMAIN marks'[file']
                /\ \A m \in Mark : m = marks'[file'][n] => MayWait(s, n, m)'
    <3>1. CASE n = name /\ s = section
      <4>1. n \in DOMAIN marks'[file] /\ marks'[file][n] = mark
        BY <2>5, <2>8, <3>1
      <4> QED
        BY <2>3, <2>4, <2>13, <2>14, <3>1, <4>1 DEF MayWait
    <3>2. CASE ~ (n = name /\ s = section)
      <4>1. n \in pending[s]
        BY <2>10, <2>18, <3>2
      <4>2. n \in DOMAIN marks[file] /\ \A m \in Mark : m = marks[file][n] => MayWait(s, n, m)
        BY <4>1 DEF Inv, LabelsWait
      <4>3. n # name
        BY <2>15, <4>2
      <4>4. n \in DOMAIN marks'[file] /\ marks'[file][n] = marks[file][n]
        BY <2>5, <2>8, <4>2, <4>3
      <4> QED
        BY <2>4, <2>13, <4>2, <4>4 DEF MayWait
    <3> QED
      BY <3>1, <3>2
  <2>19. LabelsWait'
    <3>1. \A f \in 1 .. Files : \A n \in DOMAIN marks'[f] : \A m \in Mark :
             m = marks'[f][n] => LabelIsRight(f, n, m)'
      BY <2>17
    <3> QED
      BY <2>16, <2>18, <3>1 DEF LabelsWait
  <2>20. PublicAgrees'
    BY <2>4 DEF Inv, Shapes, PublicAgrees
  <2>21. ConstantsStay
    BY <2>7 DEF ConstantsStay
  <2> QED
    BY <2>7, <2>11, <2>12, <2>19, <2>20, <2>21 DEF Inv
<1> QED
  BY <1>1, <1>2


(* A label that waits is at the cursor of its section. *)
LEMMA WaitingAtCursor ==
  ASSUME Shapes, LabelsWait, NEW s \in Sections, NEW n \in pending[s]
  PROVE  /\ n \in DOMAIN marks[file] /\ n \in DOMAIN local[file]
         /\ local[file][n] = cursor[s]
<1>1. file \in 1 .. Files /\ n \in DOMAIN marks[file]
  BY DEF Shapes, LabelsWait
<1>2. n \in DOMAIN local[file]
  BY <1>1 DEF LabelsWait
<1>3. marks[file][n] \in Mark
  <2>1. marks[file] \in MarkTables
    BY <1>1 DEF Shapes
  <2> QED
    BY <1>1, <2>1 DEF MarkTables
<1>4. PICK m \in Mark : m = marks[file][n]
  BY <1>3
<1>5. MayWait(s, n, m)
  BY <1>4 DEF LabelsWait
<1>6. LabelIsRight(file, n, m)
  BY <1>1, <1>4 DEF LabelsWait
<1>7. m.section = s /\ m.epoch = epoch[s] /\ ObjectsOf(file, m) = {}
  BY <1>5 DEF MayWait
<1>8. local[file][n] = cursor[s]
  BY <1>6, <1>7 DEF LabelIsRight
<1> QED
  BY <1>1, <1>2, <1>8

LEMMA NewOrigin ==
  ASSUME NEW s \in Sections, NEW x, NEW requested \in Int, Shapes,
         OriginError(s, x, requested) = "none"
  PROVE  /\ cursor[s] <= requested
         /\ requested <= SectionBase[s] + SectionSize[s]
         /\ s \in TextSections => requested % 4 = 0
<1> DEFINE errors ==
             <<Undefined(x),
               Raise(requested < cursor[s], "A213"),
               Raise(requested > SectionBase[s] + SectionSize[s],
                     IF s \in TextSections THEN "A216" ELSE "A217"),
               Raise(s \in TextSections /\ requested % 4 # 0, "A213")>>
<1>1. /\ DOMAIN errors = 1 .. 4
      /\ errors[2] = Raise(requested < cursor[s], "A213")
      /\ errors[3] = Raise(requested > SectionBase[s] + SectionSize[s],
                           IF s \in TextSections THEN "A216" ELSE "A217")
      /\ errors[4] = Raise(s \in TextSections /\ requested % 4 # 0, "A213")
  OBVIOUS
<1>2. FirstError(errors) = "none"
  BY DEF OriginError
<1> HIDE DEF errors
<1>3. \A n \in Nat : DOMAIN errors = 1 .. n => \A i \in 1 .. n : errors[i] = "none"
  BY <1>2, NoErrors
<1>4. errors[2] = "none" /\ errors[3] = "none" /\ errors[4] = "none"
  <2>1. \A i \in 1 .. 4 : errors[i] = "none"
    BY <1>1, <1>3
  <2> QED
    BY <2>1
<1>5. ~ (requested < cursor[s])
  BY <1>1, <1>4 DEF Raise
<1>6. ~ (requested > SectionBase[s] + SectionSize[s])
  BY <1>1, <1>4 DEF Raise
<1>7. ~ (s \in TextSections /\ requested % 4 # 0)
  BY <1>1, <1>4 DEF Raise
<1>8. cursor[s] \in Nat /\ SectionBase[s] \in Nat /\ SectionSize[s] \in Nat
  BY AssemblerAssumption DEF Shapes
<1> QED
  BY <1>5, <1>6, <1>7, <1>8

LEMMA SectionKeepsInv ==
  ASSUME Inv, phase = "first", NEW st, IsLine(st), ReadSection(st), corpus' \in Corpora
  PROVE  Inv' /\ ConstantsStay
<1> DEFINE s == st.section
           x == Resolve(st.origin, ViewOf(local, global, file))
           requested == IF st.origin = NoOrigin THEN cursor[s] ELSE x.value
           code == OriginError(s, x, requested)
<1>1. CASE code # "none"
  BY <1>1, RefusedKeepsInv DEF ReadSection
<1>2. CASE code = "none"
  <2>1. /\ file \in 1 .. Files /\ cursor \in [Sections -> Nat] /\ epoch \in [Sections -> Nat]
        /\ pending \in [Sections -> SUBSET Names]
    BY DEF Inv, Shapes
  <2>2. s \in Sections /\ IsExpression(st.origin)
    BY DEF IsLine, ReadSection
  <2>3. x.value \in Int
    BY <2>2, ResolvedIsInt DEF Inv
  <2>4. requested \in Int
    BY <2>1, <2>2, <2>3
  <2>5. /\ section' = s
        /\ cursor' = [cursor EXCEPT ![s] = requested]
        /\ requested = cursor[s] => UNCHANGED <<pending, epoch>>
        /\ requested # cursor[s] => /\ pending' = [pending EXCEPT ![s] = {}]
                                    /\ epoch' = [epoch EXCEPT ![s] = epoch[s] + 1]
        /\ UNCHANGED <<declared, phase, file, local, global, located, marks, public>>
    BY <1>2 DEF ReadSection
  <2> HIDE DEF s, requested, x, code
  <2>6. /\ cursor[s] <= requested /\ requested <= SectionBase[s] + SectionSize[s]
        /\ s \in TextSections => requested % 4 = 0
    BY <1>2, <2>2, <2>4, NewOrigin DEF Inv, code
  <2>7. requested \in Nat
    BY <2>1, <2>2, <2>4, <2>6
  <2>8. /\ cursor' \in [Sections -> Nat] /\ cursor'[s] = requested
        /\ \A t \in Sections \ {s} : cursor'[t] = cursor[t]
        /\ \A t \in Sections : cursor[t] <= cursor'[t]
    BY <2>1, <2>2, <2>5, <2>6, <2>7
  <2>9. /\ pending' \in [Sections -> SUBSET Names] /\ epoch' \in [Sections -> Nat]
        /\ \A t \in Sections \ {s} : pending'[t] = pending[t] /\ epoch'[t] = epoch[t]
        /\ \A t \in Sections : epoch[t] <= epoch'[t]
        /\ \/ requested = cursor[s] /\ pending'[s] = pending[s] /\ epoch'[s] = epoch[s]
           \/ pending'[s] = {} /\ epoch'[s] = epoch[s] + 1
    <3>1. CASE requested = cursor[s]
      BY <2>1, <2>2, <2>5, <3>1
    <3>2. CASE requested # cursor[s]
      BY <2>1, <2>2, <2>5, <3>2
    <3> QED
      BY <3>1, <3>2
  <2>10. Shapes'
    BY <2>2, <2>5, <2>8, <2>9 DEF Inv, Shapes, Corpora
  <2>11. CursorsFit'
    <3>1. \A t \in Sections : /\ SectionBase[t] <= cursor'[t]
                              /\ cursor'[t] <= SectionBase[t] + SectionSize[t]
      <4>1. \A t \in Sections : /\ SectionBase[t] <= cursor[t]
                                /\ cursor[t] <= SectionBase[t] + SectionSize[t]
                                /\ SectionBase[t] \in Nat /\ cursor[t] \in Nat
        BY <2>1, AssemblerAssumption DEF Inv, CursorsFit
      <4> QED
        BY <2>6, <2>7, <2>8, <4>1
    <3>2. \A t \in TextSections : cursor'[t] % 4 = 0
      BY <2>6, <2>8 DEF Inv, CursorsFit, TextSections, Sections
    <3>3. ASSUME NEW i \in 1 .. Len(located')
          PROVE  located'[i].address + located'[i].size <= cursor'[located'[i].section]
      <4>1. IsObject(located[i])
        BY <2>5, <3>3 DEF Inv, Shapes
      <4>2. located[i].address + located[i].size <= cursor[located[i].section]
        BY <2>5, <3>3 DEF Inv, CursorsFit
      <4>3. /\ located[i].address \in Nat /\ located[i].size \in Nat
            /\ located[i].section \in Sections
        BY <4>1 DEF IsObject
      <4> QED
        BY <2>1, <2>5, <2>8, <4>2, <4>3
    <3> QED
      BY <3>1, <3>2, <3>3 DEF CursorsFit
  <2>12. LayoutIsSound'
    BY <2>5 DEF Inv, LayoutIsSound
  <2>13. \A f, m : ObjectsOf(f, m)' = ObjectsOf(f, m)
    BY <2>5 DEF ObjectsOf
  <2>14. ASSUME NEW f \in 1 .. Files, NEW n \in DOMAIN marks[f], NEW m \in Mark, m = marks[f][n]
         PROVE  LabelIsRight(f, n, m)'
    <3>1. LabelIsRight(f, n, m)
      BY <2>14 DEF Inv, LabelsWait
    <3>2. m.section \in Sections /\ m.epoch \in Nat
      BY DEF Mark
    <3>3. m.epoch <= epoch'[m.section]
      BY <2>1, <2>9, <3>1, <3>2 DEF LabelIsRight
    <3>4. epoch'[m.section] = m.epoch => /\ epoch[m.section] = m.epoch
                                         /\ pending'[m.section] = pending[m.section]
                                         /\ cursor'[m.section] = cursor[m.section]
      <4>1. m.epoch <= epoch[m.section]
        BY <3>1 DEF LabelIsRight
      <4>2. CASE m.section = s
        BY <2>1, <2>8, <2>9, <3>2, <4>1, <4>2
      <4>3. CASE m.section # s
        BY <2>8, <2>9, <3>2, <4>3
      <4> QED
        BY <4>2, <4>3
    <3> QED
      BY <2>5, <2>13, <3>1, <3>3, <3>4 DEF LabelIsRight
  <2>15. ASSUME NEW t \in Sections, NEW n \in pending'[t]
         PROVE  /\ n \in DOMAIN marks'[file']
                /\ \A m \in Mark : m = marks'[file'][n] => MayWait(t, n, m)'
    <3>1. n \in pending[t] /\ epoch'[t] = epoch[t]
      BY <2>9, <2>15
    <3>2. n \in DOMAIN marks[file] /\ \A m \in Mark : m = marks[file][n] => MayWait(t, n, m)
      BY <3>1 DEF Inv, LabelsWait
    <3> QED
      BY <2>5, <2>13, <3>1, <3>2 DEF MayWait
  <2>16. LabelsWait'
    <3>1. \A f \in 1 .. Files : \A n \in DOMAIN marks'[f] : \A m \in Mark :
             m = marks'[f][n] => LabelIsRight(f, n, m)'
      BY <2>5, <2>14
    <3>2. \A f \in 1 .. Files : /\ DOMAIN marks'[f] \subseteq DOMAIN local'[f]
                                /\ f > file' => DOMAIN marks'[f] = {}
      BY <2>5 DEF Inv, LabelsWait
    <3> QED
      BY <2>15, <3>1, <3>2 DEF LabelsWait
  <2>17. Exported'
    BY <2>5 DEF Inv, Exported, IsExport
  <2>18. PublicAgrees'
    BY <2>5 DEF Inv, Shapes, PublicAgrees
  <2>19. ConstantsStay
    BY <2>5 DEF ConstantsStay
  <2> QED
    BY <2>10, <2>11, <2>12, <2>16, <2>17, <2>18, <2>19 DEF Inv
<1> QED
  BY <1>1, <1>2

LEMMA FileKeepsInv ==
  ASSUME Inv, phase = "first", NEW st, ReadFile(st), corpus' \in Corpora
  PROVE  Inv' /\ ConstantsStay
<1>1. /\ file \in 1 .. Files /\ file < Files /\ file' = file + 1 /\ section' = "text"
      /\ pending' = [s \in Sections |-> {}]
      /\ UNCHANGED <<declared, phase, cursor, local, global, located, marks, epoch, public>>
  BY DEF Inv, Shapes, ReadFile, PendingAtFile
<1>2. file' \in 1 .. Files /\ file' > file
  BY <1>1, AssemblerAssumption
<1>3. Shapes'
  BY <1>1, <1>2 DEF Inv, Shapes, Corpora, Sections
<1>4. CursorsFit' /\ LayoutIsSound'
  BY <1>1 DEF Inv, CursorsFit, LayoutIsSound
<1>5. \A f, m : ObjectsOf(f, m)' = ObjectsOf(f, m)
  BY <1>1 DEF ObjectsOf
<1>6. ASSUME NEW f \in 1 .. Files
      PROVE  DOMAIN marks'[f] \subseteq DOMAIN local'[f] /\ (f >= file' => DOMAIN marks'[f] = {})
  <2>1. DOMAIN marks[f] \subseteq DOMAIN local[f] /\ (f > file => DOMAIN marks[f] = {})
    BY DEF Inv, LabelsWait
  <2>2. f >= file' => f > file
    BY <1>1, AssemblerAssumption
  <2> QED
    BY <1>1, <2>1, <2>2
<1>7. ASSUME NEW f \in 1 .. Files, NEW n \in DOMAIN marks[f], NEW m \in Mark, m = marks[f][n]
      PROVE  LabelIsRight(f, n, m)'
  <2>1. LabelIsRight(f, n, m)
    BY <1>7 DEF Inv, LabelsWait
  <2>2. f # file'
    BY <1>1, <1>2, <1>6, <1>7, AssemblerAssumption
  <2> QED
    BY <1>1, <1>5, <2>1, <2>2 DEF LabelIsRight
<1>8. LabelsWait'
  <2>1. \A f \in 1 .. Files : \A n \in DOMAIN marks'[f] : \A m \in Mark :
           m = marks'[f][n] => LabelIsRight(f, n, m)'
    BY <1>1, <1>7
  <2>2. \A s \in Sections : pending'[s] = {}
    BY <1>1
  <2>3. \A f \in 1 .. Files : DOMAIN marks'[f] \subseteq DOMAIN local'[f]
                              /\ (f > file' => DOMAIN marks'[f] = {})
    BY <1>2, <1>6, AssemblerAssumption
  <2> QED
    BY <2>1, <2>2, <2>3 DEF LabelsWait
<1>9. Exported' /\ PublicAgrees'
  BY <1>1 DEF Inv, Shapes, Exported, IsExport, PublicAgrees
<1>10. ConstantsStay
  BY <1>1 DEF ConstantsStay
<1> QED
  BY <1>3, <1>4, <1>8, <1>9, <1>10 DEF Inv


-----------------------------------------------------------------------------
(* Statements that place an object. *)

LEMMA PlaceKeepsInv ==
  ASSUME Inv, phase = "first", corpus' \in Corpora,
         NEW o, IsObject(o), located' = Append(located, o),
         o.file = file, o.section = section, o.epoch = epoch[section],
         cursor[section] <= o.address,
         cursor' = [cursor EXCEPT ![section] = o.address + o.size],
         o.address + o.size <= SectionBase[section] + SectionSize[section],
         section \in TextSections => o.address % 4 = 0 /\ o.size % 4 = 0,
         pending' = [pending EXCEPT ![section] = IF o.size > 0 THEN {} ELSE pending[section]],
         UNCHANGED <<declared, phase, file, section, marks, epoch, public>>,
         local' \in [1 .. Files -> Tables], global' \in Tables, Exported',
         \A f \in 1 .. Files : DOMAIN local'[f] = DOMAIN local[f],
         \A f \in 1 .. Files \ {file} : local'[f] = local[f],
         \A n \in DOMAIN local[file] :
            local'[file][n] = IF n \in pending[section] THEN o.address ELSE local[file][n]
  PROVE  Inv' /\ ConstantsStay
<1>1. cursor' \in [Sections -> Nat] /\ CursorsFit' /\ LayoutIsSound'
  BY PlaceKeepsLayout DEF Inv
<1>2. LabelsWait'
  BY PlaceKeepsLabels DEF Inv
<1>3. IsSequence(located') /\ \A i \in 1 .. Len(located') : IsObject(located'[i])
  BY PlacedObjects DEF Inv
<1>4. pending' \in [Sections -> SUBSET Names]
  BY DEF Inv, Shapes
<1>5. Shapes'
  BY <1>1, <1>3, <1>4 DEF Inv, Shapes, Corpora, IsObject
<1>6. PublicAgrees'
  BY DEF Inv, Shapes, PublicAgrees
<1>7. ConstantsStay
  <2>1. section \in Sections /\ file \in 1 .. Files
    BY DEF Inv, Shapes
  <2>2. pending[section] \subseteq DOMAIN marks[file]
    BY <2>1 DEF Inv, LabelsWait
  <2> QED
    BY <2>1, <2>2 DEF ConstantsStay
<1> QED
  BY <1>1, <1>2, <1>5, <1>6, <1>7 DEF Inv

LEMMA InstructionKeepsInv ==
  ASSUME Inv, phase = "first", NEW st, ReadInstruction(st), corpus' \in Corpora
  PROVE  Inv' /\ ConstantsStay
<1> DEFINE count == WordCount(st)
           cursors == [cursor EXCEPT ![section] = @ + 4 * count.value]
           errors == <<Raise(~settings.macro /\ UsesMacro(st, count.value), "A240"),
                       Raise(~settings.at /\ UsesTemporary(st, count.value), "A241"),
                       LimitError(cursors)>>
           code == IF section \notin TextSections THEN "A215"
                   ELSE IF ~Ok(count) THEN count.error
                   ELSE FirstError(errors)
<1>1. CASE code # "none"
  BY <1>1, RefusedKeepsInv DEF ReadInstruction
<1>2. CASE code = "none"
  <2>1. /\ section \in Sections /\ file \in 1 .. Files /\ cursor \in [Sections -> Nat]
        /\ epoch \in [Sections -> Nat] /\ local \in [1 .. Files -> Tables] /\ global \in Tables
        /\ SectionBase[section] \in Nat /\ SectionSize[section] \in Nat
    BY AssemblerAssumption DEF Inv, Shapes
  <2>2. section \in TextSections /\ Ok(count) /\ FirstError(errors) = "none"
    BY <1>2 DEF Ok
  <2>3. count.value \in Nat \ {0}
    BY <2>2, InstructionsHaveWords
  <2> DEFINE size == 4 * count.value
             o == [statement |-> st, file |-> file, section |-> section,
                   address |-> cursor[section], size |-> size,
                   settings |-> settings, epoch |-> epoch[section]]
  <2>4. /\ pending' = [pending EXCEPT ![section] = {}]
        /\ located' = Append(located, o)
        /\ cursor' = cursors
        /\ UNCHANGED <<declared, phase, file, section, local, global, marks, epoch, public>>
    BY <1>2 DEF ReadInstruction, Place, reading
  <2>5. cursors = [cursor EXCEPT ![section] = cursor[section] + size]
    OBVIOUS
  <2>6. /\ o.file = file /\ o.section = section /\ o.address = cursor[section]
        /\ o.size = size /\ o.epoch = epoch[section]
    OBVIOUS
  <2>7. DOMAIN errors = 1 .. 3 /\ errors[3] = LimitError(cursors)
    OBVIOUS
  <2>8. size \in Nat /\ size > 0 /\ size % 4 = 0
    BY <2>3
  <2> HIDE DEF o, errors, cursors, count, size, code
  <2>9. LimitError(cursors) = "none"
    <3>1. \A n \in Nat : DOMAIN errors = 1 .. n => \A i \in 1 .. n : errors[i] = "none"
      BY <2>2, NoErrors
    <3> QED
      BY <2>7, <3>1
  <2>10. ~ (cursors[section] - SectionBase[section] > SectionSize[section])
    BY <2>1, <2>9, WithinSections
  <2>11. cursors[section] = cursor[section] + size
    BY <2>1, <2>5
  <2>12. o.address + o.size <= SectionBase[section] + SectionSize[section]
    BY <2>1, <2>6, <2>8, <2>10, <2>11
  <2>13. cursor[section] % 4 = 0 /\ cursor[section] \in Nat
    BY <2>1, <2>2 DEF Inv, CursorsFit
  <2>14. IsObject(o)
    BY <2>1, <2>6, <2>8, <2>13 DEF IsObject
  <2>15. \A n \in DOMAIN local[file] : local'[file][n] = IF n \in pending[section] THEN o.address
                                                        ELSE local[file][n]
    BY <2>1, <2>4, <2>6, WaitingAtCursor DEF Inv
  <2>16. pending' = [pending EXCEPT ![section] = IF o.size > 0 THEN {} ELSE pending[section]]
    BY <2>4, <2>6, <2>8
  <2>17. cursor' = [cursor EXCEPT ![section] = o.address + o.size] /\ cursor[section] <= o.address
    BY <2>4, <2>5, <2>6, <2>13
  <2>18. section \in TextSections => o.address % 4 = 0 /\ o.size % 4 = 0
    BY <2>6, <2>8, <2>13
  <2>19. Exported' /\ local' \in [1 .. Files -> Tables] /\ global' \in Tables
    BY <2>1, <2>4 DEF Inv, Exported, IsExport
  <2>20. /\ \A f \in 1 .. Files : DOMAIN local'[f] = DOMAIN local[f]
         /\ \A f \in 1 .. Files \ {file} : local'[f] = local[f]
    BY <2>4
  <2> QED
    BY <2>4, <2>6, <2>12, <2>14, <2>15, <2>16, <2>17, <2>18, <2>19, <2>20, PlaceKeepsInv
<1> QED
  BY <1>1, <1>2


LEMMA DirectiveKeepsInv ==
  ASSUME Inv, phase = "first", NEW st, IsLine(st), ReadDirective(st), corpus' \in Corpora
  PROVE  Inv' /\ ConstantsStay
<1> DEFINE x == Resolve(st.reserve, ViewOf(local, global, file))
           size == st.width * Len(st.values) + x.value
           address == Aligned(cursor[section], st.align)
           cursors == [cursor EXCEPT ![section] = address + size]
           errors == <<Raise(section \in TextSections /\ ~AllowedInText(st), "A205"),
                       Undefined(x),
                       Raise(x.value < 0, "A208"),
                       LimitError(cursors)>>
           code == FirstError(errors)
<1>1. CASE code # "none"
  BY <1>1, RefusedKeepsInv DEF ReadDirective
<1>2. CASE code = "none"
  <2>1. /\ section \in Sections /\ file \in 1 .. Files /\ cursor \in [Sections -> Nat]
        /\ epoch \in [Sections -> Nat] /\ local \in [1 .. Files -> Tables] /\ global \in Tables
        /\ SectionBase[section] \in Nat /\ SectionSize[section] \in Nat
        /\ cursor[section] \in Nat
    BY AssemblerAssumption DEF Inv, Shapes
  <2>2. IsDirective(st)
    BY DEF IsLine, ReadDirective
  <2>3. /\ st.align \in Nat \ {0} /\ (st.align \in {1, 2} \/ st.align % 4 = 0)
        /\ st.width \in Nat /\ Len(st.values) \in Nat /\ IsExpression(st.reserve)
        /\ st.width # 1 => st.reserve = Constant(0)
    BY <2>2 DEF IsDirective
  <2>4. x.value \in Int
    BY <2>3, ResolvedIsInt DEF Inv
  <2> DEFINE o == [statement |-> st, file |-> file, section |-> section,
                   address |-> address, size |-> size,
                   settings |-> settings, epoch |-> epoch[section]]
  <2>5. /\ IF address # cursor[section] THEN MovePending(address) ELSE UNCHANGED <<local, global>>
        /\ pending' = [pending EXCEPT ![section] = IF size > 0 THEN {} ELSE pending[section]]
        /\ located' = Append(located, o)
        /\ cursor' = cursors
        /\ UNCHANGED <<declared, phase, file, section, marks, epoch, public>>
    BY <1>2 DEF ReadDirective, Place, StillWaiting, reading
  <2>6. /\ o.file = file /\ o.section = section /\ o.address = address
        /\ o.size = size /\ o.epoch = epoch[section]
    OBVIOUS
  <2>7. /\ DOMAIN errors = 1 .. 4 /\ errors[4] = LimitError(cursors)
        /\ errors[1] = Raise(section \in TextSections /\ ~AllowedInText(st), "A205")
        /\ errors[3] = Raise(x.value < 0, "A208")
    OBVIOUS
  <2>8. address = Aligned(cursor[section], st.align)
    OBVIOUS
  <2>9. st.reserve = Constant(0) => x.value = 0
    <3>1. ASSUME NEW y, NEW view, y.kind = "constant"
          PROVE  Resolve(y, view) = y
      BY <3>1 DEF Resolve
    <3>2. Constant(0).kind = "constant" /\ Constant(0).value = 0
      BY DEF Constant
    <3>3. \A view : st.reserve = Constant(0) => Resolve(st.reserve, view) = st.reserve
      BY <3>1, <3>2
    <3> QED
      BY <3>2, <3>3
  <2>10. FirstError(errors) = "none"
    BY <1>2
  <2>11. size = st.width * Len(st.values) + x.value
    OBVIOUS
  <2>12. cursors = [cursor EXCEPT ![section] = address + size]
    OBVIOUS
  <2> HIDE DEF o, errors, cursors, address, size, x, code
  <2>26. /\ address \in Nat /\ cursor[section] <= address
         /\ st.align % 4 = 0 => address % 4 = 0
         /\ st.align \in {1, 2} /\ cursor[section] % 4 = 0 => address = cursor[section]
    <3>1. PICK a \in Nat : a = cursor[section]
      BY <2>1
    <3>2. PICK n \in Nat \ {0} : n = st.align
      BY <2>3
    <3>3. /\ Aligned(a, n) \in Nat /\ a <= Aligned(a, n)
          /\ n % 4 = 0 => Aligned(a, n) % 4 = 0
          /\ n \in {1, 2} /\ a % 4 = 0 => Aligned(a, n) = a
      BY AlignedUp
    <3>4. address = Aligned(a, n)
      BY <2>8, <3>1, <3>2
    <3> QED
      BY <3>1, <3>2, <3>3, <3>4
  <2>13. /\ LimitError(cursors) = "none" /\ ~ (x.value < 0)
         /\ section \in TextSections => AllowedInText(st)
    <3>1. \A n \in Nat : DOMAIN errors = 1 .. n => \A i \in 1 .. n : errors[i] = "none"
      BY <2>10, NoErrors
    <3>2. errors[1] = "none" /\ errors[3] = "none" /\ errors[4] = "none"
      BY <2>7, <3>1
    <3>3. ~ (section \in TextSections /\ ~AllowedInText(st))
      BY <2>7, <3>2 DEF Raise
    <3>4. ~ (x.value < 0)
      BY <2>7, <3>2 DEF Raise
    <3> QED
      BY <2>7, <3>2, <3>3, <3>4
  <2>14. size \in Nat
    <3> DEFINE p == st.width * Len(st.values)
    <3>1. p \in Nat
      BY <2>3
    <3>2. size = p + x.value
      BY <2>11
    <3> HIDE DEF p
    <3> QED
      BY <2>4, <2>13, <3>1, <3>2
  <2>15. section \in TextSections => address % 4 = 0 /\ size % 4 = 0
    <3> SUFFICES ASSUME section \in TextSections PROVE address % 4 = 0 /\ size % 4 = 0
      OBVIOUS
    <3>1. cursor[section] % 4 = 0
      BY DEF Inv, CursorsFit
    <3>2. st.width = 0 \/ (st.width = 4 /\ st.align = 4)
      BY <2>13 DEF AllowedInText
    <3>3. x.value = 0
      <4>1. st.width # 1
        BY <3>2
      <4> QED
        BY <2>3, <2>9, <4>1
    <3>4. size % 4 = 0
      <4>1. \A k \in Nat : (4 * k) % 4 = 0 /\ (0 * k) % 4 = 0 /\ 4 * k + 0 = 4 * k
                           /\ 0 * k + 0 = 0 * k
        OBVIOUS
      <4>2. CASE st.width = 0
        BY <2>3, <2>11, <3>3, <4>1, <4>2
      <4>3. CASE st.width = 4
        BY <2>3, <2>11, <3>3, <4>1, <4>3
      <4> QED
        BY <3>2, <4>2, <4>3
    <3>5. address % 4 = 0
      BY <2>3, <2>26, <3>1
    <3> QED
      BY <3>4, <3>5
  <2>16. ~ (cursors[section] - SectionBase[section] > SectionSize[section])
    BY <2>1, <2>13, WithinSections
  <2>17. cursors[section] = address + size
    BY <2>1, <2>12
  <2>18. o.address + o.size <= SectionBase[section] + SectionSize[section]
    BY <2>1, <2>6, <2>26, <2>14, <2>16, <2>17
  <2>19. IsObject(o)
    BY <2>1, <2>6, <2>26, <2>14 DEF IsObject
  <2>20. /\ local' \in [1 .. Files -> Tables] /\ global' \in Tables
         /\ \A f \in 1 .. Files \ {file} : local'[f] = local[f]
         /\ DOMAIN local'[file] = DOMAIN local[file]
         /\ \A n \in DOMAIN local[file] :
               local'[file][n] = IF n \in pending[section] THEN address ELSE local[file][n]
         /\ Exported'
    <3>1. CASE address # cursor[section]
      BY <2>5, <2>26, <3>1, MoveKeepsExports DEF Inv
    <3>2. CASE address = cursor[section]
      <4>1. local' = local /\ global' = global /\ declared' = declared
        BY <2>5, <3>2
      <4>2. Exported'
        BY <4>1 DEF Inv, Exported, IsExport
      <4>3. \A n \in pending[section] : local[file][n] = cursor[section]
        BY <2>1, WaitingAtCursor DEF Inv
      <4> QED
        BY <2>1, <3>2, <4>1, <4>2, <4>3
    <3> QED
      BY <3>1, <3>2
  <2>21. pending' = [pending EXCEPT ![section] = IF o.size > 0 THEN {} ELSE pending[section]]
    BY <2>5, <2>6
  <2>22. cursor' = [cursor EXCEPT ![section] = o.address + o.size] /\ cursor[section] <= o.address
    BY <2>5, <2>6, <2>26, <2>12
  <2>23. section \in TextSections => o.address % 4 = 0 /\ o.size % 4 = 0
    BY <2>6, <2>15
  <2>24. \A f \in 1 .. Files : DOMAIN local'[f] = DOMAIN local[f]
    BY <2>20
  <2>25. \A n \in DOMAIN local[file] : local'[file][n] = IF n \in pending[section] THEN o.address
                                                        ELSE local[file][n]
    BY <2>6, <2>20
  <2> QED
    BY <2>5, <2>6, <2>18, <2>19, <2>20, <2>21, <2>22, <2>23, <2>24, <2>25, PlaceKeepsInv
<1> QED
  BY <1>1, <1>2


-----------------------------------------------------------------------------
(* Every step. *)

LEMMA ReadKeepsInv ==
  ASSUME Inv, Read
  PROVE  Inv' /\ ConstantsStay
<1>1. /\ phase = "first" /\ corpus \in Corpora
      /\ corpus.next \in DOMAIN Corpus[corpus.kind]
      /\ corpus' = [corpus EXCEPT !.next = corpus.next + 1]
  BY DEF Read, Inv, Shapes, Corpora
<1>2. corpus' \in Corpora
  <2>1. corpus.next \in Nat
    BY <1>1 DEF Corpora
  <2> QED
    BY <1>1, <2>1 DEF Corpora
<1>3. PICK st \in Corpus[corpus.kind][corpus.next] :
        \/ ReadFile(st) \/ ReadLabel(st) \/ ReadSection(st) \/ ReadConstant(st)
        \/ ReadSetting(st) \/ ReadDirective(st) \/ ReadInstruction(st)
  BY DEF Read
<1>4. IsLine(st)
  BY <1>1, CorpusAssumption DEF Corpora
<1> QED
  BY <1>1, <1>2, <1>3, <1>4, FileKeepsInv, LabelKeepsInv, SectionKeepsInv, ConstantKeepsInv,
     SettingKeepsInv, DirectiveKeepsInv, InstructionKeepsInv

(* The names of the symbol table are the exported ones and those of one    *)
(* file, which then is their home.                                         *)
LEMMA TableAgrees ==
  ASSUME Inv, NEW n \in DOMAIN PublicSymbols.plain, NEW f \in FilesWith(n),
         local[f][n] # PublicSymbols.plain[n]
  PROVE  n \in DOMAIN global /\ n \notin declared[f]
<1> DEFINE home(k) == CHOOSE g \in 1 .. Files : k \in DOMAIN local[g]
           alone == [k \in OneFileNames |-> local[home(k)][k]]
<1>1. PublicSymbols.plain = Override(alone, global)
  BY DEF PublicSymbols
<1>2. /\ n \in OneFileNames \cup DOMAIN global
      /\ n \in DOMAIN global => PublicSymbols.plain[n] = global[n]
      /\ n \notin DOMAIN global => PublicSymbols.plain[n] = alone[n]
  BY <1>1 DEF Override
<1>3. f \in 1 .. Files /\ n \in DOMAIN local[f]
  BY DEF FilesWith
<1>4. CASE n \in DOMAIN global
  <2>1. PICK g \in 1 .. Files : /\ IsExport(n, g) /\ local[g][n] = global[n]
                                /\ \A h \in 1 .. Files : IsExport(n, h) => h = g
    BY <1>4 DEF Inv, Exported
  <2>2. f # g
    BY <1>2, <1>4, <2>1
  <2> QED
    BY <1>3, <1>4, <2>1, <2>2 DEF IsExport
<1>5. CASE n \notin DOMAIN global
  <2>1. n \in OneFileNames /\ Cardinality(FilesWith(n)) = 1
    BY <1>2, <1>5 DEF OneFileNames
  <2>2. IsFiniteSet(FilesWith(n))
    <3>1. IsFiniteSet(1 .. Files) /\ FilesWith(n) \subseteq 1 .. Files
      BY FS_Interval, AssemblerAssumption DEF FilesWith
    <3> QED
      BY <3>1, FS_Subset
  <2>3. PICK g : FilesWith(n) = {g}
    BY <2>1, <2>2, FS_Singleton
  <2>4. home(n) \in 1 .. Files /\ n \in DOMAIN local[home(n)]
    BY <1>3
  <2>5. home(n) \in FilesWith(n)
    BY <2>4 DEF FilesWith
  <2>6. f = home(n)
    BY <2>3, <2>5
  <2>7. alone[n] = local[home(n)][n]
    BY <2>1
  <2> QED
    BY <1>2, <1>5, <2>6, <2>7
<1> QED
  BY <1>4, <1>5

LEMMA EndKeepsInv ==
  ASSUME Inv, EndFirstPass
  PROVE  Inv' /\ ConstantsStay
<1>1. corpus' = corpus /\ corpus' \in Corpora
  BY DEF EndFirstPass, Inv, Shapes, Corpora
<1>2. CASE \E code : Refused(code)
  BY <1>1, <1>2, RefusedKeepsInv
<1>3. CASE ~ \E code : Refused(code)
  <2>1. /\ phase' = "second" /\ public' = PublicSymbols
        /\ UNCHANGED <<declared, reading, layout>>
    BY <1>3 DEF EndFirstPass
  <2>2. UNCHANGED <<corpus, declared, file, section, cursor, pending, local, global, located,
                    marks, epoch>>
    BY <1>1, <2>1 DEF reading, layout
  <2>3. Shapes'
    BY <2>1, <2>2 DEF Inv, Shapes
  <2>4. CursorsFit' /\ LayoutIsSound'
    BY <2>2 DEF Inv, CursorsFit, LayoutIsSound
  <2>5. LabelsWait'
    BY <2>2 DEF Inv, LabelsWait, LabelIsRight, MayWait, ObjectsOf
  <2>6. Exported'
    BY <2>2 DEF Inv, Exported, IsExport
  <2>7. PublicAgrees'
    <3>1. \A n : FilesWith(n)' = FilesWith(n)
      BY <2>2 DEF FilesWith
    <3>2. \A t : t = PublicSymbols => \A n \in DOMAIN t.plain : \A f \in FilesWith(n) :
             local[f][n] # t.plain[n] => n \in DOMAIN global /\ n \notin declared[f]
      BY TableAgrees
    <3> QED
      BY <2>1, <2>2, <3>1, <3>2 DEF PublicAgrees
  <2>8. ConstantsStay
    BY <2>2 DEF ConstantsStay
  <2> QED
    BY <2>3, <2>4, <2>5, <2>6, <2>7, <2>8 DEF Inv
<1> QED
  BY <1>2, <1>3

LEMMA SecondPassKeepsInv ==
  ASSUME Inv, Emit \/ Finished
  PROVE  Inv' /\ ConstantsStay
<1>1. corpus' \in Corpora /\ phase = "second"
  BY DEF Emit, Finished, Inv, Shapes, Corpora
<1>2. CASE \E code : Refused(code)
  BY <1>1, <1>2, RefusedKeepsInv
<1>3. CASE ~ \E code : Refused(code)
  <2>1. UNCHANGED <<declared, reading, layout, public>> /\ phase' # "first"
    <3>1. CASE Emit
      BY <1>1, <1>3, <3>1 DEF Emit
    <3>2. CASE Finished
      BY <3>2 DEF Finished
    <3> QED
      BY <3>1, <3>2
  <2>2. UNCHANGED <<declared, file, layout, public>> /\ section' = section
    BY <2>1 DEF reading
  <2>3. section' \in Sections
    BY <2>2 DEF Inv, Shapes
  <2> QED
    BY <1>1, <2>1, <2>2, <2>3, LayoutStays
<1> QED
  BY <1>2, <1>3

LEMMA StepKeepsInv ==
  ASSUME Inv, [Next]_vars
  PROVE  Inv' /\ ConstantsStay
<1>1. CASE Read
  BY <1>1, ReadKeepsInv
<1>2. CASE EndFirstPass
  BY <1>2, EndKeepsInv
<1>3. CASE Emit \/ Finished
  BY <1>3, SecondPassKeepsInv
<1>4. CASE UNCHANGED vars
  <2>1. UNCHANGED <<corpus, declared, file, section, layout, public, phase>>
    BY <1>4 DEF vars, reading
  <2>2. corpus' \in Corpora /\ section' \in Sections
    BY <2>1 DEF Inv, Shapes, Corpora
  <2> QED
    BY <2>1, <2>2, LayoutStays
<1> QED
  BY <1>1, <1>2, <1>3, <1>4 DEF Next


LEMMA InitInv ==
  ASSUME Init
  PROVE  Inv
<1>1. /\ corpus \in [kind : DOMAIN Corpus, next : {1}] /\ declared \in Exports[corpus.kind]
      /\ file = 1 /\ section = "text" /\ cursor = SectionBase
      /\ pending = [s \in Sections |-> {}] /\ local = [f \in 1 .. Files |-> <<>>]
      /\ global = <<>> /\ located = <<>> /\ marks = [f \in 1 .. Files |-> <<>>]
      /\ epoch = [s \in Sections |-> 0] /\ public.plain = <<>>
  BY DEF Init, NoSymbols
<1>2. corpus \in Corpora /\ corpus.kind \in DOMAIN Corpus
  BY <1>1 DEF Corpora
<1>3. declared \in [1 .. Files -> SUBSET Names]
  BY <1>1, <1>2, AssemblerAssumption
<1>4. \A S : <<>> \in [{} -> S]
  OBVIOUS
<1>5. <<>> \in Tables /\ <<>> \in MarkTables
  BY <1>4 DEF Tables, MarkTables
<1>6. file \in 1 .. Files /\ section \in Sections /\ SectionBase \in [Sections -> Nat]
  BY <1>1, AssemblerAssumption DEF Sections
<1>7. Len(located) = 0 /\ DOMAIN located = {} /\ IsSequence(located)
  BY <1>1, EmptyIsSequence
<1>8. /\ \A f \in 1 .. Files : DOMAIN local[f] = {} /\ DOMAIN marks[f] = {}
      /\ DOMAIN global = {} /\ DOMAIN public.plain = {}
  BY <1>1
<1>9. Shapes
  <2>1. pending \in [Sections -> SUBSET Names] /\ epoch \in [Sections -> Nat]
    BY <1>1
  <2>2. local \in [1 .. Files -> Tables] /\ marks \in [1 .. Files -> MarkTables]
    BY <1>1, <1>5
  <2> QED
    BY <1>1, <1>2, <1>3, <1>5, <1>6, <1>7, <1>8, <2>1, <2>2 DEF Shapes, Corpora
<1>10. CursorsFit
  <2>1. \A s \in Sections : SectionBase[s] \in Nat /\ SectionSize[s] \in Nat
    BY AssemblerAssumption
  <2>2. \A s \in Sections : SectionBase[s] <= cursor[s]
                            /\ cursor[s] <= SectionBase[s] + SectionSize[s]
    BY <1>1, <2>1
  <2> QED
    BY <1>1, <1>7, <2>2, AssemblerAssumption DEF CursorsFit
<1>11. LayoutIsSound
  BY <1>7 DEF LayoutIsSound
<1>12. LabelsWait
  BY <1>1, <1>8 DEF LabelsWait
<1>13. Exported /\ PublicAgrees
  BY <1>8 DEF Exported, PublicAgrees
<1> QED
  BY <1>9, <1>10, <1>11, <1>12, <1>13 DEF Inv

(* What the theorems below rest on.  A label without an object of its own  *)
(* waits at the cursor of its section, which no object reaches beyond.     *)
THEOREM Invariance == Spec => []Inv
<1>1. Init => Inv
  BY InitInv
<1>2. Inv /\ [Next]_vars => Inv'
  BY StepKeepsInv
<1> QED
  BY <1>1, <1>2, PTL DEF Spec

(* No two placed objects overlap, in whatever order files and sections     *)
(* take turns; all of them are inside their sections and text stays word   *)
(* aligned (first pass of assembler.py).                                   *)
THEOREM PlacedSoundly == Spec => []LayoutIsSound
<1>1. Inv => LayoutIsSound
  BY DEF Inv
<1> QED
  BY <1>1, Invariance, PTL

(* An exported name has the value it has in the one file that declares and *)
(* defines it, also after padding moved it, and the symbol table never     *)
(* shows one of two private definitions (_define_symbol,                   *)
(* _move_pending_labels, _public_symbols).                                 *)
THEOREM OneExporter == Spec => []ExportsAgree
<1>1. ASSUME Inv PROVE ExportsAgree
  <2>1. ASSUME NEW n \in DOMAIN global
        PROVE  LET exporters == {f \in 1 .. Files : n \in DOMAIN local[f] \cap declared[f]}
               IN  Cardinality(exporters) = 1 /\ \A f \in exporters : local[f][n] = global[n]
    <3> DEFINE exporters == {f \in 1 .. Files : n \in DOMAIN local[f] \cap declared[f]}
    <3>1. PICK g \in 1 .. Files : /\ IsExport(n, g) /\ local[g][n] = global[n]
                                  /\ \A h \in 1 .. Files : IsExport(n, h) => h = g
      BY <1>1 DEF Inv, Exported
    <3>2. exporters = {g}
      BY <3>1 DEF IsExport
    <3>3. Cardinality({g}) = 1
      BY FS_Singleton
    <3> QED
      BY <3>1, <3>2, <3>3
  <2> QED
    BY <1>1, <2>1 DEF Inv, Exported, PublicAgrees, ExportsAgree
<1> QED
  BY <1>1, Invariance, PTL

(* A label is the address of the object it was written before, however     *)
(* much padding, empty data and work in other sections lay between         *)
(* (_move_pending_labels).                                                 *)
THEOREM LabelsAreAddresses == Spec => []LabelsMeetTheirObject
<1>1. ASSUME Inv PROVE LabelsMeetTheirObject
  <2> SUFFICES ASSUME NEW f \in 1 .. Files, NEW n \in DOMAIN marks[f]
               PROVE  LET m == marks[f][n]
                          objects == {i \in m.after + 1 .. Len(located) :
                                        /\ located[i].file = f /\ located[i].section = m.section
                                        /\ located[i].size > 0 /\ located[i].epoch = m.epoch}
                      IN  IF objects # {} THEN local[f][n] = located[Min(objects)].address
                          ELSE file = f /\ epoch[m.section] = m.epoch
                                 => local[f][n] = cursor[m.section]
    BY DEF LabelsMeetTheirObject
  <2>1. marks[f][n] \in Mark
    <3>1. marks[f] \in MarkTables
      BY <1>1 DEF Inv, Shapes
    <3> QED
      BY <3>1 DEF MarkTables
  <2>2. PICK m \in Mark : m = marks[f][n]
    BY <2>1
  <2>3. LabelIsRight(f, n, m)
    BY <1>1, <2>2 DEF Inv, LabelsWait
  <2>4. m.after \in Nat /\ Len(located) \in Nat
    BY <1>1, LengthIsNatural DEF Mark, Inv, Shapes
  <2> DEFINE objects == {i \in m.after + 1 .. Len(located) :
                           /\ located[i].file = f /\ located[i].section = m.section
                           /\ located[i].size > 0 /\ located[i].epoch = m.epoch}
  <2>5. objects = ObjectsOf(f, m)
    BY <2>4 DEF ObjectsOf, MayName
  <2>6. objects \in SUBSET Nat
    BY <2>4
  <2>7. objects # {} => IsFirst(Min(objects), objects) /\ Min(objects) \in Nat
    <3> HIDE DEF objects
    <3>1. \A T \in SUBSET Nat : T # {} => Min(T) \in T /\ \A y \in T : Min(T) <= y
      BY LeastOf
    <3> QED
      BY <2>6, <3>1 DEF IsFirst
  <2> HIDE DEF objects
  <2>8. IF objects # {} THEN local[f][n] = located[Min(objects)].address
        ELSE file = f /\ epoch[m.section] = m.epoch => local[f][n] = cursor[m.section]
    BY <2>3, <2>5, <2>7 DEF LabelIsRight
  <2> QED
    BY <2>2, <2>8 DEF objects
<1> QED
  BY <1>1, Invariance, PTL

(* Padding moves the labels that wait for their object and nothing else: a *)
(* constant keeps the value it was given, also when it is the address of a *)
(* label that moves (_move_pending_labels).                                *)
THEOREM ConstantsKept == Spec => ConstantsNeverMove
<1>1. Inv /\ [Next]_vars =>
         [\A f \in 1 .. Files : \A n \in DOMAIN local[f] \ DOMAIN marks[f] :
             local'[f][n] = local[f][n]]_vars
  BY StepKeepsInv DEF ConstantsStay
<1> QED
  BY <1>1, Invariance, PTL DEF Spec, ConstantsNeverMove

-----------------------------------------------------------------------------
(* The two passes over one statement. *)

(* What the second pass sees of an operand: itself, unless it was a name.  *)
Answers(y, x) ==
    /\ x.kind # "name" => y = x
    /\ x.kind = "name" => y.kind \in {"symbol", "unknown"}

Counted(st) == IsSequence(st.args) /\ Len(st.args) \in OperandCounts(st.op)

(* t is the statement st as the second pass sees it. *)
Renders(t, st) ==
    /\ Counted(st) /\ Counted(t)
    /\ t.op = st.op /\ Len(t.args) = Len(st.args)
    /\ \A i \in 1 .. Len(st.args) : Answers(t.args[i], st.args[i])

LEMMA ResolvedAnswers ==
  ASSUME NEW x, NEW view
  PROVE  Answers(Resolve(x, view), x)
BY DEF Answers, Resolve, Symbolic, Unknown

LEMMA AnswersKeepRegisters ==
  ASSUME NEW x, NEW y, Answers(y, x)
  PROVE  /\ IsRegister(y) <=> IsRegister(x)
         /\ \A n : y = Register(n) <=> x = Register(n)
BY DEF Answers, IsRegister, Register

LEMMA FewOperands ==
  ASSUME NEW op
  PROVE  OperandCounts(op) \subseteq 0 .. 3
BY DEF OperandCounts

(* A sequence of known length is the tuple of its elements. *)
LEMMA Tuples ==
  ASSUME NEW s, IsSequence(s)
  PROVE  /\ Len(s) = 0 => s = <<>>
         /\ Len(s) = 1 => s = <<s[1]>>
         /\ Len(s) = 2 => s = <<s[1], s[2]>>
         /\ Len(s) = 3 => s = <<s[1], s[2], s[3]>>
<1>1. PICK S : s \in Seq(S)
  BY DEF IsSequence
<1>2. s = [i \in 1 .. Len(s) |-> s[i]] /\ Len(s) \in Nat
  BY <1>1
<1> QED
  BY <1>1, <1>2

(* A number for each family of operations that do not meet. *)
Family(op) ==
    CASE op \in BinaryOps -> 1
      [] op \in MultiplyOps -> 2
      [] op \in DivideOps -> 3
      [] op \in TrapOps -> 4
      [] op \in SingleOps -> 5
      [] op \in SelfImmediateOps -> 6
      [] op \in ShiftSelfOps -> 7
      [] op \in SelfSourceOps -> 8
      [] op \in LoadOps -> 9
      [] op \in StoreOps -> 10
      [] op \in EqualBranches -> 11
      [] op \in RelationalBranches -> 12
      [] op \in SetOps -> 13
      [] op \in ImmediateSets -> 14
      [] op \in RemainderOps -> 15
      [] op \in RotateOps -> 16
      [] op \in DOMAIN SwappedTrap -> 17
      [] op \in ImmediateTraps -> 18
      [] op \in {"li", "la"} -> 19
      [] op \in {"not"} -> 20
      [] op \in {"abs", "begin", "end", "push", "pop"} -> 21
      [] op \in {"nop", "move", "clear", "neg", "negu"} -> 22
      [] op \in {"b", "bal", "beqz", "bnez", "bgez", "bgezal"} -> 23
      [] OTHER -> 0

(* The families of operations do not meet. *)
LEMMA FamiliesApart ==
  ASSUME NEW op
  PROVE  /\ op \in BinaryOps => Family(op) = 1
         /\ op \in MultiplyOps => Family(op) = 2
         /\ op \in DivideOps => Family(op) = 3
         /\ op \in TrapOps => Family(op) = 4
         /\ op \in SingleOps => Family(op) = 5
         /\ op \in SelfImmediateOps => Family(op) = 6
         /\ op \in ShiftSelfOps => Family(op) = 7
         /\ op \in SelfSourceOps => Family(op) = 8
         /\ op \in LoadOps => Family(op) = 9
         /\ op \in StoreOps => Family(op) = 10
         /\ op \in EqualBranches => Family(op) = 11
         /\ op \in RelationalBranches => Family(op) = 12
         /\ op \in SetOps => Family(op) = 13
         /\ op \in ImmediateSets => Family(op) = 14
         /\ op \in RemainderOps => Family(op) = 15
         /\ op \in RotateOps => Family(op) = 16
         /\ op \in DOMAIN SwappedTrap => Family(op) = 17
         /\ op \in ImmediateTraps => Family(op) = 18
         /\ op \in {"li", "la"} => Family(op) = 19
         /\ op \in {"not"} => Family(op) = 20
         /\ op \in {"abs", "begin", "end", "push", "pop"} => Family(op) = 21
         /\ op \in {"nop", "move", "clear", "neg", "negu"} => Family(op) = 22
         /\ op \in {"b", "bal", "beqz", "bnez", "bgez", "bgezal"} => Family(op) = 23
BY ZenonT(120) DEF Family, BinaryOps, AddOps, LogicOps, CompareOps, MultiplyOps, DivideOps, TrapOps, SingleOps,
       SelfImmediateOps, SignedImmediateOps, UnsignedImmediateOps, ShiftSelfOps, ShiftSourceOps,
       ShiftImmediateOps, ShiftVariableOps, SelfSourceOps, LoadOps, StoreOps, EqualBranches,
       RelationalBranches, SetOps, ImmediateSets, SetOf, RemainderOps, RotateOps, SwappedTrap,
       ImmediateTraps, ImmediateTrap

LEMMA OperandCountsOf ==
  ASSUME NEW op
  PROVE  /\ op \in BinaryOps \cup DivideOps \cup RemainderOps \cup SelfImmediateOps
                     \cup ShiftSelfOps \cup RotateOps => OperandCounts(op) = {2, 3}
         /\ op \in SelfSourceOps \cup {"neg", "negu", "abs", "not"} => OperandCounts(op) = {1, 2}
         /\ op \in EqualBranches \cup RelationalBranches \cup SetOps \cup ImmediateSets
                     \cup MemoryOps => OperandCounts(op) = {3}
         /\ op \in (PairOps \ DivideOps) \cup DOMAIN SwappedTrap \cup ImmediateTraps
                     \cup {"li", "la", "move", "beqz", "bnez"} => OperandCounts(op) = {2}
         /\ op \in SingleOps \cup {"clear", "push", "pop", "b", "bal"} => OperandCounts(op) = {1}
         /\ op \in {"nop", "begin", "end"} => OperandCounts(op) = {0}
BY DEF OperandCounts, BinaryOps, DivideOps, RemainderOps, SelfImmediateOps, ShiftSelfOps, RotateOps,
       SelfSourceOps, AddOps, LogicOps, CompareOps, SignedImmediateOps, UnsignedImmediateOps,
       ShiftSourceOps, ShiftImmediateOps, ShiftVariableOps, EqualBranches, RelationalBranches,
       SetOps, ImmediateSets, SetOf, MemoryOps, LoadOps, StoreOps, PairOps, MultiplyOps, TrapOps,
       SwappedTrap, ImmediateTraps, ImmediateTrap, SingleOps

(* The elements of a concatenation. *)
LEMMA Joined ==
  ASSUME NEW s, IsSequence(s), NEW t, IsSequence(t), NEW m \in Nat, NEW n \in Nat,
         Len(s) = m, Len(t) = n, NEW i \in 1 .. m + n
  PROVE  (s \o t)[i] = IF i <= m THEN s[i] ELSE t[i - m]
<1>1. PICK S : s \in Seq(S)
  BY DEF IsSequence
<1>2. PICK T : t \in Seq(T)
  BY DEF IsSequence
<1> DEFINE both == S \cup T
<1>3. s \in Seq(both) /\ t \in Seq(both)
  BY <1>1, <1>2, SeqMonotonic
<1> HIDE DEF both
<1> QED
  BY <1>3, ConcatProperties

LEMMA TupleSequences ==
  ASSUME NEW x, NEW y
  PROVE IsSequence(<<x>>) /\ IsSequence(<<x, y>>)
<1>1. <<x>> \in Seq({x}) /\ <<x, y>> \in Seq({x, y})
  OBVIOUS
<1> QED BY <1>1 DEF IsSequence

(* Concatenations, tails and fronts of short tuples. *)
LEMMA JoinedTuples ==
  ASSUME NEW x, NEW y, NEW z
  PROVE  /\ <<x>> \o <<y>> = <<x, y>>
         /\ <<x>> \o <<y, z>> = <<x, y, z>>
         /\ <<x, y>> \o <<z>> = <<x, y, z>>
<1>1. ASSUME NEW s, IsSequence(s), NEW t, IsSequence(t), NEW m \in {1, 2}, NEW n \in {1, 2},
             Len(s) = m, Len(t) = n
      PROVE  /\ m = 1 /\ n = 1 => s \o t = <<s[1], t[1]>>
             /\ m = 1 /\ n = 2 => s \o t = <<s[1], t[1], t[2]>>
             /\ m = 2 /\ n = 1 => s \o t = <<s[1], s[2], t[1]>>
  <2> DEFINE u == s \o t
  <2>1. m \in Nat /\ n \in Nat
    OBVIOUS
  <2>2. /\ IsSequence(u) /\ Len(u) = m + n
        /\ \A i \in 1 .. m + n : u[i] = IF i <= m THEN s[i] ELSE t[i - m]
    <3>1. IsSequence(u) /\ Len(u) = Len(s) + Len(t)
      BY <1>1, ConcatIsSequence
    <3>2. ASSUME NEW i \in 1 .. m + n
          PROVE  (s \o t)[i] = IF i <= m THEN s[i] ELSE t[i - m]
      BY <1>1, <2>1, Joined
    <3> QED
      BY <1>1, <3>1, <3>2
  <2> HIDE DEF u
  <2>3. /\ Len(u) = 2 => u = <<u[1], u[2]>>
        /\ Len(u) = 3 => u = <<u[1], u[2], u[3]>>
    BY <2>2, Tuples
  <2>4. CASE m = 1 /\ n = 1
    <3>1. Len(u) = 2 /\ u[1] = s[1] /\ u[2] = t[1]
      BY <2>2, <2>4
    <3> QED
      BY <2>3, <2>4, <3>1 DEF u
  <2>5. CASE m = 1 /\ n = 2
    <3>1. Len(u) = 3 /\ u[1] = s[1] /\ u[2] = t[1] /\ u[3] = t[2]
      BY <2>2, <2>5
    <3> QED
      BY <2>3, <2>5, <3>1 DEF u
  <2>6. CASE m = 2 /\ n = 1
    <3>1. Len(u) = 3 /\ u[1] = s[1] /\ u[2] = s[2] /\ u[3] = t[1]
      BY <2>2, <2>6
    <3> QED
      BY <2>3, <2>6, <3>1 DEF u
  <2> QED
    BY <2>4, <2>5, <2>6
<1>2. <<x>> \o <<y>> = <<x, y>>
  <2> DEFINE s == <<x>>
             t == <<y>>
  <2>1. /\ IsSequence(s) /\ IsSequence(t) /\ Len(s) = 1 /\ Len(t) = 1 /\ s[1] = x /\ t[1] = y
    BY TupleSequences
  <2> HIDE DEF s, t
  <2>2. s \o t = <<x, y>>
    BY <1>1, <2>1
  <2> QED
    BY <2>2 DEF s, t
<1>3. <<x>> \o <<y, z>> = <<x, y, z>>
  <2> DEFINE s == <<x>>
             t == <<y, z>>
  <2>1. /\ IsSequence(s) /\ IsSequence(t) /\ Len(s) = 1 /\ Len(t) = 2
        /\ s[1] = x /\ t[1] = y /\ t[2] = z
    BY TupleSequences
  <2> HIDE DEF s, t
  <2>2. s \o t = <<x, y, z>>
    BY <1>1, <2>1
  <2> QED
    BY <2>2 DEF s, t
<1>4. <<x, y>> \o <<z>> = <<x, y, z>>
  <2> DEFINE s == <<x, y>>
             t == <<z>>
  <2>1. /\ IsSequence(s) /\ IsSequence(t) /\ Len(s) = 2 /\ Len(t) = 1
        /\ s[1] = x /\ s[2] = y /\ t[1] = z
    BY TupleSequences
  <2> HIDE DEF s, t
  <2>2. s \o t = <<x, y, z>>
    BY <1>1, <2>1
  <2> QED
    BY <2>2 DEF s, t
<1> QED
  BY <1>2, <1>3, <1>4

LEMMA TailOfThree ==
  ASSUME NEW x, NEW y, NEW z
  PROVE  Tail(<<x, y, z>>) = <<y, z>>
<1> DEFINE S == {x, y, z}
<1>1. <<x, y, z>> \in Seq(S) /\ Len(<<x, y, z>>) = 3
  OBVIOUS
<1> HIDE DEF S
<1>2. Tail(<<x, y, z>>) = [i \in 1 .. 2 |-> <<x, y, z>>[i + 1]]
  BY <1>1 DEF Tail
<1> QED
  BY <1>2

LEMMA FrontOfThree ==
  ASSUME NEW x, NEW y, NEW z
  PROVE  SubSeq(<<x, y, z>>, 1, 2) = <<x, y>>
<1> DEFINE t == <<x, y, z>>
<1>1. \A i \in 1 .. 2 : t[i] \in {x, y, z}
  OBVIOUS
<1>2. t[1] = x /\ t[2] = y
  OBVIOUS
<1> HIDE DEF t
<1>3. /\ SubSeq(t, 1, 2) \in Seq({x, y, z}) /\ Len(SubSeq(t, 1, 2)) = 2
      /\ \A i \in 1 .. 2 : SubSeq(t, 1, 2)[i] = t[i]
  <2>1. \A m, n \in Int : (\A i \in m .. n : t[i] \in {x, y, z}) =>
           /\ SubSeq(t, m, n) \in Seq({x, y, z})
           /\ Len(SubSeq(t, m, n)) = IF m <= n THEN n - m + 1 ELSE 0
           /\ \A i \in 1 .. n - m + 1 : SubSeq(t, m, n)[i] = t[m + i - 1]
    BY SubSeqProperties
  <2> QED
    BY <1>1, <2>1
<1>4. SubSeq(t, 1, 2) = <<SubSeq(t, 1, 2)[1], SubSeq(t, 1, 2)[2]>>
  <2>1. IsSequence(SubSeq(t, 1, 2))
    BY SliceIsSequence
  <2> QED
    BY <1>3, <2>1, Tuples
<1>5. SubSeq(t, 1, 2)[1] = x /\ SubSeq(t, 1, 2)[2] = y
  BY <1>2, <1>3
<1>6. SubSeq(t, 1, 2) = <<x, y>>
  BY <1>4, <1>5
<1> QED
  BY <1>6 DEF t

LEMMA ThreeOfTwo ==
  ASSUME NEW x, NEW y
  PROVE  Three(<<x, y>>) = <<x, x, y>>
<1>1. <<x>> \o <<x, y>> = <<x, x, y>>
  BY JoinedTuples
<1>2. Len(<<x, y>>) = 2 /\ <<x, y>>[1] = x
  OBVIOUS
<1> QED
  BY <1>1, <1>2 DEF Three

LEMMA ThreeOfThree ==
  ASSUME NEW x, NEW y, NEW z
  PROVE  Three(<<x, y, z>>) = <<x, y, z>>
<1>1. Len(<<x, y, z>>) = 3
  OBVIOUS
<1> QED
  BY <1>1 DEF Three

(* Where the operands that may be immediate stand in the operand list. *)
SourcesIn(op, a, n) ==
    CASE op = "not" -> <<a[n]>>
      [] op \in SingleOps -> <<a[1]>>
      [] op \in EqualBranches \cup RelationalBranches -> <<a[1], a[2]>>
      [] OTHER -> IF n = 3 THEN <<a[2], a[3]>> ELSE <<a[1], a[2]>>

(* Sources picks the operands by place, whatever their number. *)
LEMMA PlacesOfSources ==
  ASSUME NEW st, Counted(st), HasSources(st)
  PROVE  /\ Sources(st) = SourcesIn(st.op, st.args, Len(st.args))
         /\ st.op = "not" \/ st.op \in SingleOps => Len(st.args) \in {1, 2}
         /\ st.op # "not" /\ st.op \notin SingleOps => Len(st.args) \in {2, 3}
<1> DEFINE n == Len(st.args)
           a == st.args
<1>1. n \in OperandCounts(st.op)
  BY DEF Counted
<1>2. IsSequence(a) /\ n \in 0 .. 3
  BY <1>1, FewOperands DEF Counted
<1>3. /\ n = 1 => a = <<a[1]>>
      /\ n = 2 => a = <<a[1], a[2]>>
      /\ n = 3 => a = <<a[1], a[2], a[3]>>
  BY <1>2, Tuples
<1>4. ASSUME NEW k \in {1, 2, 3}, n = k, NEW x, x = a
      PROVE  /\ k = 2 => Tail(Three(x)) = <<x[1], x[2]>>
             /\ k = 3 => Tail(Three(x)) = <<x[2], x[3]>> /\ Tail(x) = <<x[2], x[3]>>
             /\ k = 3 => SubSeq(x, 1, 2) = <<x[1], x[2]>>
  <2>1. CASE k = 2
    <3>1. PICK p, q : x = <<p, q>>
      BY <1>3, <1>4, <2>1
    <3>2. Three(x) = <<p, p, q>> /\ x[1] = p /\ x[2] = q
      BY <3>1, ThreeOfTwo
    <3>3. Tail(<<p, p, q>>) = <<p, q>>
      BY TailOfThree
    <3> QED
      BY <2>1, <3>2, <3>3
  <2>2. CASE k = 3
    <3>1. PICK p, q, r : x = <<p, q, r>>
      BY <1>3, <1>4, <2>2
    <3>2. Tail(<<p, q, r>>) = <<q, r>> /\ SubSeq(<<p, q, r>>, 1, 2) = <<p, q>>
      BY TailOfThree, FrontOfThree
    <3>3. Three(x) = x
      BY <3>1, ThreeOfThree
    <3>4. x[1] = p /\ x[2] = q /\ x[3] = r
      BY <3>1
    <3>5. Tail(x) = <<x[2], x[3]>> /\ SubSeq(x, 1, 2) = <<x[1], x[2]>>
      BY <3>1, <3>2, <3>4
    <3> QED
      BY <2>2, <3>3, <3>5
  <2> QED
    BY <1>4, <2>1, <2>2
<1>5. CASE st.op = "not"
  <2>1. n \in {1, 2}
    BY <1>1, <1>5, OperandCountsOf
  <2>2. Sources(st) = <<Last(a)>> /\ SourcesIn(st.op, a, n) = <<a[n]>>
    BY <1>5, FamiliesApart DEF Sources, SourcesIn, IsResultDivision, ShiftSelfOps, MemoryOps,
       PairOps
  <2> QED
    BY <1>5, <2>1, <2>2 DEF Last
<1>6. CASE st.op \in SingleOps
  <2>1. n = 1
    BY <1>1, <1>6, OperandCountsOf
  <2>2. Sources(st) = a /\ SourcesIn(st.op, a, n) = <<a[1]>>
    BY <1>6, FamiliesApart DEF Sources, SourcesIn, IsResultDivision, ShiftSelfOps, MemoryOps,
       PairOps
  <2>3. PICK p : a = <<p>>
    BY <1>3, <2>1
  <2>4. <<p>> = <<a[1]>>
    BY <2>3
  <2>5. Sources(st) = SourcesIn(st.op, a, n)
    BY <2>2, <2>3, <2>4
  <2> QED
    BY <1>6, <2>1, <2>5
<1>7. CASE st.op \in EqualBranches \cup RelationalBranches
  <2>3. n = 3
    BY <1>1, <1>7, OperandCountsOf
  <2>1. n = 3 /\ st.op # "not" /\ st.op \notin SingleOps
    BY <1>7, <2>3, FamiliesApart
  <2>2. Sources(st) = SubSeq(a, 1, 2) /\ SourcesIn(st.op, a, n) = <<a[1], a[2]>>
    BY <1>7 DEF Sources, SourcesIn, IsResultDivision, BinaryOps, DivideOps, RemainderOps, SelfImmediateOps, ShiftSelfOps, RotateOps,
       SelfSourceOps, AddOps, LogicOps, CompareOps, SignedImmediateOps, UnsignedImmediateOps,
       ShiftSourceOps, ShiftImmediateOps, ShiftVariableOps, EqualBranches, RelationalBranches,
       SetOps, ImmediateSets, SetOf, MemoryOps, LoadOps, StoreOps, PairOps, MultiplyOps, TrapOps,
       SwappedTrap, ImmediateTraps, ImmediateTrap, SingleOps
  <2> QED
    BY <1>4, <2>1, <2>2
<1>8. CASE st.op \in BinaryOps \cup RemainderOps
  <2>3. n \in {2, 3}
    BY <1>1, <1>8, OperandCountsOf
  <2>1. n \in {2, 3} /\ st.op # "not" /\ st.op \notin SingleOps
    BY <1>8, <2>3, FamiliesApart
  <2>2. /\ Sources(st) = Tail(Three(a))
        /\ SourcesIn(st.op, a, n) = IF n = 3 THEN <<a[2], a[3]>> ELSE <<a[1], a[2]>>
    BY <1>8, FamiliesApart DEF Sources, SourcesIn, IsResultDivision, ShiftSelfOps, MemoryOps,
       PairOps
  <2> QED
    BY <1>4, <2>1, <2>2
<1>9. CASE st.op \in SetOps \cup ImmediateSets \/ IsResultDivision(st)
  <2>4. st.op \in SetOps \cup ImmediateSets \cup DivideOps /\ n = 3
    BY <1>1, <1>9, OperandCountsOf DEF IsResultDivision
  <2>1. n = 3 /\ st.op # "not" /\ st.op \notin SingleOps
    BY <2>4, FamiliesApart DEF ShiftSelfOps, MemoryOps, PairOps
  <2>2. /\ st.op \notin BinaryOps \cup RemainderOps /\ st.op \notin EqualBranches \cup RelationalBranches
    BY <2>4, FamiliesApart DEF ShiftSelfOps, MemoryOps, PairOps
  <2>3. Sources(st) = Tail(a) /\ SourcesIn(st.op, a, n) = <<a[2], a[3]>>
    BY <1>9, <2>1, <2>2 DEF Sources, SourcesIn
  <2>5. Tail(a) = <<a[2], a[3]>>
    BY <1>4, <2>1
  <2>6. Sources(st) = SourcesIn(st.op, a, n)
    BY <2>3, <2>5
  <2> QED
    BY <2>1, <2>6
<1>10. CASE st.op \in PairOps /\ ~ IsResultDivision(st)
  <2>1. n \in OperandCounts(st.op) /\ n \in {2, 3}
    <3>1. CASE st.op \in DivideOps
      BY <1>1, <3>1, OperandCountsOf
    <3>2. CASE st.op \in PairOps \ DivideOps
      <4>1. OperandCounts(st.op) = {2}
        BY <3>2, OperandCountsOf
      <4> QED
        BY <1>1, <4>1
    <3> QED
      BY <1>1, <1>10, <3>1, <3>2
  <2>2. n = 2
    BY <1>10, <2>1, OperandCountsOf DEF IsResultDivision
  <2>3. /\ st.op \notin BinaryOps \cup RemainderOps /\ st.op \notin EqualBranches \cup RelationalBranches
        /\ st.op \notin SetOps \cup ImmediateSets /\ st.op # "not" /\ st.op \notin SingleOps
    BY <1>10, FamiliesApart DEF ShiftSelfOps, MemoryOps, PairOps
  <2>4. Sources(st) = a /\ SourcesIn(st.op, a, n) = <<a[1], a[2]>>
    BY <1>10, <2>2, <2>3 DEF Sources, SourcesIn
  <2> QED
    BY <1>3, <2>2, <2>3, <2>4
<1> QED
  BY <1>5, <1>6, <1>7, <1>8, <1>9, <1>10 DEF HasSources

(* The second pass yields the n words the first pass reserved, or refuses  *)
(* the statement with a diagnostic.                                        *)
Agrees(result, n) ==
    /\ result.error # "internal"
    /\ Ok(result) => IsSequence(result.value) /\ Len(result.value) = n

(* The load of an immediate is as long as the first pass said: what the    *)
(* second pass learns of a symbol cannot change it.                        *)
LEMMA LoadAgrees ==
  ASSUME NEW dest, NEW x, NEW y, Answers(y, x)
  PROVE  Agrees(LoadInto(dest, y, LoadWords(x)), LoadWords(x))
<1> USE DEF Agrees
<1> DEFINE fits == FitsSigned(y.value) \/ FitsUnsigned(y.value)
           expected == LoadWords(x)
           errors == <<Raise(y.kind \in {"register", "unknown"}, "A104"),
                       Raise(y.value < -Bound \/ y.value >= Modulus, "A218"),
                       Raise(expected # 2 /\ ~(expected = 1 /\ fits), "internal")>>
           short == Word(IF FitsSigned(y.value) THEN "addiu" ELSE "ori",
                         <<dest, Register(Zero), Constant(y.value)>>)
           high == Word("lui", <<dest, Constant(U(y.value) \div HalfMod)>>)
           low == Word("ori", <<dest, dest, Constant(U(y.value) % HalfMod)>>)
<1>1. LoadInto(dest, y, expected)
         = CASE FirstError(errors) # "none" -> Refuse(FirstError(errors))
             [] FirstError(errors) = "none" /\ expected = 1 -> Yield(<<short>>)
             [] OTHER -> Yield(<<high, low>>)
  BY DEF LoadInto
<1>2. /\ expected \in {1, 2}
      /\ expected = 1 => fits
  BY DEF LoadWords, Answers
<1>3. DOMAIN errors = 1 .. 3 /\ \A i \in 1 .. 3 : errors[i] # "internal"
  BY <1>2 DEF Raise
<1> HIDE DEF errors, short, high, low, fits
<1>4. FirstError(errors) # "internal"
  <2>1. \A n \in Nat : DOMAIN errors = 1 .. n =>
           FirstError(errors) = "none" \/ \E i \in 1 .. n : FirstError(errors) = errors[i]
    BY FirstIsOne
  <2> QED
    BY <1>3, <2>1
<1>5. /\ IsSequence(<<short>>) /\ Len(<<short>>) = 1
      /\ IsSequence(<<high, low>>) /\ Len(<<high, low>>) = 2
  BY TupleSequences
<1> HIDE DEF expected
<1>6. CASE FirstError(errors) # "none"
  <2>1. LoadInto(dest, y, expected) = Refuse(FirstError(errors))
    BY <1>1, <1>6
  <2> QED
    BY <1>4, <1>6, <2>1 DEF Refuse, Ok, expected
<1>7. CASE FirstError(errors) = "none"
  <2>1. LoadInto(dest, y, expected) = IF expected = 1 THEN Yield(<<short>>) ELSE Yield(<<high, low>>)
    BY <1>1, <1>7
  <2> QED
    BY <1>2, <1>5, <2>1 DEF Yield, Ok, expected
<1> QED
  BY <1>6, <1>7

(* The words that follow a load. *)
LEMMA ThenAgrees ==
  ASSUME NEW result, NEW words, NEW m \in Nat, NEW n \in Nat,
         IsSequence(words), Len(words) = n, Agrees(result, m)
  PROVE  Agrees(Then(result, words), m + n)
<1> USE DEF Agrees
<1>1. CASE Ok(result)
  <2>1. IsSequence(result.value \o words) /\ Len(result.value \o words) = Len(result.value) + Len(words)
    BY <1>1, ConcatIsSequence
  <2>2. Then(result, words) = [error |-> "none", value |-> result.value \o words]
    BY <1>1 DEF Then, Yield
  <2> QED
    BY <1>1, <2>1, <2>2
<1>2. CASE ~ Ok(result)
  BY <1>2 DEF Then
<1> QED
  BY <1>1, <1>2

LEMMA MaterializeAgrees ==
  ASSUME NEW sources, NEW seen, NEW words,
         DOMAIN seen = DOMAIN sources,
         \A i \in DOMAIN sources : Answers(seen[i], sources[i]),
         Immediates(sources) = {} => words = 0,
         Immediates(sources) # {} /\ ~ (Cardinality(Immediates(sources)) > 1) =>
            words = LoadWords(sources[CHOOSE i \in Immediates(sources) : TRUE])
  PROVE  Agrees(MaterializeSources(seen, words), words)
<1> USE DEF Agrees
<1> DEFINE places == Immediates(seen)
           errors == <<Raise(Cardinality(places) > 1, "A242"),
                       Raise(places = {} /\ words # 0, "internal"),
                       Raise(places # {} /\ \E i \in DOMAIN seen : seen[i] = Register(At), "A230")>>
           load == LoadInto(Register(At), seen[CHOOSE i \in places : TRUE], words)
<1>1. places = Immediates(sources)
  BY DEF Immediates, Answers, IsRegister
<1>2. MaterializeSources(seen, words)
         = CASE FirstError(errors) # "none" -> Refuse(FirstError(errors))
             [] FirstError(errors) = "none" /\ places = {} -> Yield(<<>>)
             [] OTHER -> load
  BY DEF MaterializeSources
<1>3. /\ DOMAIN errors = 1 .. 3 /\ \A i \in 1 .. 3 : errors[i] # "internal"
      /\ errors[1] = Raise(Cardinality(places) > 1, "A242")
  BY <1>1 DEF Raise
<1>4. places \subseteq DOMAIN sources
  BY <1>1 DEF Immediates
<1>5. ASSUME places # {}, ~ (Cardinality(places) > 1)
      PROVE  Agrees(load, words)
  <2> DEFINE i == CHOOSE k \in places : TRUE
  <2>1. i \in places
    BY <1>5
  <2>2. Answers(seen[i], sources[i]) /\ words = LoadWords(sources[i])
    BY <1>1, <1>4, <1>5, <2>1
  <2>3. load = LoadInto(Register(At), seen[i], LoadWords(sources[i]))
    BY <2>2
  <2> HIDE DEF i, load
  <2> QED
    BY <2>2, <2>3, LoadAgrees
<1> HIDE DEF errors, load, places
<1>6. FirstError(errors) # "internal"
  <2>1. \A n \in Nat : DOMAIN errors = 1 .. n =>
           FirstError(errors) = "none" \/ \E i \in 1 .. n : FirstError(errors) = errors[i]
    BY FirstIsOne
  <2> QED
    BY <1>3, <2>1
<1>7. FirstError(errors) = "none" => ~ (Cardinality(places) > 1)
  <2> SUFFICES ASSUME FirstError(errors) = "none" PROVE ~ (Cardinality(places) > 1)
    OBVIOUS
  <2>1. \A n \in Nat : DOMAIN errors = 1 .. n => \A i \in 1 .. n : errors[i] = "none"
    BY NoErrors
  <2>2. errors[1] = "none"
    BY <1>3, <2>1
  <2> QED
    BY <1>3, <2>2 DEF Raise
<1>8. CASE FirstError(errors) # "none"
  <2>1. MaterializeSources(seen, words) = Refuse(FirstError(errors))
    BY <1>2, <1>8
  <2> QED
    BY <1>6, <1>8, <2>1 DEF Refuse, Ok
<1>9. CASE FirstError(errors) = "none" /\ places = {}
  <2>1. MaterializeSources(seen, words) = Yield(<<>>)
    BY <1>2, <1>9
  <2>2. IsSequence(<<>>) /\ Len(<<>>) = 0 /\ words = 0
    BY <1>1, <1>9, EmptyIsSequence
  <2> QED
    BY <2>1, <2>2 DEF Yield, Ok
<1>10. CASE FirstError(errors) = "none" /\ places # {}
  <2>1. MaterializeSources(seen, words) = load
    BY <1>2, <1>10
  <2> QED
    BY <1>5, <1>7, <1>10, <2>1
<1> QED
  BY <1>8, <1>9, <1>10

LEMMA SourcesAnswer ==
  ASSUME NEW st, NEW t, Renders(t, st), HasSources(st)
  PROVE  /\ HasSources(t)
         /\ DOMAIN Sources(t) = DOMAIN Sources(st)
         /\ \A i \in DOMAIN Sources(st) : Answers(Sources(t)[i], Sources(st)[i])
<1> DEFINE n == Len(st.args)
<1>1. HasSources(t)
  BY DEF Renders, HasSources
<1>2. /\ Sources(st) = SourcesIn(st.op, st.args, n)
      /\ st.op = "not" \/ st.op \in SingleOps => n \in {1, 2}
      /\ st.op # "not" /\ st.op \notin SingleOps => n \in {2, 3}
  BY PlacesOfSources DEF Renders
<1>3. Sources(t) = SourcesIn(st.op, t.args, n)
  BY <1>1, PlacesOfSources DEF Renders
<1>4. \A i \in 1 .. n : Answers(t.args[i], st.args[i])
  BY DEF Renders
<1>5. CASE st.op = "not"
  <2>1. Sources(st) = <<st.args[n]>> /\ Sources(t) = <<t.args[n]>>
    BY <1>2, <1>3, <1>5, FamiliesApart DEF SourcesIn
  <2> QED
    BY <1>1, <1>2, <1>4, <1>5, <2>1
<1>6. CASE st.op \in SingleOps
  <2>1. Sources(st) = <<st.args[1]>> /\ Sources(t) = <<t.args[1]>>
    BY <1>2, <1>3, <1>6, FamiliesApart DEF SourcesIn
  <2> QED
    BY <1>1, <1>2, <1>4, <1>6, <2>1
<1>7. CASE st.op # "not" /\ st.op \notin SingleOps
  <2>1. \/ Sources(st) = <<st.args[1], st.args[2]>> /\ Sources(t) = <<t.args[1], t.args[2]>>
        \/ n = 3 /\ Sources(st) = <<st.args[2], st.args[3]>> /\ Sources(t) = <<t.args[2], t.args[3]>>
    BY <1>2, <1>3, <1>7 DEF SourcesIn
  <2>2. Answers(t.args[1], st.args[1]) /\ Answers(t.args[2], st.args[2])
        /\ (n = 3 => Answers(t.args[3], st.args[3]))
    BY <1>2, <1>4, <1>7
  <2> QED
    BY <1>1, <2>1, <2>2
<1> QED
  BY <1>5, <1>6, <1>7

(* The words after the load, in the first pass and in the second. *)
AfterLoad(st) == IF st.op \in DivideOps /\ Len(st.args) = 2 THEN 1 ELSE FinishWords(st.op)

LEMMA FinishLength ==
  ASSUME NEW st, Counted(st), HasSources(st), NEW s
  PROVE  /\ IsSequence(Finish(st, s)) /\ Len(Finish(st, s)) = AfterLoad(st)
         /\ AfterLoad(st) \in {1, 2}
<1>1. AfterLoad(st) \in {1, 2}
  BY DEF AfterLoad, FinishWords
<1>2. \A w : IsSequence(<<w>>) /\ Len(<<w>>) = 1
  BY TupleSequences
<1>3. \A v, w : IsSequence(<<v, w>>) /\ Len(<<v, w>>) = 2
  BY TupleSequences
<1> DEFINE single == \E w : Finish(st, s) = <<w>>
           double == \E v, w : Finish(st, s) = <<v, w>>
<1>4. CASE st.op \in BinaryOps \cup SingleOps \cup EqualBranches \cup {"not"}
  <2>1. st.op \notin RelationalBranches \cup RemainderOps \cup DivideOps \cup SetOps \cup ImmediateSets
    BY <1>4, FamiliesApart
  <2>2. AfterLoad(st) = 1
    BY <2>1 DEF AfterLoad, FinishWords
  <2>3. CASE st.op \in BinaryOps
    <3>1. Finish(st, s) = <<Word(st.op, <<st.args[1]>> \o s)>>
      BY <2>3, FamiliesApart DEF Finish, IsResultDivision, PairOps
    <3> QED
      BY <1>2, <2>2, <3>1
  <2>4. CASE st.op \in SingleOps
    <3>1. Finish(st, s) = <<Word(st.op, s)>>
      BY <2>4, FamiliesApart DEF Finish, IsResultDivision, PairOps
    <3> QED
      BY <1>2, <2>2, <3>1
  <2>5. CASE st.op \in EqualBranches
    <3>1. Finish(st, s) = <<Word(st.op, s \o <<st.args[3]>>)>>
      BY <2>5, FamiliesApart DEF Finish, IsResultDivision, PairOps
    <3> QED
      BY <1>2, <2>2, <3>1
  <2>6. CASE st.op = "not"
    <3>1. Finish(st, s) = <<Word("nor", <<st.args[1], Register(Zero), s[1]>>)>>
      BY <2>6, FamiliesApart DEF Finish, IsResultDivision, PairOps
    <3> QED
      BY <1>2, <2>2, <3>1
  <2> QED
    BY <1>4, <2>3, <2>4, <2>5, <2>6
<1>5. CASE st.op \in PairOps
  <2>1. st.op \in DivideOps <=> AfterLoad(st) = 2 \/ (st.op \in DivideOps /\ Len(st.args) = 2)
    BY <1>5, FamiliesApart DEF AfterLoad, FinishWords, PairOps
  <2>2. CASE IsResultDivision(st)
    <3>1. AfterLoad(st) = 2
      BY <2>2 DEF AfterLoad, FinishWords, IsResultDivision
    <3>2. Finish(st, s) = <<Word(st.op, s), Word("mflo", <<st.args[1]>>)>>
      BY <2>2, FamiliesApart DEF Finish, IsResultDivision, PairOps
    <3> QED
      BY <1>3, <3>1, <3>2
  <2>3. CASE ~ IsResultDivision(st)
    <3>1. AfterLoad(st) = 1
      <4>1. CASE st.op \in DivideOps
        <5>1. Len(st.args) \in {2, 3}
          BY <4>1, OperandCountsOf DEF Counted
        <5> QED
          BY <2>3, <4>1, <5>1 DEF IsResultDivision, AfterLoad
      <4>2. CASE st.op \notin DivideOps
        BY <1>5, <4>2, FamiliesApart DEF AfterLoad, FinishWords, PairOps
      <4> QED
        BY <4>1, <4>2
    <3>2. Finish(st, s) = <<Word(st.op, s)>>
      <4>1. st.op \notin BinaryOps \cup RemainderOps \cup SingleOps \cup EqualBranches \cup RelationalBranches
                \cup SetOps \cup ImmediateSets \cup {"not"}
        BY <1>5, FamiliesApart DEF PairOps
      <4> QED
        BY <1>5, <2>3, <4>1 DEF Finish
    <3> QED
      BY <1>2, <3>1, <3>2
  <2> QED
    BY <2>2, <2>3
<1>6. CASE st.op \in RemainderOps \cup RelationalBranches
  <2>1. AfterLoad(st) = 2
    BY <1>6, FamiliesApart DEF AfterLoad, FinishWords
  <2>2. \E v, w : Finish(st, s) = <<v, w>>
    BY <1>6, FamiliesApart DEF Finish, BranchOn, IsResultDivision, PairOps
  <2> QED
    BY <1>3, <2>1, <2>2
<1>7. CASE st.op \in SetOps \cup ImmediateSets
  <2> DEFINE op == IF st.op \in SetOps THEN st.op ELSE SetOf[st.op]
  <2>1. /\ Finish(st, s) = SetOn(op, st.args[1], s[1], s[2])
        /\ op \in {"sgt", "sgtu"} <=> st.op \in {"sgt", "sgtu", "sgti", "sgtui"}
    BY <1>7 DEF Finish, IsResultDivision, BinaryOps, AddOps, LogicOps, CompareOps, DivideOps,
                  RemainderOps, PairOps, MultiplyOps, TrapOps, SingleOps, EqualBranches, RelationalBranches,
                  SetOps, ImmediateSets, SetOf
  <2>2. AfterLoad(st) = IF st.op \in {"sgt", "sgtu", "sgti", "sgtui"} THEN 1 ELSE 2
    BY <1>7 DEF AfterLoad, FinishWords, DivideOps, RelationalBranches, RemainderOps,
                SetOps, ImmediateSets, SetOf
  <2>3. \A k, d, x, y : IF k \in {"sgt", "sgtu"} THEN \E v : SetOn(k, d, x, y) = <<v>>
                        ELSE \E v, w : SetOn(k, d, x, y) = <<v, w>>
    BY DEF SetOn
  <2> HIDE DEF op
  <2>4. IF op \in {"sgt", "sgtu"} THEN \E v : Finish(st, s) = <<v>>
        ELSE \E v, w : Finish(st, s) = <<v, w>>
    BY <2>1, <2>3
  <2> QED
    BY <1>2, <1>3, <2>1, <2>2, <2>4
<1> QED
  BY <1>1, <1>4, <1>5, <1>6, <1>7 DEF HasSources

LEMMA ValueWordsAre ==
  ASSUME NEW sources, NEW base \in Nat, Ok(ValueWords(sources, base))
  PROVE  LET places == Immediates(sources)
             words == ValueWords(sources, base).value - base
         IN  /\ words \in Nat
             /\ places = {} => words = 0
             /\ places # {} /\ ~ (Cardinality(places) > 1) =>
                   words = LoadWords(sources[CHOOSE i \in places : TRUE])
<1> DEFINE places == Immediates(sources)
           load == LoadWords(sources[CHOOSE i \in places : TRUE])
<1>1. load \in {1, 2}
  BY DEF LoadWords
<1>2. ValueWords(sources, base) = IF Cardinality(places) > 1 THEN Refuse("A242")
                                  ELSE Yield(base + IF places = {} THEN 0 ELSE load)
  BY DEF ValueWords
<1> HIDE DEF places, load
<1>3. ValueWords(sources, base).value = base + IF places = {} THEN 0 ELSE load
  BY <1>2 DEF Ok, Refuse, Yield
<1>4. \A k \in {0, 1, 2} : base + k - base = k
  OBVIOUS
<1>5. ValueWords(sources, base).value - base = IF places = {} THEN 0 ELSE load
  BY <1>1, <1>3, <1>4
<1> QED
  BY <1>1, <1>5 DEF load, places

(* What the first pass reserves for the load of a source. *)
LEMMA SourceWords ==
  ASSUME NEW st, Counted(st), HasSources(st), ~ KnownDisagreement(st), Ok(WordCount(st))
  PROVE  LET sources == Sources(st)
             places == Immediates(sources)
             words == WordCount(st).value - AfterLoad(st)
         IN  /\ words \in Nat
             /\ places = {} => words = 0
             /\ places # {} /\ ~ (Cardinality(places) > 1) =>
                   words = LoadWords(sources[CHOOSE i \in places : TRUE])
<1> DEFINE n == Len(st.args)
<1>1. st.op \notin MemoryOps /\ st.op # "li"
  BY FamiliesApart DEF HasSources, MemoryOps, PairOps
<1>11. /\ st.op \notin ImmediateTraps /\ st.op \notin ShiftSourceOps
       /\ st.op \notin {"abs", "begin", "la", "push", "pop", "end"}
       /\ ~ RotatesThroughTemporary(st)
  BY FamiliesApart DEF HasSources, PairOps, RotatesThroughTemporary, RotateOps, ShiftSelfOps
<1>12. st.op \in DivideOps => st.op \notin ImmediateSets
  BY FamiliesApart
<1>2. CASE st.op \in ImmediateSets
  <2>1. ~ IsRegister(st.args[3])
    BY <1>2 DEF KnownDisagreement
  <2>2. /\ st.op # "not" /\ st.op \notin SingleOps /\ st.op \notin EqualBranches \cup RelationalBranches
        /\ st.op \notin DivideOps
    BY <1>2, FamiliesApart
  <2>3. n = 3
    BY <1>2, OperandCountsOf DEF Counted
  <2>4. Sources(st) = <<st.args[2], st.args[3]>>
    <3>1. Sources(st) = SourcesIn(st.op, st.args, n)
      BY PlacesOfSources
    <3> QED
      BY <2>2, <2>3, <3>1 DEF SourcesIn
  <2>5. WordCount(st).value = LoadWords(st.args[3]) + FinishWords(st.op)
    <3>1. WordCount(st) = Yield(LoadWords(st.args[3]) + FinishWords(st.op))
      BY <1>1, <1>2, <1>11, <2>2 DEF WordCount
    <3> QED
      BY <3>1 DEF Yield
  <2>6. AfterLoad(st) = FinishWords(st.op) /\ FinishWords(st.op) \in {1, 2}
    BY <2>2 DEF AfterLoad, FinishWords
  <2>7. LoadWords(st.args[3]) \in {1, 2}
    BY DEF LoadWords
  <2>8. WordCount(st).value - AfterLoad(st) = LoadWords(st.args[3])
    BY <2>5, <2>6, <2>7
  <2> DEFINE places == Immediates(Sources(st))
  <2>16. places \subseteq {1, 2} /\ 2 \in places
    <3>1. DOMAIN Sources(st) = {1, 2} /\ Sources(st)[2] = st.args[3]
      BY <2>4
    <3> QED
      BY <2>1, <3>1 DEF Immediates
  <2> HIDE DEF places
  <2>9. places = {2} \/ places = {1, 2}
    <3>1. CASE 1 \in places
      BY <2>16, <3>1
    <3>2. CASE 1 \notin places
      BY <2>16, <3>2
    <3> QED
      BY <3>1, <3>2
  <2>10. Cardinality({1, 2}) = 2
    <3>1. Cardinality({1} \cup {2}) = Cardinality({1}) + 1
      <4>1. IsFiniteSet({1})
        BY FS_Singleton
      <4>2. 2 \notin {1}
        OBVIOUS
      <4> QED
        BY <4>1, <4>2, FS_AddElement
    <3>2. {1} \cup {2} = {1, 2} /\ Cardinality({1}) = 1
      BY FS_Singleton
    <3> QED
      BY <3>1, <3>2
  <2>11. places = {2} => (CHOOSE i \in places : TRUE) = 2
    OBVIOUS
  <2>12. Sources(st)[2] = st.args[3]
    BY <2>4
  <2> DEFINE words == WordCount(st).value - AfterLoad(st)
  <2>13. words \in Nat /\ words = LoadWords(Sources(st)[2])
    BY <2>7, <2>8, <2>12
  <2> HIDE DEF words
  <2>14. CASE places = {2}
    BY <2>11, <2>13, <2>14 DEF places, words
  <2>15. CASE places = {1, 2}
    BY <2>10, <2>13, <2>15 DEF places, words
  <2> QED
    BY <2>9, <2>14, <2>15
<1>3. CASE st.op \in DivideOps /\ n = 2
  <2>1. WordCount(st) = ValueWords(st.args, 1)
    BY <1>1, <1>3, <1>11, <1>12 DEF WordCount
  <2>2. AfterLoad(st) = 1
    BY <1>3 DEF AfterLoad
  <2>3. Sources(st) = st.args
    BY <1>3, FamiliesApart DEF Sources, IsResultDivision
  <2>4. Ok(ValueWords(st.args, 1)) /\ 1 \in Nat
    BY <2>1
  <2> QED
    BY <2>1, <2>2, <2>3, <2>4, ValueWordsAre
<1>4. CASE st.op \notin ImmediateSets /\ ~ (st.op \in DivideOps /\ n = 2)
  <2>1. st.op \in DivideOps => n = 3
    BY <1>4, OperandCountsOf DEF Counted
  <2>2. WordCount(st) = ValueWords(Sources(st), FinishWords(st.op))
    BY <1>1, <1>4, <1>11, <2>1 DEF WordCount
  <2>3. AfterLoad(st) = FinishWords(st.op) /\ FinishWords(st.op) \in Nat
    BY <1>4 DEF AfterLoad, FinishWords
  <2>4. Ok(ValueWords(Sources(st), FinishWords(st.op)))
    BY <2>2
  <2> QED
    BY <2>2, <2>3, <2>4, ValueWordsAre
<1> QED
  BY <1>2, <1>3, <1>4

(* Statements whose sources may be immediates. *)
LEMMA SourcesAgree ==
  ASSUME NEW st, NEW t, Renders(t, st), HasSources(st), ~ KnownDisagreement(st), Ok(WordCount(st))
  PROVE  Agrees(ExpandSources(t, WordCount(st).value), WordCount(st).value)
<1> DEFINE finish == Finish(t, Selected(Sources(t)))
           count == WordCount(st).value
           words == count - AfterLoad(st)
           load == MaterializeSources(Sources(t), words)
<1>1. Counted(st) /\ Counted(t) /\ HasSources(t) /\ AfterLoad(t) = AfterLoad(st)
  BY SourcesAnswer DEF Renders, AfterLoad
<1>2. IsSequence(finish) /\ Len(finish) = AfterLoad(st) /\ AfterLoad(st) \in {1, 2}
  BY <1>1, FinishLength
<1>3. /\ words \in Nat
      /\ Immediates(Sources(st)) = {} => words = 0
      /\ Immediates(Sources(st)) # {} /\ ~ (Cardinality(Immediates(Sources(st))) > 1) =>
            words = LoadWords(Sources(st)[CHOOSE i \in Immediates(Sources(st)) : TRUE])
  BY <1>1, SourceWords
<1>4. count \in Nat
  BY InstructionsHaveWords
<1>5. ExpandSources(t, count) = Then(load, finish)
  BY <1>2 DEF ExpandSources
<1>6. /\ DOMAIN Sources(t) = DOMAIN Sources(st)
      /\ \A i \in DOMAIN Sources(st) : Answers(Sources(t)[i], Sources(st)[i])
  BY SourcesAnswer
<1> HIDE DEF finish, words
<1>7. Agrees(load, words)
  BY <1>3, <1>6, MaterializeAgrees
<1> HIDE DEF load
<1>8. words + AfterLoad(st) = count
  BY <1>2, <1>4 DEF words
<1>9. AfterLoad(st) \in Nat
  BY <1>2
<1> HIDE DEF count
<1>10. Agrees(Then(load, finish), words + AfterLoad(st))
  BY <1>2, <1>3, <1>7, <1>9, ThenAgrees
<1> QED
  BY <1>5, <1>8, <1>10 DEF count

LEMMA RefusalAgrees ==
  ASSUME NEW code, code # "internal", code # "none", NEW n
  PROVE  Agrees(Refuse(code), n)
BY DEF Agrees, Refuse, Ok

LEMMA YieldAgrees ==
  ASSUME NEW words, NEW n, IsSequence(words), Len(words) = n
  PROVE  Agrees(Yield(words), n)
BY DEF Agrees, Yield, Ok

(* An expansion of a known length after the load of an immediate. *)
LEMMA LoadThenAgrees ==
  ASSUME NEW x, NEW y, Answers(y, x), NEW words, NEW n \in {1, 2},
         IsSequence(words), Len(words) = n
  PROVE  Agrees(Then(LoadInto(Register(At), y, (LoadWords(x) + n) - n), words), LoadWords(x) + n)
<1> DEFINE m == LoadWords(x)
<1>1. m \in {1, 2}
  BY DEF LoadWords
<1>2. Agrees(LoadInto(Register(At), y, m), m)
  BY LoadAgrees
<1> HIDE DEF m
<1>3. (m + n) - n = m /\ m \in Nat /\ n \in Nat
  BY <1>1
<1>4. Agrees(Then(LoadInto(Register(At), y, m), words), m + n)
  BY <1>2, <1>3, ThenAgrees
<1> QED
  BY <1>3, <1>4 DEF m

LEMMA MemoryAgrees ==
  ASSUME NEW st, NEW t, Renders(t, st), st.op \in MemoryOps,
         st.args[3].kind \in {"register", "none"}
  PROVE  Agrees(ExpandMemory(t, WordCount(st).value), WordCount(st).value)
<1> DEFINE count == WordCount(st).value
           base == st.args[3]
           offset == t.args[2]
           finish == (IF base = NoBase THEN <<>>
                      ELSE <<Word("addu", <<Register(At), Register(At), base>>)>>)
                     \o <<Word(t.op, <<t.args[1], Constant(0), Register(At)>>)>>
           direct == <<Word(t.op, <<t.args[1], offset,
                            IF base = NoBase THEN Register(Zero) ELSE base>>)>>
           code == FirstError(<<Raise(offset.kind = "unknown", "A104"),
                                Raise(count # 1 /\ AddressCollides(t), "A230")>>)
           load == LoadInto(Register(At), offset, count - Len(finish))
<1>1. Len(st.args) = 3
  BY OperandCountsOf DEF Renders, Counted
<1>2. Answers(t.args[2], st.args[2]) /\ t.args[3] = base
  BY <1>1 DEF Renders, Answers
<1>3. WordCount(st) = Yield(MemoryWords(st.args[2], base))
  <2>1. /\ st.op # "li" /\ st.op \notin ImmediateSets \cup DivideOps \cup ImmediateTraps \cup ShiftSourceOps
        /\ st.op \notin {"abs", "begin", "la", "push", "pop", "end"}
        /\ ~ HasSources(st) /\ ~ RotatesThroughTemporary(st)
    BY FamiliesApart DEF HasSources, PairOps, RotatesThroughTemporary, MemoryOps, RotateOps,
       ShiftSelfOps
  <2> QED
    BY <2>1 DEF WordCount
<1>4. \/ count = 1
      \/ count = LoadWords(st.args[2]) + (IF base = NoBase THEN 1 ELSE 2)
  BY <1>3 DEF MemoryWords, Yield
<1>5. ExpandMemory(t, count) = CASE code # "none" -> Refuse(code)
                                 [] code = "none" /\ count = 1 -> Yield(direct)
                                 [] OTHER -> Then(load, finish)
  BY <1>2 DEF ExpandMemory
<1>6. IsSequence(direct) /\ Len(direct) = 1
  BY TupleSequences
<1>7. IsSequence(finish) /\ Len(finish) = IF base = NoBase THEN 1 ELSE 2
  <2>1. \A v, w : /\ IsSequence(<<w>>) /\ Len(<<w>>) = 1
                  /\ IsSequence(<<v, w>>) /\ Len(<<v, w>>) = 2 /\ <<v>> \o <<w>> = <<v, w>>
    BY TupleSequences, JoinedTuples
  <2>2. ASSUME NEW w PROVE <<>> \o <<w>> = <<w>>
    <3>1. <<w>> \in Seq({w})
      OBVIOUS
    <3> QED
      BY <3>1
  <2>3. CASE base = NoBase
    <3>1. finish = <<Word(t.op, <<t.args[1], Constant(0), Register(At)>>)>>
      BY <2>2, <2>3
    <3> QED
      BY <2>1, <2>3, <3>1
  <2>4. CASE base # NoBase
    <3>1. PICK v, w : finish = <<v>> \o <<w>>
      BY <2>4
    <3> QED
      BY <2>1, <2>4, ZenonT(60), <3>1
  <2> QED
    BY <2>3, <2>4
<1>8. code # "internal"
  <2>1. /\ Raise(offset.kind = "unknown", "A104") # "internal"
        /\ Raise(count # 1 /\ AddressCollides(t), "A230") # "internal"
    BY DEF Raise
  <2> QED
    BY <2>1, TwoChecks
<1> HIDE DEF finish, direct, code
<1>9. ASSUME count # 1 PROVE Agrees(Then(load, finish), count)
  <2> DEFINE n == IF base = NoBase THEN 1 ELSE 2
  <2>1. n \in {1, 2} /\ Len(finish) = n /\ count = LoadWords(st.args[2]) + n
    BY <1>4, <1>7, <1>9
  <2>2. load = LoadInto(Register(At), offset, (LoadWords(st.args[2]) + n) - n)
    BY <2>1
  <2> HIDE DEF n, count, load, offset
  <2> QED
    BY <1>2, <1>7, <2>1, <2>2, LoadThenAgrees DEF offset
<1> HIDE DEF load, count
<1>10. CASE code # "none"
  BY <1>5, <1>8, <1>10, RefusalAgrees DEF count
<1>11. CASE code = "none" /\ count = 1
  BY <1>5, <1>6, <1>11, YieldAgrees DEF count
<1>12. CASE code = "none" /\ count # 1
  BY <1>5, <1>9, <1>12 DEF count
<1> QED
  BY <1>10, <1>11, <1>12

LEMMA AddressAgrees ==
  ASSUME NEW dest, NEW x
  PROVE  Agrees(LoadAddress(dest, x), 2)
<1>1. \A v, w : IsSequence(<<v, w>>) /\ Len(<<v, w>>) = 2
  BY TupleSequences
<1>2. LoadAddress(dest, x) = Refuse("A104") \/ \E v, w : LoadAddress(dest, x) = Yield(<<v, w>>)
  BY DEF LoadAddress
<1>3. \A v, w : Agrees(Yield(<<v, w>>), 2)
  BY <1>1, YieldAgrees
<1>4. Agrees(Refuse("A104"), 2)
  BY RefusalAgrees
<1> QED
  BY <1>2, <1>3, <1>4

LEMMA SingleAgrees ==
  ASSUME NEW w
  PROVE  Agrees(Yield(<<w>>), 1)
<1>1. IsSequence(<<w>>) /\ Len(<<w>>) = 1
  BY TupleSequences
<1> QED
  BY <1>1, YieldAgrees

(* The value and the amount of a shift, by the length of its operand list. *)
LEMMA ShiftOperands ==
  ASSUME NEW st, Counted(st), st.op \in ShiftSelfOps \cup RotateOps
  PROVE  /\ Len(st.args) \in {2, 3}
         /\ ShiftedValue(st) = st.args[Len(st.args) - 1]
         /\ Amount(st) = st.args[Len(st.args)]
<1> DEFINE a == st.args
<1>1. Len(a) \in {2, 3} /\ IsSequence(a)
  BY OperandCountsOf DEF Counted
<1>2. ASSUME Len(a) = 2
      PROVE  Three(a)[2] = a[1] /\ Three(a)[3] = a[2]
  <2>1. PICK x, y : a = <<x, y>>
    BY <1>1, <1>2, Tuples
  <2>2. Three(a) = <<x, x, y>>
    BY <2>1, ThreeOfTwo
  <2> QED
    BY <2>1, <2>2
<1>3. ASSUME Len(a) = 3
      PROVE  Three(a) = a
  BY <1>3 DEF Three
<1> HIDE DEF a
<1>4. CASE Len(a) = 2
  BY <1>2, <1>4 DEF ShiftedValue, Amount, a
<1>5. CASE Len(a) = 3
  BY <1>3, <1>5 DEF ShiftedValue, Amount, a
<1> QED
  BY <1>1, <1>4, <1>5 DEF a

LEMMA ShiftAgrees ==
  ASSUME NEW st, NEW t, Renders(t, st), st.op \in ShiftSelfOps, ~ KnownDisagreement(st)
  PROVE  Agrees(ExpandShift(t, WordCount(st).value), WordCount(st).value)
<1> DEFINE count == WordCount(st).value
           value == ShiftedValue(t)
           word(x) == <<Word(t.op, <<t.args[1], x, Amount(t)>>)>>
           variable == t.op \notin ShiftImmediateOps
           code == FirstError(<<
               Raise(t.op \notin ShiftSourceOps, "A200"),
               Raise(variable /\ ~IsRegister(Amount(t)), "A200"),
               Raise(variable /\ Amount(t) = Register(At), "A230")>>)
           load == LoadInto(Register(At), value, count - 1)
           long == st.op \in ShiftSourceOps /\ Len(st.args) = 3 /\ ~ IsRegister(st.args[2])
<1>1. /\ Len(st.args) \in {2, 3} /\ Len(t.args) = Len(st.args) /\ t.op = st.op
      /\ value = t.args[Len(st.args) - 1]
      /\ \A i \in 1 .. Len(st.args) : Answers(t.args[i], st.args[i])
  BY ShiftOperands DEF Renders
<1>2. Answers(t.args[1], st.args[1]) /\ Answers(t.args[2], st.args[2])
  BY <1>1
<1>3. WordCount(st) = IF long THEN Yield(LoadWords(st.args[2]) + 1) ELSE Yield(1)
  <2>1. /\ st.op # "li" /\ st.op \notin ImmediateSets \cup DivideOps \cup ImmediateTraps \cup MemoryOps
        /\ st.op \notin {"abs", "begin", "la", "push", "pop", "end"}
        /\ ~ HasSources(st) /\ ~ RotatesThroughTemporary(st)
    BY FamiliesApart DEF HasSources, PairOps, ShiftSelfOps, RotatesThroughTemporary, MemoryOps,
       RotateOps
  <2> QED
    BY <2>1 DEF WordCount
<1>4. ExpandShift(t, count)
         = CASE IsRegister(value) -> Yield(word(value))
             [] ~IsRegister(value) /\ code # "none" -> Refuse(code)
             [] OTHER -> Then(load, word(Register(At)))
  BY DEF ExpandShift
<1>5. /\ code # "internal"
      /\ code = "none" => t.op \in ShiftSourceOps
  <2>1. /\ Raise(t.op \notin ShiftSourceOps, "A200") # "internal"
        /\ Raise(variable /\ ~IsRegister(Amount(t)), "A200") # "internal"
        /\ Raise(variable /\ Amount(t) = Register(At), "A230") # "internal"
    BY DEF Raise
  <2>2. code = "none" => Raise(t.op \notin ShiftSourceOps, "A200") = "none"
    BY <2>1, ThreeChecks
  <2>3. code # "internal"
    BY <2>1, ThreeChecks
  <2> QED
    BY <2>2, <2>3 DEF Raise
<1>6. ASSUME IsRegister(value)
      PROVE  Agrees(ExpandShift(t, count), count)
  <2>1. Len(st.args) = 3 => IsRegister(st.args[2])
    <3>1. Len(st.args) = 3 => value = t.args[2]
      BY <1>1
    <3> QED
      BY <1>2, <1>6, <3>1 DEF Answers, IsRegister
  <2>2. count = 1
    BY <1>3, <2>1 DEF Yield
  <2>3. Agrees(Yield(word(value)), 1)
    BY SingleAgrees
  <2> QED
    BY <1>4, <1>6, <2>2, <2>3
<1>7. ASSUME ~ IsRegister(value), code # "none"
      PROVE  Agrees(ExpandShift(t, count), count)
  BY <1>4, <1>5, <1>7, RefusalAgrees
<1>8. ASSUME ~ IsRegister(value), code = "none"
      PROVE  Agrees(ExpandShift(t, count), count)
  <2>1. long /\ value = t.args[2]
    BY <1>1, <1>2, <1>5, <1>8, SMTT(60) DEF KnownDisagreement, Answers, IsRegister
  <2> DEFINE x == st.args[2]
             words == word(Register(At))
  <2>2. count = LoadWords(x) + 1
    BY <1>3, <2>1 DEF Yield
  <2>3. ExpandShift(t, count) = Then(LoadInto(Register(At), value, (LoadWords(x) + 1) - 1), words)
    BY <1>4, <1>8, <2>2
  <2>4. IsSequence(words) /\ Len(words) = 1 /\ 1 \in {1, 2} /\ Answers(value, x)
    BY <1>2, <2>1, TupleSequences
  <2> HIDE DEF words, x, value, count
  <2>5. Agrees(Then(LoadInto(Register(At), value, (LoadWords(x) + 1) - 1), words), LoadWords(x) + 1)
    BY <2>4, LoadThenAgrees
  <2> QED
    BY <2>2, <2>3, <2>5
<1> QED
  BY <1>6, <1>7, <1>8

LEMMA RotateAgrees ==
  ASSUME NEW st, NEW t, Renders(t, st), st.op \in RotateOps
  PROVE  Agrees(ExpandRotate(t), WordCount(st).value)
<1> DEFINE n == Len(st.args)
           amount == t.args[n]
           through == t.op = "rol" /\ IsRegister(amount)
           value == t.args[n - 1]
           code == FirstError(<<
            Raise(through /\ ~IsRegister(value), "A200"),
            Raise(through /\ value = Register(At), "A230"),
            Raise(amount.kind = "unknown", "A104"),
            Raise(~IsRegister(amount) /\ amount.value \notin 0 .. WordBits - 1, "A219")>>)
<1>1. /\ n \in {2, 3} /\ t.op = st.op
      /\ Amount(st) = st.args[n] /\ Amount(t) = amount /\ ShiftedValue(t) = value
      /\ Answers(amount, st.args[n])
  <2>1. /\ n \in {2, 3} /\ Len(t.args) = n /\ t.op = st.op
        /\ Amount(st) = st.args[n]
        /\ \A i \in 1 .. n : Answers(t.args[i], st.args[i])
    BY ShiftOperands DEF Renders
  <2>2. Amount(t) = amount /\ ShiftedValue(t) = value
    <3>1. Counted(t) /\ t.op \in ShiftSelfOps \cup RotateOps
      BY DEF Renders
    <3>2. ShiftedValue(t) = t.args[Len(t.args) - 1] /\ Amount(t) = t.args[Len(t.args)]
      BY <3>1, ShiftOperands
    <3> QED
      BY <2>1, <3>2
  <2>3. Answers(t.args[n], st.args[n])
    <3>2. \A k \in {2, 3} : k \in 1 .. k
      OBVIOUS
    <3>1. n \in 1 .. n
      BY <2>1, <3>2
    <3> QED
      BY <2>1, <3>1
  <2> QED
    BY <2>1, <2>2, <2>3
<1>2. RotatesThroughTemporary(st) <=> through
  BY <1>1 DEF RotatesThroughTemporary, Answers, IsRegister
<1>3. WordCount(st) = IF through THEN Yield(2) ELSE Yield(1)
  <2>1. /\ st.op # "li" /\ st.op \notin ImmediateSets \cup DivideOps \cup ImmediateTraps \cup MemoryOps
        /\ st.op \notin {"abs", "begin", "la", "push", "pop", "end"}
        /\ ~ HasSources(st) /\ st.op \notin ShiftSourceOps
    BY FamiliesApart DEF HasSources, PairOps, ShiftSelfOps, MemoryOps
  <2> QED
    BY <1>2, <2>1 DEF WordCount
<1>4. code # "internal"
  <2> DEFINE errors == <<Raise(through /\ ~IsRegister(value), "A200"),
            Raise(through /\ value = Register(At), "A230"),
            Raise(amount.kind = "unknown", "A104"),
            Raise(~IsRegister(amount) /\ amount.value \notin 0 .. WordBits - 1, "A219")>>
  <2>1. DOMAIN errors = 1 .. 4 /\ \A i \in 1 .. 4 : errors[i] # "internal"
    BY DEF Raise
  <2> HIDE DEF errors
  <2>2. FirstError(errors) # "internal"
    BY <2>1, Diagnosed
  <2> QED
    BY <2>2 DEF errors
<1>5. ExpandRotate(t)
        = CASE code # "none" -> Refuse(code)
          [] code = "none" /\ through ->
                 Yield(<<Word("subu", <<Register(At), Register(Zero), amount>>),
                         Word("rotrv", <<t.args[1], value, Register(At)>>)>>)
          [] code = "none" /\ IsRegister(amount) /\ ~through ->
                 Yield(<<Word("rotrv", <<t.args[1], value, amount>>)>>)
          [] OTHER ->
                 Yield(<<Word("rotr", <<t.args[1], value, Constant(
                     IF t.op = "rol" THEN -amount.value % WordBits
                     ELSE amount.value)>>)>>)
  BY <1>1 DEF ExpandRotate, RotatesThroughTemporary
<1> HIDE DEF code, value
<1>6. \A v, w : Agrees(Yield(<<v, w>>), 2) /\ Agrees(Yield(<<w>>), 1)
  <2>1. \A v, w : IsSequence(<<v, w>>) /\ Len(<<v, w>>) = 2
    BY TupleSequences
  <2> QED
    BY <2>1, SingleAgrees, YieldAgrees
<1>7. WordCount(st).value = IF through THEN 2 ELSE 1
  BY <1>3 DEF Yield
<1>8. CASE code # "none"
  BY <1>4, <1>5, <1>8, RefusalAgrees
<1>9. CASE code = "none" /\ through
  <2>1. \E v, w : ExpandRotate(t) = Yield(<<v, w>>)
    BY <1>5, <1>9
  <2> QED
    BY <1>6, <1>7, <1>9, <2>1
<1>10. CASE code = "none" /\ ~ through
  <2>1. \E w : ExpandRotate(t) = Yield(<<w>>)
    <3>1. CASE IsRegister(amount)
      BY <1>5, <1>10, <3>1
    <3>2. CASE ~ IsRegister(amount)
      BY <1>5, <1>10, <3>2
    <3> QED
      BY <3>1, <3>2
  <2> QED
    BY <1>6, <1>7, <1>10, <2>1
<1> QED
  BY <1>8, <1>9, <1>10

LEMMA ImmediateTrapAgrees ==
  ASSUME NEW st, NEW t, Renders(t, st), st.op \in ImmediateTraps
  PROVE  Agrees(ExpandImmediateTrap(t, WordCount(st).value), WordCount(st).value)
<1> DEFINE count == WordCount(st).value
           x == st.args[2]
           y == t.args[2]
           words == <<Word(ImmediateTrap[t.op], <<Register(At), t.args[1]>>)>>
<1>1. Len(st.args) = 2
  <2>1. OperandCounts(st.op) = {2}
    BY OperandCountsOf
  <2> QED
    BY <2>1 DEF Renders, Counted
<1>2. Answers(y, x)
  BY <1>1 DEF Renders
<1>3. WordCount(st) = Yield(LoadWords(x) + 1)
  <2>1. /\ st.op # "li" /\ st.op \notin ImmediateSets \cup DivideOps \cup ShiftSourceOps \cup MemoryOps
        /\ st.op \notin {"abs", "begin", "la", "push", "pop", "end"}
        /\ ~ HasSources(st) /\ ~ RotatesThroughTemporary(st)
    BY FamiliesApart DEF HasSources, PairOps, ShiftSelfOps, RotatesThroughTemporary, MemoryOps,
       RotateOps
  <2> QED
    BY <2>1 DEF WordCount
<1>4. count = LoadWords(x) + 1
  BY <1>3 DEF Yield
<1>5. IsSequence(words) /\ Len(words) = 1 /\ 1 \in {1, 2}
  BY TupleSequences
<1>6. \/ ExpandImmediateTrap(t, count) \in {Refuse("A200"), Refuse("A230")}
      \/ ExpandImmediateTrap(t, count) = Then(LoadInto(Register(At), y, (LoadWords(x) + 1) - 1), words)
  BY <1>4 DEF ExpandImmediateTrap
<1> HIDE DEF words, x, y, count
<1>7. Agrees(Then(LoadInto(Register(At), y, (LoadWords(x) + 1) - 1), words), LoadWords(x) + 1)
  BY <1>2, <1>5, LoadThenAgrees
<1>8. Agrees(Refuse("A200"), count) /\ Agrees(Refuse("A230"), count)
  BY RefusalAgrees
<1>9. Agrees(ExpandImmediateTrap(t, count), count)
  BY <1>4, <1>6, <1>7, <1>8
<1> QED
  BY <1>9 DEF count

LEMMA FixedAgrees ==
  ASSUME NEW st, NEW t, Renders(t, st), NEW address,
         st.op \notin MemoryOps \cup {"li", "la"} \cup ShiftSelfOps \cup RotateOps \cup ImmediateTraps,
         ~ HasSources(st)
  PROVE  Agrees(Yield(Fixed(t, address)), WordCount(st).value)
<1> DEFINE count == WordCount(st).value
           words == Fixed(t, address)
<1>1. t.op = st.op
  BY DEF Renders
<1>2. WordCount(st) = IF st.op \in {"abs", "begin"} THEN Yield(3)
                      ELSE IF st.op \in {"push", "pop", "end"} THEN Yield(2)
                      ELSE Yield(1)
  <2>1. /\ st.op \notin ImmediateSets \cup DivideOps /\ st.op \notin ShiftSourceOps
        /\ ~ RotatesThroughTemporary(st)
    BY DEF HasSources, PairOps, ShiftSelfOps, RotateOps, RotatesThroughTemporary
  <2> QED
    BY <2>1 DEF WordCount
<1>3. CASE st.op \in {"abs", "begin"}
  <2>1. \E u, v, w : words = <<u, v, w>>
    BY <1>1, <1>3, FamiliesApart DEF Fixed, ExpandAbsolute
  <2>2. \A u, v, w : IsSequence(<<u, v, w>>) /\ Len(<<u, v, w>>) = 3
    <3> TAKE u, v, w
    <3>1. <<u, v, w>> \in Seq({u, v, w}) /\ Len(<<u, v, w>>) = 3
      OBVIOUS
    <3> QED
      BY <3>1 DEF IsSequence
  <2> HIDE DEF words
  <2>3. IsSequence(words) /\ Len(words) = 3
    BY <2>1, <2>2
  <2>4. count = 3
    BY <1>2, <1>3 DEF Yield
  <2> QED
    BY <2>3, <2>4, YieldAgrees DEF words
<1>4. CASE st.op \in {"push", "pop", "end"}
  <2>1. \E v, w : words = <<v, w>>
    BY <1>1, <1>4, FamiliesApart DEF Fixed
  <2> HIDE DEF words
  <2>2. \A v, w : IsSequence(<<v, w>>) /\ Len(<<v, w>>) = 2
    BY TupleSequences
  <2>3. IsSequence(words) /\ Len(words) = 2
    BY <2>1, <2>2
  <2>4. count = 2
    BY <1>2, <1>4 DEF Yield
  <2> QED
    BY <2>3, <2>4, YieldAgrees DEF words
<1>5. CASE st.op \notin {"abs", "begin", "push", "pop", "end"}
  <2>1. \E w : words = <<w>>
    BY <1>1, <1>5, FamiliesApart DEF Fixed
  <2> HIDE DEF words
  <2>2. count = 1
    BY <1>2, <1>5 DEF Yield
  <2> QED
    BY <2>1, <2>2, SingleAgrees DEF words
<1> QED
  BY <1>3, <1>4, <1>5

(* Every expansion is as long as the first pass said. *)
LEMMA ExpansionAgrees ==
  ASSUME NEW st, NEW t, Renders(t, st), ~ KnownDisagreement(st), Ok(WordCount(st)),
         st.op \in MemoryOps => st.args[3].kind \in {"register", "none"},
         NEW address
  PROVE  Agrees(Expanded(t, WordCount(st).value, address), WordCount(st).value)
<1> DEFINE count == WordCount(st).value
           result == Expanded(t, count, address)
<1>1. t.op = st.op /\ Counted(st) /\ (HasSources(t) <=> HasSources(st))
  BY DEF Renders, HasSources
<1>10. /\ HasSources(st) =>
            st.op \notin MemoryOps \cup {"li", "la"} \cup ShiftSelfOps \cup RotateOps \cup ImmediateTraps
       /\ st.op \in ShiftSelfOps => st.op \notin MemoryOps \cup {"li", "la"} \cup RotateOps \cup ImmediateTraps
       /\ st.op \in RotateOps => st.op \notin MemoryOps \cup {"li", "la"} \cup ImmediateTraps
       /\ st.op \in ImmediateTraps => st.op \notin MemoryOps \cup {"li", "la"}
       /\ st.op \in {"li", "la"} => st.op \notin MemoryOps
  BY FamiliesApart DEF HasSources, PairOps, ShiftSelfOps, MemoryOps
<1>2. CASE st.op \in MemoryOps
  <2>1. result = ExpandMemory(t, count)
    BY <1>1, <1>2, <1>10 DEF Expanded
  <2> HIDE DEF result, count
  <2> QED
    BY <1>2, <2>1, MemoryAgrees DEF result, count
<1>3. CASE st.op = "li"
  <2>1. result = LoadInto(t.args[1], t.args[2], count)
    BY <1>1, <1>3, <1>10 DEF Expanded
  <2>2. Len(st.args) = 2
    BY <1>1, <1>3, OperandCountsOf, ZenonT(60) DEF Counted
  <2>3. Answers(t.args[2], st.args[2])
    BY <2>2 DEF Renders
  <2>4. count = LoadWords(st.args[2])
    <3>1. WordCount(st) = Yield(LoadWords(st.args[2]))
      BY <1>3, <1>10, FamiliesApart DEF WordCount, ShiftSelfOps, RotatesThroughTemporary, RotateOps
    <3> QED
      BY <3>1 DEF Yield
  <2> QED
    BY <2>1, <2>3, <2>4, LoadAgrees
<1>4. CASE st.op = "la"
  <2>1. result = LoadAddress(t.args[1], t.args[2])
    BY <1>1, <1>4, <1>10 DEF Expanded
  <2>2. count = 2
    <3>1. WordCount(st) = Yield(2)
      BY <1>4, <1>10, FamiliesApart DEF WordCount, ShiftSelfOps, RotatesThroughTemporary, RotateOps
    <3> QED
      BY <3>1 DEF Yield
  <2> QED
    BY <2>1, <2>2, AddressAgrees
<1>5. CASE HasSources(st)
  <2>1. result = ExpandSources(t, count)
    BY <1>1, <1>5, <1>10 DEF Expanded
  <2> HIDE DEF result, count
  <2> QED
    BY <1>5, <2>1, SourcesAgree DEF result, count
<1>6. CASE st.op \in ShiftSelfOps
  <2>1. result = ExpandShift(t, count)
    BY <1>1, <1>6, <1>10 DEF Expanded
  <2> HIDE DEF result, count
  <2> QED
    BY <1>6, <2>1, ShiftAgrees DEF result, count
<1>7. CASE st.op \in RotateOps
  <2>1. result = ExpandRotate(t)
    BY <1>1, <1>7, <1>10 DEF Expanded
  <2> HIDE DEF result, count
  <2> QED
    BY <1>7, <2>1, RotateAgrees DEF result, count
<1>8. CASE st.op \in ImmediateTraps
  <2>1. result = ExpandImmediateTrap(t, count)
    BY <1>1, <1>8, <1>10 DEF Expanded
  <2> HIDE DEF result, count
  <2> QED
    BY <1>8, <2>1, ImmediateTrapAgrees DEF result, count
<1>9. CASE /\ st.op \notin MemoryOps \cup {"li", "la"} \cup ShiftSelfOps \cup RotateOps \cup ImmediateTraps
           /\ ~ HasSources(st)
  <2>1. result = Yield(Fixed(t, address))
    BY <1>1, <1>9 DEF Expanded
  <2> HIDE DEF result, count
  <2> QED
    BY <1>9, <2>1, FixedAgrees DEF result, count
<1> QED
  BY <1>2, <1>3, <1>4, <1>5, <1>6, <1>7, <1>8, <1>9

-----------------------------------------------------------------------------
(* Encoding never fails on the assembler's own assertions. *)

LEMMA EncodingIsDiagnosed ==
  ASSUME NEW word
  PROVE  EncodeError(word) # "internal"
<1> DEFINE format == Format(word.op)
           errors == [i \in DOMAIN format |-> OperandError(format[i], word.args[i])]
<1>1. \E n \in 0 .. 3 : DOMAIN format = 1 .. n
  BY DEF Format
<1>2. PICK n \in Nat : DOMAIN errors = 1 .. n
  BY <1>1
<1>3. \A slot, x : OperandError(slot, x) # "internal"
  <2> TAKE slot, x
  <2> DEFINE checks == <<Raise(x.kind \in {"register", "unknown"}, "A104"),
        Raise(slot = "half" /\ ~FitsSigned(x.value) /\ ~FitsUnsigned(x.value), "A120"),
        Raise(slot = "unsigned" /\ ~FitsUnsigned(x.value), "A121"),
        Raise(slot = "amount" /\ x.value \notin 0 .. WordBits - 1, "A121")>>
  <2>1. DOMAIN checks = 1 .. 4 /\ \A i \in 1 .. 4 : checks[i] # "internal"
    BY DEF Raise
  <2>2. OperandError(slot, x)
          = IF slot = "register" THEN Raise(~IsRegister(x), "A200") ELSE FirstError(checks)
    BY DEF OperandError
  <2> HIDE DEF checks
  <2>3. FirstError(checks) # "internal"
    BY <2>1, Diagnosed
  <2> QED
    BY <2>2, <2>3 DEF Raise
<1>4. \A i \in 1 .. n : errors[i] # "internal"
  BY <1>2, <1>3
<1> HIDE DEF errors
<1>5. FirstError(errors) # "internal"
  BY <1>2, <1>4, Diagnosed
<1> QED
  BY <1>5 DEF EncodeError, errors

(* The second pass emits what the first pass reserved, or refuses the      *)
(* statement with a diagnostic.                                            *)
LEMMA SecondPassAgrees ==
  ASSUME NEW st, NEW t, Renders(t, st), ~ KnownDisagreement(st), Ok(WordCount(st)),
         st.op \in MemoryOps => st.args[3].kind \in {"register", "none"},
         NEW address
  PROVE  LET count == WordCount(st).value
             result == Expanded(t, count, address)
         IN  /\ Agrees(SecondPass(t, count, address), count)
             /\ Ok(SecondPass(t, count, address)) => SecondPass(t, count, address) = result /\ Ok(result)
<1> DEFINE count == WordCount(st).value
           result == Expanded(t, count, address)
           words == result.value
           failures == FirstError([i \in DOMAIN words |-> EncodeError(words[i])])
           short == Raise(Len(words) # count, "internal")
           code == FirstError(<<result.error, short, failures>>)
<1>1. Agrees(result, count)
  BY ExpansionAgrees
<1>2. SecondPass(t, count, address) = IF code = "none" THEN result ELSE Refuse(code)
  BY DEF SecondPass
<1> HIDE DEF result, count
<1>3. CASE Ok(result)
  <2>1. IsSequence(words) /\ Len(words) = count /\ result.error = "none"
    BY <1>1, <1>3 DEF Agrees, Ok
  <2>2. short # "internal"
    BY <2>1 DEF Raise
  <2>3. failures # "internal"
    <3> DEFINE errors == [i \in DOMAIN words |-> EncodeError(words[i])]
               n == Len(words)
    <3>1. DOMAIN words = 1 .. n /\ n \in Nat
      BY <2>1 DEF IsSequence
    <3>2. DOMAIN errors = 1 .. n /\ \A i \in 1 .. n : errors[i] # "internal"
      BY <3>1, EncodingIsDiagnosed
    <3> HIDE DEF errors, n
    <3>3. FirstError(errors) # "internal"
      BY <3>1, <3>2, Diagnosed
    <3> QED
      BY <3>3 DEF errors
  <2>4. code # "internal"
    <3>1. result.error # "internal"
      BY <2>1
    <3> HIDE DEF short, failures
    <3> QED
      BY <2>2, <2>3, <3>1, ThreeChecks
  <2> HIDE DEF code
  <2>5. CASE code = "none"
    BY <1>1, <1>2, <1>3, <2>5 DEF result, count
  <2>6. CASE code # "none"
    BY <1>2, <2>4, <2>6, RefusalAgrees DEF result, count, Refuse, Ok
  <2> QED
    BY <2>5, <2>6
<1>4. CASE ~ Ok(result)
  <2>1. result.error # "none" /\ result.error # "internal"
    BY <1>1, <1>4 DEF Agrees, Ok
  <2> DEFINE errors == <<result.error, short, failures>>
  <2>2. DOMAIN errors = 1 .. 3 /\ errors[1] = result.error
    OBVIOUS
  <2> HIDE DEF errors
  <2>3. FirstError(errors) = errors[1]
    <3> DEFINE raised == {i \in DOMAIN errors : errors[i] # "none"}
    <3>1. 1 \in raised /\ raised \in SUBSET Nat
      BY <2>1, <2>2
    <3>2. raised \subseteq 1 .. 3 /\ FirstError(errors) = IF raised = {} THEN "none" ELSE errors[Min(raised)]
      BY <2>2 DEF FirstError
    <3> HIDE DEF raised
    <3>3. Min(raised) \in raised /\ \A y \in raised : Min(raised) <= y
      BY <3>1, LeastOf
    <3>4. Min(raised) = 1
      <4> DEFINE m == Min(raised)
      <4>1. m \in 1 .. 3 /\ m <= 1
        BY <3>1, <3>2, <3>3
      <4> HIDE DEF m
      <4>2. m = 1
        BY <4>1
      <4> QED
        BY <4>2 DEF m
    <3> QED
      BY <3>1, <3>2, <3>4
  <2>4. code = result.error
    BY <2>2, <2>3 DEF errors
  <2> HIDE DEF code
  <2>5. SecondPass(t, count, address) = Refuse(result.error)
    BY <1>2, <2>1, <2>4
  <2> QED
    BY <2>1, <2>5, RefusalAgrees DEF result, count, Refuse, Ok
<1> QED
  BY <1>3, <1>4

-----------------------------------------------------------------------------
(* What the second pass finds in the statements the first pass accepted.   *)

(* The first pass checked the statement, reserved its words and found the  *)
(* settings it was read under kept.                                        *)
IsAccepted(o) ==
    LET count == WordCount(o.statement)
    IN  IF o.statement.kind = "instruction"
        THEN /\ IsInstruction(o.statement)
             /\ Ok(count) /\ o.size = 4 * count.value
             /\ ~o.settings.macro => ~UsesMacro(o.statement, count.value)
             /\ ~o.settings.at => ~UsesTemporary(o.statement, count.value)
        ELSE IsDirective(o.statement)

(* Entry i of the image is what the second pass makes of object i.         *)
IsEmitted(i) == Ok(Emitted(located[i])) /\ image[i] = Emitted(located[i]).value

(* The inductive invariant of the second pass: what was accepted, what was *)
(* emitted so far, and that no word count ever differed on a statement     *)
(* other than the known ones.                                              *)
PassesInv ==
    /\ IsSequence(image) /\ Len(image) <= Len(located)
    /\ phase = "first" => image = <<>>
    /\ phase # "refused" => error = "none"
    /\ \A i \in 1 .. Len(located) : IsAccepted(located[i])
    /\ \A i \in 1 .. Len(image) : IsEmitted(i)
    /\ PassesAgree

(* The first pass only ever refuses with a diagnostic. *)
LEMMA FirstPassDiagnosed ==
  /\ \A x : Undefined(x) # "internal"
  /\ \A cursors : LimitError(cursors) # "internal"
  /\ \A name : DefineError(name) # "internal"
  /\ \A s, x, requested : OriginError(s, x, requested) # "internal"
  /\ \A st : WordCount(st).error # "internal"
  /\ \A plain, required : EntryError(plain, required) # "internal"
<1>1. \A x : Undefined(x) # "internal"
  BY DEF Undefined, Raise
<1>2. \A cursors : LimitError(cursors) # "internal"
  BY DEF LimitError
<1>3. \A condition : Raise(condition, "A211") # "internal" /\ Raise(condition, "A212") # "internal"
                     /\ Raise(condition, "A213") # "internal" /\ Raise(condition, "A216") # "internal"
                     /\ Raise(condition, "A217") # "internal" /\ Raise(condition, "A228") # "internal"
                     /\ Raise(condition, "A229") # "internal" /\ Raise(condition, "A235") # "internal"
                     /\ Raise(condition, "A237") # "internal"
  BY DEF Raise
<1>4. ASSUME NEW name PROVE DefineError(name) # "internal"
  BY <1>3, ThreeChecks DEF DefineError
<1>5. ASSUME NEW s, NEW x, NEW requested PROVE OriginError(s, x, requested) # "internal"
  <2> DEFINE errors == <<Undefined(x),
                 Raise(requested < cursor[s], "A213"),
                 Raise(requested > SectionBase[s] + SectionSize[s],
                       IF s \in TextSections THEN "A216" ELSE "A217"),
                 Raise(s \in TextSections /\ requested % 4 # 0, "A213")>>
  <2>1. DOMAIN errors = 1 .. 4 /\ \A i \in 1 .. 4 : errors[i] # "internal"
    BY <1>1, <1>3
  <2> HIDE DEF errors
  <2>2. FirstError(errors) # "internal"
    BY <2>1, Diagnosed
  <2> QED
    BY <2>2 DEF OriginError, errors
<1>6. ASSUME NEW st PROVE WordCount(st).error # "internal"
  <2>1. \A n : Yield(n).error = "none"
    BY DEF Yield
  <2>2. \A sources, base : ValueWords(sources, base).error # "internal"
    BY DEF ValueWords, Yield, Refuse
  <2> QED
    BY <2>1, <2>2 DEF WordCount
<1>7. ASSUME NEW plain, NEW required PROVE EntryError(plain, required) # "internal"
  BY <1>3, ThreeChecks DEF EntryError
<1> QED
  BY <1>1, <1>2, <1>4, <1>5, <1>6, <1>7

(* What an item emits depends on nothing but the tables of names. *)
LEMMA SameEmitted ==
  ASSUME UNCHANGED <<local, global>>
  PROVE  \A item : Emitted(item)' = Emitted(item)
BY DEF Emitted, Resolved, View, ViewOf

LEMMA EmittedStand ==
  ASSUME UNCHANGED <<located, image, local, global>>, \A i \in 1 .. Len(image) : IsEmitted(i)
  PROVE  \A i \in 1 .. Len(image) : IsEmitted(i)'
BY SameEmitted DEF IsEmitted

LEMMA RefusedKeepsPasses ==
  ASSUME PassesInv, NEW code, code # "internal", Refused(code)
  PROVE  PassesInv'
<1>1. /\ phase' = "refused" /\ error' = code
      /\ UNCHANGED <<located, image, local, global>>
  BY DEF Refused, layout
<1>2. \A i \in 1 .. Len(image) : IsEmitted(i)'
  BY <1>1, EmittedStand DEF PassesInv
<1>3. PassesAgree'
  BY <1>1 DEF PassesAgree
<1> QED
  BY <1>1, <1>2, <1>3 DEF PassesInv

LEMMA ReadingKeepsPasses ==
  ASSUME PassesInv, phase = "first", UNCHANGED <<phase, error, located, image>>
  PROVE  PassesInv'
<1>1. image' = <<>> /\ error' = "none"
  BY DEF PassesInv
<1>2. Len(image') = 0
  BY <1>1
<1>3. \A i \in 1 .. Len(image') : IsEmitted(i)'
  BY <1>2
<1>4. PassesAgree'
  BY <1>1 DEF PassesAgree
<1> QED
  BY <1>3, <1>4 DEF PassesInv

LEMMA PlacingKeepsPasses ==
  ASSUME Shapes, PassesInv, phase = "first", UNCHANGED <<phase, error, image>>,
         NEW o, IsAccepted(o), located' = Append(located, o)
  PROVE  PassesInv'
<1>1. image' = <<>> /\ error' = "none" /\ Len(image') = 0
  <2>1. image' = <<>> /\ error' = "none"
    BY DEF PassesInv
  <2> QED
    BY <2>1
<1>2. IsSequence(located) /\ Len(located) \in Nat
  BY LengthIsNatural DEF Shapes
<1>3. /\ Len(located') = Len(located) + 1 /\ located'[Len(located) + 1] = o
      /\ \A i \in 1 .. Len(located) : located'[i] = located[i]
  BY <1>2 DEF IsSequence
<1>4. \A i \in 1 .. Len(located') : IsAccepted(located'[i])
  <2>1. \A i \in 1 .. Len(located') : i \in 1 .. Len(located) \/ i = Len(located) + 1
    BY <1>2, <1>3
  <2> QED
    BY <1>3, <2>1 DEF PassesInv
<1>5. \A i \in 1 .. Len(image') : IsEmitted(i)'
  BY <1>1
<1>6. PassesAgree'
  BY <1>1 DEF PassesAgree
<1>7. Len(image') <= Len(located')
  BY <1>1, <1>2, <1>3
<1>8. \A o1 : IsAccepted(o1)' <=> IsAccepted(o1)
  BY DEF IsAccepted
<1> QED
  BY <1>1, <1>4, <1>5, <1>6, <1>7, <1>8, EmptyIsSequence DEF PassesInv

LEMMA InstructionKeepsPasses ==
  ASSUME Shapes, PassesInv, phase = "first", NEW st, IsLine(st), ReadInstruction(st)
  PROVE  PassesInv'
<1> DEFINE count == WordCount(st)
           cursors == [cursor EXCEPT ![section] = @ + 4 * count.value]
           macro == Raise(~settings.macro /\ UsesMacro(st, count.value), "A240")
           temporary == Raise(~settings.at /\ UsesTemporary(st, count.value), "A241")
           code == IF section \notin TextSections THEN "A215"
                   ELSE IF ~Ok(count) THEN count.error
                   ELSE FirstError(<<macro, temporary, LimitError(cursors)>>)
           o == [statement |-> st, file |-> file, section |-> section,
                 address |-> cursor[section], size |-> 4 * count.value,
                 settings |-> settings, epoch |-> epoch[section]]
<1>1. /\ macro # "internal" /\ temporary # "internal" /\ LimitError(cursors) # "internal"
      /\ count.error # "internal"
  BY FirstPassDiagnosed DEF Raise
<1>2. /\ code # "internal"
      /\ code = "none" => Ok(count) /\ macro = "none" /\ temporary = "none"
  <2> HIDE DEF macro, temporary, cursors, count
  <2>1. FirstError(<<macro, temporary, LimitError(cursors)>>) # "internal"
    BY <1>1, ThreeChecks
  <2>2. FirstError(<<macro, temporary, LimitError(cursors)>>) = "none" =>
           macro = "none" /\ temporary = "none"
    BY <1>1, ThreeChecks
  <2> QED
    BY <1>1, <2>1, <2>2 DEF Ok
<1>3. CASE code # "none"
  <2>1. Refused(code)
    BY <1>3 DEF ReadInstruction
  <2> HIDE DEF code
  <2> QED
    BY <1>2, <2>1, RefusedKeepsPasses
<1>4. CASE code = "none"
  <2>1. /\ located' = Append(located, o) /\ UNCHANGED <<phase, error, image>>
        /\ st.kind = "instruction"
    BY <1>4 DEF ReadInstruction, Place
  <2>2. IsAccepted(o)
    <3>1. IsInstruction(st)
      BY <2>1 DEF IsLine
    <3>2. ~settings.macro => ~UsesMacro(st, count.value)
      BY <1>2, <1>4 DEF Raise
    <3>3. ~settings.at => ~UsesTemporary(st, count.value)
      BY <1>2, <1>4 DEF Raise
    <3>4. o.statement = st /\ o.size = 4 * count.value /\ o.settings = settings
      OBVIOUS
    <3> HIDE DEF o
    <3> QED
      BY <1>2, <1>4, <2>1, <3>1, <3>2, <3>3, <3>4 DEF IsAccepted
  <2> HIDE DEF o
  <2> QED
    BY <2>1, <2>2, PlacingKeepsPasses
<1> QED
  BY <1>3, <1>4

LEMMA DirectiveKeepsPasses ==
  ASSUME Shapes, PassesInv, phase = "first", NEW st, IsLine(st), ReadDirective(st)
  PROVE  PassesInv'
<1> DEFINE x == Resolve(st.reserve, ViewOf(local, global, file))
           size == st.width * Len(st.values) + x.value
           address == Aligned(cursor[section], st.align)
           cursors == [cursor EXCEPT ![section] = address + size]
           errors == <<Raise(section \in TextSections /\ ~AllowedInText(st), "A205"),
                       Undefined(x),
                       Raise(x.value < 0, "A208"),
                       LimitError(cursors)>>
           o == [statement |-> st, file |-> file, section |-> section,
                 address |-> address, size |-> size,
                 settings |-> settings, epoch |-> epoch[section]]
<1>1. FirstError(errors) # "internal"
  <2>1. /\ Raise(section \in TextSections /\ ~AllowedInText(st), "A205") # "internal"
        /\ Undefined(x) # "internal" /\ Raise(x.value < 0, "A208") # "internal"
        /\ LimitError(cursors) # "internal"
    BY FirstPassDiagnosed DEF Raise
  <2>2. DOMAIN errors = 1 .. 4 /\ \A i \in 1 .. 4 : errors[i] # "internal"
    BY <2>1
  <2> HIDE DEF errors
  <2> QED
    BY <2>2, Diagnosed
<1>2. CASE FirstError(errors) # "none"
  <2>1. Refused(FirstError(errors))
    BY <1>2 DEF ReadDirective
  <2> HIDE DEF errors
  <2> QED
    BY <1>1, <2>1, RefusedKeepsPasses
<1>3. CASE FirstError(errors) = "none"
  <2>1. /\ located' = Append(located, o) /\ UNCHANGED <<phase, error, image>>
        /\ st.kind = "directive"
    BY <1>3 DEF ReadDirective, Place
  <2>2. IsAccepted(o)
    <3>1. IsDirective(st) /\ o.statement = st
      BY <2>1 DEF IsLine
    <3> HIDE DEF o
    <3> QED
      BY <2>1, <3>1 DEF IsAccepted
  <2> HIDE DEF o
  <2> QED
    BY <2>1, <2>2, PlacingKeepsPasses
<1> QED
  BY <1>2, <1>3

LEMMA ReadKeepsPasses ==
  ASSUME Shapes, PassesInv, Read
  PROVE  PassesInv'
<1>1. phase = "first" /\ corpus \in Corpora /\ corpus.next \in DOMAIN Corpus[corpus.kind]
  BY DEF Read, Shapes, Corpora
<1>2. PICK st \in Corpus[corpus.kind][corpus.next] :
        \/ ReadFile(st) \/ ReadLabel(st) \/ ReadSection(st) \/ ReadConstant(st)
        \/ ReadSetting(st) \/ ReadDirective(st) \/ ReadInstruction(st)
  BY DEF Read
<1>3. IsLine(st)
  BY <1>1, CorpusAssumption DEF Corpora
<1>4. CASE ReadFile(st)
  BY <1>1, <1>4, ReadingKeepsPasses DEF ReadFile
<1>5. CASE ReadLabel(st)
  <2>1. CASE Refused(DefineError(st.name))
    BY <2>1, FirstPassDiagnosed, RefusedKeepsPasses
  <2>2. CASE ~ Refused(DefineError(st.name))
    BY <1>1, <1>5, <2>2, ReadingKeepsPasses DEF ReadLabel
  <2> QED
    BY <2>1, <2>2
<1>6. CASE ReadSection(st)
  <2> DEFINE s == st.section
             x == Resolve(st.origin, ViewOf(local, global, file))
             requested == IF st.origin = NoOrigin THEN cursor[s] ELSE x.value
             code == OriginError(s, x, requested)
  <2>1. code # "internal"
    BY FirstPassDiagnosed
  <2>2. CASE Refused(code)
    <3> HIDE DEF code
    <3> QED
      BY <2>1, <2>2, RefusedKeepsPasses
  <2>3. CASE ~ Refused(code)
    BY <1>1, <1>6, <2>3, ReadingKeepsPasses DEF ReadSection
  <2> QED
    BY <2>2, <2>3
<1>7. CASE ReadConstant(st)
  <2> DEFINE x == Resolve(st.value, ViewOf(local, global, file))
             code == FirstError(<<Undefined(x), DefineError(st.name)>>)
  <2>1. code # "internal"
    BY FirstPassDiagnosed, TwoChecks
  <2>2. CASE Refused(code)
    <3> HIDE DEF code
    <3> QED
      BY <2>1, <2>2, RefusedKeepsPasses
  <2>3. CASE ~ Refused(code)
    BY <1>1, <1>7, <2>3, ReadingKeepsPasses DEF ReadConstant
  <2> QED
    BY <2>2, <2>3
<1>8. CASE ReadSetting(st)
  <2>1. CASE Refused("A238")
    BY <2>1, RefusedKeepsPasses
  <2>2. CASE ~ Refused("A238")
    BY <1>1, <1>8, <2>2, ReadingKeepsPasses DEF ReadSetting, layout
  <2> QED
    BY <2>1, <2>2
<1> QED
  BY <1>1, <1>2, <1>3, <1>4, <1>5, <1>6, <1>7, <1>8, DirectiveKeepsPasses, InstructionKeepsPasses

LEMMA EndKeepsPasses ==
  ASSUME PassesInv, EndFirstPass
  PROVE  PassesInv'
<1>1. PICK required \in BOOLEAN :
         LET code == EntryError(PublicSymbols.plain, required)
         IN  IF code # "none" THEN Refused(code)
             ELSE /\ phase' = "second"
                  /\ public' = PublicSymbols
                  /\ UNCHANGED <<declared, error, reading, layout, image>>
  BY DEF EndFirstPass
<1> DEFINE code == EntryError(PublicSymbols.plain, required)
<1>2. code # "internal"
  BY FirstPassDiagnosed
<1>3. CASE Refused(code)
  <2> HIDE DEF code
  <2> QED
    BY <1>2, <1>3, RefusedKeepsPasses
<1>4. CASE ~ Refused(code)
  <2>1. phase = "first" /\ phase' = "second" /\ UNCHANGED <<error, located, image>>
    BY <1>1, <1>4 DEF EndFirstPass, layout
  <2>2. image' = <<>> /\ error' = "none"
    BY <2>1 DEF PassesInv
  <2>3. Len(image') = 0
    BY <2>2
  <2>4. \A i \in 1 .. Len(image') : IsEmitted(i)'
    BY <2>3
  <2>5. PassesAgree'
    BY <2>2 DEF PassesAgree
  <2> QED
    BY <2>1, <2>2, <2>4, <2>5 DEF PassesInv
<1> QED
  BY <1>3, <1>4

(* The operands of an accepted statement in the two passes. *)
LEMMA ResolvedRenders ==
  ASSUME NEW o, IsInstruction(o.statement)
  PROVE  Renders(Resolved(o), o.statement)
<1> DEFINE a == o.statement.args
           b == Resolved(o).args
           view == View(o.file)
<1>1. IsSequence(a) /\ Len(a) \in OperandCounts(o.statement.op)
  BY DEF IsInstruction, IsSequence
<1>2. DOMAIN a = 1 .. Len(a) /\ Len(a) \in Nat
  BY <1>1 DEF IsSequence
<1>3. b = [i \in 1 .. Len(a) |-> Resolve(a[i], view)] /\ Resolved(o).op = o.statement.op
  BY <1>2 DEF Resolved, ResolveAll, Word
<1>4. \A i \in 1 .. Len(a) : Answers(b[i], a[i])
  BY <1>3, ResolvedAnswers
<1>5. IsSequence(b) /\ Len(b) = Len(a)
  <2> DEFINE n == Len(a)
             S == {b[i] : i \in 1 .. n}
  <2>1. b \in [1 .. n -> S] /\ n \in Nat /\ Len(b) = n
    BY <1>2, <1>3
  <2> HIDE DEF n, S, b
  <2>2. IsSequence(b)
    BY <2>1, FunctionIsSequence
  <2> QED
    BY <2>1, <2>2 DEF n
<1> QED
  BY <1>1, <1>3, <1>4, <1>5 DEF Renders, Counted

(* What the second pass makes of an accepted instruction. *)
LEMMA AcceptedInstruction ==
  ASSUME NEW o, IsAccepted(o), o.statement.kind = "instruction"
  PROVE  LET st == o.statement
             count == WordCount(st).value
         IN  /\ Renders(Resolved(o), st)
             /\ st.op \in MemoryOps => st.args[3].kind \in {"register", "none"}
             /\ Ok(WordCount(st))
             /\ Emitted(o) = SecondPass(Resolved(o), count, o.address)
<1> DEFINE count == WordCount(o.statement).value
<1>1. IsInstruction(o.statement) /\ Ok(WordCount(o.statement)) /\ o.size = 4 * count
  BY DEF IsAccepted
<1>2. count \in Nat
  BY <1>1, InstructionsHaveWords
<1> HIDE DEF count
<1>3. o.size \div 4 = count
  BY <1>1, <1>2
<1>4. Emitted(o) = SecondPass(Resolved(o), count, o.address)
  BY <1>3 DEF Emitted
<1> QED
  BY <1>1, <1>4, ResolvedRenders DEF IsInstruction, count

LEMMA EmittedIsDiagnosed ==
  ASSUME NEW o, IsAccepted(o), Emitted(o).error = "internal"
  PROVE  KnownDisagreement(o.statement)
<1>1. CASE o.statement.kind = "instruction"
  <2> DEFINE st == o.statement
             t == Resolved(o)
             count == WordCount(st).value
  <2> SUFFICES ASSUME ~ KnownDisagreement(st) PROVE FALSE
    OBVIOUS
  <2>1. /\ Renders(t, st) /\ Ok(WordCount(st))
        /\ st.op \in MemoryOps => st.args[3].kind \in {"register", "none"}
        /\ Emitted(o) = SecondPass(t, count, o.address)
    BY <1>1, AcceptedInstruction
  <2> HIDE DEF st, t
  <2>2. Agrees(SecondPass(t, count, o.address), count)
    BY <2>1, SecondPassAgrees
  <2> QED
    BY <2>1, <2>2 DEF Agrees
<1>2. CASE o.statement.kind # "instruction"
  <2> DEFINE values == ResolveAll(o.statement.values, View(o.file))
             width == o.statement.width
             code(x) == IF x.kind = "unknown" THEN "A104"
                        ELSE Raise(~FitsWidth(x.value, width), "A225")
             errors == [i \in DOMAIN values |-> code(values[i])]
             n == Len(o.statement.values)
  <2>1. Emitted(o) = IF FirstError(errors) # "none" THEN Refuse(FirstError(errors)) ELSE Yield(values)
    BY <1>2 DEF Emitted
  <2>2. n \in Nat /\ DOMAIN o.statement.values = 1 .. n
    BY <1>2 DEF IsAccepted, IsDirective
  <2>3. \A x : code(x) # "internal"
    BY DEF Raise
  <2>4. DOMAIN errors = 1 .. n /\ \A i \in 1 .. n : errors[i] # "internal"
    BY <2>2, <2>3 DEF ResolveAll
  <2> HIDE DEF errors, values, n
  <2>5. FirstError(errors) # "internal"
    BY <2>2, <2>4, Diagnosed
  <2> QED
    BY <2>1, <2>5 DEF Refuse, Yield
<1> QED
  BY <1>1, <1>2

LEMMA EmitKeepsPasses ==
  ASSUME Shapes, PassesInv, Emit
  PROVE  PassesInv'
<1> DEFINE n == Len(image)
           o == located[n + 1]
           result == Emitted(o)
<1>1. IsSequence(image) /\ n \in Nat /\ n + 1 \in 1 .. Len(located) /\ Len(located) \in Nat
  <2>1. n \in Nat /\ Len(located) \in Nat /\ n < Len(located)
    BY LengthIsNatural DEF PassesInv, Shapes, Emit
  <2> QED
    BY <2>1 DEF PassesInv
<1>2. IsAccepted(o)
  BY <1>1 DEF PassesInv
<1>3. CASE ~ Ok(result)
  <2>1. /\ phase' = "refused" /\ error' = result.error
        /\ UNCHANGED <<located, image, local, global>>
    BY <1>3 DEF Emit, Refused, layout
  <2>2. result.error = "internal" => KnownDisagreement(o.statement)
    BY <1>2, EmittedIsDiagnosed
  <2>3. PassesAgree'
    BY <2>1, <2>2 DEF PassesAgree
  <2>4. \A i \in 1 .. Len(image) : IsEmitted(i)'
    BY <2>1, EmittedStand DEF PassesInv
  <2> QED
    BY <2>1, <2>3, <2>4 DEF PassesInv
<1>4. CASE Ok(result)
  <2>1. /\ image' = Append(image, result.value) /\ phase' = "second" /\ error' = "none"
        /\ UNCHANGED <<located, local, global>>
    BY <1>4 DEF Emit, layout, PassesInv
  <2>2. /\ IsSequence(image') /\ Len(image') = n + 1
        /\ image'[n + 1] = result.value
        /\ \A i \in 1 .. n : image'[i] = image[i]
    <3>1. PICK S : image \in Seq(S)
      BY <1>1 DEF IsSequence
    <3> DEFINE w == result.value
               B == S \cup {w}
    <3>2. image \in Seq(B) /\ w \in B
      BY <3>1, SeqMonotonic
    <3>3. image' = Append(image, w)
      BY <2>1
    <3> HIDE DEF w, B, result
    <3>4. /\ image' \in Seq(B) /\ Len(image') = n + 1 /\ image'[n + 1] = w
          /\ \A i \in 1 .. n : image'[i] = image[i]
      BY <1>1, <3>2, <3>3
    <3> QED
      BY <3>4 DEF w, IsSequence
  <2>3. \A item : Emitted(item)' = Emitted(item)
    BY <2>1, SameEmitted
  <2>4. ASSUME NEW i \in 1 .. n + 1 PROVE IsEmitted(i)'
    <3>1. CASE i \in 1 .. n
      <4>1. IsEmitted(i)
        BY <3>1 DEF PassesInv
      <4> QED
        BY <2>1, <2>2, <2>3, <3>1, <4>1 DEF IsEmitted
    <3>2. CASE i = n + 1
      BY <1>4, <2>1, <2>2, <2>3, <3>2 DEF IsEmitted
    <3> QED
      BY <1>1, <3>1, <3>2
  <2>5. PassesAgree'
    BY <2>1 DEF PassesAgree
  <2> QED
    BY <1>1, <2>1, <2>2, <2>4, <2>5 DEF PassesInv
<1> QED
  BY <1>3, <1>4

LEMMA StepKeepsPasses ==
  ASSUME Inv, PassesInv, [Next]_vars
  PROVE  PassesInv'
<1>1. CASE Read
  BY <1>1, ReadKeepsPasses DEF Inv
<1>2. CASE EndFirstPass
  BY <1>2, EndKeepsPasses
<1>3. CASE Emit
  BY <1>3, EmitKeepsPasses DEF Inv
<1>4. CASE Finished \/ UNCHANGED vars
  <2>1. /\ UNCHANGED <<located, image, local, global, error>>
        /\ phase' = phase \/ (phase = "second" /\ phase' = "done")
    BY <1>4 DEF Finished, vars, layout
  <2>2. \A i \in 1 .. Len(image) : IsEmitted(i)'
    BY <2>1, EmittedStand DEF PassesInv
  <2>3. PassesAgree'
    BY <2>1 DEF PassesInv, PassesAgree
  <2> QED
    BY <2>1, <2>2, <2>3 DEF PassesInv
<1> QED
  BY <1>1, <1>2, <1>3, <1>4 DEF Next

LEMMA InitPasses ==
  ASSUME Init
  PROVE  PassesInv
<1>1. located = <<>> /\ image = <<>> /\ error = "none" /\ phase = "first"
  BY DEF Init
<1>2. Len(located) = 0 /\ Len(image) = 0 /\ IsSequence(image)
  BY <1>1, EmptyIsSequence
<1> QED
  BY <1>1, <1>2 DEF PassesInv, PassesAgree

(* What the two theorems below rest on: in every reachable state each      *)
(* located statement passed the checks of the first pass, and the image so *)
(* far is what the second pass makes of the located statements, in order   *)
(* (_first_pass and _second_pass of assembler.py).                         *)
THEOREM PassesInvariance == Spec => []PassesInv
<1>1. Init => PassesInv
  BY InitPasses
<1>2. Inv /\ PassesInv /\ [Next]_vars => PassesInv'
  BY StepKeepsPasses
<1> QED
  BY <1>1, <1>2, Invariance, PTL DEF Spec

(* The second pass emits exactly the words the first pass reserved, for    *)
(* every statement, every operand form and every value a symbol may turn   *)
(* out to have; it fails on its own assertions on the two known forms of   *)
(* statement only (_instruction_word_count against _expand_pseudo and the  *)
(* _expand_... functions of assembler.py).                                 *)
THEOREM PassesKeepAgreeing == Spec => []PassesAgree
<1>1. PassesInv => PassesAgree
  BY DEF PassesInv
<1> QED
  BY <1>1, PassesInvariance, PTL

-----------------------------------------------------------------------------
(* Under .set nomacro and .set noat. *)

(* Operands that are all registers are used as they stand. *)
LEMMA RegistersStand ==
  ASSUME NEW st, NEW t, Renders(t, st), HasSources(st), AllRegisters(Sources(st)),
         NEW n, Ok(ExpandSources(t, n))
  PROVE  /\ ExpandSources(t, n).value = Finish(t, Sources(t))
         /\ Sources(t) = SourcesIn(st.op, t.args, Len(st.args))
<1> DEFINE s == Sources(t)
           finish == Finish(t, Selected(s))
           words == n - Len(finish)
           load == MaterializeSources(s, words)
<1>1. /\ HasSources(t) /\ Counted(t) /\ t.op = st.op /\ Len(t.args) = Len(st.args)
      /\ s = SourcesIn(st.op, t.args, Len(st.args))
  BY SourcesAnswer, PlacesOfSources DEF Renders
<1>2. DOMAIN s = DOMAIN Sources(st) /\ \A i \in DOMAIN s : IsRegister(s[i])
  BY SourcesAnswer DEF Answers, AllRegisters, IsRegister
<1>3. Immediates(s) = {}
  BY <1>2 DEF Immediates
<1>4. Selected(s) = s
  <2>1. s = [i \in DOMAIN s |-> s[i]]
    <3>1. \E x, y : s = <<x>> \/ s = <<x, y>>
      BY <1>1 DEF SourcesIn
    <3> HIDE DEF s
    <3> QED
      BY <3>1
  <2> HIDE DEF s
  <2> QED
    BY <1>2, <2>1 DEF Selected
<1>5. ExpandSources(t, n) = Then(load, finish)
  BY DEF ExpandSources
<1>6. Ok(load)
  BY <1>5 DEF Then
<1>7. load.value = <<>>
  <2> DEFINE code == FirstError(<<
            Raise(Cardinality(Immediates(s)) > 1, "A242"),
            Raise(Immediates(s) = {} /\ words # 0, "internal"),
            Raise(Immediates(s) # {} /\ \E i \in DOMAIN s : s[i] = Register(At), "A230")>>)
  <2>1. load = IF code # "none" THEN Refuse(code) ELSE Yield(<<>>)
    BY <1>3 DEF MaterializeSources
  <2> HIDE DEF code, load
  <2> QED
    BY <1>6, <2>1 DEF Ok, Refuse, Yield
<1>8. IsSequence(finish)
  BY <1>1, FinishLength
<1>9. <<>> \o finish = finish
  <2> HIDE DEF finish
  <2>1. PICK S : finish \in Seq(S)
    BY <1>8 DEF IsSequence
  <2> QED
    BY <2>1
<1>10. ExpandSources(t, n).value = load.value \o finish
  BY <1>5, <1>6 DEF Then, Yield
<1> QED
  BY <1>1, <1>4, <1>7, <1>9, <1>10

(* Without macros a statement is assembled as it stands. *)
LEMMA MacroFree ==
  ASSUME NEW st, NEW t, Renders(t, st), t = Word(t.op, t.args), NEW address,
         st.op \in MemoryOps => st.args[3].kind \in {"register", "none"},
         NEW n, ~ UsesMacro(st, n), Ok(Expanded(t, n, address))
  PROVE  Expanded(t, n, address).value = <<t>>
<1> DEFINE a == t.args
           len == Len(st.args)
<1>1. /\ t.op = st.op /\ Len(a) = len /\ Counted(st) /\ Counted(t) /\ IsSequence(a)
      /\ (HasSources(t) <=> HasSources(st)) /\ len \in OperandCounts(st.op)
  BY DEF Renders, Counted, HasSources
<1>2. /\ len = 1 => a = <<a[1]>>
      /\ len = 2 => a = <<a[1], a[2]>>
      /\ len = 3 => a = <<a[1], a[2], a[3]>>
  BY <1>1, Tuples
<1>3. \A i \in 1 .. len : IsRegister(a[i]) <=> IsRegister(st.args[i])
  BY AnswersKeepRegisters DEF Renders
<1>4. /\ HasSources(st) =>
            st.op \notin MemoryOps \cup {"li", "la"} \cup ShiftSelfOps \cup RotateOps \cup ImmediateTraps
      /\ st.op \in ShiftSelfOps => st.op \notin MemoryOps \cup {"li", "la"} \cup RotateOps \cup ImmediateTraps
      /\ st.op \in SelfImmediateOps \cup SelfSourceOps =>
            /\ ~ HasSources(st)
            /\ st.op \notin MemoryOps \cup {"li", "la"} \cup ShiftSelfOps \cup RotateOps \cup ImmediateTraps
      /\ st.op \in MemoryOps => st.op \notin {"li", "la"} \cup RotateOps \cup ImmediateTraps
  BY FamiliesApart DEF HasSources, PairOps, ShiftSelfOps, MemoryOps
<1>20. /\ st.op \in BinaryOps => st.op \notin EqualBranches \cup SingleOps \cup PairOps \cup SelfImmediateOps
                \cup ShiftSelfOps \cup SelfSourceOps \cup MemoryOps
       /\ st.op \in EqualBranches \cup SingleOps \cup PairOps => st.op \notin SelfImmediateOps
                \cup ShiftSelfOps \cup SelfSourceOps \cup MemoryOps
       /\ st.op \in SelfImmediateOps => st.op \notin ShiftSelfOps \cup SelfSourceOps \cup MemoryOps
       /\ st.op \in ShiftSelfOps => st.op \notin SelfSourceOps \cup MemoryOps
       /\ st.op \in SelfSourceOps => st.op \notin MemoryOps
       /\ st.op \in PairOps => st.op \notin EqualBranches \cup SingleOps
       /\ st.op \in EqualBranches => st.op \notin SingleOps
       /\ st.op \in BinaryOps \cup PairOps \cup SingleOps \cup EqualBranches =>
             /\ st.op # "not" /\ st.op \notin RelationalBranches \cup RemainderOps
             /\ st.op \notin SetOps \cup ImmediateSets
  BY FamiliesApart DEF PairOps, ShiftSelfOps, MemoryOps
<1>5. ASSUME HasSources(st), AllRegisters(Sources(st))
      PROVE  /\ Expanded(t, n, address).value = Finish(t, Sources(t))
             /\ Sources(t) = SourcesIn(st.op, a, len)
  <2>1. Expanded(t, n, address) = ExpandSources(t, n)
    BY <1>1, <1>4, <1>5 DEF Expanded
  <2> QED
    BY <1>5, <2>1, RegistersStand
<1>6. CASE st.op \in BinaryOps
  <2>1. len = 3 /\ AllRegisters(Sources(st)) /\ HasSources(st)
    <3>1. len \in {2, 3}
      BY <1>1, <1>6, OperandCountsOf
    <3> QED
      BY <1>6, <1>20, <3>1 DEF UsesMacro, HasSources
  <2>2. Sources(t) = <<a[2], a[3]>>
    BY <1>5, <1>6, <1>20, <2>1 DEF SourcesIn
  <2>3. ~ IsResultDivision(t)
    BY <1>1, <1>6, <1>20 DEF IsResultDivision, PairOps
  <2>4. Finish(t, Sources(t)) = <<Word(t.op, <<a[1]>> \o Sources(t))>>
    BY <1>1, <1>6, <1>20, <2>3 DEF Finish
  <2>5. <<a[1]>> \o <<a[2], a[3]>> = a
    BY <1>2, <2>1, JoinedTuples
  <2> QED
    BY <1>5, <2>1, <2>2, <2>4, <2>5
<1>7. CASE st.op \in EqualBranches
  <2>1. len = 3 /\ AllRegisters(Sources(st)) /\ HasSources(st)
    <3>1. len = 3
      BY <1>1, <1>7, OperandCountsOf
    <3> QED
      BY <1>7, <1>20, <3>1 DEF UsesMacro, HasSources
  <2>2. Sources(t) = <<a[1], a[2]>>
    BY <1>5, <1>7, <1>20, <2>1 DEF SourcesIn
  <2>3. ~ IsResultDivision(t)
    BY <1>1, <1>7, <1>20 DEF IsResultDivision, PairOps
  <2>4. Finish(t, Sources(t)) = <<Word(t.op, Sources(t) \o <<a[3]>>)>>
    BY <1>1, <1>7, <1>20, <2>3 DEF Finish
  <2>5. <<a[1], a[2]>> \o <<a[3]>> = a
    BY <1>2, <2>1, JoinedTuples
  <2> QED
    BY <1>5, <2>1, <2>2, <2>4, <2>5
<1>8. CASE st.op \in SingleOps \/ (st.op \in PairOps /\ len = 2)
  <2>1. AllRegisters(Sources(st)) /\ HasSources(st)
    BY <1>8, <1>20 DEF UsesMacro, HasSources
  <2>2. st.op \in SingleOps => len = 1
    <3>1. st.op \in SingleOps => OperandCounts(st.op) = {1}
      BY OperandCountsOf
    <3> QED
      BY <1>1, <3>1
  <2>3. ~ IsResultDivision(t)
    BY <1>1, <1>8, <1>20 DEF IsResultDivision, PairOps
  <2>4. Finish(t, Sources(t)) = <<Word(t.op, Sources(t))>>
    BY <1>1, <1>8, <1>20, <2>3 DEF Finish
  <2>5. Sources(t) = a
    <3>1. CASE st.op \in SingleOps
      BY <1>2, <1>5, <1>20, <2>1, <2>2, <3>1 DEF SourcesIn
    <3>2. CASE st.op \in PairOps /\ len = 2
      BY <1>2, <1>5, <1>20, <2>1, <3>2 DEF SourcesIn
    <3> QED
      BY <1>8, <3>1, <3>2
  <2> QED
    BY <1>5, <2>1, <2>4, <2>5
<1>9. CASE st.op \in SelfImmediateOps
  <2>1. len = 3
    <3>1. len \in {2, 3}
      BY <1>1, <1>9, OperandCountsOf
    <3> QED
      BY <1>9, <1>20, <3>1 DEF UsesMacro
  <2>2. Expanded(t, n, address) = Yield(Fixed(t, address))
    BY <1>1, <1>4, <1>9 DEF Expanded
  <2>3. Fixed(t, address) = <<Word(t.op, Three(a))>>
    BY <1>1, <1>9 DEF Fixed, SelfImmediateOps, SignedImmediateOps, UnsignedImmediateOps, SwappedTrap,
                      SelfSourceOps
  <2>4. Three(a) = a
    BY <1>1, <2>1 DEF Three
  <2> QED
    BY <2>2, <2>3, <2>4 DEF Yield
<1>10. CASE st.op \in ShiftSelfOps
  <2>1. len = 3 /\ IsRegister(ShiftedValue(st))
    <3>1. len \in {2, 3}
      BY <1>1, <1>10, OperandCountsOf
    <3> QED
      BY <1>10, <1>20, <3>1 DEF UsesMacro
  <2>2. Expanded(t, n, address) = ExpandShift(t, n)
    BY <1>1, <1>4, <1>10 DEF Expanded
  <2>3. ShiftedValue(t) = a[2] /\ Amount(t) = a[3] /\ ShiftedValue(st) = st.args[2]
    <3>1. Three(a) = a /\ Three(st.args) = st.args
      BY <1>1, <2>1 DEF Three
    <3> QED
      BY <3>1 DEF ShiftedValue, Amount
  <2>4. IsRegister(ShiftedValue(t))
    BY <1>3, <2>1, <2>3
  <2>5. ExpandShift(t, n) = Yield(<<Word(t.op, <<a[1], a[2], a[3]>>)>>)
    BY <2>3, <2>4 DEF ExpandShift
  <2> QED
    BY <1>2, <2>1, <2>2, <2>5 DEF Yield
<1>11. CASE st.op \in SelfSourceOps
  <2>1. len = 2
    <3>1. len \in {1, 2}
      BY <1>1, <1>11, OperandCountsOf
    <3> QED
      BY <1>11, <1>20, <3>1 DEF UsesMacro
  <2>2. Expanded(t, n, address) = Yield(Fixed(t, address))
    BY <1>1, <1>4, <1>11 DEF Expanded
  <2>3. Fixed(t, address) = <<Word(t.op, Two(a))>>
    BY <1>1, <1>11, FamiliesApart DEF Fixed
  <2>4. Two(a) = a
    BY <1>1, <2>1 DEF Two
  <2> QED
    BY <2>2, <2>3, <2>4 DEF Yield
<1>12. CASE st.op \in MemoryOps
  <2>1. len = 3
    BY <1>1, <1>12, OperandCountsOf
  <2>2. st.args[3] # NoBase /\ n = 1
    BY <1>12, <1>20 DEF UsesMacro
  <2>3. a[3] = st.args[3]
    <3>1. Answers(a[3], st.args[3])
      BY <2>1 DEF Renders
    <3> QED
      BY <1>12, <3>1 DEF Answers
  <2>4. Expanded(t, n, address) = ExpandMemory(t, n)
    BY <1>1, <1>4, <1>12 DEF Expanded
  <2> DEFINE code == FirstError(<<Raise(a[2].kind = "unknown", "A104"),
                                  Raise(n # 1 /\ AddressCollides(t), "A230")>>)
  <2>5. ExpandMemory(t, n) = IF code # "none" THEN Refuse(code)
                             ELSE Yield(<<Word(t.op, <<a[1], a[2], a[3]>>)>>)
    BY <2>2, <2>3 DEF ExpandMemory
  <2> HIDE DEF code
  <2>6. code = "none"
    BY <2>4, <2>5 DEF Ok, Refuse
  <2> QED
    BY <1>2, <2>1, <2>4, <2>5, <2>6 DEF Yield
<1>13. CASE /\ st.op \notin BinaryOps \cup EqualBranches \cup SingleOps \cup SelfImmediateOps
                   \cup ShiftSelfOps \cup SelfSourceOps \cup MemoryOps
            /\ ~ (st.op \in PairOps /\ len = 2)
  <2>1. ~ IsResultDivision(st) /\ st.op \notin PseudoInstructions
    BY <1>13 DEF UsesMacro
  <2>2. st.op \notin PairOps
    <3>1. st.op \in DivideOps => len \in {2, 3}
      BY <1>1, OperandCountsOf
    <3>2. st.op \in PairOps \ DivideOps => len = 2
      <4>1. st.op \in PairOps \ DivideOps => OperandCounts(st.op) = {2}
        BY OperandCountsOf
      <4> QED
        BY <1>1, <4>1
    <3> QED
      BY <1>13, <2>1, <3>1, <3>2 DEF IsResultDivision
  <2>3. OperandCounts(st.op) = {}
    BY <1>13, <2>1, <2>2 DEF OperandCounts, PseudoInstructions, SimplePseudoOps, PairOps
  <2> QED
    BY <1>1, <2>3
<1> QED
  BY <1>6, <1>7, <1>8, <1>9, <1>10, <1>11, <1>12, <1>13

(* Words that leave $at alone. *)
AllKeepTemporary(words) == \A k \in DOMAIN words : ~ NamesTemporary(words[k])

LEMMA OtherDestination ==
  ASSUME NEW op, NEW args, op \in WritesNothing \/ args[1] # Register(At)
  PROVE  ~ NamesTemporary(Word(op, args))
BY DEF NamesTemporary, Word

LEMMA TuplesKeepTemporary ==
  ASSUME NEW u, NEW v, NEW w
  PROVE  /\ ~ NamesTemporary(u) => AllKeepTemporary(<<u>>)
         /\ ~ NamesTemporary(u) /\ ~ NamesTemporary(v) => AllKeepTemporary(<<u, v>>)
         /\ ~ NamesTemporary(u) /\ ~ NamesTemporary(v) /\ ~ NamesTemporary(w) =>
               AllKeepTemporary(<<u, v, w>>)
BY DEF AllKeepTemporary

(* The destination of a statement that does not name $at. *)
LEMMA DestinationKept ==
  ASSUME NEW st, NEW t, Renders(t, st), ~ NamesTemporary(st),
         st.op \notin WritesNothing, st.op \in DivideOps => Len(st.args) = 3,
         1 \in 1 .. Len(st.args)
  PROVE  t.args[1] # Register(At)
BY AnswersKeepRegisters DEF NamesTemporary, Renders

LEMMA FinishKeepsTemporary ==
  ASSUME NEW st, NEW t, Renders(t, st), HasSources(st), ~ NamesTemporary(st),
         st.op \notin ComparingOps, Sources(t) = SourcesIn(st.op, t.args, Len(st.args))
  PROVE  AllKeepTemporary(Finish(t, Sources(t)))
<1> DEFINE a == t.args
           len == Len(st.args)
           s == Sources(t)
<1>1. /\ t.op = st.op /\ Counted(st) /\ Len(t.args) = len
      /\ len \in OperandCounts(st.op)
      /\ st.op = "not" \/ st.op \in SingleOps => len \in {1, 2}
      /\ st.op # "not" /\ st.op \notin SingleOps => len \in {2, 3}
  BY PlacesOfSources DEF Renders, Counted
<1>2. 1 \in 1 .. len
  <2>1. \A k \in {1, 2, 3} : 1 \in 1 .. k
    OBVIOUS
  <2>2. len \in {1, 2, 3}
    <3> HIDE DEF len
    <3> QED
      BY <1>1
  <2> QED
    BY <2>1, <2>2
<1>3. \A op, args : op \in WritesNothing \/ args[1] # Register(At) => ~ NamesTemporary(Word(op, args))
  BY OtherDestination
<1>4. \A u, v : /\ ~ NamesTemporary(u) => AllKeepTemporary(<<u>>)
                /\ ~ NamesTemporary(u) /\ ~ NamesTemporary(v) => AllKeepTemporary(<<u, v>>)
  BY TuplesKeepTemporary
<1>5. IsResultDivision(t) <=> st.op \in DivideOps /\ len = 3
  BY <1>1 DEF IsResultDivision
<1>6. /\ st.op \in BinaryOps => st.op \notin PairOps
      /\ st.op \in BinaryOps \cup PairOps => st.op \notin SingleOps \cup EqualBranches
      /\ st.op \in SingleOps => st.op \notin EqualBranches
      /\ st.op \in BinaryOps \cup PairOps \cup SingleOps \cup EqualBranches =>
            /\ st.op # "not" /\ st.op \notin RelationalBranches \cup RemainderOps
            /\ st.op \notin SetOps \cup ImmediateSets
      /\ st.op \in RemainderOps \cup SetOps \cup {"not"} =>
            st.op \notin ImmediateSets \cup RelationalBranches
      /\ st.op \in RemainderOps => st.op \notin SetOps /\ st.op # "not"
      /\ st.op # "not" \/ st.op \notin SetOps
      /\ st.op \in DivideOps => st.op \in PairOps
  BY FamiliesApart DEF PairOps
<1>7. /\ st.op \in BinaryOps \cup DivideOps \cup RemainderOps \cup SetOps \cup {"not"} =>
            st.op \notin WritesNothing
      /\ st.op \in (PairOps \ DivideOps) \cup SingleOps \cup EqualBranches => st.op \in WritesNothing
  BY FamiliesApart DEF WritesNothing, PairOps
<1>8. ASSUME st.op \notin WritesNothing, st.op \in DivideOps => len = 3
      PROVE  a[1] # Register(At)
  BY <1>2, <1>8, DestinationKept
<1>9. CASE st.op \in BinaryOps
  <2>1. a[1] # Register(At)
    BY <1>6, <1>7, <1>8, <1>9
  <2>2. Finish(t, s) = <<Word(t.op, <<a[1]>> \o s)>>
    BY <1>1, <1>5, <1>6, <1>9 DEF Finish
  <2>3. \E x, y : s = <<x, y>>
    BY <1>6, <1>9 DEF SourcesIn
  <2>4. \A x, y : (<<a[1]>> \o <<x, y>>)[1] = a[1]
    <3> TAKE x, y
    <3>1. <<a[1]>> \o <<x, y>> = <<a[1], x, y>>
      BY JoinedTuples
    <3> QED
      BY <3>1
  <2>5. (<<a[1]>> \o s)[1] # Register(At)
    BY <2>1, <2>3, <2>4
  <2> HIDE DEF s
  <2> QED
    BY <1>3, <1>4, <2>2, <2>5 DEF s
<1>10. CASE st.op \in DivideOps /\ len = 3
  <2>1. a[1] # Register(At)
    BY <1>7, <1>8, <1>10
  <2>2. Finish(t, s) = <<Word(t.op, s), Word("mflo", <<a[1]>>)>>
    BY <1>1, <1>5, <1>6, <1>10 DEF Finish
  <2>3. \E x, y : s = <<x, y>>
    BY <1>6, <1>10 DEF SourcesIn
  <2>4. Len(s) # 3
    BY <2>3
  <2>5. ~ NamesTemporary(Word(t.op, s))
    BY <1>1, <1>10, <2>4 DEF NamesTemporary, Word
  <2>6. <<a[1]>>[1] # Register(At)
    BY <2>1
  <2> HIDE DEF s
  <2> QED
    BY <1>3, <1>4, <2>2, <2>5, <2>6 DEF s
<1>11. CASE st.op \in PairOps /\ ~ (st.op \in DivideOps /\ len = 3)
  <2>1. Finish(t, s) = <<Word(t.op, s)>>
    BY <1>1, <1>5, <1>6, <1>11 DEF Finish
  <2>2. ~ NamesTemporary(Word(t.op, s))
    <3>1. CASE st.op \in DivideOps
      <4>1. \E x, y : s = <<x, y>>
        BY <1>6, <1>11 DEF SourcesIn
      <4>2. Len(s) # 3
        BY <4>1
      <4> QED
        BY <1>1, <3>1, <4>2 DEF NamesTemporary, Word
    <3>2. CASE st.op \notin DivideOps
      BY <1>1, <1>3, <1>7, <1>11, <3>2
    <3> QED
      BY <3>1, <3>2
  <2> HIDE DEF s
  <2> QED
    BY <1>4, <2>1, <2>2 DEF s
<1>12. CASE st.op \in SingleOps \cup EqualBranches
  <2>1. \E args : Finish(t, s) = <<Word(t.op, args)>>
    BY <1>1, <1>5, <1>6, <1>12 DEF Finish
  <2> QED
    BY <1>1, <1>3, <1>4, <1>7, <1>12, <2>1
<1>13. CASE st.op \in RemainderOps
  <2>1. a[1] # Register(At)
    BY <1>6, <1>7, <1>8, <1>13
  <2>2. \E op \in DivideOps : Finish(t, s) = <<Word(op, s), Word("mfhi", <<a[1]>>)>>
    BY <1>1, <1>5, <1>6, <1>13 DEF Finish, DivideOps
  <2>3. \E x, y : s = <<x, y>>
    BY <1>1, <1>6, <1>13 DEF SourcesIn, SingleOps, EqualBranches
  <2>4. Len(s) # 3
    BY <2>3
  <2>5. \A op \in DivideOps : ~ NamesTemporary(Word(op, s))
    BY <2>4 DEF NamesTemporary, Word
  <2>6. <<a[1]>>[1] # Register(At)
    BY <2>1
  <2> HIDE DEF s
  <2> QED
    BY <1>3, <1>4, <2>2, <2>5, <2>6 DEF s
<1>14. CASE st.op \in SetOps
  <2>1. a[1] # Register(At) /\ st.op \notin {"seq", "sne"}
    BY <1>6, <1>7, <1>8, <1>14 DEF ComparingOps
  <2>2. Finish(t, s) = SetOn(st.op, a[1], s[1], s[2])
    BY <1>1, <1>5, <1>6, <1>14 DEF Finish
  <2>3. \E op, x, y, z : \/ SetOn(st.op, a[1], s[1], s[2]) = <<Word(op, <<a[1]>> \o <<x, y>>)>>
                         \/ SetOn(st.op, a[1], s[1], s[2])
                              = <<Word(op, <<a[1]>> \o <<x, y>>), Word("xori", <<a[1], a[1], z>>)>>
    BY <2>1 DEF SetOn, SetPair
  <2>4. \A x, y, z : (<<a[1]>> \o <<x, y>>)[1] # Register(At) /\ <<a[1], a[1], z>>[1] # Register(At)
    <3> TAKE x, y, z
    <3>1. <<a[1]>> \o <<x, y>> = <<a[1], x, y>>
      BY JoinedTuples
    <3> QED
      BY <2>1, <3>1
  <2> HIDE DEF s, a
  <2> QED
    BY <1>3, <1>4, <2>2, <2>3, <2>4 DEF s, a
<1>15. CASE st.op = "not"
  <2>1. a[1] # Register(At)
    BY <1>6, <1>7, <1>8, <1>15
  <2>2. \E x, y : Finish(t, s) = <<Word("nor", <<a[1], x, y>>)>>
    BY <1>1, <1>5, <1>6, <1>15 DEF Finish
  <2>3. \A x, y : <<a[1], x, y>>[1] # Register(At)
    BY <2>1
  <2> QED
    BY <1>3, <1>4, <2>2, <2>3
<1>16. st.op \notin RelationalBranches \cup ImmediateSets
  BY DEF ComparingOps
<1> QED
  BY <1>9, <1>10, <1>11, <1>12, <1>13, <1>14, <1>15, <1>16 DEF HasSources

LEMMA LoadKeepsTemporary ==
  ASSUME NEW dest, dest # Register(At), NEW x, NEW n, Ok(LoadInto(dest, x, n))
  PROVE  AllKeepTemporary(LoadInto(dest, x, n).value)
<1>1. \E code, op, y, z : \/ code # "none" /\ LoadInto(dest, x, n) = Refuse(code)
                          \/ LoadInto(dest, x, n) = Yield(<<Word(op, <<dest, Register(Zero), y>>)>>)
                          \/ LoadInto(dest, x, n) = Yield(<<Word("lui", <<dest, y>>),
                                                            Word("ori", <<dest, dest, z>>)>>)
  BY DEF LoadInto
<1>2. \A op, y, z : /\ ~ NamesTemporary(Word(op, <<dest, y, z>>))
                    /\ ~ NamesTemporary(Word(op, <<dest, y>>))
  <2> TAKE op, y, z
  <2>1. <<dest, y, z>>[1] # Register(At) /\ <<dest, y>>[1] # Register(At)
    OBVIOUS
  <2> QED
    BY <2>1, OtherDestination
<1>3. \A op, y, z : /\ AllKeepTemporary(<<Word(op, <<dest, Register(Zero), y>>)>>)
                    /\ AllKeepTemporary(<<Word("lui", <<dest, y>>), Word("ori", <<dest, dest, z>>)>>)
  BY <1>2, TuplesKeepTemporary
<1>4. \A code : code # "none" => ~ Ok(Refuse(code))
  BY DEF Ok, Refuse
<1>5. \A words : Yield(words).value = words
  BY DEF Yield
<1> QED
  BY <1>1, <1>3, <1>4, <1>5

(* Expansions that need neither a load nor a check. *)
LEMMA FixedKeepsTemporary ==
  ASSUME NEW st, NEW t, Renders(t, st), NEW address, ~ NamesTemporary(st),
         st.op \notin MemoryOps \cup {"li", "la"} \cup ShiftSelfOps \cup RotateOps \cup ImmediateTraps,
         ~ HasSources(st)
  PROVE  AllKeepTemporary(Fixed(t, address))
<1> DEFINE a == t.args
           len == Len(st.args)
<1>1. /\ t.op = st.op /\ Counted(st) /\ Len(t.args) = len /\ IsSequence(a)
      /\ len \in OperandCounts(st.op)
  BY DEF Renders, Counted
<1>2. \A op, args : op \in WritesNothing \/ args[1] # Register(At) => ~ NamesTemporary(Word(op, args))
  BY OtherDestination
<1>3. \A u, v, w : /\ ~ NamesTemporary(u) => AllKeepTemporary(<<u>>)
                   /\ ~ NamesTemporary(u) /\ ~ NamesTemporary(v) => AllKeepTemporary(<<u, v>>)
                   /\ ~ NamesTemporary(u) /\ ~ NamesTemporary(v) /\ ~ NamesTemporary(w) =>
                         AllKeepTemporary(<<u, v, w>>)
  BY TuplesKeepTemporary
<1>4. Register(Zero) # Register(At) /\ Register(Sp) # Register(At) /\ Register(Fp) # Register(At)
  BY DEF Register, Zero, At, Sp, Fp
<1>5. ASSUME st.op \notin WritesNothing, len \in {1, 2, 3}
      PROVE  a[1] # Register(At)
  <2>1. st.op \notin DivideOps /\ 1 \in 1 .. len
    BY <1>5 DEF HasSources, PairOps
  <2> QED
    BY <1>5, <2>1, DestinationKept
<1>6. \A op, x, y, z : x # Register(At) =>
         /\ ~ NamesTemporary(Word(op, <<x, y, z>>))
         /\ ~ NamesTemporary(Word(op, <<x, y>>))
  <2> TAKE op, x, y, z
  <2>1. <<x, y, z>>[1] = x /\ <<x, y>>[1] = x
    OBVIOUS
  <2> QED
    BY <1>2, <2>1
<1>7. CASE st.op \in {"nop", "begin", "end"}
  <2> DEFINE z == Register(Zero)
             sp == Register(Sp)
             fp == Register(Fp)
  <2>1. \/ Fixed(t, address) = <<Word("sll", <<z, z, Constant(0)>>)>>
        \/ Fixed(t, address) = <<Word("addiu", <<sp, sp, Constant(-4)>>),
                                  Word("sw", <<fp, Constant(0), sp>>),
                                  Word("addu", <<fp, sp, z>>)>>
        \/ Fixed(t, address) = <<Word("addiu", <<sp, fp, Constant(4)>>),
                                Word("lw", <<fp, Constant(0), fp>>)>>
    BY <1>1, <1>7, FamiliesApart DEF Fixed
  <2> HIDE DEF z, sp, fp
  <2> QED
    BY <1>3, <1>4, <1>6, <2>1 DEF z, sp, fp
<1>8. CASE st.op \in {"move", "clear", "pop"}
  <2>1. len \in {1, 2}
    <3>1. OperandCounts(st.op) \subseteq {1, 2}
      BY <1>8, OperandCountsOf
    <3> QED
      BY <1>1, <3>1
  <2>2. a[1] # Register(At)
    <3>1. st.op \notin WritesNothing
      BY <1>8, FamiliesApart, SMTT(60) DEF WritesNothing, PairOps
    <3> QED
      BY <1>5, <2>1, <3>1
  <2>3. \E op, x, y : \/ Fixed(t, address) = <<Word(op, <<a[1], x, y>>)>>
                      \/ Fixed(t, address) = <<Word(op, <<a[1], x, y>>),
                                               Word("addiu", <<Register(Sp), Register(Sp), Constant(4)>>)>>
    BY <1>1, <1>8 DEF Fixed, SwappedTrap, SelfImmediateOps, SignedImmediateOps, UnsignedImmediateOps,
                      SelfSourceOps
  <2> HIDE DEF a
  <2> QED
    BY <1>3, <1>4, <1>6, <2>2, <2>3
<1>9. CASE st.op \in {"neg", "negu", "abs"} \cup SelfSourceOps
  <2>1. len \in {1, 2}
    <3>1. OperandCounts(st.op) = {1, 2}
      BY <1>9, OperandCountsOf
    <3> QED
      BY <1>1, <3>1
  <2>2. a[1] # Register(At)
    <3>1. st.op \notin WritesNothing
      BY <1>9, FamiliesApart DEF WritesNothing, PairOps
    <3> QED
      BY <1>5, <2>1, <3>1
  <2>3. Two(a)[1] = a[1] /\ \E x, y : Two(a) = <<x, y>>
    <3>1. CASE len = 1
      <4>1. PICK x : a = <<x>>
        BY <1>1, <3>1, Tuples
      <4>2. <<x>> \o <<x>> = <<x, x>>
        BY JoinedTuples
      <4>3. Two(a) = <<x, x>>
        BY <1>1, <3>1, <4>1, <4>2 DEF Two
      <4> QED
        BY <4>1, <4>3
    <3>2. CASE len = 2
      <4>1. PICK x, y : a = <<x, y>>
        BY <1>1, <3>2, Tuples
      <4>2. Two(a) = a
        BY <1>1, <3>2, SMTT(60) DEF Two
      <4> QED
        BY <4>1, <4>2
    <3> QED
      BY <2>1, <3>1, <3>2
  <2> DEFINE d == Two(a)[1]
  <2>4. \E op, x, y : \/ Fixed(t, address) = <<Word(op, <<d, x, y>>)>>
                      \/ Fixed(t, address) = <<Word(op, Two(a))>>
                      \/ Fixed(t, address) = <<Word("addu", <<d, x, Register(Zero)>>),
                                               Word("bgez", <<x, y>>),
                                               Word("sub", <<d, Register(Zero), x>>)>>
    BY <1>1, <1>9, ZenonT(60) DEF Fixed, ExpandAbsolute, SwappedTrap, SelfImmediateOps, SignedImmediateOps,
                      UnsignedImmediateOps, SelfSourceOps
  <2>5. "bgez" \in WritesNothing
    BY DEF WritesNothing
  <2>6. d # Register(At)
    BY <2>2, <2>3
  <2>7. \A op : ~ NamesTemporary(Word(op, Two(a)))
    BY <1>2, <2>2, <2>3
  <2> HIDE DEF d, a
  <2> QED
    BY <1>2, <1>3, <1>6, <2>4, <2>5, <2>6, <2>7 DEF a
<1>10. CASE st.op \in SelfImmediateOps
  <2>1. len \in {2, 3}
    BY <1>1, <1>10, OperandCountsOf
  <2>2. a[1] # Register(At)
    <3>1. st.op \notin WritesNothing
      BY <1>10, FamiliesApart DEF WritesNothing, PairOps
    <3> QED
      BY <1>5, <2>1, <3>1
  <2>3. Three(a)[1] = a[1]
    <3>1. CASE len = 2
      <4>1. PICK x, y : a = <<x, y>>
        BY <1>1, <3>1, Tuples
      <4>2. Three(a) = <<x, x, y>>
        BY <4>1, ThreeOfTwo
      <4> QED
        BY <4>1, <4>2
    <3>2. CASE len = 3
      BY <1>1, <3>2 DEF Three
    <3> QED
      BY <2>1, <3>1, <3>2
  <2>4. Fixed(t, address) = <<Word(t.op, Three(a))>>
    BY <1>1, <1>10, FamiliesApart DEF Fixed
  <2> QED
    BY <1>2, <1>3, <2>2, <2>3, <2>4
<1>11. CASE st.op \in {"b", "bal", "beqz", "bnez"} \cup DOMAIN SwappedTrap
  <2>1. \E op \in {"beq", "bne", "bgezal", "tlt", "tltu", "tge", "tgeu"} : \E args :
           Fixed(t, address) = <<Word(op, args)>>
    <3>1. CASE st.op \in {"b", "bal", "beqz", "bnez"}
      <4>1. \/ Fixed(t, address) = <<Word("beq", <<Register(Zero), Register(Zero), a[1]>>)>>
            \/ Fixed(t, address) = <<Word("bgezal", <<Register(Zero), a[1]>>)>>
            \/ Fixed(t, address) = <<Word("beq", <<a[1], Register(Zero), a[2]>>)>>
            \/ Fixed(t, address) = <<Word("bne", <<a[1], Register(Zero), a[2]>>)>>
        BY <1>1, <3>1, FamiliesApart DEF Fixed
      <4> HIDE DEF a
      <4> QED
        BY <4>1
    <3>2. CASE st.op \in DOMAIN SwappedTrap
      <4>1. Fixed(t, address) = <<Word(SwappedTrap[st.op], <<a[2], a[1]>>)>>
        BY <1>1, <3>2, FamiliesApart DEF Fixed
      <4>2. SwappedTrap[st.op] \in {"tlt", "tltu", "tge", "tgeu"}
        BY <3>2 DEF SwappedTrap
      <4> QED
        BY <4>1, <4>2
    <3> QED
      BY <1>11, <3>1, <3>2
  <2>2. {"beq", "bne", "bgezal", "tlt", "tltu", "tge", "tgeu"} \subseteq WritesNothing
    BY DEF WritesNothing, EqualBranches, PairOps, TrapOps, DivideOps
  <2> QED
    BY <1>2, <1>3, <2>1, <2>2
<1>12. CASE st.op = "push"
  <2>1. \E x, y : Fixed(t, address) = <<Word("addiu", <<Register(Sp), Register(Sp), Constant(-4)>>),
                                        Word("sw", <<x, y, Register(Sp)>>)>>
    BY <1>1, <1>12 DEF Fixed, SwappedTrap, SelfImmediateOps, SignedImmediateOps, UnsignedImmediateOps,
                       SelfSourceOps
  <2>2. "sw" \in WritesNothing
    BY DEF WritesNothing, StoreOps
  <2> QED
    BY <1>2, <1>3, <1>4, <1>6, <2>1, <2>2
<1>13. CASE /\ st.op \notin {"nop", "begin", "end", "move", "clear", "pop", "neg", "negu", "abs",
                            "b", "bal", "beqz", "bnez", "push"}
            /\ st.op \notin SelfSourceOps \cup SelfImmediateOps \cup DOMAIN SwappedTrap
  <2>1. OperandCounts(st.op) = {}
    BY <1>13 DEF OperandCounts, HasSources, PairOps, ShiftSelfOps
  <2> QED
    BY <1>1, <2>1
<1> QED
  BY <1>7, <1>8, <1>9, <1>10, <1>11, <1>12, <1>13

LEMMA ExpansionKeepsTemporary ==
  ASSUME NEW st, NEW t, Renders(t, st), ~ NamesTemporary(st), NEW n, ~ UsesTemporary(st, n),
         NEW address, Ok(Expanded(t, n, address))
  PROVE  AllKeepTemporary(Expanded(t, n, address).value)
<1> DEFINE a == t.args
           len == Len(st.args)
           result == Expanded(t, n, address)
<1>1. /\ t.op = st.op /\ Counted(st) /\ Len(a) = len /\ IsSequence(a)
      /\ (HasSources(t) <=> HasSources(st)) /\ len \in OperandCounts(st.op)
  BY DEF Renders, Counted, HasSources
<1>2. \A op, args : op \in WritesNothing \/ args[1] # Register(At) => ~ NamesTemporary(Word(op, args))
  BY OtherDestination
<1>3. \A u : ~ NamesTemporary(u) => AllKeepTemporary(<<u>>)
  BY TuplesKeepTemporary
<1>4. /\ HasSources(st) =>
            st.op \notin MemoryOps \cup {"li", "la"} \cup ShiftSelfOps \cup RotateOps \cup ImmediateTraps
      /\ st.op \in ShiftSelfOps => st.op \notin MemoryOps \cup {"li", "la"} \cup RotateOps \cup ImmediateTraps
      /\ st.op \in RotateOps => st.op \notin MemoryOps \cup {"li", "la"} \cup ImmediateTraps
      /\ st.op \in ImmediateTraps => st.op \notin MemoryOps \cup {"li", "la"}
      /\ st.op \in {"li", "la"} => st.op \notin MemoryOps
  BY FamiliesApart DEF HasSources, PairOps, ShiftSelfOps, MemoryOps
<1>5. ASSUME st.op \in {"li", "la"} \cup ShiftSelfOps \cup RotateOps \cup LoadOps
      PROVE  a[1] # Register(At) /\ len \in {2, 3}
  <2>1. st.op \notin WritesNothing /\ st.op \notin DivideOps
    BY <1>5, FamiliesApart DEF WritesNothing, PairOps, ShiftSelfOps
  <2>2. OperandCounts(st.op) \subseteq {2, 3}
    <3>1. CASE st.op \in {"li", "la"}
      BY <3>1, OperandCountsOf
    <3>2. CASE st.op \in ShiftSelfOps \cup RotateOps
      BY <3>2, OperandCountsOf
    <3>3. CASE st.op \in LoadOps
      <4>1. st.op \in MemoryOps
        BY <3>3 DEF MemoryOps
      <4> QED
        BY <4>1, OperandCountsOf
    <3> QED
      BY <1>5, <3>1, <3>2, <3>3
  <2>3. len \in {2, 3} /\ 1 \in 1 .. len
    <3>1. len \in {2, 3}
      BY <1>1, <2>2
    <3>2. \A k \in {2, 3} : 1 \in 1 .. k
      OBVIOUS
    <3> QED
      BY <3>1, <3>2
  <2> QED
    BY <2>1, <2>3, DestinationKept
<1>6. \A op, x, y : a[1] # Register(At) => ~ NamesTemporary(Word(op, <<a[1], x, y>>))
  <2> TAKE op, x, y
  <2>1. <<a[1], x, y>>[1] = a[1]
    OBVIOUS
  <2> QED
    BY <1>2, <2>1
<1>15. /\ \A code : code # "none" => ~ Ok(Refuse(code))
       /\ \A words : Yield(words).value = words
  BY DEF Ok, Refuse, Yield
<1>7. CASE st.op \in MemoryOps
  <2>1. n = 1
    BY <1>7 DEF UsesTemporary
  <2>2. result = ExpandMemory(t, n)
    BY <1>1, <1>4, <1>7 DEF Expanded
  <2>3. \E code, x, y : \/ code # "none" /\ ExpandMemory(t, n) = Refuse(code)
                        \/ ExpandMemory(t, n) = Yield(<<Word(st.op, <<a[1], x, y>>)>>)
    BY <1>1, <2>1 DEF ExpandMemory
  <2>4. PICK x, y : result = Yield(<<Word(st.op, <<a[1], x, y>>)>>)
    BY <1>15, <2>2, <2>3
  <2>5. ~ NamesTemporary(Word(st.op, <<a[1], x, y>>))
    <3>1. CASE st.op \in StoreOps
      <4>1. st.op \in WritesNothing
        BY <3>1 DEF WritesNothing
      <4> QED
        BY <1>2, <4>1
    <3>2. CASE st.op \in LoadOps
      BY <1>5, <1>6, <3>2
    <3> QED
      BY <1>7, <3>1, <3>2 DEF MemoryOps
  <2>6. result.value = <<Word(st.op, <<a[1], x, y>>)>>
    BY <2>4 DEF Yield
  <2> QED
    BY <1>3, <2>5, <2>6
<1>8. CASE st.op = "li"
  <2>1. result = LoadInto(a[1], a[2], n)
    BY <1>1, <1>4, <1>8 DEF Expanded
  <2>2. a[1] # Register(At)
    BY <1>5, <1>8
  <2> QED
    BY <2>1, <2>2, LoadKeepsTemporary
<1>9. CASE st.op = "la"
  <2>1. result = LoadAddress(a[1], a[2])
    BY <1>1, <1>4, <1>9 DEF Expanded
  <2>2. a[1] # Register(At)
    BY <1>5, <1>9
  <2>3. \E y, z : \/ LoadAddress(a[1], a[2]) = Refuse("A104")
                  \/ LoadAddress(a[1], a[2]) = Yield(<<Word("lui", <<a[1], y>>),
                                                       Word("ori", <<a[1], a[1], z>>)>>)
    BY DEF LoadAddress
  <2>4. PICK y, z : result.value = <<Word("lui", <<a[1], y>>), Word("ori", <<a[1], a[1], z>>)>>
    BY <1>15, <2>1, <2>3, "A104" # "none"
  <2>5. <<a[1], y>>[1] # Register(At)
    BY <2>2
  <2>6. ~ NamesTemporary(Word("lui", <<a[1], y>>)) /\ ~ NamesTemporary(Word("ori", <<a[1], a[1], z>>))
    BY <1>2, <1>6, <2>2, <2>5
  <2> QED
    BY <2>4, <2>6, TuplesKeepTemporary
<1>10. CASE HasSources(st)
  <2>1. result = ExpandSources(t, n)
    BY <1>1, <1>4, <1>10 DEF Expanded
  <2>2. AllRegisters(Sources(st)) /\ st.op \notin ComparingOps
    BY <1>10 DEF UsesTemporary
  <2>3. result.value = Finish(t, Sources(t)) /\ Sources(t) = SourcesIn(st.op, t.args, Len(st.args))
    BY <1>10, <2>1, <2>2, RegistersStand
  <2> HIDE DEF result
  <2> QED
    BY <1>10, <2>2, <2>3, FinishKeepsTemporary DEF result
<1>11. CASE st.op \in ShiftSelfOps
  <2>1. result = ExpandShift(t, n)
    BY <1>1, <1>4, <1>11 DEF Expanded
  <2>2. IsRegister(ShiftedValue(t))
    <3>1. IsRegister(ShiftedValue(st))
      BY <1>11 DEF UsesTemporary
    <3>2. ShiftedValue(st) = st.args[len - 1] /\ ShiftedValue(t) = a[len - 1] /\ len \in {2, 3}
      BY <1>1, <1>11, ShiftOperands DEF Renders
    <3>3. Answers(a[1], st.args[1]) /\ Answers(a[2], st.args[2])
      BY <3>2 DEF Renders
    <3>4. Answers(ShiftedValue(t), ShiftedValue(st))
      <4>1. CASE len = 2
        BY <3>2, <3>3, <4>1
      <4>2. CASE len = 3
        BY <3>2, <3>3, <4>2
      <4> QED
        BY <3>2, <4>1, <4>2
    <3> QED
      BY <3>1, <3>4, AnswersKeepRegisters
  <2>3. result = Yield(<<Word(t.op, <<a[1], ShiftedValue(t), Amount(t)>>)>>)
    BY <2>1, <2>2 DEF ExpandShift
  <2>4. result.value = <<Word(t.op, <<a[1], ShiftedValue(t), Amount(t)>>)>>
    BY <2>3 DEF Yield
  <2> QED
    BY <1>3, <1>5, <1>6, <1>11, <2>4
<1>12. CASE st.op \in RotateOps
  <2>1. result = ExpandRotate(t)
    BY <1>1, <1>4, <1>12 DEF Expanded
  <2>2. ~ RotatesThroughTemporary(t)
    <3>1. ~ RotatesThroughTemporary(st)
      BY DEF UsesTemporary
    <3>2. Amount(st) = st.args[len] /\ Amount(t) = a[len] /\ len \in {2, 3}
      BY <1>1, <1>12, ShiftOperands DEF Renders
    <3>3. Answers(a[2], st.args[2]) /\ (len = 3 => Answers(a[3], st.args[3]))
      BY <3>2 DEF Renders
    <3>4. Answers(Amount(t), Amount(st))
      BY <3>2, <3>3
    <3>5. IsRegister(Amount(t)) <=> IsRegister(Amount(st))
      BY <3>4, AnswersKeepRegisters
    <3> QED
      BY <1>1, <3>1, <3>5 DEF RotatesThroughTemporary
  <2>3. \E code, op, x, y : \/ code # "none" /\ ExpandRotate(t) = Refuse(code)
                            \/ ExpandRotate(t) = Yield(<<Word(op, <<a[1], x, y>>)>>)
    BY <2>2 DEF ExpandRotate
  <2>4. PICK op, x, y : result.value = <<Word(op, <<a[1], x, y>>)>>
    BY <1>15, <2>1, <2>3, ZenonT(60)
  <2> QED
    BY <1>3, <1>5, <1>6, <1>12, <2>4
<1>13. st.op \notin ImmediateTraps
  BY DEF UsesTemporary
<1>14. CASE /\ st.op \notin MemoryOps \cup {"li", "la"} \cup ShiftSelfOps \cup RotateOps
            /\ ~ HasSources(st)
  <2>1. result = Yield(Fixed(t, address))
    BY <1>1, <1>13, <1>14 DEF Expanded
  <2>2. result.value = Fixed(t, address)
    BY <2>1 DEF Yield
  <2> HIDE DEF result
  <2> QED
    BY <1>13, <1>14, <2>2, FixedKeepsTemporary DEF result
<1> QED
  BY <1>7, <1>8, <1>9, <1>10, <1>11, <1>12, <1>14

(* The passes cannot disagree on a statement the settings let through. *)
LEMMA SettingsExcludeDisagreement ==
  ASSUME NEW st, NEW n, Counted(st), ~ UsesMacro(st, n) \/ ~ UsesTemporary(st, n)
  PROVE  ~ KnownDisagreement(st)
<1>1. CASE st.op \in ShiftSourceOps /\ Len(st.args) = 2 /\ ~IsRegister(st.args[1])
  <2>1. st.op \in ShiftSelfOps
    BY <1>1 DEF ShiftSelfOps
  <2>2. ShiftedValue(st) = st.args[1]
    <3>1. ShiftedValue(st) = st.args[Len(st.args) - 1]
      BY <2>1, ShiftOperands
    <3> QED
      BY <1>1, <3>1
  <2>3. st.op \notin BinaryOps \cup EqualBranches \cup SingleOps \cup PairOps \cup SelfImmediateOps
               \cup SelfSourceOps \cup MemoryOps
    BY <2>1, FamiliesApart DEF ShiftSelfOps, PairOps, MemoryOps
  <2>4. UsesMacro(st, n)
    BY <1>1, <2>1, <2>3 DEF UsesMacro
  <2>5. UsesTemporary(st, n)
    BY <1>1, <2>1, <2>2 DEF UsesTemporary
  <2> QED
    BY <2>4, <2>5
<1>2. CASE st.op \in ImmediateSets
  <2>1. st.op \notin BinaryOps \cup EqualBranches \cup SingleOps \cup PairOps \cup SelfImmediateOps
               \cup ShiftSelfOps \cup SelfSourceOps \cup MemoryOps
    BY <1>2, FamiliesApart DEF ShiftSelfOps, PairOps, MemoryOps
  <2>2. UsesMacro(st, n)
    BY <1>2, <2>1 DEF UsesMacro, PseudoInstructions
  <2>3. UsesTemporary(st, n)
    BY <1>2 DEF UsesTemporary, ComparingOps
  <2> QED
    BY <2>2, <2>3
<1> QED
  BY <1>1, <1>2 DEF KnownDisagreement

(* Under .set noat no emitted word writes $at unless the statement names   *)
(* $at as its destination, and under .set nomacro an emitted instruction   *)
(* is the statement itself: the checks of the first pass, made before the  *)
(* operands have values, are enough for every expansion of the second      *)
(* (A240 and A241 of assembler.py).                                        *)
THEOREM SettingsKeep == Spec => []SettingsHold
<1>1. ASSUME PassesInv PROVE SettingsHold
  <2> SUFFICES ASSUME NEW i \in DOMAIN image, located[i].statement.kind = "instruction"
               PROVE  LET o == located[i]
                      IN  /\ ~o.settings.at /\ ~NamesTemporary(o.statement) =>
                               \A k \in DOMAIN image[i] : ~NamesTemporary(image[i][k])
                          /\ ~o.settings.macro => image[i] = <<Resolved(o)>>
    BY DEF SettingsHold, EmittedInstructions
  <2> DEFINE o == located[i]
             st == o.statement
             t == Resolved(o)
             n == WordCount(st).value
             result == Expanded(t, n, o.address)
  <2>1. i \in 1 .. Len(image) /\ i \in 1 .. Len(located)
    <3>1. IsSequence(image) /\ Len(image) <= Len(located)
      BY <1>1 DEF PassesInv
    <3>2. DOMAIN image = 1 .. Len(image) /\ Len(image) \in Nat
      BY <3>1 DEF IsSequence
    <3> QED
      BY <3>1, <3>2
  <2>2. IsAccepted(o) /\ Ok(Emitted(o)) /\ image[i] = Emitted(o).value
    BY <1>1, <2>1 DEF PassesInv, IsEmitted
  <2>3. /\ Renders(t, st) /\ Ok(WordCount(st))
        /\ st.op \in MemoryOps => st.args[3].kind \in {"register", "none"}
        /\ Emitted(o) = SecondPass(t, n, o.address)
    BY <2>2, AcceptedInstruction
  <2>4. /\ ~o.settings.macro => ~UsesMacro(st, n)
        /\ ~o.settings.at => ~UsesTemporary(st, n)
    BY <2>2 DEF IsAccepted
  <2>5. t = Word(t.op, t.args)
    BY DEF Resolved, Word
  <2>6. ASSUME ~ KnownDisagreement(st)
        PROVE  Ok(result) /\ image[i] = result.value
    <3> HIDE DEF st, t, o
    <3> QED
      BY <2>2, <2>3, <2>6, SecondPassAgrees
  <2>7. ASSUME ~o.settings.at, ~NamesTemporary(st)
        PROVE  \A k \in DOMAIN image[i] : ~NamesTemporary(image[i][k])
    <3>1. ~ UsesTemporary(st, n) /\ ~ KnownDisagreement(st)
      BY <2>3, <2>4, <2>7, SettingsExcludeDisagreement DEF Renders
    <3>2. Ok(result) /\ image[i] = result.value
      BY <2>6, <3>1
    <3> HIDE DEF st, t, o
    <3>3. AllKeepTemporary(result.value)
      BY <2>3, <2>7, <3>1, <3>2, ExpansionKeepsTemporary
    <3> QED
      BY <3>2, <3>3 DEF AllKeepTemporary
  <2>8. ASSUME ~o.settings.macro
        PROVE  image[i] = <<t>>
    <3>1. ~ UsesMacro(st, n) /\ ~ KnownDisagreement(st)
      BY <2>3, <2>4, <2>8, SettingsExcludeDisagreement DEF Renders
    <3>2. Ok(result) /\ image[i] = result.value
      BY <2>6, <3>1
    <3> HIDE DEF st, t, o
    <3>3. result.value = <<t>>
      BY <2>3, <2>5, <3>1, <3>2, MacroFree
    <3> QED
      BY <3>2, <3>3
  <2> QED
    BY <2>7, <2>8
<1> QED
  BY <1>1, PassesInvariance, PTL

=============================================================================
