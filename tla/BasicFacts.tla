----------------------------- MODULE BasicFacts -----------------------------
(***************************************************************************)
(* Facts that have nothing to do with the simulator: least elements, and   *)
(* sequences of anything, which stay sequences when they are joined and    *)
(* sliced.                                                                 *)
(***************************************************************************)
EXTENDS History, Functions, SequenceTheorems, FiniteSetTheorems, WellFoundedInduction, TLAPS

(* Every non-empty set of natural numbers has a least element. *)
LEMMA LeastNatural ==
  ASSUME NEW T \in SUBSET Nat, T # {}
  PROVE  \E x \in T : \A y \in T : x <= y
<1> DEFINE R == OpToRel(<, Nat)
<1>1. IsWellFoundedOn(R, Nat)
  BY NatLessThanWellFounded
<1>2. PICK x \in T : \A y \in T : ~ (<<y, x>> \in R)
  BY <1>1, WFMin
<1>3. \A y \in T : ~ (y < x)
  BY <1>2 DEF OpToRel
<1> QED
  BY <1>3

(* Induction over the natural numbers, for a set of numbers. *)
LEMMA NaturalInduction ==
  ASSUME NEW G, 0 \in G, \A n \in Nat : n \in G => n + 1 \in G
  PROVE  Nat \subseteq G
<1> SUFFICES ASSUME Nat \ G # {} PROVE FALSE
  OBVIOUS
<1>1. PICK n \in Nat \ G : \A m \in Nat \ G : n <= m
  <2> DEFINE T == Nat \ G
  <2>1. T \in SUBSET Nat /\ T # {}
    OBVIOUS
  <2> HIDE DEF T
  <2>2. \E x \in T : \A y \in T : x <= y
    BY <2>1, LeastNatural
  <2> QED
    BY <2>2 DEF T
<1>2. n # 0 /\ n - 1 \in Nat /\ n - 1 < n
  BY <1>1
<1>3. n - 1 \in G
  BY <1>1, <1>2
<1> QED
  BY <1>1, <1>2, <1>3

(* Induction over the subsets of a finite set, smaller ones first. *)
LEMMA SubsetInduction ==
  ASSUME NEW S, IsFiniteSet(S), NEW G,
         \A T \in SUBSET S :
            (\A x \in T : T \ {x} \in G) => T \in G
  PROVE  SUBSET S \subseteq G
<1> DEFINE Upto == {n \in Nat : \A T \in SUBSET S : Cardinality(T) <= n => T \in G}
<1>1. \A T \in SUBSET S : IsFiniteSet(T) /\ Cardinality(T) \in Nat
  BY FS_Subset, FS_CardinalityType
<1>2. \A T \in SUBSET S : \A x \in T : Cardinality(T \ {x}) = Cardinality(T) - 1
  BY <1>1, FS_RemoveElement
<1>3. 0 \in Upto
  <2> SUFFICES ASSUME NEW T \in SUBSET S, Cardinality(T) <= 0 PROVE T \in G
    OBVIOUS
  <2>1. T = {}
    BY <1>1, FS_EmptySet
  <2> QED
    BY <2>1
<1>4. \A n \in Nat : n \in Upto => n + 1 \in Upto
  <2> SUFFICES ASSUME NEW n \in Nat, n \in Upto,
                      NEW T \in SUBSET S, Cardinality(T) <= n + 1
               PROVE  T \in G
    OBVIOUS
  <2>1. \A x \in T : T \ {x} \in G
    <3> TAKE x \in T
    <3>1. Cardinality(T \ {x}) <= n /\ T \ {x} \in SUBSET S
      BY <1>1, <1>2
    <3> QED
      BY <3>1
  <2> QED
    BY <2>1
<1> HIDE DEF Upto
<1>5. Nat \subseteq Upto
  BY <1>3, <1>4, NaturalInduction
<1> SUFFICES ASSUME NEW T \in SUBSET S PROVE T \in G
  OBVIOUS
<1>6. Cardinality(T) \in Upto
  BY <1>1, <1>5
<1> QED
  BY <1>1, <1>6 DEF Upto

-----------------------------------------------------------------------------
(* Sums over finite sets. *)
Chosen(s) == CHOOSE x \in s : TRUE

(* The equation by which the community modules define a sum. *)
SumTable(fun, S, g) ==
    g = [s \in SUBSET S |-> IF s = {} THEN 0 ELSE fun[Chosen(s)] + g[s \ {Chosen(s)}]]

LEMMA SumIsChosen ==
  ASSUME NEW fun, NEW S
  PROVE  SumFunctionOnSet(fun, S) = (CHOOSE g : SumTable(fun, S, g))[S]
BY DEF SumFunctionOnSet, FoldFunctionOnSet, MapThenFoldSet, SumTable, Chosen

LEMMA ChosenIsElement == ASSUME NEW s, s # {} PROVE Chosen(s) \in s
BY DEF Chosen

LEMMA SumTableExists ==
  ASSUME NEW S, IsFiniteSet(S), NEW fun
  PROVE  \E g : SumTable(fun, S, g)
<1> DEFINE F(T, g) == IF T = {} THEN 0 ELSE fun[Chosen(T)] + g[T \ {Chosen(T)}]
           Small(n) == {T \in SUBSET S : Cardinality(T) <= n}
           Upto == {n \in Nat : \E g : g = [T \in Small(n) |-> F(T, g)]}
<1>1. \A T \in SUBSET S : IsFiniteSet(T) /\ Cardinality(T) \in Nat
  BY FS_Subset, FS_CardinalityType
<1>2. \A T \in SUBSET S : \A x \in T : Cardinality(T \ {x}) = Cardinality(T) - 1
  BY <1>1, FS_RemoveElement
<1>3. 0 \in Upto
  <2> DEFINE g == [T \in Small(0) |-> 0]
  <2>1. \A T \in Small(0) : T = {}
    BY <1>1, FS_EmptySet
  <2>2. \A T \in Small(0) : F(T, g) = 0
    BY <2>1
  <2> HIDE DEF F, Small
  <2>3. g = [T \in Small(0) |-> F(T, g)]
    BY <2>2
  <2> QED
    BY <2>3
<1>4. \A n \in Nat : n \in Upto => n + 1 \in Upto
  <2> SUFFICES ASSUME NEW n \in Nat, n \in Upto PROVE n + 1 \in Upto
    OBVIOUS
  <2>1. PICK g : g = [T \in Small(n) |-> F(T, g)]
    OBVIOUS
  <2> DEFINE h == [T \in Small(n + 1) |-> F(T, g)]
  <2>2. \A T \in Small(n + 1) : T # {} => T \ {Chosen(T)} \in Small(n)
    BY <1>1, <1>2, ChosenIsElement
  <2>2a. Small(n) \subseteq Small(n + 1)
    BY <1>1
  <2>3. \A T \in Small(n) : h[T] = g[T]
    <3> HIDE DEF F, Small
    <3> QED BY <2>1, <2>2a
  <2>4. \A T \in Small(n + 1) : F(T, g) = F(T, h)
    <3> HIDE DEF h, Small
    <3> QED BY <2>2, <2>3
  <2> HIDE DEF F, Small
  <2>5. h = [T \in Small(n + 1) |-> F(T, h)]
    BY <2>4
  <2> QED
    <3> HIDE DEF h
    <3> QED
      BY <2>5
<1> HIDE DEF Upto
<1>5. Nat \subseteq Upto
  BY <1>3, <1>4, NaturalInduction
<1>6. Cardinality(S) \in Upto
  BY <1>1, <1>5
<1>7. PICK g : g = [T \in Small(Cardinality(S)) |-> F(T, g)]
  BY <1>6 DEF Upto
<1>8. Small(Cardinality(S)) = SUBSET S
  BY FS_Subset
<1> QED
  BY <1>7, <1>8 DEF SumTable

(* All tables of sums agree on the sets they have in common. *)
LEMMA SumTablesAgree ==
  ASSUME NEW S, IsFiniteSet(S), NEW U, NEW f, NEW g, NEW fun,
         S \subseteq U, SumTable(fun, S, f), SumTable(fun, U, g)
  PROVE  f[S] = g[S]
<1> DEFINE G == {T \in SUBSET S : f[T] = g[T]}
<1>1. \A T \in SUBSET S : (\A x \in T : T \ {x} \in G) => T \in G
  <2> SUFFICES ASSUME NEW T \in SUBSET S, \A x \in T : T \ {x} \in G PROVE f[T] = g[T]
    OBVIOUS
  <2> DEFINE F(h) == IF T = {} THEN 0 ELSE fun[Chosen(T)] + h[T \ {Chosen(T)}]
  <2>1. f[T] = F(f) /\ g[T] = F(g)
    BY DEF SumTable
  <2>2. T # {} => f[T \ {Chosen(T)}] = g[T \ {Chosen(T)}]
    BY ChosenIsElement
  <2> QED
    BY <2>1, <2>2
<1> HIDE DEF G
<1>2. SUBSET S \subseteq G
  BY <1>1, SubsetInduction
<1> QED
  BY <1>2 DEF G

LEMMA SumIsInTable ==
  ASSUME NEW S, IsFiniteSet(S), NEW fun
  PROVE  \E g : SumTable(fun, S, g) /\ \A T \in SUBSET S : SumFunctionOnSet(fun, T) = g[T]
<1> DEFINE Table(T) == CHOOSE g : SumTable(fun, T, g)
<1>1. \A T \in SUBSET S : SumTable(fun, T, Table(T))
  <2> TAKE T \in SUBSET S
  <2>1. IsFiniteSet(T)
    BY FS_Subset
  <2> QED
    BY <2>1, SumTableExists
<1>2. \A T \in SUBSET S : Table(T)[T] = Table(S)[T]
  <2> TAKE T \in SUBSET S
  <2>1. IsFiniteSet(T)
    BY FS_Subset
  <2> HIDE DEF Table
  <2> QED
    BY <1>1, <2>1, SumTablesAgree
<1>3. \A T \in SUBSET S : SumFunctionOnSet(fun, T) = Table(T)[T]
  BY SumIsChosen
<1> HIDE DEF Table
<1> QED
  BY <1>1, <1>2, <1>3

(* A sum is that of all but one element, whichever, and that element. *)
LEMMA SumOfSet ==
  ASSUME NEW S, IsFiniteSet(S), NEW fun, \A x \in S : fun[x] \in Int
  PROVE  /\ SumFunctionOnSet(fun, {}) = 0
         /\ SumFunctionOnSet(fun, S) \in Int
         /\ \A x \in S : SumFunctionOnSet(fun, S) = fun[x] + SumFunctionOnSet(fun, S \ {x})
<1>1. PICK g : SumTable(fun, S, g) /\ \A T \in SUBSET S : SumFunctionOnSet(fun, T) = g[T]
  BY SumIsInTable
<1>2. \A T \in SUBSET S : g[T] = IF T = {} THEN 0 ELSE fun[Chosen(T)] + g[T \ {Chosen(T)}]
  BY <1>1 DEF SumTable
<1>3. \A T \in SUBSET S : g[T] \in Int
  <2> DEFINE G == {T \in SUBSET S : g[T] \in Int}
  <2>1. \A T \in SUBSET S : (\A x \in T : T \ {x} \in G) => T \in G
    <3> SUFFICES ASSUME NEW T \in SUBSET S, \A x \in T : T \ {x} \in G
                 PROVE  g[T] \in Int
      OBVIOUS
    <3>1. CASE T = {}
      <4>1. g[{}] = 0
        BY <1>2
      <4> QED
        BY <3>1, <4>1
    <3>2. CASE T # {}
      <4>1. Chosen(T) \in T
        BY <3>2, ChosenIsElement
      <4>2. g[T \ {Chosen(T)}] \in Int /\ fun[Chosen(T)] \in Int
        BY <4>1
      <4>3. g[T] = fun[Chosen(T)] + g[T \ {Chosen(T)}]
        BY <1>2, <3>2
      <4> QED
        BY <4>2, <4>3
    <3> QED
      BY <3>1, <3>2
  <2> HIDE DEF G
  <2>2. SUBSET S \subseteq G
    BY <2>1, SubsetInduction
  <2> QED
    BY <2>2 DEF G
<1>4. \A T \in SUBSET S : \A x \in T : g[T] = fun[x] + g[T \ {x}]
  <2> DEFINE G == {T \in SUBSET S : \A x \in T : g[T] = fun[x] + g[T \ {x}]}
  <2>1. \A T \in SUBSET S : (\A x \in T : T \ {x} \in G) => T \in G
    <3> SUFFICES ASSUME NEW T \in SUBSET S, \A x \in T : T \ {x} \in G, NEW x \in T
                 PROVE  g[T] = fun[x] + g[T \ {x}]
      OBVIOUS
    <3> DEFINE c == Chosen(T)
    <3>1. c \in T
      BY ChosenIsElement
    <3>2. g[T] = fun[c] + g[T \ {c}]
      BY <1>2
    <3> HIDE DEF c
    <3>3. CASE x # c
      <4> DEFINE r == g[(T \ {x}) \ {c}]
      <4>1. x \in T \ {c} /\ c \in T \ {x} /\ (T \ {c}) \ {x} = (T \ {x}) \ {c}
        BY <3>1, <3>3
      <4>2. g[T \ {c}] = fun[x] + r /\ g[T \ {x}] = fun[c] + r
        BY <3>1, <4>1
      <4>3. r \in Int /\ fun[x] \in Int /\ fun[c] \in Int
        BY <1>3, <3>1
      <4> HIDE DEF r
      <4> QED
        BY <3>2, <4>2, <4>3
    <3> QED
      BY <3>2, <3>3
  <2> HIDE DEF G
  <2>2. SUBSET S \subseteq G
    BY <2>1, SubsetInduction
  <2> QED
    BY <2>2 DEF G
<1>5. SumFunctionOnSet(fun, S) = g[S] /\ SumFunctionOnSet(fun, {}) = g[{}]
  BY <1>1
<1>6. g[{}] = 0
  BY <1>2
<1>7. \A x \in S : SumFunctionOnSet(fun, S \ {x}) = g[S \ {x}]
  BY <1>1
<1> QED
  BY <1>3, <1>4, <1>5, <1>6, <1>7

LEMMA SumDependsOnSet ==
  ASSUME NEW S, IsFiniteSet(S), NEW f, NEW h,
         \A x \in S : f[x] = h[x] /\ f[x] \in Int
  PROVE  SumFunctionOnSet(f, S) = SumFunctionOnSet(h, S)
<1> DEFINE G == {T \in SUBSET S : SumFunctionOnSet(f, T) = SumFunctionOnSet(h, T)}
<1>1. \A T \in SUBSET S : (\A x \in T : T \ {x} \in G) => T \in G
  <2> SUFFICES ASSUME NEW T \in SUBSET S, \A x \in T : T \ {x} \in G PROVE T \in G
    OBVIOUS
  <2>1. IsFiniteSet(T)
    BY FS_Subset
  <2>2. \A x \in T : f[x] \in Int /\ h[x] \in Int
    OBVIOUS
  <2>3. CASE T = {}
    BY <2>1, <2>2, <2>3, SumOfSet
  <2>4. CASE T # {}
    <3>1. PICK x \in T : TRUE
      BY <2>4
    <3>2. SumFunctionOnSet(f, T) = f[x] + SumFunctionOnSet(f, T \ {x})
      BY <2>1, <2>2, SumOfSet
    <3>3. SumFunctionOnSet(h, T) = h[x] + SumFunctionOnSet(h, T \ {x})
      BY <2>1, <2>2, SumOfSet
    <3> QED
      BY <3>2, <3>3
  <2> QED
    BY <2>3, <2>4
<1> HIDE DEF G
<1>2. SUBSET S \subseteq G
  BY <1>1, SubsetInduction
<1> QED
  BY <1>2 DEF G

-----------------------------------------------------------------------------
(* Sequences of anything. *)
IsSequence(s) == \E S : s \in Seq(S)

LEMMA LengthIsNatural ==
  ASSUME NEW s, IsSequence(s)
  PROVE  Len(s) \in Nat
<1>1. PICK S : s \in Seq(S)
  BY DEF IsSequence
<1> QED
  BY <1>1

LEMMA WholeIsSlice ==
  ASSUME NEW s, IsSequence(s)
  PROVE  SubSeq(s, 1, Len(s)) = s
<1>1. PICK S : s \in Seq(S)
  BY DEF IsSequence
<1> QED
  BY <1>1

LEMMA SequenceDomain ==
  ASSUME NEW s, IsSequence(s)
  PROVE  DOMAIN s = 1 .. Len(s) /\ Len(s) \in Nat
<1>1. PICK S : s \in Seq(S)
  BY DEF IsSequence
<1> QED
  BY <1>1

LEMMA SliceIsSequence ==
  ASSUME NEW s, NEW m \in Int, NEW n \in Int
  PROVE  IsSequence(SubSeq(s, m, n))
<1> DEFINE S == {s[i] : i \in m .. n}
<1>1. \A i \in m .. n : s[i] \in S
  OBVIOUS
<1> HIDE DEF S
<1>2. SubSeq(s, m, n) \in Seq(S)
  BY <1>1, SubSeqProperties
<1> QED
  BY <1>2 DEF IsSequence

LEMMA FunctionIsSequence ==
  ASSUME NEW n \in Nat, NEW S, NEW f \in [1 .. n -> S]
  PROVE  IsSequence(f)
<1>1. f \in Seq(S)
  OBVIOUS
<1> QED
  BY <1>1 DEF IsSequence

LEMMA EmptyIsSequence == IsSequence(<<>>)
<1>1. <<>> \in Seq({})
  OBVIOUS
<1> QED
  BY <1>1 DEF IsSequence

LEMMA AppendIsSequence ==
  ASSUME NEW s, IsSequence(s), NEW e
  PROVE  IsSequence(Append(s, e))
<1>1. PICK S : s \in Seq(S)
  BY DEF IsSequence
<1> DEFINE T == S \cup {e}
<1>2. s \in Seq(T)
  BY <1>1, SeqMonotonic
<1>3. e \in T
  OBVIOUS
<1> HIDE DEF T
<1>4. Append(s, e) \in Seq(T)
  BY <1>2, <1>3
<1> QED
  BY <1>4 DEF IsSequence

LEMMA ConcatIsSequence ==
  ASSUME NEW s, IsSequence(s), NEW t, IsSequence(t)
  PROVE  /\ IsSequence(s \o t)
         /\ Len(s \o t) = Len(s) + Len(t)
         /\ SubSeq(s \o t, 1, Len(s)) = s
<1>1. PICK S : s \in Seq(S)
  BY DEF IsSequence
<1>2. PICK T : t \in Seq(T)
  BY DEF IsSequence
<1> DEFINE U == S \cup T
<1>3. s \in Seq(U) /\ t \in Seq(U)
  BY <1>1, <1>2, SeqMonotonic
<1> HIDE DEF U
<1>4. s \o t \in Seq(U) /\ Len(s \o t) = Len(s) + Len(t)
  BY <1>3
<1>5. SubSeq(s \o t, 1, Len(s)) = s
  BY <1>3, <1>4
<1> QED
  BY <1>4, <1>5 DEF IsSequence

-----------------------------------------------------------------------------
(* The bounded history. *)

(* How many entries appending to s drops. *)
Dropped(s) == IF Len(s) >= HistoryLimit THEN 1 ELSE 0

(* The entries after an append are those of the longer sequence, shifted   *)
(* by the number of entries dropped.                                       *)
LEMMA RememberedEntries ==
  ASSUME NEW S, NEW s \in Seq(S), NEW e \in S
  PROVE  /\ Remembered(s, e) \in Seq(S)
         /\ Len(Remembered(s, e)) = Len(s) + 1 - Dropped(s)
         /\ \A i \in 1 .. Len(Remembered(s, e)) :
               Remembered(s, e)[i] = IF i + Dropped(s) = Len(s) + 1 THEN e
                                     ELSE s[i + Dropped(s)]
<1> DEFINE t == Append(s, e)
<1>1. /\ t \in Seq(S)
      /\ Len(t) = Len(s) + 1 /\ Len(s) \in Nat
      /\ \A i \in 1 .. Len(s) + 1 : t[i] = IF i = Len(s) + 1 THEN e ELSE s[i]
  OBVIOUS
<1>2. Remembered(s, e) = IF Len(t) > HistoryLimit THEN Tail(t) ELSE t
  BY DEF Remembered
<1> HIDE DEF t
<1>3. CASE Len(s) >= HistoryLimit
  <2>1. Dropped(s) = 1 /\ Remembered(s, e) = Tail(t)
    BY <1>1, <1>2, <1>3, HistoryAssumption DEF Dropped
  <2>2. /\ Tail(t) \in Seq(S)
        /\ Len(Tail(t)) = Len(s)
        /\ \A i \in 1 .. Len(s) : Tail(t)[i] = t[i + 1]
    BY <1>1
  <2> QED
    BY <1>1, <2>1, <2>2
<1>4. CASE ~ (Len(s) >= HistoryLimit)
  <2>1. Dropped(s) = 0 /\ Remembered(s, e) = t
    BY <1>1, <1>2, <1>4, HistoryAssumption DEF Dropped
  <2> QED
    BY <1>1, <2>1
<1> QED
  BY <1>3, <1>4

(* No append makes the history longer than its limit. *)
LEMMA RememberedIsBounded ==
  ASSUME NEW S, NEW s \in Seq(S), NEW e \in S, Len(s) <= HistoryLimit
  PROVE  Len(Remembered(s, e)) <= HistoryLimit
<1>1. Len(Remembered(s, e)) = Len(s) + 1 - Dropped(s) /\ Len(s) \in Nat
  BY RememberedEntries
<1> QED
  BY <1>1, HistoryAssumption DEF Dropped

LEMMA ForgottenEntries ==
  ASSUME NEW S, NEW s \in Seq(S), s # <<>>
  PROVE  /\ Len(s) \in Nat \ {0}
         /\ Forgotten(s) \in Seq(S)
         /\ Len(Forgotten(s)) = Len(s) - 1
         /\ \A i \in 1 .. Len(s) - 1 : Forgotten(s)[i] = s[i]
<1>1. Len(s) \in Nat \ {0}
  OBVIOUS
<1> DEFINE n == Len(s) - 1
<1>2. n \in Nat /\ 1 \in Int /\ \A i \in 1 .. n : s[i] \in S
  BY <1>1
<1> HIDE DEF n
<1>3. /\ SubSeq(s, 1, n) \in Seq(S)
      /\ Len(SubSeq(s, 1, n)) = IF 1 <= n THEN n - 1 + 1 ELSE 0
      /\ \A i \in 1 .. n - 1 + 1 : SubSeq(s, 1, n)[i] = s[1 + i - 1]
  BY <1>2, SubSeqProperties
<1>4. \A i \in 1 .. n : SubSeq(s, 1, n)[i] = s[i]
  BY <1>2, <1>3
<1>5. Len(SubSeq(s, 1, n)) = n
  BY <1>2, <1>3
<1> QED
  BY <1>1, <1>3, <1>4, <1>5 DEF Forgotten, n
=============================================================================
