---------------------------- MODULE MemoryProofs ----------------------------
(***************************************************************************)
(* Facts about the memory of module Memory, for every size of byte, page   *)
(* and address space: a write can be taken back exactly, a write that runs *)
(* out of pages takes itself back, and the page limit is never exceeded.   *)
(***************************************************************************)
EXTENDS Memory, BasicFacts, FiniteSetTheorems

(* A memory the program can be in.  What its cells hold does not matter to *)
(* the facts below.                                                        *)
GoodMemory(m) == /\ m = [cell |-> [x \in Mapped |-> m.cell[x]],
                         present |-> m.present, dataEnd |-> m.dataEnd]
                 /\ m.present \in SUBSET Nat
                 /\ Canonical(m)
                 /\ IsFiniteSet(m.present)
                 /\ Cardinality(m.present) <= MaxPages

-----------------------------------------------------------------------------
(* Of the bytes of a span that lie in one page, one is written first. *)
LEMMA FirstByteOfPage ==
  ASSUME NEW a \in Nat, NEW n \in Nat, NEW x \in Span(a, n)
  PROVE  \E y \in Span(a, n) : /\ PageOf(y) = PageOf(x)
                               /\ PageOf(x) \notin PagesOf(a, y - a)
<1> DEFINE T == {y \in Span(a, n) : PageOf(y) = PageOf(x)}
<1>1. T \in SUBSET Nat /\ T # {}
  BY DEF Span
<1> HIDE DEF T
<1>2. PICK y \in T : \A z \in T : y <= z
  BY <1>1, LeastNatural
<1>3. y \in Span(a, n) /\ PageOf(y) = PageOf(x)
  BY DEF T
<1>4. ASSUME PageOf(x) \in PagesOf(a, y - a)
      PROVE  FALSE
  <2>1. PICK z \in Span(a, y - a) : PageOf(z) = PageOf(x)
    BY <1>4 DEF PagesOf
  <2>2. z \in a .. y - 1 /\ z \in Span(a, n)
    BY <1>3, <2>1 DEF Span
  <2>3. z \in T
    BY <2>1, <2>2 DEF T
  <2> QED
    BY <1>2, <1>3, <2>2, <2>3 DEF Span
<1> QED
  BY <1>3, <1>4

-----------------------------------------------------------------------------
(* Undoing a write. *)

(* The pages that the changes of a write mark as new are exactly those     *)
(* that did not exist before it, although the code marks only the first    *)
(* byte it stores in each.                                                 *)
LEMMA NewPagesAreTheMissing ==
  ASSUME NEW m, NEW a \in Nat, NEW n \in Nat
  PROVE  NewlyAllocated(Changes(m, a, n)) = PagesOf(a, n) \ m.present
<1> DEFINE c == Changes(m, a, n)
<1>1. /\ DOMAIN c = Span(a, n)
      /\ \A x \in Span(a, n) :
            c[x].wasPresent = (PageOf(x) \in m.present \cup PagesOf(a, x - a))
  BY DEF Changes
<1> HIDE DEF c
<1>2. NewlyAllocated(c) \subseteq PagesOf(a, n) \ m.present
  BY <1>1 DEF NewlyAllocated, PagesOf
<1>3. ASSUME NEW p \in PagesOf(a, n) \ m.present
      PROVE  p \in NewlyAllocated(c)
  <2>1. PICK x \in Span(a, n) : p = PageOf(x)
    BY <1>3 DEF PagesOf
  <2>2. PICK y \in Span(a, n) : /\ PageOf(y) = PageOf(x)
                                /\ PageOf(x) \notin PagesOf(a, y - a)
    BY FirstByteOfPage
  <2>3. ~c[y].wasPresent
    BY <1>1, <1>3, <2>1, <2>2
  <2> QED
    BY <1>1, <2>1, <2>2, <2>3 DEF NewlyAllocated
<1> QED
  BY <1>2, <1>3 DEF c

(* restore after a write gives the memory before it: every byte with its   *)
(* initialization bit, and the set of allocated pages.                     *)
LEMMA RestoreUndoesPut ==
  ASSUME NEW m, GoodMemory(m), NEW a \in Nat, NEW S, NEW bytes \in Seq(S)
  PROVE  Restore(Put(m, a, bytes), Changes(m, a, Len(bytes))) = m
<1> DEFINE n == Len(bytes)
           after == Put(m, a, bytes)
           c == Changes(m, a, n)
           gone == NewlyAllocated(c)
           back == Restore(after, c)
<1>1. n \in Nat
  OBVIOUS
<1>2. gone = PagesOf(a, n) \ m.present
  BY <1>1, NewPagesAreTheMissing
<1>3. /\ after.cell = [x \in Mapped |-> IF x \in Span(a, n) THEN bytes[x - a + 1]
                                        ELSE m.cell[x]]
      /\ after.present = m.present \cup PagesOf(a, n)
      /\ after.dataEnd = m.dataEnd
  BY DEF Put
<1>4. /\ DOMAIN c = Span(a, n)
      /\ \A x \in Span(a, n) : c[x].old = m.cell[x]
  BY DEF Changes
<1> HIDE DEF after, c, gone, n
<1>5. back = [cell |-> [x \in Mapped |-> IF PageOf(x) \in gone THEN Unset
                                         ELSE IF x \in DOMAIN c THEN c[x].old
                                         ELSE after.cell[x]],
              present |-> after.present \ gone,
              dataEnd |-> after.dataEnd]
  BY DEF Restore, gone
<1>6. ASSUME NEW x \in Mapped
      PROVE  (IF PageOf(x) \in gone THEN Unset
              ELSE IF x \in DOMAIN c THEN c[x].old ELSE after.cell[x]) = m.cell[x]
  <2>1. CASE PageOf(x) \in gone
    BY <1>2, <2>1 DEF Canonical, GoodMemory
  <2>2. CASE PageOf(x) \notin gone
    BY <1>3, <1>4, <2>2
  <2> QED
    BY <2>1, <2>2
<1>7. m.cell = [x \in Mapped |-> m.cell[x]]
  BY DEF GoodMemory
<1>8. back.cell = m.cell
  BY <1>5, <1>6, <1>7
<1>9. back.present = m.present
  BY <1>2, <1>3, <1>5
<1>10. back.dataEnd = m.dataEnd
  BY <1>3, <1>5
<1>11. m = [cell |-> m.cell, present |-> m.present, dataEnd |-> m.dataEnd]
  BY DEF GoodMemory
<1> QED
  BY <1>5, <1>8, <1>9, <1>10, <1>11 DEF n, c, after

-----------------------------------------------------------------------------
(* Page numbers, and the pages of a growing span. *)

LEMMA PageNumbers ==
  /\ \A x \in Nat : PageOf(x) \in Nat
  /\ \A a, n \in Nat : PagesOf(a, n) \in SUBSET Nat
<1>1. \A x \in Nat : PageOf(x) \in Nat
  BY MemoryAssumption DEF PageOf
<1> QED
  BY <1>1 DEF PagesOf, Span

LEMMA PagesAreFinite ==
  ASSUME NEW a \in Nat, NEW n \in Nat
  PROVE  IsFiniteSet(PagesOf(a, n))
<1> DEFINE S == Span(a, n)
           T == PagesOf(a, n)
           f == [x \in S |-> PageOf(x)]
<1>1. IsFiniteSet(S)
  BY FS_Interval DEF Span
<1>2. f \in Surjection(S, T)
  BY DEF Surjection, PagesOf
<1> HIDE DEF S, T, f
<1>3. IsFiniteSet(T)
  BY <1>1, <1>2, FS_Surjection
<1> QED
  BY <1>3 DEF T

LEMMA OneMoreByte ==
  ASSUME NEW a \in Nat, NEW k \in Nat \ {0}
  PROVE  PagesOf(a, k) = PagesOf(a, k - 1) \cup {PageOf(a + (k - 1))}
<1>1. Span(a, k) = Span(a, k - 1) \cup {a + (k - 1)}
  BY DEF Span
<1> QED
  BY <1>1 DEF PagesOf

LEMMA NoBytesNoPages ==
  ASSUME NEW a \in Nat
  PROVE  PagesOf(a, 0) = {}
BY DEF PagesOf, Span

-----------------------------------------------------------------------------
(* write_bytes knows where to stop: the loop ends after the last byte, or  *)
(* at the first byte whose page is missing when the limit is reached, and  *)
(* until then it stays within the limit.                                   *)
Held(m, a, k) == Cardinality(m.present \cup PagesOf(a, k))

LEMMA HeldIsNatural ==
  ASSUME NEW m, IsFiniteSet(m.present), NEW a \in Nat, NEW k \in Nat
  PROVE  IsFiniteSet(m.present \cup PagesOf(a, k)) /\ Held(m, a, k) \in Nat
<1>1. IsFiniteSet(m.present \cup PagesOf(a, k))
  BY PagesAreFinite, FS_Union
<1> QED
  BY <1>1, FS_CardinalityType DEF Held

Stuck(m, a, k) ==
  PageOf(a + k) \notin m.present \cup PagesOf(a, k) /\ Held(m, a, k) >= MaxPages

(* Before the loop is stuck it has not exceeded the limit. *)
LEMMA LimitKeptUntilStuck ==
  ASSUME NEW m, IsFiniteSet(m.present), Cardinality(m.present) <= MaxPages,
         NEW a \in Nat, NEW n \in Nat,
         \A k \in 0 .. n - 1 : ~Stuck(m, a, k)
  PROVE  Held(m, a, n) <= MaxPages
<1>1. \A j \in Nat : Held(m, a, j) \in Nat
  BY HeldIsNatural
<1>2. MaxPages \in Nat
  BY MemoryAssumption
<1> SUFFICES ASSUME Held(m, a, n) > MaxPages
             PROVE  FALSE
  BY <1>1, <1>2
<1> DEFINE T == {k \in 0 .. n : Held(m, a, k) > MaxPages}
<1>3. T \in SUBSET Nat /\ n \in T
  OBVIOUS
<1>4. PICK k \in T : \A j \in T : k <= j
  BY <1>3, LeastNatural
<1>5. k \in 0 .. n /\ Held(m, a, k) > MaxPages
  BY <1>4
<1>6. k # 0
  <2>1. m.present \cup PagesOf(a, 0) = m.present
    BY NoBytesNoPages
  <2>2. Held(m, a, 0) = Cardinality(m.present)
    BY <2>1 DEF Held
  <2>3. ~ (Held(m, a, 0) > MaxPages)
    BY <2>2, <1>1, <1>2
  <2> QED
    BY <1>5, <2>3
<1> DEFINE before == m.present \cup PagesOf(a, k - 1)
           page == PageOf(a + (k - 1))
<1>7. k \in Nat \ {0} /\ k - 1 \in 0 .. n - 1 /\ k - 1 \in Nat
  BY <1>5, <1>6
<1>8. k - 1 \notin T
  BY <1>4, <1>7
<1>9. Held(m, a, k - 1) \in Nat /\ Held(m, a, k) \in Nat
  BY <1>1, <1>7
<1>10. Held(m, a, k - 1) <= MaxPages
  BY <1>2, <1>7, <1>8, <1>9
<1>11. m.present \cup PagesOf(a, k) = before \cup {page}
  BY <1>7, OneMoreByte
<1>12. IsFiniteSet(before)
  BY <1>7, HeldIsNatural
<1>13. CASE page \in before
  <2>1. before \cup {page} = before
    BY <1>13
  <2>2. Held(m, a, k) = Held(m, a, k - 1)
    BY <1>11, <2>1 DEF Held
  <2> QED
    BY <2>2, <1>2, <1>5, <1>9, <1>10
<1>14. CASE page \notin before
  <2>1. ~Stuck(m, a, k - 1)
    BY <1>7
  <2>2. ~ (Held(m, a, k - 1) >= MaxPages)
    BY <2>1, <1>14 DEF Stuck
  <2>3. Cardinality(before \cup {page}) = Cardinality(before) + 1
    BY <1>12, <1>14, FS_AddElement
  <2>4. Held(m, a, k) = Held(m, a, k - 1) + 1
    BY <1>11, <2>3 DEF Held
  <2> QED
    BY <2>2, <2>4, <1>2, <1>5, <1>9
<1> QED
  BY <1>13, <1>14

LEMMA StorableStops ==
  ASSUME NEW m, IsFiniteSet(m.present), Cardinality(m.present) <= MaxPages,
         NEW a \in Nat, NEW n \in Nat
  PROVE  /\ Storable(m, a, n) \in 0 .. n
         /\ Held(m, a, Storable(m, a, n)) <= MaxPages
<1> DEFINE P(k) == /\ k > 0 => Held(m, a, k) <= MaxPages
                   /\ k < n => Stuck(m, a, k)
           T == {k \in 0 .. n - 1 : Stuck(m, a, k)}
<1>1. \E k \in 0 .. n : P(k)
  <2>1. CASE T = {}
    <3>1. Held(m, a, n) <= MaxPages
      BY <2>1, LimitKeptUntilStuck
    <3> QED
      BY <3>1
  <2>2. CASE T # {}
    <3>1. T \in SUBSET Nat
      OBVIOUS
    <3>2. PICK k \in T : \A j \in T : k <= j
      BY <2>2, <3>1, LeastNatural
    <3>3. k \in 0 .. n - 1 /\ Stuck(m, a, k)
      BY <3>2
    <3>4. \A j \in 0 .. k - 1 : ~Stuck(m, a, j)
      BY <3>2, <3>3
    <3>5. Held(m, a, k) <= MaxPages
      BY <3>3, <3>4, LimitKeptUntilStuck
    <3> QED
      BY <3>3, <3>5
  <2> QED
    BY <2>1, <2>2
<1>2. Storable(m, a, n) = CHOOSE k \in 0 .. n : P(k)
  BY DEF Storable, Held, Stuck
<1> HIDE DEF P
<1>3. Storable(m, a, n) \in 0 .. n /\ P(Storable(m, a, n))
  BY <1>1, <1>2
<1>4. Held(m, a, 0) <= MaxPages
  BY NoBytesNoPages DEF Held
<1> QED
  BY <1>3, <1>4 DEF P

-----------------------------------------------------------------------------
(* What write_bytes promises. *)

LEMMA RestoreNothing ==
  ASSUME NEW m, GoodMemory(m)
  PROVE  Restore(m, NoChanges) = m
<1>1. DOMAIN NoChanges = {}
  BY DEF NoChanges
<1>2. NewlyAllocated(NoChanges) = {}
  BY <1>1 DEF NewlyAllocated
<1>3. Restore(m, NoChanges) = [cell |-> [x \in Mapped |-> m.cell[x]],
                               present |-> m.present, dataEnd |-> m.dataEnd]
  BY <1>1, <1>2 DEF Restore
<1> QED
  BY <1>3 DEF GoodMemory

(* A complete write leads to a memory the program can be in, with the same *)
(* end of the data segment.                                                *)
LEMMA PutIsGood ==
  ASSUME NEW m, GoodMemory(m), NEW a \in Nat, NEW S, NEW bytes \in Seq(S),
         Held(m, a, Len(bytes)) <= MaxPages
  PROVE  GoodMemory(Put(m, a, bytes)) /\ Put(m, a, bytes).dataEnd = m.dataEnd
<1> DEFINE n == Len(bytes)
           after == Put(m, a, bytes)
<1>1. n \in Nat
  OBVIOUS
<1>2. /\ after.cell = [x \in Mapped |-> IF x \in Span(a, n) THEN bytes[x - a + 1]
                                        ELSE m.cell[x]]
      /\ after.present = m.present \cup PagesOf(a, n)
      /\ after.dataEnd = m.dataEnd
      /\ after = [cell |-> after.cell, present |-> after.present,
                  dataEnd |-> after.dataEnd]
  BY DEF Put
<1> HIDE DEF after, n
<1>3. after = [cell |-> [x \in Mapped |-> after.cell[x]],
               present |-> after.present, dataEnd |-> after.dataEnd]
  BY <1>2
<1>4. after.present \in SUBSET Nat
  BY <1>1, <1>2, PageNumbers DEF GoodMemory
<1>5. Canonical(after)
  <2>1. ASSUME NEW x \in Mapped, PageOf(x) \notin after.present
        PROVE  after.cell[x] = Unset
    <3>1. x \notin Span(a, n) /\ PageOf(x) \notin m.present
      BY <1>2, <2>1 DEF PagesOf
    <3>2. after.cell[x] = m.cell[x]
      BY <1>2, <3>1
    <3> QED
      BY <3>1, <3>2 DEF GoodMemory, Canonical
  <2> QED
    BY <2>1 DEF Canonical
<1>6. IsFiniteSet(after.present) /\ Cardinality(after.present) <= MaxPages
  BY <1>1, <1>2, HeldIsNatural DEF GoodMemory, Held, n
<1> QED
  BY <1>2, <1>3, <1>4, <1>5, <1>6 DEF GoodMemory, after

(* write_bytes either stores everything, and its changes take it back, or  *)
(* it leaves the memory as it was; in both cases within the page limit.    *)
THEOREM WriteBytesIsUndoable ==
  ASSUME NEW m, GoodMemory(m), NEW a, NEW S, NEW bytes \in Seq(S), NEW alignment
  PROVE  LET w == WriteBytes(m, a, bytes, alignment)
         IN  /\ w.ok \in BOOLEAN
             /\ GoodMemory(w.mem)
             /\ w.mem.dataEnd = m.dataEnd
             /\ Restore(w.mem, w.changes) = m
             /\ ~w.ok => w.mem = m
<1> DEFINE w == WriteBytes(m, a, bytes, alignment)
           n == Len(bytes)
           k == Storable(m, a, n)
<1>1. n \in Nat
  OBVIOUS
<1>2. Restore(m, NoChanges) = m
  BY RestoreNothing
<1>3. CASE n = 0 \/ ~Writable(m, a, n, alignment)
  <2>1. w = [ok |-> n = 0, mem |-> m, changes |-> NoChanges]
    BY <1>3 DEF WriteBytes
  <2> HIDE DEF w, n
  <2> QED
    BY <2>1, <1>2 DEF w
<1>4. CASE n # 0 /\ Writable(m, a, n, alignment)
  <2>1. a \in Nat
    BY <1>4 DEF Writable, Accessible
  <2>2. k \in 0 .. n /\ Held(m, a, k) <= MaxPages
    BY <1>1, <2>1, StorableStops DEF GoodMemory
  <2>3. CASE k < n
    <3> DEFINE head == SubSeq(bytes, 1, k)
    <3>1. w = [ok |-> FALSE, mem |-> Restore(Put(m, a, head), Changes(m, a, k)),
               changes |-> NoChanges]
      BY <1>4, <2>3 DEF WriteBytes
    <3>2. head \in Seq(S) /\ Len(head) = k
      <4>1. k \in Int /\ 1 \in Int /\ \A i \in 1 .. k : bytes[i] \in S
        BY <1>1, <2>2
      <4> HIDE DEF k, n
      <4>2. /\ head \in Seq(S)
            /\ Len(head) = IF 1 <= k THEN k - 1 + 1 ELSE 0
        BY <4>1, SubSeqProperties
      <4> QED
        BY <2>2, <4>1, <4>2
    <3> HIDE DEF head, k, w
    <3>3. Restore(Put(m, a, head), Changes(m, a, k)) = m
      BY <2>1, <3>2, RestoreUndoesPut
    <3> QED
      BY <3>1, <3>3, <1>2 DEF w
  <2>4. CASE k = n
    <3>1. SubSeq(bytes, 1, n) = bytes
      BY <1>1
    <3>2. w = [ok |-> TRUE, mem |-> Put(m, a, bytes), changes |-> Changes(m, a, n)]
      <4>1. ~ (k < n) /\ Put(m, a, SubSeq(bytes, 1, k)) = Put(m, a, bytes)
        <5> HIDE DEF k, n
        <5>1. ~ (k < n)
          BY <1>1, <2>4
        <5>2. SubSeq(bytes, 1, k) = bytes
          BY <2>4, <3>1
        <5> QED
          BY <5>1, <5>2
      <4>2. w = [ok |-> TRUE, mem |-> Put(m, a, SubSeq(bytes, 1, k)),
                 changes |-> Changes(m, a, n)]
        BY <1>4, <4>1 DEF WriteBytes
      <4> QED
        BY <4>1, <4>2
    <3>3. Restore(Put(m, a, bytes), Changes(m, a, n)) = m
      BY <2>1, RestoreUndoesPut
    <3>4. GoodMemory(Put(m, a, bytes)) /\ Put(m, a, bytes).dataEnd = m.dataEnd
      BY <2>1, <2>2, <2>4, PutIsGood
    <3> HIDE DEF w
    <3> QED
      BY <3>2, <3>3, <3>4 DEF w
  <2> QED
    BY <1>1, <2>2, <2>3, <2>4
<1> QED
  BY <1>3, <1>4


-----------------------------------------------------------------------------
(* A range that may be written lies in the mapped addresses. *)
LEMMA WritableIsMapped ==
  ASSUME NEW m, NEW a, NEW n \in Nat \ {0}, NEW alignment,
         Writable(m, a, n, alignment)
  PROVE  a \in Nat /\ Span(a, n) \subseteq Mapped
<1>1. Accessible(m, a, n, "write")
  BY DEF Writable
<1>2. PICK r \in Regions : r.lo <= a /\ a + n <= r.hi /\ "write" \in r.access
  BY <1>1 DEF Accessible
<1>3. a \in Nat /\ r.lo \in Nat /\ r.hi \in Nat
  BY <1>1, <1>2, MemoryAssumption DEF Accessible
<1>4. r \in {s \in Regions : s.access # {}}
  BY <1>2
<1>5. r.lo .. r.hi - 1 \subseteq Mapped
  BY <1>4 DEF Mapped
<1>6. Span(a, n) \subseteq r.lo .. r.hi - 1
  BY <1>2, <1>3 DEF Span
<1> QED
  BY <1>3, <1>5, <1>6

(* What a change remembers of a byte. *)
OldByte == [old : Byte \cup {Unset}, wasPresent : BOOLEAN]

(* The types of what write_bytes returns. *)
LEMMA WriteBytesIsTyped ==
  ASSUME NEW m \in Memory, GoodMemory(m), NEW a, NEW bytes \in Seq(Byte), NEW alignment
  PROVE  LET w == WriteBytes(m, a, bytes, alignment)
         IN  /\ w.mem \in Memory
             /\ w.changes \in UNION {[A -> OldByte] : A \in SUBSET Mapped}
<1> DEFINE w == WriteBytes(m, a, bytes, alignment)
           n == Len(bytes)
<1>1. /\ w.ok \in BOOLEAN /\ GoodMemory(w.mem) /\ w.mem.dataEnd = m.dataEnd
      /\ ~w.ok => w.mem = m
  BY WriteBytesIsUndoable
<1>2. NoChanges \in [{} -> OldByte]
  BY DEF NoChanges
<1>3. NoChanges \in UNION {[A -> OldByte] : A \in SUBSET Mapped}
  BY <1>2
<1>4. CASE ~w.ok \/ n = 0
  <2>1. w.changes = NoChanges /\ (w.ok => w.mem = m)
    BY <1>4 DEF WriteBytes
  <2> QED
    BY <1>1, <1>3, <2>1
<1>5. CASE w.ok /\ n # 0
  <2> DEFINE k == Storable(m, a, n)
  <2>1. n \in Nat \ {0}
    BY <1>5
  <2>2. Writable(m, a, n, alignment) /\ ~ (k < n)
    BY <1>5 DEF WriteBytes
  <2>3. a \in Nat /\ Span(a, n) \subseteq Mapped
    BY <2>1, <2>2, WritableIsMapped
  <2>4. k \in 0 .. n
    BY <2>1, <2>3, StorableStops DEF GoodMemory
  <2>5. k = n
    <3> HIDE DEF k, n
    <3> QED
      BY <2>1, <2>2, <2>4
  <2>6. w = [ok |-> TRUE, mem |-> Put(m, a, SubSeq(bytes, 1, k)),
             changes |-> Changes(m, a, n)]
    BY <1>5, <2>2 DEF WriteBytes
  <2>7. SubSeq(bytes, 1, k) = bytes
    <3>1. SubSeq(bytes, 1, n) = bytes
      BY <2>1
    <3> HIDE DEF k, n
    <3> QED
      BY <3>1, <2>5
  <2> HIDE DEF w, k
  <2>8. w.mem = Put(m, a, bytes) /\ w.changes = Changes(m, a, n)
    BY <2>6, <2>7
  <2>9. w.changes \in [Span(a, n) -> OldByte]
    <3>1. \A x \in Span(a, n) : m.cell[x] \in Byte \cup {Unset}
      BY <2>3 DEF Memory
    <3> QED
      BY <3>1, <2>8 DEF Changes, OldByte
  <2>10. Put(m, a, bytes).cell \in [Mapped -> Byte \cup {Unset}]
    <3>1. ASSUME NEW x \in Mapped
          PROVE  (IF x \in Span(a, n) THEN bytes[x - a + 1] ELSE m.cell[x])
                    \in Byte \cup {Unset}
      <4>1. CASE x \in Span(a, n)
        <5>1. x - a + 1 \in 1 .. Len(bytes)
          BY <2>1, <2>3, <4>1 DEF Span
        <5> QED
          BY <4>1, <5>1
      <4>2. CASE x \notin Span(a, n)
        BY <4>2 DEF Memory
      <4> QED
        BY <4>1, <4>2
    <3> QED
      BY <3>1 DEF Put
  <2>11. w.mem \in Memory
    <3>1. /\ w.mem.present \in SUBSET Nat
          /\ w.mem = [cell |-> w.mem.cell, present |-> w.mem.present,
                      dataEnd |-> w.mem.dataEnd]
      BY <1>1, <2>8 DEF GoodMemory, Put
    <3>2. w.mem.dataEnd \in Nat
      BY <1>1 DEF Memory
    <3> QED
      BY <2>8, <2>10, <3>1, <3>2 DEF Memory
  <2> QED
    BY <2>3, <2>9, <2>11 DEF w
<1> HIDE DEF w, n
<1> QED
  BY <1>1, <1>4, <1>5 DEF w
=============================================================================
