------------------------------- MODULE Memory -------------------------------
(***************************************************************************)
(* The simulator's sparse, page-granular memory (memory.py, SparseMemory). *)
(*                                                                         *)
(* A memory is a record [cell, present, dataEnd]:                          *)
(*   cell     every mapped address to its byte, or to Unset when the byte  *)
(*            was never written (the code's _pages and _initialized        *)
(*            together; an unset byte holds 0 in its page);                *)
(*   present  the numbers of the pages that are allocated;                 *)
(*   dataEnd  the current end of the data/heap segment.                    *)
(* Fault codes are left out: an access either succeeds or faults.          *)
(***************************************************************************)
EXTENDS Integers, Sequences, FiniteSets

CONSTANTS
    ByteMod,     \* number of byte values (256 in the code)
    PageSize,    \* bytes in a page (4096 in the code)
    MaxPages,    \* limits.max_memory_pages
    Regions,     \* the address-space layout, see MemoryAssumption
    DataBase,    \* start of the data/heap segment
    DataLimit,   \* DATA_BASE + min(DATA_MAX_BYTES, limits.max_data_bytes)
    Strict       \* strict_initialization

Accesses == {"read", "write", "execute"}

Byte == 0 .. ByteMod - 1
WordMod == ByteMod * ByteMod * ByteMod * ByteMod
Word == 0 .. WordMod - 1

(* "Never written": the initialization bit of a byte or a register is 0. *)
Unset == -1

Mapped == UNION {r.lo .. r.hi - 1 : r \in {s \in Regions : s.access # {}}}

ASSUME MemoryAssumption ==
    /\ ByteMod \in Nat \ {0, 1}
    /\ PageSize \in Nat \ {0}
    /\ MaxPages \in Nat
    /\ Strict \in BOOLEAN
    /\ DataBase \in Nat /\ DataLimit \in Nat
    /\ \A r \in Regions : /\ r.lo \in Nat /\ r.hi \in Nat /\ r.hi <= WordMod
                          /\ r.access \subseteq Accesses
                          /\ r.heap \in BOOLEAN
    /\ \A r, s \in Regions : r # s => r.hi <= s.lo \/ s.hi <= r.lo
    /\ \A r \in Regions : r.heap => r.lo = DataBase /\ r.hi = DataLimit

Memory == [cell : [Mapped -> Byte \cup {Unset}],
           present : SUBSET Nat,
           dataEnd : Nat]

PageOf(a) == a \div PageSize
Span(a, n) == a .. a + n - 1
PagesOf(a, n) == {PageOf(x) : x \in Span(a, n)}

(* Bytes of a page that was never allocated are unset. *)
Canonical(m) == \A a \in Mapped : PageOf(a) \notin m.present => m.cell[a] = Unset

-----------------------------------------------------------------------------
(* Which accesses are allowed (_region, _check_alignment). *)

Aligned(a, alignment) == a % alignment = 0

Accessible(m, a, n, access) ==
    /\ n > 0
    /\ a \in Nat
    /\ a + n <= WordMod
    /\ \E r \in Regions : /\ r.lo <= a /\ a + n <= r.hi
                          /\ r.heap => a + n <= m.dataEnd
                          /\ access \in r.access

-----------------------------------------------------------------------------
(* Reading (read_bytes, read_c_string). *)

Readable(m, a, n, access) ==
    \/ n = 0
    \/ /\ Accessible(m, a, n, access)
       /\ Strict => \A x \in Span(a, n) : m.cell[x] # Unset

ByteAt(m, a) == IF m.cell[a] = Unset THEN 0 ELSE m.cell[a]

BytesAt(m, a, n) == [i \in 1 .. n |-> ByteAt(m, a + i - 1)]

(* The lengths n < limit of a NUL-terminated string at a: at most one.     *)
(* The string faults when there is none (an unreadable byte, or R206).     *)
CStringLengths(m, a, limit) ==
    {n \in 0 .. limit - 1 :
        \A k \in 0 .. n : /\ Readable(m, a + k, 1, "read")
                          /\ (ByteAt(m, a + k) = 0) = (k = n)}

-----------------------------------------------------------------------------
(* Writing (write_bytes, validate_write) and undoing a write (restore).    *)
(* The changes of a write map each address to its old byte and to whether  *)
(* its page existed when that byte was about to be written.                *)

Writable(m, a, n, alignment) ==
    \/ n = 0
    \/ Aligned(a, alignment) /\ Accessible(m, a, n, "write")

NoChanges == <<>>

Put(m, a, bytes) ==
    [cell |-> [x \in Mapped |-> IF x \in Span(a, Len(bytes)) THEN bytes[x - a + 1]
                                ELSE m.cell[x]],
     present |-> m.present \cup PagesOf(a, Len(bytes)),
     dataEnd |-> m.dataEnd]

Changes(m, a, n) ==
    [x \in Span(a, n) |->
        [old |-> m.cell[x],
         wasPresent |-> PageOf(x) \in m.present \cup PagesOf(a, x - a)]]

NewlyAllocated(changes) ==
    {PageOf(x) : x \in {y \in DOMAIN changes : ~changes[y].wasPresent}}

(* Mutant of Restore: pages that the write allocated stay allocated. *)
RestoreKeepingPages(m, changes) ==
    [m EXCEPT !.cell = [x \in Mapped |-> IF x \in DOMAIN changes THEN changes[x].old
                                         ELSE m.cell[x]]]

Restore(m, changes) ==
    LET gone == NewlyAllocated(changes)
    IN  [cell |-> [x \in Mapped |-> IF PageOf(x) \in gone THEN Unset
                                    ELSE IF x \in DOMAIN changes THEN changes[x].old
                                    ELSE m.cell[x]],
         present |-> m.present \ gone,
         dataEnd |-> m.dataEnd]

(* Mutant of Storable: the page limit is compared with > for >=. *)
StorableOneMore(m, a, n) ==
    CHOOSE k \in 0 .. n :
        /\ k > 0 => Cardinality(m.present \cup PagesOf(a, k)) <= MaxPages + 1
        /\ k < n => /\ PageOf(a + k) \notin m.present \cup PagesOf(a, k)
                    /\ Cardinality(m.present \cup PagesOf(a, k)) > MaxPages

(* How many bytes are stored before a page is missing and none can be had. *)
Storable(m, a, n) ==
    CHOOSE k \in 0 .. n :
        /\ k > 0 => Cardinality(m.present \cup PagesOf(a, k)) <= MaxPages
        /\ k < n => /\ PageOf(a + k) \notin m.present \cup PagesOf(a, k)
                    /\ Cardinality(m.present \cup PagesOf(a, k)) >= MaxPages

(* Mutant of WriteBytes: the bytes stored before the fault stay.           *)
WriteBytesKeepingPart(m, a, bytes, alignment) ==
    LET n == Len(bytes)
        k == Storable(m, a, n)
    IN  IF n > 0 /\ ~Writable(m, a, n, alignment)
        THEN [ok |-> FALSE, mem |-> m, changes |-> NoChanges]
        ELSE [ok |-> k = n, mem |-> Put(m, a, SubSeq(bytes, 1, k)),
              changes |-> IF k = n THEN Changes(m, a, n) ELSE NoChanges]

(* The result of write_bytes: a page that cannot be allocated undoes the   *)
(* bytes already stored before the fault is raised.                        *)
WriteBytes(m, a, bytes, alignment) ==
    LET n == Len(bytes)
        k == Storable(m, a, n)
        stored == Put(m, a, SubSeq(bytes, 1, k))
    IN  IF n = 0 THEN [ok |-> TRUE, mem |-> m, changes |-> NoChanges]
        ELSE IF ~Writable(m, a, n, alignment)
             THEN [ok |-> FALSE, mem |-> m, changes |-> NoChanges]
        ELSE IF k < n
             THEN [ok |-> FALSE, mem |-> Restore(stored, Changes(m, a, k)),
                   changes |-> NoChanges]
        ELSE [ok |-> TRUE, mem |-> stored, changes |-> Changes(m, a, n)]

-----------------------------------------------------------------------------
(* Moving the end of the data segment (grow_data, restore_data_end). *)

CanGrowData(newEnd) == DataBase <= newEnd /\ newEnd <= DataLimit

GrowData(m, newEnd) ==
    [m EXCEPT !.dataEnd = IF newEnd > m.dataEnd THEN newEnd ELSE m.dataEnd]

RestoreDataEnd(m, end) == [m EXCEPT !.dataEnd = end]
=============================================================================
