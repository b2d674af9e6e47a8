----------------------------- MODULE MemoryUndo -----------------------------
(***************************************************************************)
(* SparseMemory under an owner that keeps an undo log: the owner stores    *)
(* payloads, grows the data segment, and takes its last operation back.    *)
(* The log is bounded like Machine.history (a deque with maxlen), so its   *)
(* oldest entry is lost when it is full.                                   *)
(*                                                                         *)
(* past is auxiliary: past[i] is the memory as it was before the operation *)
(* that log[i] records.  No action reads it.                               *)
(***************************************************************************)
EXTENDS Memory, History

CONSTANTS
    InitialMemory,  \* the memory after the program image was loaded
    Payloads,       \* the payloads the owner may store
    Alignments      \* the alignments the owner may ask for

VARIABLES mem, log, past

vars == <<mem, log, past>>

ASSUME MemoryUndoAssumption ==
    /\ InitialMemory \in Memory
    /\ Canonical(InitialMemory)
    /\ IsFiniteSet(InitialMemory.present)
    /\ Cardinality(InitialMemory.present) <= MaxPages
    /\ InitialMemory.dataEnd \in DataBase .. DataLimit
    /\ Payloads \subseteq Seq(Byte)
    /\ Alignments \subseteq Nat \ {0}

Init ==
    /\ mem = InitialMemory
    /\ log = <<>>
    /\ past = <<>>

-----------------------------------------------------------------------------
Remember(changes) ==
    /\ log' = Remembered(log, [changes |-> changes, dataEnd |-> mem.dataEnd])
    /\ past' = Remembered(past, mem)

Write(a, bytes, alignment) ==
    LET w == WriteBytes(mem, a, bytes, alignment)
    IN  /\ mem' = w.mem
        /\ IF w.ok THEN Remember(w.changes) ELSE UNCHANGED <<log, past>>

Grow(newEnd) ==
    /\ CanGrowData(newEnd)
    /\ mem' = GrowData(mem, newEnd)
    /\ Remember(NoChanges)

Undone(m, entry) == RestoreDataEnd(Restore(m, entry.changes), entry.dataEnd)

Undo ==
    /\ log # <<>>
    /\ mem' = Undone(mem, Latest(log))
    /\ log' = Forgotten(log)
    /\ past' = Forgotten(past)

Next ==
    \/ \E a \in Mapped, bytes \in Payloads, n \in Alignments : Write(a, bytes, n)
    \/ \E newEnd \in DataBase .. DataLimit : Grow(newEnd)
    \/ Undo

Spec == Init /\ [][Next]_vars

-----------------------------------------------------------------------------
Change == [old : Byte \cup {Unset}, wasPresent : BOOLEAN]

(* The shape of the state: a byte outside an allocated page is unset, and  *)
(* the data segment's end stays inside the segment.                        *)
TypeOK ==
    /\ mem \in Memory /\ Canonical(mem) /\ mem.dataEnd \in DataBase .. DataLimit
    /\ Len(log) <= HistoryLimit /\ Len(past) = Len(log)
    /\ \A i \in 1 .. Len(log) :
          /\ DOMAIN log[i].changes \subseteq Mapped
          /\ \A x \in DOMAIN log[i].changes : log[i].changes[x] \in Change
          /\ log[i].dataEnd \in DataBase .. DataLimit

After(i) == IF i = Len(log) THEN mem ELSE past[i + 1]

(* However the writes of the log overlap, share pages or were the first in *)
(* a page, taking each back in turn gives exactly the memory before it:    *)
(* bytes, initialization bits, allocated pages and the data end.           *)
UndoChain == \A i \in 1 .. Len(log) : Undone(After(i), log[i]) = past[i]

(* SparseMemory never holds more pages than limits.max_memory_pages. *)
PageLimit == Cardinality(mem.present) <= MaxPages

(* A write that fails half way, because its second page cannot be          *)
(* allocated, leaves no byte and no page behind: whatever changes the      *)
(* memory either shortens the log or is undone by the log's newest entry.  *)
NoUnloggedChange ==
    [][\/ mem' = mem
       \/ Len(log') < Len(log)
       \/ log' # <<>> /\ Undone(mem', Latest(log')) = mem]_vars
=============================================================================
