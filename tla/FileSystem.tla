----------------------------- MODULE FileSystem -----------------------------
(***************************************************************************)
(* The virtual file layer that syscalls 13-16 work on (filesystem.py,      *)
(* VirtualFileSystem without commit).                                      *)
(*                                                                         *)
(* An fs record is the code's immutable FileSystemState:                   *)
(*   files    the staged files: path to content;                           *)
(*   handles  open descriptors to [path, position, readable, writable,     *)
(*            append];                                                     *)
(*   dirty    the paths that differ from the host and await a commit.      *)
(* What the host holds for a path is an option: {} for no such file, {c}   *)
(* for a file with content c.                                              *)
(***************************************************************************)
EXTENDS Integers, Sequences, FiniteSets, Functions

CONSTANTS
    MaxOpen,       \* limits.max_open_files
    MaxFileBytes,  \* limits.max_file_bytes
    MaxTotalBytes  \* limits.max_total_file_bytes

ASSUME FileSystemAssumption ==
    MaxOpen \in Nat /\ MaxFileBytes \in Nat /\ MaxTotalBytes \in Nat

NoFiles == [files |-> <<>>, handles |-> <<>>, dirty |-> {}]

Sizes(fs) == [p \in DOMAIN fs.files |-> Len(fs.files[p])]

(* The bytes staged for every file but one. *)
OtherBytes(fs, path) == SumFunctionOnSet(Sizes(fs), DOMAIN fs.files \ {path})

StagedBytes(fs) == SumFunction(Sizes(fs))

-----------------------------------------------------------------------------
(* The open flags: MARS's append flag 9, or a combination of the Linux     *)
(* bits O_ACCMODE, O_CREAT, O_EXCL, O_TRUNC and O_APPEND.                  *)

MarsAppend == 9
O_ACCMODE == 3
O_CREAT == 64
O_EXCL == 128
O_TRUNC == 512
O_APPEND == 1024

Bit(flags, bit) == (flags \div bit) % 2
HasBit(flags, bit) == Bit(flags, bit) = 1

Supported(flags) ==
    flags = (flags % 4) + O_CREAT * Bit(flags, O_CREAT) + O_EXCL * Bit(flags, O_EXCL)
            + O_TRUNC * Bit(flags, O_TRUNC) + O_APPEND * Bit(flags, O_APPEND)

AccessMode(flags) == IF flags = MarsAppend THEN 1 ELSE flags % 4
ForReading(flags) == AccessMode(flags) \in {0, 2}
ForWriting(flags) == AccessMode(flags) \in {1, 2}
Creates(flags) == flags = MarsAppend \/ flags = 1 \/ HasBit(flags, O_CREAT)
Appends(flags) == flags = MarsAppend \/ HasBit(flags, O_APPEND)
Truncates(flags) == HasBit(flags, O_TRUNC)
Exclusive(flags) == HasBit(flags, O_EXCL)

BadFlags(flags) ==
    \/ flags < 0
    \/ flags # MarsAppend /\ ~Supported(flags)
    \/ AccessMode(flags) = O_ACCMODE
    \/ (Truncates(flags) \/ Appends(flags)) /\ ~ForWriting(flags)

-----------------------------------------------------------------------------
(* open: -1, or the lowest free descriptor.  A path that is not staged yet *)
(* is looked up on the host, which only happens past the early returns.    *)

(* Mutant of OpenRefused: one open file too many. *)
OpenRefusedLate(fs, flags) ==
    BadFlags(flags) \/ Cardinality(DOMAIN fs.handles) > MaxOpen

OpenRefused(fs, flags) ==
    BadFlags(flags) \/ Cardinality(DOMAIN fs.handles) >= MaxOpen

AsksHost(fs, path, flags) == ~OpenRefused(fs, flags) /\ path \notin DOMAIN fs.files

FreeDescriptor(fs) ==
    CHOOSE d \in 3 .. 3 + MaxOpen :
        /\ d \notin DOMAIN fs.handles
        /\ \A e \in 3 .. d - 1 : e \in DOMAIN fs.handles

Assign(f, x, value) == [y \in DOMAIN f \cup {x} |-> IF y = x THEN value ELSE f[y]]

(* Mutant of Stage: an empty file counts as no file. *)
StageUnlessEmpty(files, path, payload) ==
    IF payload = <<>> THEN files ELSE Assign(files, path, payload)

Stage(files, path, payload) == Assign(files, path, payload)

Open(fs, path, flags, host, creatable) ==
    LET found == IF path \in DOMAIN fs.files THEN {fs.files[path]} ELSE host
        old == CHOOSE c \in found : TRUE
        fresh == found = {}
        payload == IF fresh \/ Truncates(flags) THEN <<>> ELSE old
        fd == FreeDescriptor(fs)
        handle == [path |-> path,
                   position |-> IF Appends(flags) THEN Len(payload) ELSE 0,
                   readable |-> ForReading(flags),
                   writable |-> ForWriting(flags),
                   append |-> Appends(flags)]
    IN  IF \/ OpenRefused(fs, flags)
           \/ ~fresh /\ Creates(flags) /\ Exclusive(flags)
           \/ fresh /\ ~(Creates(flags) /\ creatable)
           \/ OtherBytes(fs, path) + Len(payload) > MaxTotalBytes
        THEN [fd |-> -1, fs |-> fs]
        ELSE [fd |-> fd,
              fs |-> [files |-> Stage(fs.files, path, payload),
                      handles |-> Assign(fs.handles, fd, handle),
                      dirty |-> fs.dirty \cup
                                (IF fresh \/ Truncates(flags) THEN {path} ELSE {})]]

-----------------------------------------------------------------------------
(* read, write and close of a descriptor. *)

MayRead(fs, fd) == fd \in DOMAIN fs.handles /\ fs.handles[fd].readable
MayWrite(fs, fd) == fd \in DOMAIN fs.handles /\ fs.handles[fd].writable

Clipped(content, from, to) ==
    SubSeq(content, from, IF to < Len(content) THEN to ELSE Len(content))

(* The bytes read; the position moves past them. *)
ReadFile(fs, fd, maximum) ==
    LET h == fs.handles[fd]
        bytes == Clipped(fs.files[h.path], h.position + 1, h.position + maximum)
    IN  [bytes |-> bytes,
         fs |-> [fs EXCEPT !.handles[fd].position = @ + Len(bytes)]]

(* Overwriting from a position.  A position beyond the end of the file,    *)
(* which another handle's O_TRUNC can cause, is not filled up with zeros.  *)
Overwritten(content, position, payload) ==
    Clipped(content, 1, position) \o payload
        \o SubSeq(content, position + Len(payload) + 1, Len(content))

WriteFile(fs, fd, payload) ==
    LET h == fs.handles[fd]
        old == fs.files[h.path]
        position == IF h.append THEN Len(old) ELSE h.position
        end == position + Len(payload)
        longest == IF end > Len(old) THEN end ELSE Len(old)
    IN  IF \/ ~MayWrite(fs, fd)
           \/ end > MaxFileBytes
           \/ OtherBytes(fs, h.path) + longest > MaxTotalBytes
        THEN [count |-> -1, fs |-> fs]
        ELSE [count |-> Len(payload),
              fs |-> [files |-> [fs.files EXCEPT
                                    ![h.path] = Overwritten(old, position, payload)],
                      handles |-> [fs.handles EXCEPT ![fd].position = end],
                      dirty |-> fs.dirty \cup {h.path}]]

CloseFile(fs, fd) ==
    [fs EXCEPT !.handles = Restrict(fs.handles, DOMAIN fs.handles \ {fd})]
=============================================================================
