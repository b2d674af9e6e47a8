------------------------------- MODULE Staging -------------------------------
(***************************************************************************)
(* The files a machine stages: the program opens, reads, writes and closes *)
(* virtual files, steps back restore them, and a commit puts the changed   *)
(* ones on the host, one at a time (filesystem.py, VirtualFileSystem as    *)
(* machine.py uses it).  The host directory is shared with other           *)
(* processes, and replacing a file on it may fail, after some files of the *)
(* same commit were replaced.                                              *)
(*                                                                         *)
(* Module CommandLine says when a process may take which of these steps.   *)
(***************************************************************************)
EXTENDS FileSystem, History, FiniteSetsExt

CONSTANTS
    Paths,         \* the path names, numbered in sorted order
    HostContents,  \* contents files on the host may have
    Flags,         \* the open flags the program passes
    Payloads,      \* the payloads the program writes
    Counts,        \* the byte counts it asks for
    Shared,        \* the paths other processes change
    MaxOutside     \* bound: changes to the host by other processes

VARIABLES
    fs,       \* VirtualFileSystem.state
    rooted,   \* VirtualFileSystem.root is not None
    logging,  \* whether Machine.history keeps anything (history_limit > 0)
    cache,    \* _host_cache: path to what the host held when first asked
    log,      \* the filesystem_state of each StepRecord in Machine.history
    pending,  \* the dirty paths the running commit has not replaced yet
    phase,    \* "running" or "committing"
    host,     \* external: the files below --fs-root
    outside,  \* how often other processes changed the host
    saved     \* auxiliary: what this machine last read from or wrote to it

machineVars == <<rooted, logging>>
stagingVars == <<fs, rooted, logging, cache, log, pending, phase, host, outside, saved>>

ASSUME StagingAssumption ==
    /\ Paths \subseteq Nat /\ Shared \subseteq Paths
    /\ HostContents \subseteq Seq(Nat)
    /\ MaxOutside \in Nat
    /\ \A p \in Payloads : p \in Seq(Nat)
    /\ Counts \subseteq Nat

Content == Seq(Nat)
HostFile == {{}} \cup {{c} : c \in HostContents}
Handle == [path : Paths, position : Nat,
           readable : BOOLEAN, writable : BOOLEAN, append : BOOLEAN]

Unsaved == [p \in Paths |-> {}]

StagingInit ==
    /\ fs = NoFiles /\ cache = <<>> /\ log = <<>>
    /\ rooted = FALSE /\ logging = FALSE
    /\ pending = {} /\ phase = "running"
    /\ host \in [Paths -> HostFile]
    /\ outside = 0
    /\ saved = Unsaved

(* A new machine has nothing staged.  The host stays as it is. *)
NewMachine(root, history) ==
    /\ fs' = NoFiles /\ cache' = <<>> /\ log' = <<>>
    /\ rooted' = root /\ logging' = history
    /\ pending' = {} /\ phase' = "running"
    /\ saved' = Unsaved
    /\ UNCHANGED <<host, outside>>

-----------------------------------------------------------------------------
(* The program's calls.  Each is one instruction, recorded in the history. *)

Record == log' = IF logging THEN Remembered(log, fs) ELSE log

(* _load_host: without a root there is nothing to find, and a file over    *)
(* the size limit counts as missing; the first answer for a path is kept.  *)
Offered(p) == {c \in host[p] : rooted /\ Len(c) <= MaxFileBytes}
HostAnswer(p) == IF p \in DOMAIN cache THEN cache[p] ELSE Offered(p)

(* Creating a file needs a usable parent directory below the root, if there *)
(* is one (creatable).                                                      *)
OpenCall(p, flags, creatable) ==
    LET asks == AsksHost(fs, p, flags)
    IN  /\ phase = "running"
        /\ creatable \/ rooted
        /\ fs' = Open(fs, p, flags, HostAnswer(p), creatable).fs
        /\ cache' = IF asks THEN Assign(cache, p, HostAnswer(p)) ELSE cache
        /\ saved' = IF asks THEN [saved EXCEPT ![p] = HostAnswer(p)] ELSE saved
        /\ Record
        /\ UNCHANGED <<machineVars, pending, phase, host, outside>>

ReadCall(fd, n) ==
    /\ phase = "running"
    /\ fs' = IF MayRead(fs, fd) THEN ReadFile(fs, fd, n).fs ELSE fs
    /\ Record
    /\ UNCHANGED <<machineVars, cache, pending, phase, host, outside, saved>>

WriteCall(fd, payload) ==
    /\ phase = "running"
    /\ fs' = WriteFile(fs, fd, payload).fs
    /\ Record
    /\ UNCHANGED <<machineVars, cache, pending, phase, host, outside, saved>>

CloseCall(fd) ==
    /\ phase = "running"
    /\ fs' = CloseFile(fs, fd)
    /\ Record
    /\ UNCHANGED <<machineVars, cache, pending, phase, host, outside, saved>>

-----------------------------------------------------------------------------
(* Stepping back and committing. *)

(* back: restore the recorded filesystem_state; the host cache stays. *)
Back ==
    /\ phase = "running" /\ log # <<>>
    /\ fs' = Latest(log)
    /\ log' = Forgotten(log)
    /\ UNCHANGED <<machineVars, cache, pending, phase, host, outside, saved>>

(* Mutant of CommitBegin: every staged file is replaced, changed or not. *)
CommitBeginAll ==
    /\ phase = "running"
    /\ pending' = DOMAIN fs.files
    /\ phase' = "committing"
    /\ UNCHANGED <<machineVars, fs, cache, log, host, outside, saved>>

CommitBegin ==
    /\ phase = "running"
    /\ pending' = fs.dirty
    /\ phase' = "committing"
    /\ UNCHANGED <<machineVars, fs, cache, log, host, outside, saved>>

(* One file: written to a temporary, then put in place in one step. *)
CommitFile ==
    LET p == Min(pending)
    IN  /\ phase = "committing" /\ pending # {}
        /\ host' = [host EXCEPT ![p] = {fs.files[p]}]
        /\ saved' = [saved EXCEPT ![p] = {fs.files[p]}]
        /\ pending' = pending \ {p}
        /\ UNCHANGED <<machineVars, fs, cache, log, phase, outside>>

(* Mutant of ForgetHistory: one can step back over a commit. *)
KeepHistory == UNCHANGED log

(* commit-files forgets the history however the commit ends. *)
ForgetHistory == log' = <<>>

CommitEnd ==
    /\ phase = "committing" /\ pending = {}
    /\ fs' = [fs EXCEPT !.dirty = {}]
    /\ phase' = "running"
    /\ ForgetHistory
    /\ UNCHANGED <<machineVars, cache, pending, host, outside, saved>>

(* Mutant of CommitFail: the files left over count as saved. *)
CommitFailClean ==
    /\ phase = "committing" /\ pending # {}
    /\ fs' = [fs EXCEPT !.dirty = {}]
    /\ pending' = {}
    /\ phase' = "running"
    /\ ForgetHistory
    /\ UNCHANGED <<machineVars, cache, host, outside, saved>>

(* A target has become unsafe, or the host refuses: OSError. *)
CommitFail ==
    /\ phase = "committing" /\ pending # {}
    /\ pending' = {}
    /\ phase' = "running"
    /\ ForgetHistory
    /\ UNCHANGED <<machineVars, fs, cache, host, outside, saved>>

(* External: another process creates, changes or removes a file. *)
HostChange(p) ==
    /\ outside < MaxOutside
    /\ outside' = outside + 1
    /\ \E file \in HostFile : host' = [host EXCEPT ![p] = file]
    /\ UNCHANGED <<machineVars, fs, cache, log, pending, phase, saved>>

Descriptors == 3 .. 3 + MaxOpen

ProgramCall ==
    \/ \E p \in Paths, flags \in Flags, creatable \in BOOLEAN :
          OpenCall(p, flags, creatable)
    \/ \E fd \in Descriptors, n \in Counts : ReadCall(fd, n)
    \/ \E fd \in Descriptors, payload \in Payloads : WriteCall(fd, payload)
    \/ \E fd \in Descriptors : CloseCall(fd)

-----------------------------------------------------------------------------
IsFileSystem(s) ==
    /\ DOMAIN s.files \subseteq Paths /\ \A p \in DOMAIN s.files : s.files[p] \in Content
    /\ DOMAIN s.handles \subseteq Nat
    /\ \A fd \in DOMAIN s.handles : s.handles[fd] \in Handle
    /\ \A fd \in DOMAIN s.handles : s.handles[fd].path \in DOMAIN s.files
    /\ s.dirty \subseteq DOMAIN s.files

StagingTypeOK ==
    /\ IsFileSystem(fs) /\ \A i \in DOMAIN log : IsFileSystem(log[i])
    /\ Len(log) <= HistoryLimit
    /\ DOMAIN cache \subseteq Paths
    /\ pending \subseteq Paths
    /\ phase \in {"running", "committing"}
    /\ outside \in 0 .. MaxOutside

(* No file and not all files together outgrow their limits, and no more    *)
(* than max_open_files descriptors are open.                               *)
WithinLimits ==
    /\ \A p \in DOMAIN fs.files : Len(fs.files[p]) <= MaxFileBytes
    /\ StagedBytes(fs) <= MaxTotalBytes
    /\ Cardinality(DOMAIN fs.handles) <= MaxOpen
=============================================================================
