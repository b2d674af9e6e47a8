----------------------------- MODULE CommandLine -----------------------------
(***************************************************************************)
(* The process (cli.py, main): options are checked, sources read and       *)
(* assembled, and the program is run, with or without a trace, or handed   *)
(* to the debugger.  A run that exits with status 0 commits the files the  *)
(* program staged (module Staging); the debugger commits on demand.  The   *)
(* outcome becomes the exit code.                                          *)
(*                                                                         *)
(* The user starts one process after the other over the same host files.   *)
(* Each may be interrupted or killed anywhere, and fail on the way: a      *)
(* CsettyMipsError, OSError or UnicodeError ends main with code 1.         *)
(***************************************************************************)
EXTENDS Staging

CONSTANTS
    AssemblyModes,  \* --check, --check-no-main, --compile, --hex
    Statuses,       \* the exit statuses a program may end with
    Codes           \* number of exit codes (256)

VARIABLES
    stage,   \* how far main has got
    status,  \* machine.exit_status
    code     \* the exit code of the last process, NoCode if it was killed

vars == <<stagingVars, stage, status, code>>

ASSUME CommandLineAssumption ==
    /\ Statuses \subseteq Int
    /\ Codes \in Nat /\ \A c \in {1, 2, 130} : c < Codes
    /\ "hex" \in AssemblyModes
    /\ HistoryLimit > 0

NoCode == -1

Stages == {"idle", "prompt", "session", "running", "exited", "committed"}

Init ==
    /\ StagingInit
    /\ stage = "idle" /\ status = 0 /\ code = NoCode

-----------------------------------------------------------------------------
(* The options: the assembly modes asked for, --hex-pad-zero, --trace,     *)
(* --interactive, whether program arguments and source files are given,    *)
(* whether the numbers are in range and the --move-label values well       *)
(* formed, and what --fs-root names.                                       *)

Options == [modes : SUBSET AssemblyModes, pad : BOOLEAN, trace : BOOLEAN,
            interactive : BOOLEAN, arguments : BOOLEAN, files : BOOLEAN,
            numbers : BOOLEAN, labels : BOOLEAN,
            root : {"none", "directory", "missing"}]

AssembleOnly(o) == o.modes # {} \/ o.pad

UsageError(o) ==
    \/ Cardinality(o.modes) > 1
    \/ o.pad /\ o.modes \ {"hex"} # {}
    \/ o.interactive /\ (AssembleOnly(o) \/ o.trace)
    \/ o.arguments /\ AssembleOnly(o)
    \/ ~o.numbers
    \/ o.root = "missing"
    \/ ~o.files /\ (AssembleOnly(o) \/ o.trace)

(* --move-label is looked at once there are sources to assemble. *)
Misused(o) == UsageError(o) \/ (o.files /\ ~o.labels)

-----------------------------------------------------------------------------
(* main returns, or the process dies; what it had staged is gone. *)
EndWith(c) ==
    /\ stage' = "idle" /\ status' = 0 /\ code' = c
    /\ NewMachine(FALSE, FALSE)

Enter(next) == stage' = next /\ status' = 0 /\ code' = NoCode

FirstStage(o) == CASE ~o.files -> "prompt"
                   [] o.files /\ o.interactive -> "session"
                   [] OTHER -> "running"

(* Options that are refused, sources that cannot be read or assembled or a *)
(* program that cannot be started end the process; assembling may be all   *)
(* there is to do.  Without files the debugger starts with no program.     *)
Start(o) ==
    /\ stage = "idle"
    /\ \/ Misused(o) /\ EndWith(2)
       \/ ~UsageError(o) /\ o.files /\ EndWith(1)
       \/ ~Misused(o) /\ AssembleOnly(o) /\ EndWith(0)
       \/ /\ ~Misused(o) /\ ~AssembleOnly(o)
          /\ Enter(FirstStage(o))
          /\ NewMachine(o.root = "directory", FirstStage(o) = "session")

-----------------------------------------------------------------------------
(* Running the program. *)

Call == stage \in {"running", "session"} /\ ProgramCall /\ UNCHANGED <<stage, status, code>>

ProgramExits(s) ==
    /\ stage = "running"
    /\ stage' = "exited" /\ status' = s
    /\ UNCHANGED <<stagingVars, code>>

(* A fault of the program, the instruction limit, output that cannot be    *)
(* written, input over its limit.                                          *)
ProgramFails == stage = "running" /\ EndWith(1)

(* Mutant of MustCommit: files are committed whatever the status. *)
MustCommitAlways == rooted

MustCommit == status = 0 /\ rooted

BeginCommit ==
    /\ stage = "exited" /\ MustCommit
    /\ CommitBegin
    /\ UNCHANGED <<stage, status, code>>

SaveFile ==
    /\ stage \in {"exited", "session"}
    /\ CommitFile
    /\ UNCHANGED <<stage, status, code>>

EndCommit ==
    /\ stage = "exited"
    /\ CommitEnd
    /\ stage' = "committed"
    /\ UNCHANGED <<status, code>>

CommitFails == stage = "exited" /\ pending # {} /\ EndWith(1)

(* Mutant of Return: main does not wait for the commit. *)
ReturnEarly ==
    /\ stage \in {"exited", "committed"}
    /\ EndWith(status % Codes)

Return ==
    /\ stage = "committed" \/ (stage = "exited" /\ ~MustCommit)
    /\ EndWith(status % Codes)

-----------------------------------------------------------------------------
(* The debugger (module Debugger), as far as files are concerned.  load,   *)
(* run and reset make a new machine; loading may be tried again.           *)

LoadProgram ==
    /\ stage \in {"prompt", "session"} /\ phase = "running"
    /\ stage' = "session"
    /\ NewMachine(rooted, TRUE)
    /\ UNCHANGED <<status, code>>

StepBack == stage = "session" /\ Back /\ UNCHANGED <<stage, status, code>>

CommitFiles ==
    /\ stage = "session" /\ rooted
    /\ CommitBegin
    /\ UNCHANGED <<stage, status, code>>

CommitFilesEnds ==
    /\ stage = "session"
    /\ CommitEnd \/ CommitFail
    /\ UNCHANGED <<stage, status, code>>

(* quit, or the end of the input; output or input that has no encoding     *)
(* passes the prompt's error handler.                                      *)
Quit ==
    /\ stage \in {"prompt", "session"} /\ phase = "running"
    /\ \E c \in {0, 1} : EndWith(c)

-----------------------------------------------------------------------------
(* The interrupt key; the process is killed. *)
Interrupt == stage # "idle" /\ EndWith(130)
Killed == stage # "idle" /\ EndWith(NoCode)

Elsewhere(p) == HostChange(p) /\ UNCHANGED <<stage, status, code>>

Next ==
    \/ \E o \in Options : Start(o)
    \/ Call \/ ProgramFails
    \/ \E s \in Statuses : ProgramExits(s)
    \/ BeginCommit \/ SaveFile \/ EndCommit \/ CommitFails \/ Return
    \/ LoadProgram \/ StepBack \/ CommitFiles \/ CommitFilesEnds \/ Quit
    \/ Interrupt \/ Killed
    \/ \E p \in Shared : Elsewhere(p)

Spec == Init /\ [][Next]_vars

-----------------------------------------------------------------------------
(* The shape of the state.  Reads, writes and commit index the staged      *)
(* files by a handle's path or a dirty path without a check: both always   *)
(* name a staged file, now and in every state a step back can restore, and *)
(* no open, truncation, append or step back exceeds a limit.               *)
TypeOK ==
    /\ StagingTypeOK /\ WithinLimits
    /\ stage \in Stages
    /\ status \in Statuses \cup {0}
    /\ code \in {NoCode} \cup 0 .. Codes - 1

(* A staged file that is not dirty is what this machine last read from or  *)
(* wrote to the host: nothing the program wrote can be left out of the     *)
(* next commit, whatever was stepped back over, and however an earlier     *)
(* commit ended.  (commit replaces only dirty files; the history is        *)
(* dropped after it.)                                                      *)
CleanMeansSaved ==
    phase = "running" =>
        \A p \in DOMAIN fs.files \ fs.dirty : saved[p] = {fs.files[p]}

(* What an open takes from _host_cache is never older than this machine's  *)
(* own commits: a path that is no longer staged, because the open was      *)
(* stepped back over, was not replaced since the host was asked for it.    *)
(* (Other processes' changes do go unnoticed.)                             *)
CacheIsNotOutdated ==
    \A p \in DOMAIN cache \ DOMAIN fs.files : cache[p] = saved[p]

(* A commit touches only files the program created, wrote or truncated,    *)
(* and each gets its staged content whole.                                 *)
HostGetsStagedFiles ==
    [][\A p \in Paths : host'[p] # host[p] /\ outside' = outside =>
          p \in fs.dirty /\ host'[p] = {fs.files[p]}]_vars

(* Nothing is put on the host but below --fs-root, and then on demand in   *)
(* the debugger, or after the program exited with status 0: neither a      *)
(* failing run nor one that is interrupted, nor one that exits with        *)
(* another status, leaves a file behind.                                   *)
SavedOnlyAfterSuccess ==
    [][host' # host /\ outside' = outside =>
          rooted /\ (stage = "session" \/ (stage = "exited" /\ status = 0))]_vars

(* Exit code 0 of a run below --fs-root means that all it staged is on the *)
(* host, and a commit that stopped half way is not reported as success.    *)
(* Except for an exit status that is 0 only modulo 256: then no file was   *)
(* saved.                                                                  *)
SuccessMeansSaved ==
    [][/\ stage \in {"running", "exited", "committed"} /\ rooted
       /\ stage' = "idle" /\ code' = 0
       => IF status = 0 THEN \A p \in DOMAIN fs.files : saved[p] = {fs.files[p]}
          ELSE status % Codes = 0 /\ stage = "exited"]_vars
=============================================================================
