-------------------------- MODULE CommandLineProofs --------------------------
(***************************************************************************)
(* What a commit does to the host's files, for every number of files,      *)
(* every limit and history, every interleaving with other processes and    *)
(* every point at which the process is interrupted or killed.              *)
(***************************************************************************)
EXTENDS CommandLine, FileSystemProofs

Optional == {{}} \cup {{c} : c \in Content}

(* The states of the staged files a step back leads to, and the one now.   *)
StateAt(i) == IF i = Len(log) + 1 THEN fs ELSE log[i]
Trail == 1 .. Len(log) + 1

(* What is not awaiting a commit is saved, and what is cached but not      *)
(* staged is what this machine last knew of the host.                      *)
CleanIsSaved(s, unsaved, known) ==
    \A p \in DOMAIN s.files \ unsaved : known[p] = {s.files[p]}
CacheIsCurrent(s, answers, known) ==
    \A p \in DOMAIN answers \ DOMAIN s.files : answers[p] = known[p]

StateIsGood(s) == GoodFiles(s) /\ Fitting(s, Paths, Nat)

Shapes ==
    /\ host \in [Paths -> Optional] /\ saved \in [Paths -> Optional]
    /\ DOMAIN cache \subseteq Paths
    /\ \A p \in DOMAIN cache : cache[p] \in Offer(Nat)
    /\ rooted \in BOOLEAN /\ logging \in BOOLEAN
    /\ pending \subseteq fs.dirty
    /\ phase \in {"running", "committing"}
    /\ outside \in 0 .. MaxOutside
    /\ IsSequence(log) /\ Len(log) <= HistoryLimit
    /\ ~ logging => log = <<>>
    /\ \A i \in Trail : StateIsGood(StateAt(i))

(* The inductive invariant of the staged files.  From one state of the     *)
(* trail to the next files are only ever added.                            *)
StagingInv ==
    /\ Shapes
    /\ \A i \in Trail : \A j \in Trail :
          i <= j => DOMAIN StateAt(i).files \subseteq DOMAIN StateAt(j).files
    /\ phase = "running" =>
          /\ pending = {}
          /\ \A i \in Trail : /\ CleanIsSaved(StateAt(i), StateAt(i).dirty, saved)
                              /\ CacheIsCurrent(StateAt(i), cache, saved)
    /\ phase = "committing" => /\ CleanIsSaved(fs, pending, saved)
                               /\ CacheIsCurrent(fs, cache, saved)

(* ... and of the process that works on them. *)
Inv ==
    /\ StagingInv
    /\ stage \in Stages
    /\ status \in Statuses \cup {0}
    /\ code \in {NoCode} \cup 0 .. Codes - 1
    /\ phase = "committing" => /\ rooted
                               /\ stage \in {"exited", "session"}
                               /\ stage = "exited" => status = 0
    /\ stage = "committed" => status = 0 /\ fs.dirty = {}

-----------------------------------------------------------------------------
(* The trail. *)

LEMMA TrailEnds ==
  ASSUME Shapes
  PROVE  /\ Len(log) \in Nat /\ Len(log) + 1 \in Trail
         /\ StateAt(Len(log) + 1) = fs
         /\ StateIsGood(fs)
<1>1. Len(log) \in Nat
  BY LengthIsNatural DEF Shapes
<1>2. Len(log) + 1 \in Trail
  BY <1>1 DEF Trail
<1> QED
  BY <1>1, <1>2 DEF Shapes, StateAt

(* Recording a state in the history forgets the oldest d states.           *)
LEMMA TrailAfterRecord ==
  ASSUME Shapes, Record
  PROVE  /\ IsSequence(log') /\ Len(log') <= HistoryLimit
         /\ ~ logging => log' = <<>>
         /\ \E d \in Nat : \A i \in 1 .. Len(log') : /\ i + d \in Trail
                                                     /\ log'[i] = StateAt(i + d)
<1>1. Len(log) \in Nat
  BY TrailEnds
<1>2. CASE logging
  <2>1. PICK S : log \in Seq(S)
    BY DEF Shapes, IsSequence
  <2> DEFINE U == S \cup {fs}
  <2>2. log \in Seq(U) /\ fs \in U
    BY <2>1, SeqMonotonic
  <2> HIDE DEF U
  <2>3. log' = Remembered(log, fs)
    BY <1>2 DEF Record
  <2>4. /\ log' \in Seq(U)
        /\ Len(log') = Len(log) + 1 - Dropped(log)
        /\ \A i \in 1 .. Len(log') :
              log'[i] = IF i + Dropped(log) = Len(log) + 1 THEN fs ELSE log[i + Dropped(log)]
    BY <2>2, <2>3, RememberedEntries
  <2>5. Len(log') <= HistoryLimit
    BY <2>2, <2>3, RememberedIsBounded DEF Shapes
  <2>6. Dropped(log) \in Nat
    BY DEF Dropped
  <2>7. \A i \in 1 .. Len(log') : /\ i + Dropped(log) \in Trail
                                  /\ log'[i] = StateAt(i + Dropped(log))
    BY <1>1, <2>4, <2>6 DEF Trail, StateAt
  <2> QED
    BY <1>2, <2>4, <2>5, <2>6, <2>7 DEF IsSequence
<1>3. CASE ~ logging
  <2>1. log' = <<>> /\ Len(<<>>) = 0
    BY <1>3 DEF Record, Shapes
  <2>2. IsSequence(log') /\ Len(log') <= HistoryLimit
    BY <2>1, EmptyIsSequence, HistoryAssumption
  <2>3. \A i \in 1 .. Len(log') : i + 0 \in Trail /\ log'[i] = StateAt(i + 0)
    BY <2>1
  <2> QED
    BY <2>1, <2>2, <2>3
<1> QED
  BY <1>2, <1>3

(* One call of the program: it may add one file, and learn what the host   *)
(* has for a path that is in no state of the trail.                        *)
LEMMA CallKeepsInv ==
  ASSUME StagingInv, phase = "running", Record,
         UNCHANGED <<machineVars, pending, phase, host, outside>>,
         StateIsGood(fs'),
         DOMAIN fs.files \subseteq DOMAIN fs'.files,
         CleanIsSaved(fs', fs'.dirty, saved'), CacheIsCurrent(fs', cache', saved'),
         saved' \in [Paths -> Optional],
         DOMAIN cache' \subseteq Paths,
         \A p \in DOMAIN cache' : cache'[p] \in Offer(Nat),
         \A p \in DOMAIN fs.files : saved'[p] = saved[p],
         \A p \in DOMAIN cache' :
            \/ cache'[p] = saved'[p] /\ p \notin DOMAIN fs.files
            \/ p \in DOMAIN cache /\ cache'[p] = cache[p] /\ saved'[p] = saved[p]
  PROVE  StagingInv'
<1>1. Shapes
  BY DEF StagingInv
<1>2. /\ Len(log) \in Nat /\ Len(log) + 1 \in Trail /\ StateAt(Len(log) + 1) = fs
  BY <1>1, TrailEnds
<1>3. /\ IsSequence(log') /\ Len(log') <= HistoryLimit
      /\ ~ logging => log' = <<>>
  BY <1>1, TrailAfterRecord
<1>4. PICK d \in Nat : \A i \in 1 .. Len(log') : /\ i + d \in Trail
                                                 /\ log'[i] = StateAt(i + d)
  BY <1>1, TrailAfterRecord
<1>5. Len(log') \in Nat
  BY <1>3, LengthIsNatural
<1>7. PICK n \in Nat : n = Len(log') + 1
  BY <1>5
<1>6. /\ Trail' = 1 .. n
      /\ StateAt(n)' = fs'
      /\ \A i \in 1 .. n : i # n => /\ i + d \in Trail
                                    /\ StateAt(i)' = StateAt(i + d)
  <2>1. Trail' = 1 .. n /\ StateAt(n)' = fs'
    BY <1>7 DEF Trail, StateAt
  <2>2. ASSUME NEW i \in 1 .. n, i # n
        PROVE  i + d \in Trail /\ StateAt(i)' = StateAt(i + d)
    <3>1. i \in 1 .. Len(log')
      BY <1>5, <1>7, <2>2
    <3>2. StateAt(i)' = log'[i]
      BY <1>7, <2>2 DEF StateAt
    <3> QED
      BY <1>4, <3>1, <3>2
  <2> QED
    BY <2>1, <2>2
<1>8. \A i \in Trail : DOMAIN StateAt(i).files \subseteq DOMAIN fs.files
  <2>1. \A i \in Trail : i <= Len(log) + 1
    BY <1>2 DEF Trail
  <2> QED
    BY <1>2, <2>1 DEF StagingInv
<1>9. \A i \in 1 .. n : StateIsGood(StateAt(i)')
  BY <1>1, <1>6 DEF Shapes
<1>10. \A i \in 1 .. n : \A j \in 1 .. n :
          i <= j => DOMAIN StateAt(i)'.files \subseteq DOMAIN StateAt(j)'.files
  <2> SUFFICES ASSUME NEW i \in 1 .. n, NEW j \in 1 .. n, i <= j
               PROVE  DOMAIN StateAt(i)'.files \subseteq DOMAIN StateAt(j)'.files
    OBVIOUS
  <2>1. CASE i = n
    <3>1. i = j
      BY <1>7, <2>1
    <3> QED
      BY <3>1
  <2>2. CASE i # n /\ j = n
    BY <1>6, <1>8, <2>2
  <2>3. CASE i # n /\ j # n
    <3>1. i + d \in Trail /\ j + d \in Trail /\ i + d <= j + d
      BY <1>6, <1>7, <2>3
    <3> QED
      BY <1>6, <2>3, <3>1 DEF StagingInv
  <2> QED
    BY <2>1, <2>2, <2>3
<1>11. ASSUME NEW s, CleanIsSaved(s, s.dirty, saved), CacheIsCurrent(s, cache, saved),
              DOMAIN s.files \subseteq DOMAIN fs.files
       PROVE  CleanIsSaved(s, s.dirty, saved') /\ CacheIsCurrent(s, cache', saved')
  BY <1>11 DEF CleanIsSaved, CacheIsCurrent
<1>12. \A i \in 1 .. n : /\ CleanIsSaved(StateAt(i)', StateAt(i)'.dirty, saved')
                         /\ CacheIsCurrent(StateAt(i)', cache', saved')
  <2> TAKE i \in 1 .. n
  <2>1. CASE i = n
    BY <1>6, <2>1
  <2>2. CASE i # n
    <3>1. /\ CleanIsSaved(StateAt(i + d), StateAt(i + d).dirty, saved)
          /\ CacheIsCurrent(StateAt(i + d), cache, saved)
      BY <1>6, <2>2 DEF StagingInv
    <3> QED
      BY <1>6, <1>8, <1>11, <2>2, <3>1
  <2> QED
    BY <2>1, <2>2
<1>13. pending' = {} /\ phase' = "running"
  BY DEF StagingInv
<1>14. Shapes'
  <2>1. /\ host' \in [Paths -> Optional] /\ rooted' \in BOOLEAN /\ logging' \in BOOLEAN
        /\ outside' \in 0 .. MaxOutside /\ logging' = logging
    BY <1>1 DEF Shapes, machineVars
  <2> QED
    BY <1>3, <1>6, <1>9, <1>13, <2>1 DEF Shapes
<1> QED
  BY <1>6, <1>10, <1>12, <1>13, <1>14 DEF StagingInv

-----------------------------------------------------------------------------
(* The calls of the program. *)

(* The host, and the cache before it, answer with no content or with one   *)
(* that fits.                                                              *)
LEMMA HostAnswers ==
  ASSUME Shapes, NEW p \in Paths
  PROVE  HostAnswer(p) \in Offer(Nat) /\ HostAnswer(p) \in Optional
<1>1. Offered(p) \in Offer(Nat)
  <2>1. host[p] = {} \/ \E c \in Content : host[p] = {c}
    BY DEF Shapes, Optional
  <2>2. CASE host[p] = {}
    BY <2>2 DEF Offered, Offer
  <2>3. ASSUME NEW c \in Content, host[p] = {c} PROVE Offered(p) \in Offer(Nat)
    <3>1. CASE rooted /\ Len(c) <= MaxFileBytes
      <4>1. Offered(p) = {c}
        BY <2>3, <3>1 DEF Offered
      <4> QED
        BY <3>1, <4>1 DEF Offer, Content
    <3>2. CASE ~ (rooted /\ Len(c) <= MaxFileBytes)
      <4>1. Offered(p) = {}
        BY <2>3, <3>2 DEF Offered
      <4> QED
        BY <4>1 DEF Offer
    <3> QED
      BY <3>1, <3>2
  <2> QED
    BY <2>1, <2>2, <2>3
<1>2. HostAnswer(p) \in Offer(Nat)
  BY <1>1 DEF HostAnswer, Shapes
<1>3. Offer(Nat) \subseteq Optional
  BY DEF Offer, Optional, Content
<1> QED
  BY <1>2, <1>3

LEMMA OpenKeepsInv ==
  ASSUME StagingInv, NEW p \in Paths, NEW flags, NEW creatable, OpenCall(p, flags, creatable)
  PROVE  StagingInv'
<1> DEFINE asks == AsksHost(fs, p, flags)
           answer == HostAnswer(p)
<1>1. Shapes /\ phase = "running"
  BY DEF StagingInv, OpenCall
<1>2. StateIsGood(fs) /\ Len(log) + 1 \in Trail /\ StateAt(Len(log) + 1) = fs
  BY <1>1, TrailEnds
<1>3. CleanIsSaved(fs, fs.dirty, saved) /\ CacheIsCurrent(fs, cache, saved)
  BY <1>1, <1>2 DEF StagingInv
<1>4. answer \in Offer(Nat) /\ answer \in Optional
  BY <1>1, HostAnswers
<1>5. \A c \in answer : IsSequence(c)
  BY <1>4 DEF Offer, IsSequence
<1>6. /\ fs' = Open(fs, p, flags, answer, creatable).fs
      /\ cache' = IF asks THEN Assign(cache, p, answer) ELSE cache
      /\ saved' = IF asks THEN [saved EXCEPT ![p] = answer] ELSE saved
      /\ Record
      /\ UNCHANGED <<machineVars, pending, phase, host, outside>>
  BY DEF OpenCall
<1> HIDE DEF answer
<1>7. StateIsGood(fs')
  BY <1>2, <1>4, <1>5, <1>6, OpenIsGood, OpenFits DEF StateIsGood
<1>8. /\ DOMAIN fs.files \subseteq DOMAIN fs'.files
      /\ DOMAIN fs'.files \subseteq DOMAIN fs.files \cup {p}
      /\ \A q \in DOMAIN fs'.files \ fs'.dirty :
            \/ q \in DOMAIN fs.files \ fs.dirty /\ fs'.files[q] = fs.files[q]
            \/ q = p /\ q \notin DOMAIN fs.files /\ answer = {fs'.files[q]}
      /\ ~ asks => DOMAIN fs'.files = DOMAIN fs.files
  BY <1>2, <1>4, <1>6, OpenStages DEF StateIsGood
<1>9. asks => p \notin DOMAIN fs.files
  BY DEF AsksHost
<1> HIDE DEF asks
<1>10. /\ saved' \in [Paths -> Optional]
       /\ \A q \in Paths : saved'[q] = IF asks /\ q = p THEN answer ELSE saved[q]
  BY <1>1, <1>4, <1>6 DEF Shapes
<1>11. /\ DOMAIN cache' = DOMAIN cache \cup (IF asks THEN {p} ELSE {})
       /\ \A q \in DOMAIN cache' : cache'[q] = IF asks /\ q = p THEN answer ELSE cache[q]
  BY <1>6 DEF Assign
<1>12. DOMAIN cache' \subseteq Paths /\ \A q \in DOMAIN cache' : cache'[q] \in Offer(Nat)
  BY <1>1, <1>4, <1>11 DEF Shapes
<1>13. DOMAIN fs.files \subseteq Paths
  BY <1>2 DEF StateIsGood, Fitting
<1>14. \A q \in DOMAIN fs.files : saved'[q] = saved[q]
  BY <1>9, <1>10, <1>13
<1>15. \A q \in DOMAIN cache' :
          \/ cache'[q] = saved'[q] /\ q \notin DOMAIN fs.files
          \/ q \in DOMAIN cache /\ cache'[q] = cache[q] /\ saved'[q] = saved[q]
  BY <1>9, <1>10, <1>11, <1>12
<1>16. CleanIsSaved(fs', fs'.dirty, saved')
  <2> SUFFICES ASSUME NEW q \in DOMAIN fs'.files \ fs'.dirty PROVE saved'[q] = {fs'.files[q]}
    BY DEF CleanIsSaved
  <2>1. CASE q \in DOMAIN fs.files \ fs.dirty /\ fs'.files[q] = fs.files[q]
    BY <1>3, <1>14, <2>1 DEF CleanIsSaved
  <2>2. CASE q = p /\ q \notin DOMAIN fs.files /\ answer = {fs'.files[q]}
    <3>1. asks
      BY <1>8, <2>2
    <3> QED
      BY <1>10, <2>2, <3>1
  <2> QED
    BY <1>8, <2>1, <2>2
<1>17. CacheIsCurrent(fs', cache', saved')
  BY <1>3, <1>8, <1>15 DEF CacheIsCurrent
<1> QED
  BY <1>1, <1>6, <1>7, <1>8, <1>12, <1>10, <1>14, <1>15, <1>16, <1>17, CallKeepsInv

(* Reading, writing and closing ask the host nothing. *)
LEMMA OtherCallKeepsInv ==
  ASSUME StagingInv, phase = "running", Record,
         UNCHANGED <<machineVars, cache, pending, phase, host, outside, saved>>,
         StateIsGood(fs'),
         DOMAIN fs'.files = DOMAIN fs.files,
         \A q \in DOMAIN fs'.files \ fs'.dirty : q \notin fs.dirty /\ fs'.files[q] = fs.files[q]
  PROVE  StagingInv'
<1>1. Shapes
  BY DEF StagingInv
<1>2. Len(log) + 1 \in Trail /\ StateAt(Len(log) + 1) = fs
  BY <1>1, TrailEnds
<1>3. CleanIsSaved(fs, fs.dirty, saved) /\ CacheIsCurrent(fs, cache, saved)
  BY <1>2 DEF StagingInv
<1>4. CleanIsSaved(fs', fs'.dirty, saved') /\ CacheIsCurrent(fs', cache', saved')
  BY <1>3 DEF CleanIsSaved, CacheIsCurrent
<1> QED
  BY <1>1, <1>4, CallKeepsInv DEF Shapes

LEMMA CallsKeepInv ==
  ASSUME StagingInv, ProgramCall
  PROVE  StagingInv'
<1>1. StateIsGood(fs)
  BY TrailEnds DEF StagingInv
<1>2. ASSUME NEW p \in Paths, NEW flags \in Flags, NEW creatable \in BOOLEAN,
             OpenCall(p, flags, creatable)
      PROVE  StagingInv'
  BY <1>2, OpenKeepsInv
<1>3. ASSUME NEW fd \in Descriptors, NEW n \in Counts, ReadCall(fd, n)
      PROVE  StagingInv'
  <2>1. CASE ~ MayRead(fs, fd)
    BY <1>1, <1>3, <2>1, OtherCallKeepsInv DEF ReadCall
  <2>2. CASE MayRead(fs, fd)
    <3>1. fs' = ReadFile(fs, fd, n).fs /\ n \in Nat
      BY <1>3, <2>2, StagingAssumption DEF ReadCall
    <3>2. GoodFiles(fs')
      BY <1>1, <2>2, <3>1, ReadFileIsGood DEF StateIsGood
    <3>3. Fitting(fs', Paths, Nat) /\ fs'.files = fs.files /\ fs'.dirty = fs.dirty
      BY <1>1, <3>1, ReadFileFits DEF StateIsGood
    <3> QED
      BY <1>3, <3>2, <3>3, OtherCallKeepsInv DEF ReadCall, StateIsGood
  <2> QED
    BY <2>1, <2>2
<1>4. ASSUME NEW fd \in Descriptors, NEW payload \in Payloads, WriteCall(fd, payload)
      PROVE  StagingInv'
  <2>1. fs' = WriteFile(fs, fd, payload).fs /\ payload \in Seq(Nat)
    BY <1>4, StagingAssumption DEF WriteCall
  <2>2. GoodFiles(fs')
    BY <1>1, <2>1, WriteFileIsGood DEF StateIsGood, IsSequence
  <2>3. /\ Fitting(fs', Paths, Nat)
        /\ DOMAIN fs'.files = DOMAIN fs.files
        /\ \A q \in DOMAIN fs'.files \ fs'.dirty :
              q \notin fs.dirty /\ fs'.files[q] = fs.files[q]
    BY <1>1, <2>1, WriteFileFits DEF StateIsGood
  <2> QED
    BY <1>4, <2>2, <2>3, OtherCallKeepsInv DEF WriteCall, StateIsGood
<1>5. ASSUME NEW fd \in Descriptors, CloseCall(fd)
      PROVE  StagingInv'
  <2>1. fs' = CloseFile(fs, fd)
    BY <1>5 DEF CloseCall
  <2>2. GoodFiles(fs')
    BY <1>1, <2>1, CloseFileIsGood DEF StateIsGood
  <2>3. Fitting(fs', Paths, Nat) /\ fs'.files = fs.files /\ fs'.dirty = fs.dirty
    BY <1>1, <2>1, CloseFileFits DEF StateIsGood
  <2> QED
    BY <1>5, <2>2, <2>3, OtherCallKeepsInv DEF CloseCall, StateIsGood
<1> QED
  BY <1>2, <1>3, <1>4, <1>5 DEF ProgramCall

-----------------------------------------------------------------------------
(* Machines, steps back and commits. *)

(* Without a history, the trail is the state now. *)
LEMMA ShortTrail ==
  ASSUME log = <<>>
  PROVE  Trail = {1} /\ StateAt(1) = fs
<1>1. Len(log) = 0
  OBVIOUS
<1> QED
  BY <1>1 DEF Trail, StateAt

LEMMA NoFilesAreGood == StateIsGood(NoFiles) /\ DOMAIN NoFiles.files = {}
BY NoFilesIsGood, NoFilesFit DEF StateIsGood, NoFiles

LEMMA InitInv ==
  ASSUME StagingInit
  PROVE  StagingInv
<1>1. Trail = {1} /\ StateAt(1) = NoFiles /\ fs = NoFiles
  BY ShortTrail DEF StagingInit
<1>2. IsSequence(log) /\ Len(log) <= HistoryLimit
  BY EmptyIsSequence, HistoryAssumption DEF StagingInit
<1>3. HostFile \subseteq Optional /\ {} \in Optional
  BY StagingAssumption DEF HostFile, Optional, Content
<1>4. host \in [Paths -> Optional] /\ saved \in [Paths -> Optional]
  BY <1>3 DEF StagingInit, Unsaved
<1>5. DOMAIN cache = {} /\ outside \in 0 .. MaxOutside
  BY StagingAssumption DEF StagingInit
<1>6. Shapes
  BY <1>1, <1>2, <1>4, <1>5, NoFilesAreGood DEF Shapes, StagingInit
<1> QED
  BY <1>1, <1>5, <1>6, NoFilesAreGood
     DEF StagingInv, CleanIsSaved, CacheIsCurrent, StagingInit

LEMMA NewMachineKeepsInv ==
  ASSUME StagingInv, NEW root \in BOOLEAN, NEW history \in BOOLEAN, NewMachine(root, history)
  PROVE  StagingInv'
<1>1. Trail' = {1} /\ StateAt(1)' = NoFiles /\ fs' = NoFiles
  <2>1. Len(log') = 0
    BY DEF NewMachine
  <2> QED
    BY <2>1 DEF NewMachine, Trail, StateAt
<1>2. IsSequence(log') /\ Len(log') <= HistoryLimit
  BY EmptyIsSequence, HistoryAssumption DEF NewMachine
<1>3. {} \in Optional
  BY DEF Optional
<1>4. host' \in [Paths -> Optional] /\ saved' \in [Paths -> Optional]
  BY <1>3 DEF StagingInv, Shapes, NewMachine, Unsaved
<1>5. DOMAIN cache' = {}
  BY DEF NewMachine
<1>6. Shapes'
  BY <1>1, <1>2, <1>4, <1>5, NoFilesAreGood DEF StagingInv, Shapes, NewMachine
<1> QED
  BY <1>1, <1>5, <1>6, NoFilesAreGood
     DEF StagingInv, CleanIsSaved, CacheIsCurrent, NewMachine

(* A step back shortens the trail by its end. *)
LEMMA BackKeepsInv ==
  ASSUME StagingInv, Back
  PROVE  StagingInv'
<1>1. Shapes /\ phase = "running"
  BY DEF StagingInv, Back
<1>2. PICK S : log \in Seq(S)
  BY <1>1 DEF Shapes, IsSequence
<1>3. /\ Len(log) \in Nat \ {0}
      /\ log' \in Seq(S) /\ Len(log') = Len(log) - 1
      /\ \A i \in 1 .. Len(log) - 1 : log'[i] = log[i]
  BY <1>2, ForgottenEntries DEF Back
<1>4. fs' = log[Len(log)]
  BY DEF Back, Latest
<1>5. /\ Trail' = 1 .. Len(log) /\ Trail' \subseteq Trail
      /\ \A i \in Trail' : StateAt(i)' = StateAt(i)
      /\ Len(log) \in Trail' /\ fs' = StateAt(Len(log))
  BY <1>3, <1>4 DEF Trail, StateAt
<1>6. pending = {} /\ UNCHANGED <<machineVars, cache, pending, phase, host, outside, saved>>
  BY <1>1 DEF StagingInv, Back
<1>7. Shapes'
  <2>1. IsSequence(log') /\ Len(log') <= HistoryLimit
    BY <1>1, <1>3, HistoryAssumption DEF Shapes, IsSequence
  <2>2. ~ logging => log' = <<>>
    BY <1>1 DEF Shapes, Back
  <2> QED
    BY <1>1, <1>5, <1>6, <2>1, <2>2 DEF Shapes, machineVars
<1> QED
  BY <1>1, <1>5, <1>6, <1>7 DEF StagingInv

(* A step that leaves the staged files and their history alone. *)
LEMMA SameTrail ==
  ASSUME Shapes, UNCHANGED <<fs, log>>
  PROVE  /\ Trail' = Trail /\ \A i \in Trail : StateAt(i)' = StateAt(i)
         /\ Len(log) + 1 \in Trail /\ StateAt(Len(log) + 1) = fs
BY TrailEnds DEF Trail, StateAt

LEMMA CommitBeginKeepsInv ==
  ASSUME StagingInv, CommitBegin
  PROVE  StagingInv'
<1>1. Shapes /\ phase = "running" /\ UNCHANGED <<fs, log>>
  BY DEF StagingInv, CommitBegin
<1>2. /\ Trail' = Trail /\ \A i \in Trail : StateAt(i)' = StateAt(i)
      /\ Len(log) + 1 \in Trail /\ StateAt(Len(log) + 1) = fs
  BY <1>1, SameTrail
<1>3. Shapes'
  BY <1>1, <1>2 DEF Shapes, CommitBegin, machineVars
<1>4. CleanIsSaved(fs, fs.dirty, saved) /\ CacheIsCurrent(fs, cache, saved)
  BY <1>1, <1>2 DEF StagingInv
<1> QED
  BY <1>2, <1>3, <1>4 DEF StagingInv, CommitBegin

(* The file a commit replaces next. *)
LEMMA NextPending ==
  ASSUME Shapes, pending # {}
  PROVE  /\ Min(pending) \in pending /\ Min(pending) \in fs.dirty
         /\ Min(pending) \in DOMAIN fs.files /\ Min(pending) \in Paths
         /\ {fs.files[Min(pending)]} \in Optional
<1>1. StateIsGood(fs)
  BY TrailEnds
<1>2. fs.dirty \subseteq DOMAIN fs.files /\ DOMAIN fs.files \subseteq Paths
      /\ \A p \in DOMAIN fs.files : fs.files[p] \in Content
  BY <1>1 DEF StateIsGood, GoodFiles, Fitting, Content
<1>3. pending \in SUBSET Nat
  BY <1>2, StagingAssumption DEF Shapes
<1>4. \E x \in pending : \A y \in pending : x <= y
  BY <1>3, LeastNatural
<1>5. Min(pending) \in pending
  BY <1>4 DEF Min
<1> QED
  BY <1>2, <1>5 DEF Shapes, Optional

LEMMA CommitFileKeepsInv ==
  ASSUME StagingInv, CommitFile
  PROVE  StagingInv'
<1> DEFINE p == Min(pending)
<1>1. Shapes /\ phase = "committing" /\ UNCHANGED <<fs, log>>
  BY DEF StagingInv, CommitFile
<1>2. p \in pending /\ p \in DOMAIN fs.files /\ p \in Paths /\ {fs.files[p]} \in Optional
  BY <1>1, NextPending DEF CommitFile
<1>3. /\ host' = [host EXCEPT ![p] = {fs.files[p]}]
      /\ saved' = [saved EXCEPT ![p] = {fs.files[p]}]
      /\ pending' = pending \ {p}
      /\ UNCHANGED <<machineVars, fs, cache, log, phase, outside>>
  BY DEF CommitFile
<1> HIDE DEF p
<1>4. Trail' = Trail /\ \A i \in Trail : StateAt(i)' = StateAt(i)
  BY <1>1, SameTrail
<1>5. /\ host' \in [Paths -> Optional] /\ saved' \in [Paths -> Optional]
      /\ \A q \in Paths : saved'[q] = IF q = p THEN {fs.files[p]} ELSE saved[q]
  BY <1>1, <1>2, <1>3 DEF Shapes
<1>6. Shapes'
  BY <1>1, <1>3, <1>4, <1>5 DEF Shapes, machineVars
<1>7. DOMAIN fs.files \subseteq Paths /\ DOMAIN cache \subseteq Paths
  BY <1>1, TrailEnds DEF StateIsGood, Fitting, Shapes
<1>8. CleanIsSaved(fs', pending', saved') /\ CacheIsCurrent(fs', cache', saved')
  BY <1>1, <1>2, <1>3, <1>5, <1>7 DEF StagingInv, CleanIsSaved, CacheIsCurrent
<1> QED
  BY <1>1, <1>3, <1>4, <1>6, <1>8 DEF StagingInv

LEMMA CommitEndKeepsInv ==
  ASSUME StagingInv, CommitEnd
  PROVE  StagingInv' /\ fs'.dirty = {}
<1>1. Shapes /\ phase = "committing" /\ pending = {} /\ StateIsGood(fs)
  BY TrailEnds DEF StagingInv, CommitEnd
<1>2. fs' = [files |-> fs.files, handles |-> fs.handles, dirty |-> {}]
  BY <1>1 DEF CommitEnd, StateIsGood, GoodFiles
<1>3. fs'.files = fs.files /\ fs'.dirty = {} /\ fs'.handles = fs.handles
  BY <1>2
<1>4. GoodFiles(fs')
  BY <1>1, <1>2 DEF StateIsGood, GoodFiles
<1>5. Fitting(fs', Paths, Nat)
  BY <1>1, <1>3, SameFilesFit DEF StateIsGood
<1>6. Trail' = {1} /\ StateAt(1)' = fs' /\ log' = <<>>
  <2>1. log' = <<>> /\ Len(log') = 0
    BY DEF CommitEnd, ForgetHistory
  <2> QED
    BY <2>1 DEF Trail, StateAt
<1>7. IsSequence(log') /\ Len(log') <= HistoryLimit
  BY <1>6, EmptyIsSequence, HistoryAssumption
<1>8. UNCHANGED <<machineVars, cache, pending, host, outside, saved>> /\ phase' = "running"
  BY DEF CommitEnd
<1>9. Shapes'
  BY <1>1, <1>3, <1>4, <1>5, <1>6, <1>7, <1>8 DEF Shapes, StateIsGood, machineVars
<1>10. CleanIsSaved(fs', fs'.dirty, saved') /\ CacheIsCurrent(fs', cache', saved')
  BY <1>1, <1>3, <1>8 DEF StagingInv, CleanIsSaved, CacheIsCurrent
<1> QED
  BY <1>1, <1>3, <1>6, <1>8, <1>9, <1>10 DEF StagingInv

LEMMA CommitFailKeepsInv ==
  ASSUME StagingInv, CommitFail
  PROVE  StagingInv'
<1>1. Shapes /\ phase = "committing" /\ StateIsGood(fs)
  BY TrailEnds DEF StagingInv, CommitFail
<1>2. Trail' = {1} /\ StateAt(1)' = fs' /\ log' = <<>>
  <2>1. log' = <<>> /\ Len(log') = 0
    BY DEF CommitFail, ForgetHistory
  <2> QED
    BY <2>1 DEF Trail, StateAt
<1>3. IsSequence(log') /\ Len(log') <= HistoryLimit
  BY <1>2, EmptyIsSequence, HistoryAssumption
<1>4. /\ UNCHANGED <<machineVars, fs, cache, host, outside, saved>>
      /\ phase' = "running" /\ pending' = {}
  BY DEF CommitFail
<1>5. Shapes'
  BY <1>1, <1>2, <1>3, <1>4 DEF Shapes, machineVars
<1>6. CleanIsSaved(fs', fs'.dirty, saved') /\ CacheIsCurrent(fs', cache', saved')
  BY <1>1, <1>4 DEF StagingInv, Shapes, CleanIsSaved, CacheIsCurrent
<1> QED
  BY <1>2, <1>4, <1>5, <1>6 DEF StagingInv

LEMMA HostChangeKeepsInv ==
  ASSUME StagingInv, NEW p \in Paths, HostChange(p)
  PROVE  StagingInv' /\ outside' # outside
<1>1. Shapes /\ UNCHANGED <<fs, log>>
  BY DEF StagingInv, HostChange
<1>2. /\ Trail' = Trail /\ \A i \in Trail : StateAt(i)' = StateAt(i)
  BY <1>1, SameTrail
<1>3. HostFile \subseteq Optional
  BY StagingAssumption DEF HostFile, Optional, Content
<1>4. host' \in [Paths -> Optional]
  BY <1>1, <1>3 DEF Shapes, HostChange
<1>5. outside' \in 0 .. MaxOutside /\ outside' # outside
  BY <1>1, StagingAssumption DEF Shapes, HostChange
<1>6. Shapes'
  BY <1>1, <1>2, <1>4, <1>5 DEF Shapes, HostChange, machineVars
<1> QED
  BY <1>2, <1>5, <1>6 DEF StagingInv, HostChange

-----------------------------------------------------------------------------
(* The process. *)

(* What a call of the program leaves alone. *)
LEMMA CallIsQuiet ==
  ASSUME ProgramCall
  PROVE  phase = "running" /\ phase' = "running" /\ UNCHANGED <<machineVars, host, outside>>
BY DEF ProgramCall, OpenCall, ReadCall, WriteCall, CloseCall

LEMMA EndKeepsInv ==
  ASSUME Inv, NEW c \in {NoCode} \cup 0 .. Codes - 1, EndWith(c)
  PROVE  Inv'
<1>1. NewMachine(FALSE, FALSE) /\ stage' = "idle" /\ status' = 0 /\ code' = c
  BY DEF EndWith
<1>2. StagingInv'
  BY <1>1, NewMachineKeepsInv DEF Inv
<1> QED
  BY <1>1, <1>2 DEF Inv, Stages, NewMachine

LEMMA OwnCodes ==
  /\ NoCode \in {NoCode} \cup 0 .. Codes - 1
  /\ \A c \in {0, 1, 2, 130} : c \in {NoCode} \cup 0 .. Codes - 1
BY CommandLineAssumption

(* main returns the exit status modulo the number of exit codes. *)
LEMMA StatusCodes ==
  ASSUME Inv
  PROVE  status % Codes \in {NoCode} \cup 0 .. Codes - 1
<1>1. status \in Int /\ Codes \in Nat /\ Codes > 0
  BY CommandLineAssumption DEF Inv
<1> QED
  BY <1>1

LEMMA StartKeepsInv ==
  ASSUME Inv, NEW o \in Options, Start(o)
  PROVE  Inv'
<1>1. ASSUME NEW c \in {0, 1, 2}, EndWith(c) PROVE Inv'
  BY <1>1, OwnCodes, EndKeepsInv
<1>2. CASE Enter(FirstStage(o)) /\ NewMachine(o.root = "directory", FirstStage(o) = "session")
  <2>1. StagingInv'
    <3>1. (o.root = "directory") \in BOOLEAN /\ (FirstStage(o) = "session") \in BOOLEAN
      OBVIOUS
    <3> QED
      BY <1>2, <3>1, NewMachineKeepsInv DEF Inv
  <2>2. FirstStage(o) \in {"prompt", "session", "running"}
    BY DEF FirstStage, Options
  <2>3. stage' \in {"prompt", "session", "running"} /\ status' = 0 /\ code' = NoCode
    BY <1>2, <2>2 DEF Enter
  <2>4. phase' = "running"
    BY <1>2 DEF NewMachine
  <2> QED
    BY <2>1, <2>3, <2>4 DEF Inv, Stages
<1> QED
  BY <1>1, <1>2 DEF Start

(* Steps that end the process, all but those of Start. *)
LEMMA EndingsKeepInv ==
  ASSUME Inv, ProgramFails \/ CommitFails \/ Return \/ Quit \/ Interrupt \/ Killed
  PROVE  Inv'
<1>1. \E c \in {NoCode} \cup 0 .. Codes - 1 : EndWith(c)
  BY OwnCodes, StatusCodes DEF ProgramFails, CommitFails, Return, Quit, Interrupt, Killed
<1> QED
  BY <1>1, EndKeepsInv

LEMMA SessionKeepsInv ==
  ASSUME Inv, Call \/ LoadProgram \/ StepBack \/ CommitFiles \/ CommitFilesEnds
  PROVE  Inv'
<1>1. CASE Call
  <2>1. StagingInv' /\ phase' = "running"
    BY <1>1, CallsKeepInv, CallIsQuiet DEF Call, Inv
  <2> QED
    BY <1>1, <2>1 DEF Call, Inv
<1>2. CASE LoadProgram
  <2>1. StagingInv' /\ phase' = "running"
    <3>1. rooted \in BOOLEAN
      BY DEF Inv, StagingInv, Shapes
    <3> QED
      BY <1>2, <3>1, NewMachineKeepsInv DEF LoadProgram, Inv, NewMachine
  <2> QED
    BY <1>2, <2>1 DEF LoadProgram, Inv, Stages
<1>3. CASE StepBack
  <2>1. StagingInv' /\ phase' = "running"
    BY <1>3, BackKeepsInv DEF StepBack, Back, Inv
  <2> QED
    BY <1>3, <2>1 DEF StepBack, Inv
<1>4. CASE CommitFiles
  <2>1. StagingInv' /\ rooted' = rooted
    BY <1>4, CommitBeginKeepsInv DEF CommitFiles, CommitBegin, Inv, machineVars
  <2> QED
    BY <1>4, <2>1 DEF CommitFiles, Inv
<1>5. CASE CommitFilesEnds
  <2>1. StagingInv' /\ phase' = "running"
    BY <1>5, CommitEndKeepsInv, CommitFailKeepsInv DEF CommitFilesEnds, CommitEnd, CommitFail, Inv
  <2> QED
    BY <1>5, <2>1 DEF CommitFilesEnds, Inv
<1> QED
  BY <1>1, <1>2, <1>3, <1>4, <1>5

LEMMA RunKeepsInv ==
  ASSUME Inv,
         \/ \E s \in Statuses : ProgramExits(s)
         \/ BeginCommit \/ SaveFile \/ EndCommit
  PROVE  Inv'
<1>1. ASSUME NEW s \in Statuses, ProgramExits(s) PROVE Inv'
  <2>1. StagingInv' /\ phase' = "running"
    <3>1. UNCHANGED stagingVars /\ phase = "running"
      BY <1>1 DEF ProgramExits, Inv, StagingInv, Shapes
    <3> QED
      BY <3>1 DEF stagingVars, Inv, StagingInv, Shapes, Trail, StateAt
  <2> QED
    BY <1>1, <2>1 DEF ProgramExits, Inv, Stages
<1>2. CASE BeginCommit
  <2>1. StagingInv' /\ rooted' = rooted
    BY <1>2, CommitBeginKeepsInv DEF BeginCommit, CommitBegin, Inv, machineVars
  <2> QED
    BY <1>2, <2>1 DEF BeginCommit, MustCommit, Inv
<1>3. CASE SaveFile
  <2>1. StagingInv' /\ phase' = phase /\ rooted' = rooted /\ fs' = fs
    BY <1>3, CommitFileKeepsInv DEF SaveFile, CommitFile, Inv, machineVars
  <2> QED
    BY <1>3, <2>1 DEF SaveFile, Inv
<1>4. CASE EndCommit
  <2>1. StagingInv' /\ phase = "committing" /\ phase' = "running" /\ fs'.dirty = {}
    BY <1>4, CommitEndKeepsInv DEF EndCommit, CommitEnd, Inv
  <2> QED
    BY <1>4, <2>1 DEF EndCommit, Inv, Stages
<1> QED
  BY <1>1, <1>2, <1>3, <1>4

LEMMA Invariance == Spec => []Inv
<1>1. Init => Inv
  <2> SUFFICES ASSUME Init PROVE Inv
    OBVIOUS
  <2>1. StagingInv
    BY InitInv DEF Init
  <2> QED
    BY <2>1 DEF Init, StagingInit, Inv, Stages
<1>2. Inv /\ [Next]_vars => Inv'
  <2> SUFFICES ASSUME Inv, [Next]_vars PROVE Inv'
    OBVIOUS
  <2>1. CASE \E o \in Options : Start(o)
    BY <2>1, StartKeepsInv
  <2>2. CASE ProgramFails \/ CommitFails \/ Return \/ Quit \/ Interrupt \/ Killed
    BY <2>2, EndingsKeepInv
  <2>3. CASE Call \/ LoadProgram \/ StepBack \/ CommitFiles \/ CommitFilesEnds
    BY <2>3, SessionKeepsInv
  <2>4. CASE \/ \E s \in Statuses : ProgramExits(s)
             \/ BeginCommit \/ SaveFile \/ EndCommit
    BY <2>4, RunKeepsInv
  <2>5. ASSUME NEW p \in Shared, Elsewhere(p) PROVE Inv'
    <3>1. p \in Paths
      BY StagingAssumption
    <3>2. StagingInv' /\ phase' = phase /\ rooted' = rooted /\ fs' = fs
      BY <2>5, <3>1, HostChangeKeepsInv DEF Elsewhere, HostChange, Inv, machineVars
    <3> QED
      BY <2>5, <3>2 DEF Elsewhere, Inv
  <2>6. CASE UNCHANGED vars
    BY <2>6 DEF vars, stagingVars, Inv, StagingInv, Shapes, Trail, StateAt
  <2> QED
    BY <2>1, <2>2, <2>3, <2>4, <2>5, <2>6 DEF Next
<1> QED
  BY <1>1, <1>2, PTL DEF Spec

-----------------------------------------------------------------------------
(* The theorems. *)

(* The host's files change only when another process changes them, or one  *)
(* by one in a commit (Inv covers what a commit then writes).              *)
LEMMA HostSteps ==
  ASSUME Inv, Next, host' # host, outside' = outside
  PROVE  SaveFile
<1>1. \A root, history : NewMachine(root, history) => host' = host
  BY DEF NewMachine
<1>2. \A c : EndWith(c) => host' = host
  BY <1>1 DEF EndWith
<1>3. \A o \in Options : Start(o) => host' = host
  BY <1>1, <1>2 DEF Start
<1>4. ProgramFails \/ CommitFails \/ Return \/ Quit \/ Interrupt \/ Killed => host' = host
  BY <1>2 DEF ProgramFails, CommitFails, Return, Quit, Interrupt, Killed
<1>5. Call \/ LoadProgram \/ StepBack \/ CommitFiles \/ CommitFilesEnds => host' = host
  BY <1>1, CallIsQuiet DEF Call, LoadProgram, StepBack, Back, CommitFiles, CommitBegin,
                           CommitFilesEnds, CommitEnd, CommitFail
<1>6. BeginCommit \/ EndCommit => host' = host
  BY DEF BeginCommit, CommitBegin, EndCommit, CommitEnd
<1>7. \A s \in Statuses : ProgramExits(s) => host' = host
  BY DEF ProgramExits, stagingVars
<1>8. \A p \in Shared : Elsewhere(p) => outside' # outside
  BY StagingAssumption, HostChangeKeepsInv DEF Elsewhere, Inv
<1> QED
  BY <1>3, <1>4, <1>5, <1>6, <1>7, <1>8 DEF Next

(* The staged files keep their shape and their limits, now and in every    *)
(* state a step back restores: no index by a handle's path fails.          *)
THEOREM TypeCorrect == Spec => []TypeOK
<1>1. ASSUME NEW s, StateIsGood(s) PROVE IsFileSystem(s)
  <2>1. DOMAIN s.files \subseteq Paths /\ \A p \in DOMAIN s.files : s.files[p] \in Content
    BY <1>1 DEF StateIsGood, Fitting, Content
  <2>2. DOMAIN s.handles \subseteq Nat
    BY <1>1, FileSystemAssumption DEF StateIsGood, Fitting
  <2>3. \A fd \in DOMAIN s.handles : s.handles[fd] \in HandleOn(DOMAIN s.files)
    BY <1>1 DEF StateIsGood, GoodFiles
  <2>4. \A fd \in DOMAIN s.handles : /\ s.handles[fd] \in Handle
                                     /\ s.handles[fd].path \in DOMAIN s.files
    BY <2>1, <2>3 DEF HandleOn, Handle
  <2> QED
    BY <1>1, <2>1, <2>2, <2>4 DEF IsFileSystem, StateIsGood, GoodFiles
<1>2. ASSUME Inv PROVE StagingTypeOK
  <2>1. Shapes /\ StateIsGood(fs) /\ Len(log) \in Nat
    BY <1>2, TrailEnds DEF Inv, StagingInv
  <2>2. ASSUME NEW i \in DOMAIN log PROVE IsFileSystem(log[i])
    <3>1. i \in 1 .. Len(log)
      BY <2>1, <2>2, SequenceDomain DEF Shapes
    <3>2. i \in Trail /\ StateAt(i) = log[i]
      BY <2>1, <3>1 DEF Trail, StateAt
    <3> QED
      BY <1>1, <2>1, <3>2 DEF Shapes
  <2>3. pending \subseteq Paths
    BY <2>1 DEF Shapes, StateIsGood, GoodFiles, Fitting
  <2> QED
    BY <1>1, <2>1, <2>2, <2>3 DEF StagingTypeOK, Shapes
<1>3. ASSUME Inv PROVE WithinLimits
  BY <1>3, TrailEnds DEF Inv, StagingInv, StateIsGood, Fitting, WithinLimits
<1>4. Inv => TypeOK
  BY <1>2, <1>3 DEF TypeOK, Inv
<1> QED
  BY <1>4, Invariance, PTL

(* Nothing the program wrote can be left out of the next commit, whatever  *)
(* was stepped back over and however an earlier commit ended.              *)
THEOREM CleanFilesAreSaved == Spec => []CleanMeansSaved
<1>1. Inv => CleanMeansSaved
  BY TrailEnds DEF Inv, StagingInv, CleanIsSaved, CleanMeansSaved
<1> QED
  BY <1>1, Invariance, PTL

(* What an open takes from _host_cache is never older than this machine's  *)
(* own commits.                                                            *)
THEOREM CacheIsUpToDate == Spec => []CacheIsNotOutdated
<1>1. ASSUME Inv PROVE CacheIsNotOutdated
  <2>1. CacheIsCurrent(fs, cache, saved)
    BY <1>1, TrailEnds DEF Inv, StagingInv, Shapes
  <2> QED
    BY <2>1 DEF CacheIsCurrent, CacheIsNotOutdated
<1> QED
  BY <1>1, Invariance, PTL

(* A commit touches only files the program created, wrote or truncated,    *)
(* and each gets its staged content whole.                                 *)
THEOREM CommitsAreFaithful == Spec => HostGetsStagedFiles
<1>1. Inv /\ [Next]_vars =>
         [\A p \in Paths : host'[p] # host[p] /\ outside' = outside =>
             p \in fs.dirty /\ host'[p] = {fs.files[p]}]_vars
  <2> SUFFICES ASSUME Inv, Next,
                      NEW p \in Paths, host'[p] # host[p], outside' = outside
               PROVE  p \in fs.dirty /\ host'[p] = {fs.files[p]}
    OBVIOUS
  <2>1. CommitFile
    BY HostSteps DEF SaveFile
  <2>2. Min(pending) \in fs.dirty /\ Min(pending) \in Paths
    BY <2>1, NextPending DEF CommitFile, Inv, StagingInv
  <2>3. host' = [host EXCEPT ![Min(pending)] = {fs.files[Min(pending)]}]
    BY <2>1 DEF CommitFile
  <2>4. host \in [Paths -> Optional]
    BY DEF Inv, StagingInv, Shapes
  <2>5. p = Min(pending)
    BY <2>3, <2>4
  <2> QED
    BY <2>2, <2>3, <2>4, <2>5
<1> QED
  BY <1>1, Invariance, PTL DEF Spec, HostGetsStagedFiles

(* Only a program below --fs-root that exited with status 0, or the user   *)
(* of the debugger, puts files on the host.                                *)
THEOREM FailuresSaveNothing == Spec => SavedOnlyAfterSuccess
<1>1. Inv /\ [Next]_vars =>
         [host' # host /\ outside' = outside =>
             rooted /\ (stage = "session" \/ (stage = "exited" /\ status = 0))]_vars
  <2> SUFFICES ASSUME Inv, Next, host' # host, outside' = outside
               PROVE  rooted /\ (stage = "session" \/ (stage = "exited" /\ status = 0))
    OBVIOUS
  <2>1. SaveFile
    BY HostSteps
  <2> QED
    BY <2>1 DEF SaveFile, CommitFile, Inv
<1> QED
  BY <1>1, Invariance, PTL DEF Spec, SavedOnlyAfterSuccess

(* Exit code 0 of a run below --fs-root means that all it staged is on the *)
(* host, but for an exit status that is 0 only modulo 256.                 *)
THEOREM SuccessIsSaved == Spec => SuccessMeansSaved
<1>1. Inv /\ [Next]_vars =>
         [/\ stage \in {"running", "exited", "committed"} /\ rooted
          /\ stage' = "idle" /\ code' = 0
          => IF status = 0 THEN \A p \in DOMAIN fs.files : saved[p] = {fs.files[p]}
             ELSE status % Codes = 0 /\ stage = "exited"]_vars
  <2> SUFFICES ASSUME Inv, Next, stage \in {"running", "exited", "committed"}, rooted,
                      stage' = "idle", code' = 0
               PROVE  IF status = 0 THEN \A p \in DOMAIN fs.files : saved[p] = {fs.files[p]}
                      ELSE status % Codes = 0 /\ stage = "exited"
    OBVIOUS
  <2>1. \A c : EndWith(c) => c = 0
    BY DEF EndWith
  <2>2. Return
    <3>1. ~ \E o \in Options : Start(o)
      BY DEF Start
    <3>2. ~ (ProgramFails \/ CommitFails \/ Interrupt \/ Killed \/ Quit)
      BY <2>1 DEF ProgramFails, CommitFails, Interrupt, Killed, Quit, NoCode
    <3>3. ~ (Call \/ LoadProgram \/ StepBack \/ CommitFiles \/ CommitFilesEnds)
      BY DEF Call, LoadProgram, StepBack, CommitFiles, CommitFilesEnds
    <3>4. ~ (BeginCommit \/ SaveFile \/ EndCommit)
      BY DEF BeginCommit, SaveFile, EndCommit
    <3>5. ~ \E s \in Statuses : ProgramExits(s)
      BY DEF ProgramExits
    <3>6. ~ \E p \in Shared : Elsewhere(p)
      BY DEF Elsewhere
    <3> QED
      BY <3>1, <3>2, <3>3, <3>4, <3>5, <3>6 DEF Next
  <2>3. status % Codes = 0
    BY <2>1, <2>2 DEF Return
  <2>4. CASE stage = "committed"
    <3>1. status = 0 /\ fs.dirty = {} /\ phase = "running"
      BY <2>4 DEF Inv, StagingInv, Shapes
    <3>2. CleanIsSaved(fs, fs.dirty, saved)
      BY <3>1, TrailEnds DEF Inv, StagingInv
    <3> QED
      BY <3>1, <3>2 DEF CleanIsSaved
  <2>5. CASE stage = "exited" /\ ~ MustCommit
    BY <2>3, <2>5 DEF MustCommit
  <2> QED
    BY <2>2, <2>4, <2>5 DEF Return
<1> QED
  BY <1>1, Invariance, PTL DEF Spec, SuccessMeansSaved
=============================================================================
