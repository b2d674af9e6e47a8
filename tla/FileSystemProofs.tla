-------------------------- MODULE FileSystemProofs --------------------------
(***************************************************************************)
(* The operations on staged files keep a state that can be worked on: an   *)
(* open descriptor and a dirty path always name a staged file, for every   *)
(* limit, flag and answer of the host.                                     *)
(***************************************************************************)
EXTENDS FileSystem, BasicFacts

HandleOn(P) == [path : P, position : Nat,
                readable : BOOLEAN, writable : BOOLEAN, append : BOOLEAN]

GoodFiles(s) ==
    /\ s = [files |-> s.files, handles |-> s.handles, dirty |-> s.dirty]
    /\ s.files = [p \in DOMAIN s.files |-> s.files[p]]
    /\ \A p \in DOMAIN s.files : IsSequence(s.files[p])
    /\ s.handles \in [DOMAIN s.handles -> HandleOn(DOMAIN s.files)]
    /\ s.dirty \subseteq DOMAIN s.files

LEMMA NoFilesIsGood == GoodFiles(NoFiles)
<1>1. DOMAIN NoFiles.files = {} /\ DOMAIN NoFiles.handles = {}
  BY DEF NoFiles
<1>2. NoFiles.files = [p \in {} |-> NoFiles.files[p]]
  BY DEF NoFiles
<1>3. NoFiles.handles \in [{} -> HandleOn({})]
  BY DEF NoFiles
<1> QED
  BY <1>1, <1>2, <1>3 DEF GoodFiles, NoFiles

LEMMA ClippedIsSequence ==
  ASSUME NEW content, IsSequence(content), NEW from \in Int, NEW to \in Int
  PROVE  IsSequence(Clipped(content, from, to))
<1>1. Len(content) \in Nat
  BY LengthIsNatural
<1>2. (IF to < Len(content) THEN to ELSE Len(content)) \in Int
  BY <1>1
<1> QED
  BY <1>2, SliceIsSequence DEF Clipped

LEMMA OpenIsGood ==
  ASSUME NEW s, GoodFiles(s), NEW p, NEW flags, NEW creatable,
         NEW host, \A c \in host : IsSequence(c)
  PROVE  GoodFiles(Open(s, p, flags, host, creatable).fs)
<1> DEFINE found == IF p \in DOMAIN s.files THEN {s.files[p]} ELSE host
           old == CHOOSE c \in found : TRUE
           fresh == found = {}
           payload == IF fresh \/ Truncates(flags) THEN <<>> ELSE old
           fd == FreeDescriptor(s)
           handle == [path |-> p,
                      position |-> IF Appends(flags) THEN Len(payload) ELSE 0,
                      readable |-> ForReading(flags),
                      writable |-> ForWriting(flags),
                      append |-> Appends(flags)]
           after == [files |-> Assign(s.files, p, payload),
                     handles |-> Assign(s.handles, fd, handle),
                     dirty |-> s.dirty \cup
                               (IF fresh \/ Truncates(flags) THEN {p} ELSE {})]
<1>1. Open(s, p, flags, host, creatable).fs \in {s, after}
  BY DEF Open, Stage
<1>2. \A c \in found : IsSequence(c)
  BY DEF GoodFiles
<1>3. IsSequence(payload)
  BY <1>2, EmptyIsSequence
<1>4. Len(payload) \in Nat
  BY <1>3, LengthIsNatural
<1> HIDE DEF payload, fresh, fd
<1>5. handle \in HandleOn(DOMAIN s.files \cup {p})
  <2>1. ForReading(flags) \in BOOLEAN /\ ForWriting(flags) \in BOOLEAN
        /\ Appends(flags) \in BOOLEAN
    BY DEF ForReading, ForWriting, Appends, HasBit
  <2> QED
    BY <1>4, <2>1 DEF HandleOn
<1> HIDE DEF handle
<1>6. /\ DOMAIN after.files = DOMAIN s.files \cup {p}
      /\ after.files = [q \in DOMAIN after.files |-> after.files[q]]
      /\ \A q \in DOMAIN after.files : IsSequence(after.files[q])
  BY <1>3 DEF Assign, GoodFiles
<1>7. after.handles \in [DOMAIN after.handles -> HandleOn(DOMAIN after.files)]
  <2>1. \A d \in DOMAIN s.handles : s.handles[d] \in HandleOn(DOMAIN s.files)
    BY DEF GoodFiles
  <2>2. HandleOn(DOMAIN s.files) \subseteq HandleOn(DOMAIN s.files \cup {p})
    BY DEF HandleOn
  <2> QED
    BY <1>5, <1>6, <2>1, <2>2 DEF Assign
<1>8. after.dirty \subseteq DOMAIN after.files
  BY <1>6 DEF GoodFiles
<1>9. GoodFiles(after)
  BY <1>6, <1>7, <1>8 DEF GoodFiles
<1> QED
  BY <1>1, <1>9

LEMMA ReadFileIsGood ==
  ASSUME NEW s, GoodFiles(s), NEW fd, MayRead(s, fd), NEW maximum \in Nat
  PROVE  /\ GoodFiles(ReadFile(s, fd, maximum).fs)
         /\ IsSequence(ReadFile(s, fd, maximum).bytes)
<1> DEFINE h == s.handles[fd]
           bytes == Clipped(s.files[h.path], h.position + 1, h.position + maximum)
           after == [s EXCEPT !.handles[fd].position = @ + Len(bytes)]
<1>1. ReadFile(s, fd, maximum) = [bytes |-> bytes, fs |-> after]
  BY DEF ReadFile
<1>2. h \in HandleOn(DOMAIN s.files) /\ fd \in DOMAIN s.handles
  BY DEF MayRead, GoodFiles
<1>3. IsSequence(bytes)
  <2>1. h.position + 1 \in Int /\ h.position + maximum \in Int
    BY <1>2 DEF HandleOn
  <2>2. IsSequence(s.files[h.path])
    BY <1>2 DEF GoodFiles, HandleOn
  <2> QED
    BY <2>1, <2>2, ClippedIsSequence
<1>4. Len(bytes) \in Nat
  BY <1>3, LengthIsNatural
<1> HIDE DEF bytes
<1>5. after = [files |-> s.files,
               handles |-> [s.handles EXCEPT ![fd].position = @ + Len(bytes)],
               dirty |-> s.dirty]
  BY DEF GoodFiles
<1>6. [h EXCEPT !.position = @ + Len(bytes)] \in HandleOn(DOMAIN s.files)
  BY <1>2, <1>4 DEF HandleOn
<1>7. [s.handles EXCEPT ![fd].position = @ + Len(bytes)]
         \in [DOMAIN s.handles -> HandleOn(DOMAIN s.files)]
  BY <1>2, <1>6 DEF GoodFiles
<1>8. GoodFiles(after)
  BY <1>5, <1>7 DEF GoodFiles
<1> QED
  BY <1>1, <1>3, <1>8

LEMMA OverwrittenIsSequence ==
  ASSUME NEW content, IsSequence(content), NEW position \in Nat,
         NEW payload, IsSequence(payload)
  PROVE  IsSequence(Overwritten(content, position, payload))
<1>1. Len(content) \in Nat /\ Len(payload) \in Nat
  BY LengthIsNatural
<1>2. IsSequence(Clipped(content, 1, position))
  BY ClippedIsSequence
<1>3. position + Len(payload) + 1 \in Int
  BY <1>1
<1>4. IsSequence(SubSeq(content, position + Len(payload) + 1, Len(content)))
  BY <1>1, <1>3, SliceIsSequence
<1>5. IsSequence(Clipped(content, 1, position) \o payload)
  BY <1>2, ConcatIsSequence
<1> QED
  BY <1>4, <1>5, ConcatIsSequence DEF Overwritten

LEMMA WriteFileIsGood ==
  ASSUME NEW s, GoodFiles(s), NEW fd, NEW payload, IsSequence(payload)
  PROVE  GoodFiles(WriteFile(s, fd, payload).fs)
<1> DEFINE h == s.handles[fd]
           old == s.files[h.path]
           position == IF h.append THEN Len(old) ELSE h.position
           end == position + Len(payload)
           content == Overwritten(old, position, payload)
           after == [files |-> [s.files EXCEPT ![h.path] = content],
                     handles |-> [s.handles EXCEPT ![fd].position = end],
                     dirty |-> s.dirty \cup {h.path}]
<1>1. CASE ~MayWrite(s, fd)
  BY <1>1 DEF WriteFile
<1>2. CASE MayWrite(s, fd)
  <2>1. WriteFile(s, fd, payload).fs \in {s, after}
    BY DEF WriteFile
  <2>2. h \in HandleOn(DOMAIN s.files) /\ fd \in DOMAIN s.handles
    BY <1>2 DEF MayWrite, GoodFiles
  <2>3. h.path \in DOMAIN s.files /\ h.position \in Nat
    BY <2>2 DEF HandleOn
  <2>4. IsSequence(old)
    BY <2>3 DEF GoodFiles
  <2>5. Len(old) \in Nat /\ Len(payload) \in Nat
    BY <2>4, LengthIsNatural
  <2>6. position \in Nat /\ end \in Nat
    <3>1. position \in Nat
      BY <2>3, <2>5
    <3> HIDE DEF position
    <3> QED
      BY <2>5, <3>1
  <2>7. IsSequence(content)
    <3> HIDE DEF position, old
    <3> QED
      BY <2>4, <2>6, OverwrittenIsSequence
  <2> HIDE DEF content, end
  <2>8. [h EXCEPT !.position = end] \in HandleOn(DOMAIN s.files)
    BY <2>2, <2>6 DEF HandleOn
  <2>9. after.handles \in [DOMAIN s.handles -> HandleOn(DOMAIN s.files)]
    BY <2>2, <2>8 DEF GoodFiles
  <2>10. /\ DOMAIN after.files = DOMAIN s.files
         /\ after.files = [q \in DOMAIN after.files |-> after.files[q]]
         /\ \A q \in DOMAIN after.files : IsSequence(after.files[q])
    BY <2>3, <2>7 DEF GoodFiles
  <2>11. GoodFiles(after)
    BY <2>3, <2>9, <2>10 DEF GoodFiles
  <2> QED
    BY <2>1, <2>11
<1> QED
  BY <1>1, <1>2

LEMMA CloseFileIsGood ==
  ASSUME NEW s, GoodFiles(s), NEW fd
  PROVE  GoodFiles(CloseFile(s, fd))
<1> DEFINE D == DOMAIN s.handles \ {fd}
           after == CloseFile(s, fd)
<1>1. after = [files |-> s.files, handles |-> [d \in D |-> s.handles[d]],
               dirty |-> s.dirty]
  BY DEF CloseFile, Restrict, GoodFiles
<1>2. [d \in D |-> s.handles[d]] \in [D -> HandleOn(DOMAIN s.files)]
  BY DEF GoodFiles
<1> QED
  BY <1>1, <1>2 DEF GoodFiles

-----------------------------------------------------------------------------
(* Within the limits: staged files are those of P, hold elements of B, and *)
(* keep to the limits, as do the descriptors.                              *)
Fitting(s, P, B) ==
    /\ DOMAIN s.files \subseteq P /\ IsFiniteSet(DOMAIN s.files)
    /\ \A p \in DOMAIN s.files : s.files[p] \in Seq(B) /\ Len(s.files[p]) <= MaxFileBytes
    /\ StagedBytes(s) <= MaxTotalBytes
    /\ DOMAIN s.handles \subseteq 3 .. 3 + MaxOpen
    /\ Cardinality(DOMAIN s.handles) <= MaxOpen

LEMMA NoFilesFit ==
  ASSUME NEW P, NEW B
  PROVE  Fitting(NoFiles, P, B)
<1>1. DOMAIN NoFiles.files = {} /\ DOMAIN NoFiles.handles = {} /\ DOMAIN Sizes(NoFiles) = {}
  BY DEF NoFiles, Sizes
<1>2. IsFiniteSet({}) /\ Cardinality({}) = 0
  BY FS_EmptySet
<1>3. StagedBytes(NoFiles) = 0
  BY <1>1, <1>2, SumOfSet DEF StagedBytes, SumFunction
<1> QED
  BY <1>1, <1>2, <1>3, FileSystemAssumption DEF Fitting

(* With the file at path p replaced or added, the bytes staged are those   *)
(* of the other files and the new one.                                     *)
LEMMA StagedWithFile ==
  ASSUME NEW s, NEW t, NEW p, IsFiniteSet(DOMAIN s.files),
         \A q \in DOMAIN s.files : Len(s.files[q]) \in Nat,
         DOMAIN t.files = DOMAIN s.files \cup {p},
         \A q \in DOMAIN s.files \ {p} : t.files[q] = s.files[q],
         Len(t.files[p]) \in Nat
  PROVE  /\ StagedBytes(t) = OtherBytes(s, p) + Len(t.files[p])
         /\ OtherBytes(s, p) \in Int
<1> DEFINE D == DOMAIN s.files
           E == DOMAIN t.files
<1>1. DOMAIN Sizes(t) = E /\ DOMAIN Sizes(s) = D
  BY DEF Sizes
<1>2. E = D \cup {p} /\ E \ {p} = D \ {p} /\ IsFiniteSet(E) /\ IsFiniteSet(D \ {p})
  BY FS_AddElement, FS_RemoveElement
<1>3. \A q \in D \ {p} : Sizes(s)[q] = Sizes(t)[q] /\ Sizes(s)[q] \in Int
  BY <1>2 DEF Sizes
<1>4. Sizes(t)[p] = Len(t.files[p])
  BY <1>2 DEF Sizes
<1>5. \A q \in E : Sizes(t)[q] \in Int
  BY <1>2, <1>3, <1>4
<1>6. p \in E
  BY <1>2
<1> HIDE DEF D, E
<1>7. SumFunctionOnSet(Sizes(t), E) = Sizes(t)[p] + SumFunctionOnSet(Sizes(t), E \ {p})
  BY <1>2, <1>5, <1>6, SumOfSet
<1>8. SumFunctionOnSet(Sizes(s), D \ {p}) = SumFunctionOnSet(Sizes(t), D \ {p})
  BY <1>2, <1>3, SumDependsOnSet
<1>9. SumFunctionOnSet(Sizes(s), D \ {p}) \in Int
  BY <1>2, <1>3, SumOfSet
<1>10. OtherBytes(s, p) = SumFunctionOnSet(Sizes(s), D \ {p})
  BY DEF OtherBytes, D
<1>11. StagedBytes(t) = SumFunctionOnSet(Sizes(t), E)
  BY <1>1 DEF StagedBytes, SumFunction
<1>12. E \ {p} = D \ {p}
  BY <1>2
<1> HIDE DEF Sizes
<1>13. OtherBytes(s, p) \in Int
  BY <1>9, <1>10
<1>14. StagedBytes(t) = Len(t.files[p]) + OtherBytes(s, p)
  BY <1>4, <1>7, <1>8, <1>10, <1>11, <1>12
<1> QED
  BY <1>13, <1>14

(* There is a free descriptor while fewer than max_open_files are in use.  *)
LEMMA FreeDescriptorExists ==
  ASSUME NEW s, DOMAIN s.handles \subseteq 3 .. 3 + MaxOpen,
         Cardinality(DOMAIN s.handles) < MaxOpen
  PROVE  FreeDescriptor(s) \in (3 .. 3 + MaxOpen) \ DOMAIN s.handles
<1> DEFINE D == DOMAIN s.handles
           All == 3 .. 3 + MaxOpen
           Free == All \ D
<1>1. IsFiniteSet(All) /\ Cardinality(All) = MaxOpen + 1
  <2>1. 3 \in Int /\ 3 + MaxOpen \in Int /\ MaxOpen \in Nat
    BY FileSystemAssumption
  <2>2. /\ IsFiniteSet(All)
        /\ Cardinality(All) = IF 3 > 3 + MaxOpen THEN 0 ELSE 3 + MaxOpen - 3 + 1
    BY <2>1, FS_Interval
  <2> HIDE DEF All
  <2> QED
    BY <2>1, <2>2
<1>2. IsFiniteSet(D)
  BY <1>1, FS_Subset
<1>3. Free # {}
  <2>1. Cardinality(D) # Cardinality(All)
    BY <1>1, <1>2, FS_CardinalityType, FileSystemAssumption
  <2> QED
    BY <2>1
<1>4. Free \in SUBSET Nat
  BY FileSystemAssumption
<1> HIDE DEF Free
<1>5. PICK d \in Free : \A e \in Free : d <= e
  BY <1>3, <1>4, LeastNatural
<1>6. \A e \in 3 .. d - 1 : e \in D
  <2> TAKE e \in 3 .. d - 1
  <2>1. d \in All
    BY <1>5 DEF Free
  <2>2. e \in All /\ ~ (d <= e)
    BY <2>1, FileSystemAssumption
  <2> QED
    BY <1>5, <2>2 DEF Free
<1>7. \E x \in All : x \notin D /\ \A e \in 3 .. x - 1 : e \in D
  BY <1>5, <1>6 DEF Free
<1> QED
  BY <1>7 DEF FreeDescriptor

(* What a program may be offered of the host: at most one content. *)
Offer(B) == {{}} \cup {{c} : c \in {d \in Seq(B) : Len(d) <= MaxFileBytes}}

(* An open stages at most the file it is asked for; a file that is not     *)
(* dirty afterwards was so before, or is what the host offers.             *)
LEMMA OpenStages ==
  ASSUME NEW s, GoodFiles(s), NEW p, NEW flags, NEW creatable, NEW host, NEW B,
         host \in Offer(B)
  PROVE  LET t == Open(s, p, flags, host, creatable).fs
         IN  /\ DOMAIN s.files \subseteq DOMAIN t.files
             /\ DOMAIN t.files \subseteq DOMAIN s.files \cup {p}
             /\ \A q \in DOMAIN t.files \ t.dirty :
                   \/ q \in DOMAIN s.files \ s.dirty /\ t.files[q] = s.files[q]
                   \/ q = p /\ q \notin DOMAIN s.files /\ host = {t.files[q]}
             /\ ~ AsksHost(s, p, flags) => DOMAIN t.files = DOMAIN s.files
<1> DEFINE found == IF p \in DOMAIN s.files THEN {s.files[p]} ELSE host
           old == CHOOSE c \in found : TRUE
           fresh == found = {}
           payload == IF fresh \/ Truncates(flags) THEN <<>> ELSE old
           after == Open(s, p, flags, host, creatable)
           files == Assign(s.files, p, payload)
           dirty == s.dirty \cup (IF fresh \/ Truncates(flags) THEN {p} ELSE {})
<1>1. \/ after.fs = s
      \/ /\ after.fs.files = files /\ after.fs.dirty = dirty
         /\ ~ OpenRefused(s, flags)
  BY DEF Open, Stage
<1>2. CASE after.fs = s
  BY <1>2
<1>3. CASE /\ after.fs.files = files /\ after.fs.dirty = dirty
           /\ ~ OpenRefused(s, flags)
  <2>1. /\ DOMAIN files = DOMAIN s.files \cup {p} /\ files[p] = payload
        /\ \A q \in DOMAIN s.files \ {p} : files[q] = s.files[q]
    BY DEF Assign
  <2>2. ASSUME p \notin dirty PROVE found = {payload}
    <3>1. found # {} /\ payload = old
      BY <2>2
    <3>2. \E c : found = {c}
      BY <3>1 DEF Offer
    <3> QED
      BY <3>1, <3>2
  <2>3. ASSUME NEW q \in DOMAIN files \ dirty
        PROVE  \/ q \in DOMAIN s.files \ s.dirty /\ files[q] = s.files[q]
               \/ q = p /\ q \notin DOMAIN s.files /\ host = {files[q]}
    <3>1. CASE q = p
      <4>1. found = {files[p]} /\ p \notin s.dirty
        BY <2>1, <2>2, <2>3, <3>1
      <4> QED
        BY <3>1, <4>1
    <3>2. CASE q # p
      BY <2>1, <2>3, <3>2
    <3> QED
      BY <3>1, <3>2
  <2>4. ~ AsksHost(s, p, flags) => DOMAIN files = DOMAIN s.files
    BY <1>3, <2>1 DEF AsksHost
  <2> HIDE DEF files, dirty
  <2> QED
    BY <1>3, <2>1, <2>3, <2>4
<1> HIDE DEF after
<1> QED
  BY <1>1, <1>2, <1>3 DEF after

LEMMA OpenFits ==
  ASSUME NEW P, NEW B, NEW s, GoodFiles(s), Fitting(s, P, B),
         NEW p \in P, NEW flags, NEW creatable, NEW host \in Offer(B)
  PROVE  Fitting(Open(s, p, flags, host, creatable).fs, P, B)
<1> DEFINE found == IF p \in DOMAIN s.files THEN {s.files[p]} ELSE host
           old == CHOOSE c \in found : TRUE
           fresh == found = {}
           payload == IF fresh \/ Truncates(flags) THEN <<>> ELSE old
           fd == FreeDescriptor(s)
           handle == [path |-> p,
                      position |-> IF Appends(flags) THEN Len(payload) ELSE 0,
                      readable |-> ForReading(flags),
                      writable |-> ForWriting(flags),
                      append |-> Appends(flags)]
           t == Open(s, p, flags, host, creatable).fs
<1>1. \/ t = s
      \/ /\ t.files = Assign(s.files, p, payload)
         /\ t.handles = Assign(s.handles, fd, handle)
         /\ ~ OpenRefused(s, flags)
         /\ ~ (OtherBytes(s, p) + Len(payload) > MaxTotalBytes)
  BY DEF Open, Stage
<1>2. CASE t = s
  BY <1>2
<1>3. CASE /\ t.files = Assign(s.files, p, payload)
           /\ t.handles = Assign(s.handles, fd, handle)
           /\ ~ OpenRefused(s, flags)
           /\ ~ (OtherBytes(s, p) + Len(payload) > MaxTotalBytes)
  <2>1. payload \in Seq(B) /\ Len(payload) <= MaxFileBytes /\ Len(payload) \in Nat
    <3>1. \A c \in found : c \in Seq(B) /\ Len(c) <= MaxFileBytes
      BY DEF Fitting, Offer
    <3>2. fresh \/ old \in found
      OBVIOUS
    <3>3. <<>> \in Seq(B) /\ Len(<<>>) <= MaxFileBytes
      BY FileSystemAssumption
    <3> HIDE DEF old, found
    <3>4. payload \in Seq(B) /\ Len(payload) <= MaxFileBytes
      BY <3>1, <3>2, <3>3
    <3> HIDE DEF payload
    <3> QED
      BY <3>4
  <2> HIDE DEF payload, handle, t
  <2>2. /\ DOMAIN t.files = DOMAIN s.files \cup {p}
        /\ t.files[p] = payload
        /\ \A q \in DOMAIN s.files \ {p} : t.files[q] = s.files[q]
    BY <1>3 DEF Assign
  <2>3. \A q \in DOMAIN s.files : Len(s.files[q]) \in Nat
    BY DEF Fitting
  <2>4. StagedBytes(t) = OtherBytes(s, p) + Len(payload) /\ OtherBytes(s, p) \in Int
    BY <2>1, <2>2, <2>3, StagedWithFile DEF Fitting
  <2>5. StagedBytes(t) <= MaxTotalBytes
    BY <1>3, <2>1, <2>4, FileSystemAssumption
  <2>6. DOMAIN t.files \subseteq P /\ IsFiniteSet(DOMAIN t.files)
    BY <2>2, FS_AddElement DEF Fitting
  <2>7. \A q \in DOMAIN t.files : t.files[q] \in Seq(B) /\ Len(t.files[q]) <= MaxFileBytes
    BY <2>1, <2>2 DEF Fitting
  <2>8. /\ IsFiniteSet(DOMAIN s.handles) /\ Cardinality(DOMAIN s.handles) \in Nat
        /\ Cardinality(DOMAIN s.handles) < MaxOpen
    <3>1. IsFiniteSet(3 .. 3 + MaxOpen)
      BY FS_Interval, FileSystemAssumption
    <3>2. IsFiniteSet(DOMAIN s.handles) /\ Cardinality(DOMAIN s.handles) \in Nat
      BY <3>1, FS_Subset, FS_CardinalityType DEF Fitting
    <3> QED
      BY <1>3, <3>2, FileSystemAssumption DEF OpenRefused
  <2>9. fd \in (3 .. 3 + MaxOpen) \ DOMAIN s.handles
    BY <2>8, FreeDescriptorExists DEF Fitting
  <2>10. DOMAIN t.handles = DOMAIN s.handles \cup {fd}
    BY <1>3 DEF Assign
  <2> HIDE DEF fd
  <2>11. Cardinality(DOMAIN t.handles) = Cardinality(DOMAIN s.handles) + 1
    BY <2>8, <2>9, <2>10, FS_AddElement
  <2>12. DOMAIN t.handles \subseteq 3 .. 3 + MaxOpen
    BY <2>9, <2>10 DEF Fitting
  <2>13. Cardinality(DOMAIN t.handles) <= MaxOpen
    BY <2>8, <2>11, FileSystemAssumption
  <2>14. Fitting(t, P, B)
    BY <2>5, <2>6, <2>7, <2>12, <2>13 DEF Fitting
  <2> QED
    BY <2>14 DEF t
<1> HIDE DEF t
<1> QED
  BY <1>1, <1>2, <1>3 DEF t

(* What depends on the files and the set of descriptors alone. *)
LEMMA SameFilesFit ==
  ASSUME NEW P, NEW B, NEW s, Fitting(s, P, B), NEW t,
         t.files = s.files, DOMAIN t.handles \subseteq DOMAIN s.handles
  PROVE  Fitting(t, P, B)
<1>1. Sizes(t) = Sizes(s)
  BY DEF Sizes
<1>2. StagedBytes(t) = StagedBytes(s)
  BY <1>1 DEF StagedBytes
<1>3. Cardinality(DOMAIN t.handles) <= MaxOpen
  <2>1. IsFiniteSet(3 .. 3 + MaxOpen)
    BY FS_Interval, FileSystemAssumption
  <2>2. IsFiniteSet(DOMAIN s.handles)
    BY <2>1, FS_Subset DEF Fitting
  <2>3. /\ Cardinality(DOMAIN t.handles) <= Cardinality(DOMAIN s.handles)
        /\ IsFiniteSet(DOMAIN t.handles)
    BY <2>2, FS_Subset
  <2>4. Cardinality(DOMAIN t.handles) \in Nat /\ Cardinality(DOMAIN s.handles) \in Nat
    BY <2>2, <2>3, FS_CardinalityType
  <2> QED
    BY <2>3, <2>4, FileSystemAssumption DEF Fitting
<1> QED
  BY <1>2, <1>3 DEF Fitting

LEMMA ReadFileFits ==
  ASSUME NEW P, NEW B, NEW s, GoodFiles(s), Fitting(s, P, B), NEW fd, NEW maximum
  PROVE  LET t == ReadFile(s, fd, maximum).fs
         IN  Fitting(t, P, B) /\ t.files = s.files /\ t.dirty = s.dirty
<1> DEFINE t == ReadFile(s, fd, maximum).fs
<1>1. t.files = s.files /\ t.dirty = s.dirty /\ DOMAIN t.handles = DOMAIN s.handles
  BY DEF ReadFile, GoodFiles
<1> HIDE DEF t
<1>2. Fitting(t, P, B)
  BY <1>1, SameFilesFit
<1> QED
  BY <1>1, <1>2 DEF t

LEMMA CloseFileFits ==
  ASSUME NEW P, NEW B, NEW s, GoodFiles(s), Fitting(s, P, B), NEW fd
  PROVE  LET t == CloseFile(s, fd)
         IN  Fitting(t, P, B) /\ t.files = s.files /\ t.dirty = s.dirty
<1> DEFINE t == CloseFile(s, fd)
<1>1. t.files = s.files /\ t.dirty = s.dirty /\ DOMAIN t.handles = DOMAIN s.handles \ {fd}
  BY DEF CloseFile, Restrict, GoodFiles
<1> HIDE DEF t
<1>2. Fitting(t, P, B)
  BY <1>1, SameFilesFit
<1> QED
  BY <1>1, <1>2 DEF t

(* Overwriting gives a file that reaches to the end of the payload, or as  *)
(* far as before, or not quite as far: a position past the end of the file *)
(* closes the gap.                                                         *)
LEMMA OverwrittenFits ==
  ASSUME NEW B, NEW content \in Seq(B), NEW position \in Nat, NEW payload \in Seq(B)
  PROVE  LET end == position + Len(payload)
             longest == IF end > Len(content) THEN end ELSE Len(content)
         IN  /\ Overwritten(content, position, payload) \in Seq(B)
             /\ Len(Overwritten(content, position, payload)) <= longest
<1> DEFINE n == Len(content)
           m == Len(payload)
           upto == IF position < n THEN position ELSE n
           front == SubSeq(content, 1, upto)
           rest == SubSeq(content, position + m + 1, n)
<1>1. n \in Nat /\ m \in Nat /\ upto \in Nat /\ upto <= n /\ upto <= position
      /\ position + m + 1 \in Int
  OBVIOUS
<1>2. \A i \in 1 .. n : content[i] \in B
  OBVIOUS
<1>3. Overwritten(content, position, payload) = front \o payload \o rest
  BY DEF Overwritten, Clipped
<1>4. front \in Seq(B) /\ Len(front) = upto
  <2> HIDE DEF upto, n
  <2>1. \A i \in 1 .. upto : content[i] \in B
    BY <1>1, <1>2
  <2>2. 1 \in Int /\ upto \in Int
    BY <1>1
  <2>3. /\ front \in Seq(B)
        /\ Len(front) = IF 1 <= upto THEN upto - 1 + 1 ELSE 0
    BY <2>1, <2>2, SubSeqProperties
  <2> QED
    BY <1>1, <2>3
<1>5. rest \in Seq(B) /\ Len(rest) = IF position + m + 1 <= n THEN n - position - m ELSE 0
  <2> HIDE DEF n, m
  <2>1. \A i \in position + m + 1 .. n : content[i] \in B
    BY <1>1, <1>2
  <2>2. /\ rest \in Seq(B)
        /\ Len(rest) = IF position + m + 1 <= n THEN n - (position + m + 1) + 1 ELSE 0
    BY <1>1, <2>1, SubSeqProperties
  <2> QED
    BY <1>1, <2>2
<1> HIDE DEF front, rest
<1>6. /\ front \o payload \o rest \in Seq(B)
      /\ Len(front \o payload \o rest) = Len(front) + m + Len(rest)
  <2>1. front \o payload \in Seq(B) /\ Len(front \o payload) = Len(front) + m
    BY <1>4
  <2> HIDE DEF m
  <2> QED
    BY <1>5, <2>1
<1> HIDE DEF n, m, upto
<1>7. upto + m + Len(rest) <= (IF position + m > n THEN position + m ELSE n)
  BY <1>1, <1>5
<1> QED
  BY <1>3, <1>4, <1>6, <1>7 DEF n, m

LEMMA WriteFileFits ==
  ASSUME NEW P, NEW B, NEW s, GoodFiles(s), Fitting(s, P, B), NEW fd,
         NEW payload \in Seq(B)
  PROVE  LET t == WriteFile(s, fd, payload).fs
         IN  /\ Fitting(t, P, B)
             /\ DOMAIN t.files = DOMAIN s.files
             /\ \A q \in DOMAIN t.files \ t.dirty :
                   q \notin s.dirty /\ t.files[q] = s.files[q]
<1> DEFINE h == s.handles[fd]
           old == s.files[h.path]
           position == IF h.append THEN Len(old) ELSE h.position
           end == position + Len(payload)
           longest == IF end > Len(old) THEN end ELSE Len(old)
           content == Overwritten(old, position, payload)
           t == WriteFile(s, fd, payload).fs
<1>1. \/ t = s
      \/ /\ MayWrite(s, fd)
         /\ t.files = [s.files EXCEPT ![h.path] = content]
         /\ t.handles = [s.handles EXCEPT ![fd].position = end]
         /\ t.dirty = s.dirty \cup {h.path}
         /\ ~ (end > MaxFileBytes)
         /\ ~ (OtherBytes(s, h.path) + longest > MaxTotalBytes)
  BY DEF WriteFile
<1>2. CASE t = s
  <2> HIDE DEF t
  <2> QED
    BY <1>2 DEF t
<1>3. CASE /\ MayWrite(s, fd)
           /\ t.files = [s.files EXCEPT ![h.path] = content]
           /\ t.handles = [s.handles EXCEPT ![fd].position = end]
           /\ t.dirty = s.dirty \cup {h.path}
           /\ ~ (end > MaxFileBytes)
           /\ ~ (OtherBytes(s, h.path) + longest > MaxTotalBytes)
  <2> HIDE DEF t
  <2>1. h \in HandleOn(DOMAIN s.files) /\ fd \in DOMAIN s.handles
    BY <1>3 DEF MayWrite, GoodFiles
  <2>2. h.path \in DOMAIN s.files /\ h.position \in Nat
    BY <2>1 DEF HandleOn
  <2> HIDE DEF h
  <2>3. old \in Seq(B) /\ Len(old) \in Nat /\ Len(payload) \in Nat /\ Len(old) <= MaxFileBytes
    BY <2>2 DEF Fitting
  <2> HIDE DEF old
  <2>4. position \in Nat
    BY <2>2, <2>3
  <2> HIDE DEF position
  <2>5. content \in Seq(B) /\ Len(content) <= longest
    BY <2>3, <2>4, OverwrittenFits
  <2> HIDE DEF content
  <2>6. end \in Nat /\ longest \in Nat /\ longest <= MaxFileBytes /\ Len(content) \in Nat
    BY <1>3, <2>3, <2>4, <2>5, FileSystemAssumption
  <2> HIDE DEF end, longest
  <2>7. /\ DOMAIN t.files = DOMAIN s.files \cup {h.path} /\ DOMAIN t.files = DOMAIN s.files
        /\ t.files[h.path] = content
        /\ \A q \in DOMAIN s.files \ {h.path} : t.files[q] = s.files[q]
    BY <1>3, <2>2 DEF GoodFiles
  <2>8. /\ IsFiniteSet(DOMAIN s.files)
        /\ \A q \in DOMAIN s.files : Len(s.files[q]) \in Nat
    BY DEF Fitting
  <2>9. /\ StagedBytes(t) = OtherBytes(s, h.path) + Len(content)
        /\ OtherBytes(s, h.path) \in Int
    <3>1. Len(t.files[h.path]) \in Nat
      BY <2>6, <2>7
    <3> QED
      BY <2>7, <2>8, <3>1, StagedWithFile
  <2>10. StagedBytes(t) <= MaxTotalBytes
    BY <1>3, <2>5, <2>6, <2>9, FileSystemAssumption
  <2>11. \A q \in DOMAIN t.files : t.files[q] \in Seq(B) /\ Len(t.files[q]) <= MaxFileBytes
    <3>1. Len(content) <= MaxFileBytes
      BY <2>5, <2>6, FileSystemAssumption
    <3> QED
      BY <2>5, <2>7, <3>1 DEF Fitting
  <2>12. DOMAIN t.handles = DOMAIN s.handles
    BY <1>3
  <2>13. Fitting(t, P, B)
    BY <2>7, <2>10, <2>11, <2>12 DEF Fitting
  <2>14. \A q \in DOMAIN t.files \ t.dirty : q \notin s.dirty /\ t.files[q] = s.files[q]
    BY <1>3, <2>7
  <2> QED
    BY <2>7, <2>13, <2>14 DEF t
<1> HIDE DEF t
<1> QED
  BY <1>1, <1>2, <1>3 DEF t


(* A read gives bytes of the file. *)
LEMMA ReadFileGivesBytes ==
  ASSUME NEW P, NEW B, NEW s, GoodFiles(s), Fitting(s, P, B), NEW fd, MayRead(s, fd),
         NEW maximum \in Nat
  PROVE  ReadFile(s, fd, maximum).bytes \in Seq(B)
<1> DEFINE h == s.handles[fd]
           content == s.files[h.path]
           to == h.position + maximum
           end == IF to < Len(content) THEN to ELSE Len(content)
<1>1. h \in HandleOn(DOMAIN s.files)
  BY DEF MayRead, GoodFiles
<1>2. h.path \in DOMAIN s.files /\ h.position \in Nat
  BY <1>1 DEF HandleOn
<1>3. content \in Seq(B) /\ Len(content) \in Nat
  BY <1>2 DEF Fitting
<1>4. ReadFile(s, fd, maximum).bytes = SubSeq(content, h.position + 1, end)
  BY DEF ReadFile, Clipped
<1> HIDE DEF h, content
<1>5. end \in Int /\ end <= Len(content)
  BY <1>2, <1>3
<1> HIDE DEF end
<1>6. \A i \in h.position + 1 .. end : content[i] \in B
  <2>1. \A i \in h.position + 1 .. end : i \in 1 .. Len(content)
    BY <1>2, <1>3, <1>5
  <2> QED
    BY <1>3, <2>1, ElementOfSeq
<1>7. h.position + 1 \in Int
  BY <1>2
<1>8. SubSeq(content, h.position + 1, end) \in Seq(B)
  BY <1>5, <1>6, <1>7, SubSeqProperties
<1> QED
  BY <1>4, <1>8

(* The number a program gets back. *)
LEMMA FileResultsAreInt ==
  ASSUME NEW P, NEW B, NEW s, Fitting(s, P, B)
  PROVE  /\ \A p, flags, host, creatable : Open(s, p, flags, host, creatable).fd \in Int
         /\ \A fd : \A payload \in Seq(B) : WriteFile(s, fd, payload).count \in Int
<1>1. ASSUME NEW p, NEW flags, NEW host, NEW creatable
      PROVE  Open(s, p, flags, host, creatable).fd \in Int
  <2>1. CASE OpenRefused(s, flags)
    BY <2>1 DEF Open
  <2>2. CASE ~OpenRefused(s, flags)
    <3>1. Cardinality(DOMAIN s.handles) < MaxOpen
      <4>1. DOMAIN s.handles \subseteq 3 .. 3 + MaxOpen /\ IsFiniteSet(3 .. 3 + MaxOpen)
        BY FS_Interval, FileSystemAssumption DEF Fitting
      <4>2. Cardinality(DOMAIN s.handles) \in Nat
        BY <4>1, FS_Subset, FS_CardinalityType
      <4> QED
        BY <2>2, <4>2, FileSystemAssumption DEF OpenRefused
    <3>2. FreeDescriptor(s) \in 3 .. 3 + MaxOpen
      BY <3>1, FreeDescriptorExists DEF Fitting
    <3>3. FreeDescriptor(s) \in Int
      BY <3>2, FileSystemAssumption
    <3>4. Open(s, p, flags, host, creatable).fd \in {-1, FreeDescriptor(s)}
      BY DEF Open
    <3> QED
      BY <3>3, <3>4
  <2> QED
    BY <2>1, <2>2
<1>2. ASSUME NEW fd, NEW payload \in Seq(B)
      PROVE  WriteFile(s, fd, payload).count \in Int
  <2>1. WriteFile(s, fd, payload).count \in {-1, Len(payload)}
    BY DEF WriteFile
  <2> QED
    BY <2>1
<1> QED
  BY <1>1, <1>2
=============================================================================
