------------------------------ MODULE LockProofs ------------------------------
(***************************************************************************)
(* PartitionLock excludes when acquires do not overlap, for any processes, *)
(* workers and pid reuse.  The invariant says what each step of an acquire *)
(* knows: past the pid test nobody is working, and the file being written  *)
(* is the one the path names.  Where acquires do overlap, a second one     *)
(* says who answers for the file that is there.                            *)
(***************************************************************************)
EXTENDS PartitionLock, FiniteSetTheorems, FunctionTheorems, TLAPS

Busy(w) == pc[w] # "out"

OneAcquires == \A v, w \in Acquiring : v = w

WorkerIsNamed ==
    \A w \in Working : file # NoFile /\ content[file] = ProcOf[w]

PastTheTest ==
    \A w \in Workers : pc[w] \in {"unlink", "open", "write"} => Working = {}

FileBeingWritten ==
    /\ \A w \in Workers : fd[w] # NoFile => pc[w] = "write"
    /\ \A w \in Workers :
          pc[w] = "write" =>
             fd[w] = file /\ file # NoFile /\ content[file] = "empty"

BusyRun == \A w \in Workers : Busy(w) => Running(w)

LockInv ==
    /\ TypeOK
    /\ BusyRun
    /\ OneAcquires
    /\ WorkerIsNamed
    /\ PastTheTest
    /\ FileBeingWritten
    /\ MutualExclusion

\* There is an inode for a new file when no worker has one open.
LEMMA UnusedInode ==
    ASSUME TypeOK, file = NoFile, \A w \in Workers : fd[w] = NoFile
    PROVE  (CHOOSE u \in Unused : TRUE) \in Inodes /\ NoFile \notin Inodes
<1>1. Cardinality(Workers) \in Nat
  BY FS_CardinalityType, LockAssumption
<1>2. 1 \in Unused /\ Unused \subseteq Inodes
  BY <1>1 DEF Unused, Inodes, NoFile
<1>3. (CHOOSE u \in Unused : TRUE) \in Unused
  BY <1>2
<1>4. NoFile \notin Inodes
  BY <1>1 DEF Inodes, NoFile
<1> QED  BY <1>2, <1>3, <1>4

LEMMA LockInit == Init => LockInv
BY LockAssumption DEF Init, LockInv, TypeOK, PidStates, BusyRun, Busy, OneAcquires, Acquiring,
   WorkerIsNamed, Working, PastTheTest, FileBeingWritten, MutualExclusion

\* The invariant of every step: it holds as long as acquires have not overlapped.
UnracedInv == ~raced => LockInv

LEMMA LockStep == UnracedInv /\ [Next]_vars => UnracedInv'
<1> SUFFICES ASSUME UnracedInv, [Next]_vars, ~raced' PROVE LockInv'
  BY DEF UnracedInv
<1>0. ~raced
  BY DEF Next, Step, Start, Stop, Begin, Read, Unlink, Open, Write, Release, vars
<1> LockInv
  BY <1>0 DEF UnracedInv
<1> USE LockAssumption DEF LockInv
<1>1. ASSUME NEW p \in Procs, Start(p) PROVE LockInv'
  BY <1>1 DEF Start, TypeOK, PidStates, BusyRun, Busy, Running, OneAcquires, Acquiring,
     WorkerIsNamed, Working, PastTheTest, FileBeingWritten, MutualExclusion
<1>2. ASSUME NEW p \in Procs, Stop(p) PROVE LockInv'
  <2>1. \A w \in Workers : pc'[w] = IF ProcOf[w] = p THEN "out" ELSE pc[w]
    BY <1>2 DEF Stop
  <2>2. TypeOK'
    BY <1>2 DEF Stop, TypeOK, PidStates
  <2>3. BusyRun'
    BY <1>2, <2>1 DEF Stop, TypeOK, BusyRun, Busy, Running
  <2>4. Acquiring' \subseteq Acquiring /\ Working' \subseteq Working
    BY <2>1 DEF Acquiring, Working
  <2>5. OneAcquires' /\ WorkerIsNamed' /\ MutualExclusion'
    BY <1>2, <2>4 DEF Stop, OneAcquires, WorkerIsNamed, MutualExclusion
  <2>6. PastTheTest'
    BY <2>1, <2>4 DEF PastTheTest
  <2>7. FileBeingWritten'
    BY <1>2, <2>1 DEF Stop, FileBeingWritten
  <2> QED  BY <2>2, <2>3, <2>5, <2>6, <2>7
<1>3. ASSUME NEW w \in Workers, Running(w), Begin(w) PROVE LockInv'
  <2>1. Acquiring = {}
    BY <1>3, <1>0 DEF Begin
  <2>2. \A v \in Workers : pc'[v] = IF v = w THEN (IF file = NoFile THEN "open" ELSE "read")
                                    ELSE pc[v]
    BY <1>3 DEF Begin, GoTo, TypeOK
  <2>3. file = NoFile => Working = {}
    BY DEF WorkerIsNamed
  <2>4. Working' = Working
    BY <1>3, <2>2 DEF Begin, Working
  <2>5. TypeOK' /\ BusyRun'
    BY <1>3 DEF Begin, GoTo, TypeOK, BusyRun, Busy, Running
  <2>6. Acquiring' = {w}
    BY <2>1, <2>2 DEF Acquiring
  <2>7. OneAcquires' /\ WorkerIsNamed' /\ MutualExclusion'
    BY <1>3, <2>4, <2>6 DEF Begin, OneAcquires, WorkerIsNamed, MutualExclusion
  <2>8. PastTheTest'
    BY <2>1, <2>2, <2>3, <2>4 DEF PastTheTest, Acquiring
  <2>9. FileBeingWritten'
    BY <1>3, <2>2 DEF Begin, FileBeingWritten
  <2> QED  BY <2>5, <2>7, <2>8, <2>9
<1>4. ASSUME NEW w \in Workers, Running(w), Read(w) PROVE LockInv'
  <2>1. w \in Acquiring
    BY <1>4 DEF Read, Acquiring
  <2>2. \A v \in Workers \ {w} : v \notin Acquiring /\ pc'[v] = pc[v]
    BY <1>4, <2>1 DEF Read, GoTo, TypeOK, OneAcquires
  <2>3. pc'[w] \in {"out", "unlink"} /\ Working' = Working
    BY <1>4, <2>2 DEF Read, GoTo, TypeOK, Working
  <2>4. pc'[w] = "unlink" => Working = {}
    <3>1. SUFFICES ASSUME pc'[w] = "unlink", NEW v \in Working PROVE FALSE
      OBVIOUS
    <3>2. file # NoFile /\ ~PidExists(content[file])
      BY <1>4, <3>1 DEF Read, GoTo, TypeOK
    <3>3. content[file] = ProcOf[v] /\ Running(v) /\ ProcOf[v] \in Procs
      BY DEF WorkerIsNamed, Working, BusyRun, Busy
    <3> QED  BY <3>2, <3>3 DEF PidExists, Running
  <2>5. TypeOK' /\ BusyRun'
    BY <1>4 DEF Read, GoTo, TypeOK, BusyRun, Busy, Running
  <2>6. Acquiring' \subseteq {w}
    BY <2>2 DEF Acquiring
  <2>7. OneAcquires' /\ WorkerIsNamed' /\ MutualExclusion'
    BY <1>4, <2>3, <2>6 DEF Read, OneAcquires, WorkerIsNamed, MutualExclusion
  <2>8. PastTheTest'
    BY <2>2, <2>3, <2>4 DEF PastTheTest, Acquiring
  <2>9. FileBeingWritten'
    BY <1>4, <2>2, <2>3 DEF Read, FileBeingWritten, Acquiring
  <2> QED  BY <2>5, <2>7, <2>8, <2>9
<1>5. ASSUME NEW w \in Workers, Running(w), Unlink(w) PROVE LockInv'
  <2>1. w \in Acquiring /\ Working = {}
    BY <1>5 DEF Unlink, Acquiring, PastTheTest
  <2>2. \A v \in Workers \ {w} : v \notin Acquiring /\ pc'[v] = pc[v]
    BY <1>5, <2>1 DEF Unlink, GoTo, TypeOK, OneAcquires
  <2>3. pc'[w] = "open" /\ Working' = {}
    BY <1>5, <2>1, <2>2 DEF Unlink, GoTo, TypeOK, Working
  <2>4. TypeOK' /\ BusyRun'
    BY <1>5 DEF Unlink, GoTo, TypeOK, BusyRun, Busy, Running
  <2>5. Acquiring' \subseteq {w}
    BY <2>2 DEF Acquiring
  <2>6. OneAcquires' /\ WorkerIsNamed' /\ MutualExclusion' /\ PastTheTest'
    BY <2>3, <2>5 DEF OneAcquires, WorkerIsNamed, MutualExclusion, PastTheTest
  <2>7. FileBeingWritten'
    BY <1>5, <2>2, <2>3 DEF Unlink, FileBeingWritten, Acquiring
  <2> QED  BY <2>4, <2>6, <2>7
<1>6. ASSUME NEW w \in Workers, Running(w), Open(w) PROVE LockInv'
  <2>1. w \in Acquiring /\ Working = {}
    BY <1>6 DEF Open, Acquiring, PastTheTest
  <2>2. \A v \in Workers \ {w} : v \notin Acquiring /\ pc'[v] = pc[v]
    BY <1>6, <2>1 DEF Open, GoTo, TypeOK, OneAcquires
  <2>3. pc'[w] = "write" /\ Working' = {}
    BY <1>6, <2>1, <2>2 DEF Open, GoTo, TypeOK, Working
  <2>4. \A v \in Workers : fd[v] = NoFile
    BY <1>6, <2>2 DEF Open, FileBeingWritten, Acquiring
  <2>5. PICK i \in Inodes : /\ file' = i
                            /\ content' = [content EXCEPT ![i] = "empty"]
                            /\ fd' = [fd EXCEPT ![w] = i]
                            /\ i # NoFile
    <3>1. CASE file = NoFile
      BY <1>6, <2>4, <3>1, UnusedInode DEF Open
    <3>2. CASE file # NoFile
      BY <1>6, <3>2 DEF Open, TypeOK
    <3> QED  BY <3>1, <3>2
  <2>6. TypeOK'
    <3>1. /\ pc' = [pc EXCEPT ![w] = "write"] /\ pid' = pid
          /\ raced' = raced /\ reused' = reused
      BY <1>6 DEF Open, GoTo
    <3> QED  BY <2>5, <3>1 DEF TypeOK
  <2>7. BusyRun'
    BY <1>6, <2>2 DEF Open, BusyRun, Busy, Running
  <2>8. Acquiring' \subseteq {w}
    BY <2>2 DEF Acquiring
  <2>9. OneAcquires' /\ WorkerIsNamed' /\ MutualExclusion' /\ PastTheTest'
    BY <2>3, <2>8 DEF OneAcquires, WorkerIsNamed, MutualExclusion, PastTheTest
  <2>10. FileBeingWritten'
    BY <2>2, <2>3, <2>4, <2>5 DEF TypeOK, FileBeingWritten, Acquiring
  <2> QED  BY <2>6, <2>7, <2>9, <2>10
<1>7. ASSUME NEW w \in Workers, Running(w), Write(w) PROVE LockInv'
  <2>1. w \in Acquiring /\ Working = {} /\ fd[w] = file /\ file # NoFile
    BY <1>7 DEF Write, Acquiring, PastTheTest, FileBeingWritten
  <2>2. \A v \in Workers \ {w} : v \notin Acquiring /\ pc'[v] = pc[v]
    BY <1>7, <2>1 DEF Write, GoTo, TypeOK, OneAcquires
  <2>3. content' = [content EXCEPT ![file] = ProcOf[w]]
    BY <1>7, <2>1 DEF Write, FileBeingWritten
  <2>4. pc'[w] = "in" /\ Working' = {w} /\ Acquiring' = {}
    BY <1>7, <2>1, <2>2 DEF Write, GoTo, TypeOK, Working, Acquiring
  <2>5. TypeOK'
    BY <1>7, <2>1, <2>3 DEF Write, GoTo, TypeOK
  <2>6. BusyRun'
    BY <1>7, <2>2 DEF Write, BusyRun, Busy, Running
  <2>7. WorkerIsNamed'
    BY <1>7, <2>1, <2>3, <2>4 DEF Write, TypeOK, WorkerIsNamed
  <2>8. OneAcquires' /\ MutualExclusion' /\ PastTheTest'
    BY <2>4 DEF OneAcquires, MutualExclusion, PastTheTest, Acquiring
  <2>9. FileBeingWritten'
    BY <1>7, <2>2, <2>4 DEF Write, TypeOK, FileBeingWritten, Acquiring
  <2> QED  BY <2>5, <2>6, <2>7, <2>8, <2>9
<1>8. ASSUME NEW w \in Workers, Running(w), Release(w) PROVE LockInv'
  <2>1. Working = {w}
    BY <1>8 DEF Release, Working, MutualExclusion
  <2>2. \A v \in Workers : pc'[v] = IF v = w THEN "out" ELSE pc[v]
    BY <1>8 DEF Release, GoTo, TypeOK
  <2>3. Working' = {} /\ Acquiring' = Acquiring
    BY <1>8, <2>1, <2>2 DEF Release, Working, Acquiring
  <2>4. TypeOK' /\ BusyRun'
    BY <1>8 DEF Release, GoTo, TypeOK, BusyRun, Busy, Running
  <2>5. OneAcquires' /\ WorkerIsNamed' /\ MutualExclusion' /\ PastTheTest'
    BY <2>3 DEF OneAcquires, WorkerIsNamed, MutualExclusion, PastTheTest
  <2>6. \A v \in Workers : pc[v] # "write"
    BY <2>1 DEF PastTheTest
  <2>7. FileBeingWritten'
    BY <1>8, <2>2, <2>6 DEF Release, FileBeingWritten
  <2> QED  BY <2>4, <2>5, <2>7
<1>9. CASE UNCHANGED vars
  BY <1>9 DEF vars, TypeOK, BusyRun, Busy, Running, OneAcquires, Acquiring,
     WorkerIsNamed, Working, PastTheTest, FileBeingWritten, MutualExclusion
<1> QED
  BY <1>1, <1>2, <1>3, <1>4, <1>5, <1>6, <1>7, <1>8, <1>9 DEF Next, Step

\* As long as acquires of the partition have not overlapped no two workers are on
\* it, whatever processes release, are killed and are started under old pids.
THEOREM LockExcludesUnraced == Spec => []SerialExclusion
<1>1. Init => UnracedInv
  BY LockInit DEF UnracedInv
<1>2. UnracedInv /\ [Next]_vars => UnracedInv'
  BY LockStep
<1>3. UnracedInv => SerialExclusion
  BY DEF UnracedInv, LockInv, MutualExclusion, SerialExclusion
<1> QED  BY <1>1, <1>2, <1>3, PTL DEF Spec
------------------------------------------------------------------------------
(* Where acquires race.                                                     *)

\* There is always an inode that no worker has open: there is one more of them
\* than workers.
LEMMA InodesSuffice ==
    ASSUME TypeOK, file = NoFile
    PROVE  (CHOOSE u \in Unused : TRUE) \in Inodes
<1> DEFINE T == {fd[w] : w \in Workers}
<1>1. fd \in Surjection(Workers, T)
  BY DEF TypeOK, Surjection
<1>2. IsFiniteSet(T) /\ Cardinality(T) <= Cardinality(Workers)
  BY <1>1, FS_Surjection, LockAssumption
<1>3. Cardinality(Workers) \in Nat /\ Cardinality(T) \in Nat
  BY <1>2, FS_CardinalityType, LockAssumption
<1>4. Cardinality(Inodes) = Cardinality(Workers) + 1 /\ NoFile \notin Inodes
  BY <1>3, FS_Interval DEF Inodes, NoFile
<1>5. Inodes \subseteq T => Cardinality(Inodes) <= Cardinality(T)
  BY <1>2, FS_Subset
<1>6. ~(Inodes \subseteq T)
  BY <1>2, <1>3, <1>4, <1>5
<1>7. \E u \in Inodes : u \notin T
  BY <1>6
<1>8. Unused # {}
  BY <1>4, <1>7 DEF Unused
<1> QED  BY <1>8 DEF Unused

LEMMA TypeStep == TypeOK /\ [Next]_vars => TypeOK'
<1> SUFFICES ASSUME TypeOK, [Next]_vars PROVE TypeOK'
  OBVIOUS
<1> USE LockAssumption
<1>1. ASSUME NEW p \in Procs, Start(p) PROVE TypeOK'
  BY <1>1 DEF Start, TypeOK, PidStates
<1>2. ASSUME NEW p \in Procs, Stop(p) PROVE TypeOK'
  BY <1>2 DEF Stop, TypeOK, PidStates
<1>3. ASSUME NEW w \in Workers, Begin(w) \/ Read(w) \/ Unlink(w) \/ Release(w)
      PROVE  TypeOK'
  BY <1>3 DEF Begin, Read, Unlink, Release, GoTo, TypeOK
<1>4. ASSUME NEW w \in Workers, Open(w) PROVE TypeOK'
  <2>1. PICK i \in Inodes : /\ file' = i
                            /\ content' = [content EXCEPT ![i] = "empty"]
                            /\ fd' = [fd EXCEPT ![w] = i]
    <3>1. CASE file = NoFile
      BY <1>4, <3>1, InodesSuffice DEF Open
    <3>2. CASE file # NoFile
      BY <1>4, <3>2 DEF Open, TypeOK
    <3> QED  BY <3>1, <3>2
  <2>2. pc' = [pc EXCEPT ![w] = "write"] /\ UNCHANGED <<pid, raced, reused>>
    BY <1>4 DEF Open, GoTo
  <2> QED  BY <2>1, <2>2 DEF TypeOK
<1>5. ASSUME NEW w \in Workers, Write(w) PROVE TypeOK'
  <2>1. PICK c \in {ProcOf[w], "garbled"} : content' = [content EXCEPT ![fd[w]] = c]
    BY <1>5 DEF Write
  <2>2. content' \in [Inodes -> Procs \cup {"empty", "garbled"}]
    BY <2>1 DEF TypeOK
  <2>3. /\ pc' = [pc EXCEPT ![w] = "in"] /\ fd' = [fd EXCEPT ![w] = NoFile]
        /\ UNCHANGED <<file, pid, raced, reused>>
    BY <1>5 DEF Write, GoTo
  <2> QED  BY <2>2, <2>3 DEF TypeOK
<1>6. CASE UNCHANGED vars
  BY <1>6 DEF vars, TypeOK
<1> QED  BY <1>1, <1>2, <1>3, <1>4, <1>5, <1>6 DEF Next, Step

\* A file has somebody who will remove it, or had one who was killed; the pid in
\* it is that of a worker who is in, or of a killed process.
Answerable ==
    file # NoFile =>
        /\ \/ \E p \in Procs : pid[p] = "killed"
           \/ \E w \in Workers : pc[w] \in {"write", "in"}
        /\ \A q \in Procs : content[file] = q =>
              \/ pid[q] = "killed"
              \/ \E w \in Workers : pc[w] = "in" /\ ProcOf[w] = q

AnswerInv == ~reused => Answerable

LEMMA AnswerStep == TypeOK /\ AnswerInv /\ [Next]_vars => AnswerInv'
<1> SUFFICES ASSUME TypeOK, AnswerInv, [Next]_vars, ~reused', file' # NoFile
             PROVE  /\ \/ \E p \in Procs : pid'[p] = "killed"
                       \/ \E w \in Workers : pc'[w] \in {"write", "in"}
                    /\ \A q \in Procs : content'[file'] = q =>
                          \/ pid'[q] = "killed"
                          \/ \E w \in Workers : pc'[w] = "in" /\ ProcOf[w] = q
  BY DEF AnswerInv, Answerable
<1> DEFINE Kept == /\ \/ \E p \in Procs : pid'[p] = "killed"
                      \/ \E w \in Workers : pc'[w] \in {"write", "in"}
                   /\ \A q \in Procs : content'[file'] = q =>
                         \/ pid'[q] = "killed"
                         \/ \E w \in Workers : pc'[w] = "in" /\ ProcOf[w] = q
<1> USE LockAssumption
<1>0. ~reused
  BY DEF Next, Step, Start, Stop, Begin, Read, Unlink, Open, Write, Release, vars
<1>a. file # NoFile =>
        /\ \/ \E p \in Procs : pid[p] = "killed"
           \/ \E w \in Workers : pc[w] \in {"write", "in"}
        /\ \A q \in Procs : content[file] = q =>
              \/ pid[q] = "killed"
              \/ \E w \in Workers : pc[w] = "in" /\ ProcOf[w] = q
  BY <1>0 DEF AnswerInv, Answerable
<1>1. ASSUME NEW p \in Procs, Start(p) PROVE Kept
  <2>1. \A q \in Procs : pid[q] = "killed" => pid'[q] = "killed"
    BY <1>1 DEF Start, TypeOK
  <2>2. UNCHANGED <<file, content, pc>>
    BY <1>1 DEF Start
  <2> QED  BY <1>a, <2>1, <2>2
<1>2. ASSUME NEW p \in Procs, Stop(p) PROVE Kept
  <2>1. /\ \A w \in Workers : ProcOf[w] # p => pc'[w] = pc[w]
        /\ UNCHANGED <<file, content>>
    BY <1>2 DEF Stop
  <2>2. \A q \in Procs : pid[q] = "killed" => pid'[q] = "killed"
    BY <1>2 DEF Stop, TypeOK
  <2>3. \A w \in Workers : ProcOf[w] = p /\ pc[w] \in {"write", "in"} => pid'[p] = "killed"
    BY <1>2 DEF Stop, TypeOK, Acquiring, Working
  <2>4. \/ \E q \in Procs : pid'[q] = "killed"
        \/ \E w \in Workers : pc'[w] \in {"write", "in"}
    BY <1>a, <2>1, <2>2, <2>3
  <2>5. ASSUME NEW q \in Procs, content'[file'] = q
        PROVE  \/ pid'[q] = "killed"
               \/ \E w \in Workers : pc'[w] = "in" /\ ProcOf[w] = q
    <3>1. \/ pid[q] = "killed"
          \/ \E w \in Workers : pc[w] = "in" /\ ProcOf[w] = q
      BY <1>a, <2>1, <2>5
    <3> QED  BY <2>1, <2>2, <2>3, <3>1
  <2> QED  BY <2>4, <2>5
<1>3. ASSUME NEW w \in Workers, Begin(w) \/ Read(w) PROVE Kept
  <2>1. UNCHANGED <<file, content, pid>>
    BY <1>3 DEF Begin, Read
  <2>2. \A v \in Workers : pc[v] \in {"write", "in"} => pc'[v] = pc[v]
    BY <1>3 DEF Begin, Read, GoTo, TypeOK
  <2> QED  BY <1>a, <2>1, <2>2
<1>4. ASSUME NEW w \in Workers, Unlink(w) \/ Release(w) PROVE Kept
  BY <1>4 DEF Unlink, Release
<1>5. ASSUME NEW w \in Workers, Open(w) PROVE Kept
  <2>1. pc'[w] = "write"
    BY <1>5 DEF Open, GoTo, TypeOK
  <2>2. file' \in Inodes /\ content' = [content EXCEPT ![file'] = "empty"]
    <3>1. CASE file = NoFile
      BY <1>5, <3>1, InodesSuffice DEF Open
    <3>2. CASE file # NoFile
      BY <1>5, <3>2 DEF Open, TypeOK
    <3> QED  BY <3>1, <3>2
  <2>3. content'[file'] = "empty"
    BY <2>2 DEF TypeOK
  <2> QED  BY <2>1, <2>3
<1>6. ASSUME NEW w \in Workers, Write(w) PROVE Kept
  <2>1. PICK c \in {ProcOf[w], "garbled"} : content' = [content EXCEPT ![fd[w]] = c]
    BY <1>6 DEF Write
  <2>2. /\ pc'[w] = "in" /\ UNCHANGED <<file, pid>>
        /\ \A v \in Workers : v # w => pc'[v] = pc[v]
    BY <1>6 DEF Write, GoTo, TypeOK
  <2>3. content'[file] = content[file] \/ content'[file] = c
    BY <2>1, <2>2 DEF TypeOK
  <2>4. pc[w] = "write"
    BY <1>6 DEF Write
  <2>5. ASSUME NEW q \in Procs, content'[file'] = q
        PROVE  \/ pid'[q] = "killed"
               \/ \E v \in Workers : pc'[v] = "in" /\ ProcOf[v] = q
    <3>1. CASE content'[file] = c
      BY <2>1, <2>2, <2>5, <3>1
    <3>2. CASE content'[file] = content[file]
      BY <1>a, <2>2, <2>4, <2>5, <3>2
    <3> QED  BY <2>3, <3>1, <3>2
  <2> QED  BY <2>2, <2>5
<1>7. CASE UNCHANGED vars
  BY <1>a, <1>7 DEF vars
<1> QED
  BY <1>1, <1>2, <1>3, <1>4, <1>5, <1>6, <1>7 DEF Next, Step

\* Every reachable lock, worker and process is well formed, raced or not.
THEOREM TypeCorrect == Spec => []TypeOK
<1>1. Init => TypeOK
  BY LockInit DEF LockInv
<1> QED  BY <1>1, TypeStep, PTL DEF Spec

\* A lock file that outlives everybody who was on the partition was left by a
\* killed process and names none that runs, however acquires, releases and kills
\* interleaved, unless the pid of a killed process was given away.
THEOREM FilesAreLeftByTheKilled == Spec => []LeftByTheKilled
<1>1. Init => TypeOK /\ AnswerInv
  BY LockInit DEF LockInv, Init, AnswerInv, Answerable
<1>2. TypeOK /\ AnswerInv => LeftByTheKilled
  <2> SUFFICES ASSUME TypeOK, Answerable, file # NoFile, Acquiring \cup Working = {}
               PROVE  /\ \E p \in Procs : pid[p] = "killed"
                      /\ ~PidExists(content[file])
    BY DEF AnswerInv, LeftByTheKilled
  <2>1. \A w \in Workers : pc[w] \notin {"write", "in"}
    BY DEF Acquiring, Working
  <2> QED  BY <2>1 DEF Answerable, PidExists
<1> QED  BY <1>1, <1>2, TypeStep, AnswerStep, PTL DEF Spec

\* The part of StaleLockRecovered that needs no fairness: a worker is turned away
\* only while another is on the partition, or because the file it saw went away
\* under its hands.  What a killed process left turns nobody away, unless its pid
\* was given to one that runs.
THEOREM StaleLocksTurnNobodyAway ==
    Spec => [][\A w \in Workers :
                 Read(w) /\ pc'[w] = "out" => file = NoFile \/ Working # {} \/ reused]_vars
<1> DEFINE P == \A w \in Workers :
                  Read(w) /\ pc'[w] = "out" => file = NoFile \/ Working # {} \/ reused
<1>1. Init => TypeOK /\ AnswerInv
  BY LockInit DEF LockInv, Init, AnswerInv, Answerable
<1>2. ASSUME TypeOK, AnswerInv, NEW w \in Workers, Read(w), pc'[w] = "out"
      PROVE  file = NoFile \/ Working # {} \/ reused
  <2> SUFFICES ASSUME file # NoFile, ~reused PROVE Working # {}
    OBVIOUS
  <2>1. PidExists(content[file])
    BY <1>2 DEF Read, GoTo, TypeOK
  <2>2. content[file] \in Procs /\ pid[content[file]] = "ours"
    BY <2>1 DEF PidExists
  <2>3. \E v \in Workers : pc[v] = "in" /\ ProcOf[v] = content[file]
    BY <1>2, <2>2 DEF AnswerInv, Answerable
  <2> QED  BY <2>3 DEF Working
<1>3. TypeOK /\ AnswerInv /\ [Next]_vars => [P]_vars
  BY <1>2
<1> HIDE DEF P
<1>4. Spec => [][P]_vars
  BY <1>1, <1>3, TypeStep, AnswerStep, PTL DEF Spec
<1> QED  BY <1>4 DEF P
==============================================================================
