---------------------------- MODULE PartitionLock ----------------------------
(***************************************************************************)
(* The lock file of one partition, data/concurrent_acquisition.py: workers *)
(* of several processes (a pool of threads each) acquire it, download the  *)
(* month and release it, each step of acquire a system call of its own     *)
(* between which the others run, and processes are killed at any moment.   *)
(*                                                                         *)
(* POSIX files: a file that is unlinked while open goes on without a name, *)
(* so a worker writes to the file it opened, not to the one at the path.   *)
(***************************************************************************)
EXTENDS Naturals, FiniteSets

CONSTANTS
    Procs,     \* process ids
    Workers,   \* threads that may want this partition
    ProcOf     \* the process of each

ASSUME LockAssumption ==
    /\ ProcOf \in [Workers -> Procs]
    /\ IsFiniteSet(Workers)
    /\ "empty" \notin Procs /\ "garbled" \notin Procs

NoFile == 0
Inodes == 1 .. Cardinality(Workers) + 1

VARIABLES
    file,      \* the inode the lock path names, or NoFile
    content,   \* of each inode: a pid, "empty" or "garbled"
    pc,        \* what each worker does next
    fd,        \* the inode it has open for writing, or NoFile
    pid,       \* whose each pid is
    raced,     \* bookkeeping: two acquires of this partition have overlapped
    reused     \* bookkeeping: a process got the pid of one that was killed

vars == <<file, content, pc, fd, pid, raced, reused>>

PidStates == {"new", "ours", "exited", "killed"}

Init ==
    /\ file = NoFile
    /\ content = [i \in Inodes |-> "empty"]
    /\ pc = [w \in Workers |-> "out"]
    /\ fd = [w \in Workers |-> NoFile]
    /\ pid = [p \in Procs |-> "new"]
    /\ raced = FALSE /\ reused = FALSE

TypeOK ==
    /\ file \in Inodes \cup {NoFile}
    /\ content \in [Inodes -> Procs \cup {"empty", "garbled"}]
    /\ pc \in [Workers -> {"out", "read", "unlink", "open", "write", "in"}]
    /\ fd \in [Workers -> Inodes \cup {NoFile}]
    /\ pid \in [Procs -> PidStates]
    /\ raced \in BOOLEAN /\ reused \in BOOLEAN

Running(w)  == pid[ProcOf[w]] = "ours"
Acquiring   == {w \in Workers : pc[w] \in {"read", "unlink", "open", "write"}}
Working     == {w \in Workers : pc[w] = "in"}

GoTo(w, to) == pc' = [pc EXCEPT ![w] = to]

------------------------------------------------------------------------------
(* Processes (external) *)

\* Under a pid of its own or that of one that ended: a container that is started
\* again counts from 1 again.
Start(p) ==
    /\ pid[p] # "ours"
    /\ pid' = [pid EXCEPT ![p] = "ours"]
    /\ reused' = (reused \/ pid[p] = "killed")
    /\ UNCHANGED <<file, content, pc, fd, raced>>

\* A process ends when its workers are done with the partition, or is killed
\* with one of them in the middle.
Stop(p) ==
    LET its == {w \in Workers : ProcOf[w] = p}
    IN  /\ pid[p] = "ours"
        /\ pid' = [pid EXCEPT ![p] = IF its \cap (Acquiring \cup Working) = {}
                                     THEN "exited" ELSE "killed"]
        /\ pc' = [w \in Workers |-> IF w \in its THEN "out" ELSE pc[w]]
        /\ fd' = [w \in Workers |-> IF w \in its THEN NoFile ELSE fd[w]]
        /\ UNCHANGED <<file, content, raced, reused>>

------------------------------------------------------------------------------
(* acquire *)

\* Mutant: any pid in the file counts as a running process.
PidRecorded(q) == q \in Procs

PidExists(q) == q \in Procs /\ pid[q] = "ours"

\* path.exists()
Begin(w) ==
    /\ pc[w] = "out"
    /\ raced' = (raced \/ Acquiring # {})
    /\ GoTo(w, IF file = NoFile THEN "open" ELSE "read")
    /\ UNCHANGED <<file, content, fd, pid, reused>>

\* Mutant: a lock is taken over without asking whose it is.
ReadOnlyWhetherItIsThere(w) ==
    /\ pc[w] = "read"
    /\ GoTo(w, IF file = NoFile THEN "out" ELSE "unlink")
    /\ UNCHANGED <<file, content, fd, pid, raced, reused>>

\* read_text and pid_exists.  The file may be gone (FileNotFoundError, the
\* partition fails), be nothing json reads, or name a running process.
Read(w) ==
    /\ pc[w] = "read"
    /\ GoTo(w, IF file = NoFile \/ PidExists(content[file]) THEN "out" ELSE "unlink")
    /\ UNCHANGED <<file, content, fd, pid, raced, reused>>

\* Whatever the path names by now.
Unlink(w) ==
    /\ pc[w] = "unlink"
    /\ file' = NoFile
    /\ GoTo(w, "open")
    /\ UNCHANGED <<content, fd, pid, raced, reused>>

Unused == {i \in Inodes : i # file /\ \A w \in Workers : fd[w] # i}

\* write_text opens: the file at the path is truncated, or a new one made.
Open(w) ==
    /\ pc[w] = "open"
    /\ LET i == IF file = NoFile THEN CHOOSE u \in Unused : TRUE ELSE file
       IN  /\ file' = i
           /\ content' = [content EXCEPT ![i] = "empty"]
           /\ fd' = [fd EXCEPT ![w] = i]
    /\ GoTo(w, "write")
    /\ UNCHANGED <<pid, raced, reused>>

\* write_text writes.  Over what another wrote since the truncation, of another
\* length, the two are mixed.
Write(w) ==
    /\ pc[w] = "write"
    /\ \E c \in {ProcOf[w]} \cup (IF content[fd[w]] = "empty" THEN {} ELSE {"garbled"}) :
           content' = [content EXCEPT ![fd[w]] = c]
    /\ fd' = [fd EXCEPT ![w] = NoFile]
    /\ GoTo(w, "in")
    /\ UNCHANGED <<file, pid, raced, reused>>

------------------------------------------------------------------------------
\* Mutant: a lock that names another process is left alone.
ReleaseOwn(w) ==
    /\ pc[w] = "in"
    /\ file' = IF file # NoFile /\ content[file] = ProcOf[w] THEN NoFile ELSE file
    /\ GoTo(w, "out")
    /\ UNCHANGED <<content, fd, pid, raced, reused>>

\* release: the path is unlinked, whosever it is.
Release(w) ==
    /\ pc[w] = "in"
    /\ file' = NoFile
    /\ GoTo(w, "out")
    /\ UNCHANGED <<content, fd, pid, raced, reused>>

Step(w) == Read(w) \/ Unlink(w) \/ Open(w) \/ Write(w) \/ Release(w)

Next ==
    \/ \E p \in Procs : Start(p) \/ Stop(p)
    \/ \E w \in Workers : Running(w) /\ (Begin(w) \/ Step(w))

\* The threads of a running process run; nothing makes them ask for the
\* partition.
Fairness == \A w \in Workers : WF_vars(Running(w) /\ Step(w))

Spec == Init /\ [][Next]_vars /\ Fairness

------------------------------------------------------------------------------
(* Properties *)

\* No two workers are on the partition as long as acquires of it have not
\* overlapped, whenever releases, kills and starts under old pids fall.
SerialExclusion == ~raced => \A v, w \in Working : v = w

\* Where acquires race the lock may let two in, but their releases leave no
\* file: one that is there when nobody is busy was left by a killed process, and
\* unless its pid was given away the next acquire takes it over.
LeftByTheKilled ==
    file # NoFile /\ Acquiring \cup Working = {} /\ ~reused =>
        /\ \E p \in Procs : pid[p] = "killed"
        /\ ~PidExists(content[file])

\* GATE_C3F_ACQUISITION_RELIABILITY_REPORT.md:34, "stale-lock recovery": once
\* processes are killed no more, the partition is worked on again and again if
\* just one worker goes on asking for it, whatever the killed ones left, unless
\* one of their pids was reused.
StaleLockRecovered ==
    [](~reused) /\ <>[][\A p \in Procs : ~Stop(p)]_vars =>
        \A w \in Workers : []<><<Begin(w)>>_vars => []<>(Working # {})

------------------------------------------------------------------------------
(* Statements of the documentation that the code does not keep *)

\* concurrent_acquisition.py:95, "prevent duplicate workers on same partition".
MutualExclusion == \A v, w \in Working : v = w
==============================================================================
