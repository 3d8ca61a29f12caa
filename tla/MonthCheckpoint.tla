--------------------------- MODULE MonthCheckpoint ---------------------------
(***************************************************************************)
(* The durable checkpoints of one pair / side / month partition,           *)
(* data/daily_checkpoint.py: day files, the month manifest and the         *)
(* compacted month file, as one process after another works on them and    *)
(* may die between any two writes.  A job is acquire_month_daily ("daily"),*)
(* acquire_month_bulk ("bulk") or the load-and-normalise of                *)
(* find_missing_days and of the runner's completeness test ("inspect").    *)
(*                                                                         *)
(* os.replace publishes a file whole, so a file on disk is what its last   *)
(* replace put there; rows are 0 (none) or 1 (some); a failure category is *)
(* what is_retryable says of it.                                           *)
(***************************************************************************)
EXTENDS Integers, FiniteSets, Functions

CONSTANTS
    NumDays,     \* days in the month
    Closed,      \* its weekend days and holidays; the others are business days
    Jobs         \* the kinds of job that are run

Days == 1 .. NumDays

ASSUME MonthAssumption ==
    /\ NumDays \in Nat \ {0}
    /\ Closed \subseteq Days
    /\ Jobs \subseteq {"daily", "bulk", "inspect"}

VARIABLES
    dayFile,     \* day's data.json: "none", "empty" (at most 2 bytes), "data"
    monthFile,   \* days whose rows the compacted month file holds
    disk,        \* manifest.json, or NoManifest
    job,         \* the job the process runs, or "none"
    pc,          \* what it does next
    mem,         \* its copy of the manifest
    cur,         \* day_num of its loop
    got          \* days the bulk download returned rows for

files == <<dayFile, monthFile, disk>>
proc  == <<job, pc, mem, cur, got>>
vars  == <<files, proc>>

DayEntry == [status: {"complete", "market_closed", "failed"},
             rows: {0, 1}, retry: BOOLEAN]

Manifest == [days: UNION {[S -> DayEntry] : S \in SUBSET Days},
             compacted: BOOLEAN, compactedRows: 0 .. NumDays]

NewManifest == [days |-> [d \in {} |-> 0], compacted |-> FALSE, compactedRows |-> 0]
NoManifest  == [NewManifest EXCEPT !.compactedRows = -1]
Loaded      == IF disk = NoManifest THEN NewManifest ELSE disk

Complete(r) == [status |-> "complete", rows |-> r, retry |-> FALSE]
ClosedDay   == [status |-> "market_closed", rows |-> 0, retry |-> FALSE]
FailedDay(retry) == [status |-> "failed", rows |-> 0, retry |-> retry]

TypeOK ==
    /\ dayFile \in [Days -> {"none", "empty", "data"}]
    /\ monthFile \subseteq Days
    /\ disk \in Manifest \cup {NoManifest}
    /\ job \in Jobs \cup {"none"}
    /\ pc \in {"idle", "normalise", "saveNormal", "fetch", "split", "saveSplit",
               "days", "saveDay", "compact", "saveFinal"}
    /\ mem \in Manifest
    /\ cur \in 1 .. NumDays + 1
    /\ got \subseteq Days

Init ==
    /\ dayFile = [d \in Days |-> "none"]
    /\ monthFile = {}
    /\ disk = NoManifest
    /\ job = "none" /\ pc = "idle"
    /\ mem = NewManifest
    /\ cur = 1 /\ got = {}

------------------------------------------------------------------------------
(* What the code asks of a manifest *)

Ok(e) == e.status \in {"complete", "market_closed"}

Settled(m, d) == d \in DOMAIN m.days /\ Ok(m.days[d])

IsCompleteNonfailed(m) == \A d \in Days : Settled(m, d)

IsValidCompacted(m) ==
    m.compacted /\ m.compactedRows > 0 /\ IsCompleteNonfailed(m)

\* Mutant: every complete business day is taken for empty.
CompleteBusinessDays(m) ==
    {d \in DOMAIN m.days \ Closed : m.days[d].status = "complete"}

EmptyBusinessDays(m) ==
    {d \in DOMAIN m.days \ Closed : m.days[d] = Complete(0)}

\* Mutant: the compacted flag outlives a repair.
NormalisedKeepsFlag(m) ==
    [m EXCEPT !.days = [d \in DOMAIN m.days |->
                          IF d \in EmptyBusinessDays(m) THEN FailedDay(FALSE)
                          ELSE m.days[d]]]

\* Empty business days become failed; a compacted flag that no longer holds is
\* taken back.
Normalised(m) ==
    LET days == [d \in DOMAIN m.days |->
                    IF d \in EmptyBusinessDays(m) THEN FailedDay(FALSE)
                    ELSE m.days[d]]
        n    == [m EXCEPT !.days = days]
    IN  IF m.compacted /\ ~IsValidCompacted(n)
        THEN [n EXCEPT !.compacted = FALSE, !.compactedRows = 0] ELSE n

\* acquire_month_bulk skips a day that failed for good.
DoneForBulk(m, d) ==
    Settled(m, d) \/ (d \in DOMAIN m.days /\ ~m.days[d].retry)

WithDay(m, d, e) ==
    [m EXCEPT !.days = [x \in DOMAIN m.days \cup {d} |->
                           IF x = d THEN e ELSE m.days[x]]]

------------------------------------------------------------------------------
(* Start of a job *)

StartNormalising(j) ==
    /\ pc = "idle" /\ j \in Jobs \ {"bulk"}
    /\ disk # NoManifest \/ j = "daily"
    /\ job' = j
    /\ pc' = "normalise"
    /\ UNCHANGED <<files, mem, cur, got>>

\* The compacted flag is trusted as it is, and nothing is normalised.
StartBulk ==
    /\ pc = "idle" /\ "bulk" \in Jobs
    /\ ~Loaded.compacted
    /\ job' = "bulk"
    /\ mem' = Loaded
    /\ pc' = IF disk # NoManifest /\ \A d \in Days : DoneForBulk(disk, d)
             THEN "compact" ELSE "fetch"
    /\ UNCHANGED <<files, cur, got>>

\* Load and normalise: the small files of empty business days go one by one, in
\* the order of the days, before the manifest is saved.
SmallFiles == {d \in EmptyBusinessDays(Loaded) : dayFile[d] = "empty"}

UnlinkSmall ==
    /\ pc = "normalise"
    /\ \E d \in SmallFiles : /\ \A e \in SmallFiles : d <= e
                             /\ dayFile' = [dayFile EXCEPT ![d] = "none"]
    /\ UNCHANGED <<monthFile, disk, proc>>

Normalise ==
    /\ pc = "normalise" /\ SmallFiles = {}
    /\ mem' = Normalised(Loaded)
    /\ pc' = "saveNormal"
    /\ UNCHANGED <<files, job, cur, got>>

\* The manifest is saved if it changed; then the job returns or goes on.
SaveNormal ==
    /\ pc = "saveNormal"
    /\ disk' = IF mem = Loaded THEN disk ELSE mem
    /\ cur' = 1
    /\ pc' = IF job = "inspect" \/ IsValidCompacted(mem) THEN "idle" ELSE "days"
    /\ job' = IF pc' = "idle" THEN "none" ELSE job
    /\ UNCHANGED <<dayFile, monthFile, mem, got>>

------------------------------------------------------------------------------
(* Day by day *)

SkipDay ==
    /\ pc = "days" /\ cur <= NumDays
    /\ Settled(mem, cur)
    /\ cur' = cur + 1
    /\ UNCHANGED <<files, job, pc, mem, got>>

\* The outcome of download_day_with_checkpoint for the current day.
Record(e) ==
    /\ mem' = WithDay(mem, cur, e)
    /\ pc' = "saveDay"
    /\ UNCHANGED <<monthFile, disk, job, cur, got>>

NeedsDay == pc = "days" /\ cur <= NumDays /\ ~Settled(mem, cur)

FileIsThere ==
    /\ NeedsDay /\ dayFile[cur] = "data"
    /\ Record(Complete(1))
    /\ UNCHANGED dayFile

DayArrives ==
    /\ NeedsDay /\ dayFile[cur] # "data"
    /\ dayFile' = [dayFile EXCEPT ![cur] = "data"]
    /\ Record(Complete(1))

\* Mutant: a business day without rows is complete.
DayIsEmptyComplete ==
    /\ NeedsDay /\ dayFile[cur] # "data"
    /\ Record(IF cur \in Closed THEN ClosedDay ELSE Complete(0))
    /\ UNCHANGED dayFile

DayIsEmpty ==
    /\ NeedsDay /\ dayFile[cur] # "data"
    /\ Record(IF cur \in Closed THEN ClosedDay ELSE FailedDay(FALSE))
    /\ UNCHANGED dayFile

DayFails ==
    /\ NeedsDay /\ dayFile[cur] # "data"
    /\ \E retry \in BOOLEAN : Record(FailedDay(retry))
    /\ UNCHANGED dayFile

SaveDay ==
    /\ pc = "saveDay"
    /\ disk' = mem
    /\ cur' = cur + 1
    /\ pc' = "days"
    /\ UNCHANGED <<dayFile, monthFile, job, mem, got>>

AllDaysTried ==
    /\ pc = "days" /\ cur > NumDays
    /\ pc' = "compact"
    /\ UNCHANGED <<files, job, mem, cur, got>>

------------------------------------------------------------------------------
(* The whole month in one download *)

BulkArrives ==
    /\ pc = "fetch"
    /\ got' \in SUBSET Days
    /\ cur' = 1
    /\ pc' = "split"
    /\ UNCHANGED <<files, job, mem>>

\* After its three attempts the bulk job falls back to acquire_month_daily.
BulkFails ==
    /\ pc = "fetch"
    /\ pc' = "normalise"
    /\ UNCHANGED <<files, job, mem, cur, got>>

\* Mutant: settled days are split again.
SplitDayAnew ==
    /\ pc = "split" /\ cur <= NumDays
    /\ cur' = cur + 1
    /\ LET e == IF cur \in got THEN Complete(1)
                ELSE IF cur \in Closed THEN ClosedDay ELSE Complete(0)
       IN  /\ mem' = WithDay(mem, cur, e)
           /\ dayFile' = CASE e = Complete(1) -> [dayFile EXCEPT ![cur] = "data"]
                           [] e = Complete(0) -> [dayFile EXCEPT ![cur] = "empty"]
                           [] e = ClosedDay   -> dayFile
    /\ UNCHANGED <<monthFile, disk, job, pc, got>>

\* A business day without rows is written as an empty, complete day.
SplitDay ==
    /\ pc = "split" /\ cur <= NumDays
    /\ cur' = cur + 1
    /\ IF Settled(mem, cur)
       THEN UNCHANGED <<dayFile, mem>>
       ELSE LET e == IF cur \in got THEN Complete(1)
                     ELSE IF cur \in Closed THEN ClosedDay ELSE Complete(0)
            IN  /\ mem' = WithDay(mem, cur, e)
                /\ dayFile' = CASE e = Complete(1) -> [dayFile EXCEPT ![cur] = "data"]
                                [] e = Complete(0) -> [dayFile EXCEPT ![cur] = "empty"]
                                [] e = ClosedDay   -> dayFile
    /\ UNCHANGED <<monthFile, disk, job, pc, got>>

AllDaysSplit ==
    /\ pc = "split" /\ cur > NumDays
    /\ pc' = "saveSplit"
    /\ UNCHANGED <<files, job, mem, cur, got>>

SaveSplit ==
    /\ pc = "saveSplit"
    /\ disk' = mem
    /\ pc' = "compact"
    /\ UNCHANGED <<dayFile, monthFile, job, mem, cur, got>>

------------------------------------------------------------------------------
(* Compaction, and death *)

\* The complete days with rows whose file exists.
RowsOf(m) == {d \in DOMAIN m.days :
                m.days[d].status = "complete" /\ m.days[d].rows > 0
                /\ dayFile[d] # "none"}

Compact ==
    /\ pc = "compact"
    /\ IF ~mem.compacted /\ IsCompleteNonfailed(mem) /\ RowsOf(mem) # {}
       THEN /\ monthFile' = RowsOf(mem)
            /\ mem' = [mem EXCEPT !.compacted = TRUE,
                                  !.compactedRows = Cardinality(RowsOf(mem))]
       ELSE UNCHANGED <<monthFile, mem>>
    /\ pc' = "saveFinal"
    /\ UNCHANGED <<dayFile, disk, job, cur, got>>

Finish == job' = "none" /\ pc' = "idle"

\* Mutant: the manifest is not saved after the compaction.
SaveFinalDropped ==
    /\ pc = "saveFinal"
    /\ disk' = disk
    /\ Finish
    /\ UNCHANGED <<dayFile, monthFile, mem, cur, got>>

SaveFinal ==
    /\ pc = "saveFinal"
    /\ disk' = mem
    /\ Finish
    /\ UNCHANGED <<dayFile, monthFile, mem, cur, got>>

Crash ==
    /\ pc # "idle"
    /\ Finish
    /\ mem' = NewManifest /\ cur' = 1 /\ got' = {}
    /\ UNCHANGED files

Start ==
    \/ \E j \in Jobs : StartNormalising(j)
    \/ StartBulk

Day == SkipDay \/ FileIsThere \/ DayArrives \/ DayIsEmpty \/ DayFails
        \/ SaveDay \/ AllDaysTried

Bulk == BulkArrives \/ BulkFails \/ SplitDay \/ AllDaysSplit \/ SaveSplit

Work == UnlinkSmall \/ Normalise \/ SaveNormal \/ Day \/ Bulk \/ Compact \/ SaveFinal

Next == Start \/ Work \/ Crash

\* A job that runs goes on, as every download has a timeout and a bounded number
\* of attempts.  Nothing starts a job: the runner makes one pass over its
\* partitions and exits.
Fairness == WF_vars(Work)

Spec == Init /\ [][Next]_vars /\ Fairness

------------------------------------------------------------------------------
(* Properties *)

HasRows(m, d) == d \in DOMAIN m.days /\ m.days[d] = Complete(1)

\* The manifest never promises rows that are not on disk, whatever was killed
\* between the write of a day file and the write of the manifest.
RowsAreThere == \A d \in Days : HasRows(disk, d) => dayFile[d] = "data"

\* A manifest says compacted only of a month that is settled day by day, and
\* then the month file holds exactly the days the manifest counts rows for:
\* never the file of an earlier compaction.
CompactedIsWhole ==
    disk.compacted =>
        /\ IsCompleteNonfailed(disk)
        /\ monthFile = {d \in Days : HasRows(disk, d)}
        /\ disk.compactedRows = Cardinality(monthFile)

\* What was acquired is never given up: a day complete with rows stays so
\* through repairs, downloads that return less and crashes, and a recompaction
\* only adds days to the month file.
DurableProgress ==
    [][/\ \A d \in Days : HasRows(disk, d) => HasRows(disk', d)
       /\ monthFile \subseteq monthFile']_vars

\* The daily job never saves as compacted a month that has a business day
\* without rows, whatever the bulk jobs before it left and wherever they died.
DailyLeavesNoHole ==
    [][job = "daily" /\ disk' # disk /\ disk'.compacted
        => EmptyBusinessDays(disk') = {}]_vars

\* The operator launches the runner over the month again and again.
Relaunched == []<><<StartNormalising("daily")>>_vars

\* A day that is asked for again and again is delivered in the end.
Delivered == \A d \in Days : SF_vars(cur = d /\ DayArrives)

\* From some time on no process is killed and the bulk job is not run.
Undisturbed == <>[][~Crash /\ ~StartBulk]_vars

\* For an operator who relaunches, and a provider that delivers in the end, the
\* month is compacted for good and has no hole, whatever bulk jobs and kills left:
\* the daily job asks again for every day that is not settled, those that failed
\* for good and those a bulk job called complete included.
EventuallyWhole ==
    Relaunched /\ Delivered /\ Undisturbed =>
        <>[](disk.compacted /\ EmptyBusinessDays(disk) = {})

------------------------------------------------------------------------------
(* Statements of the documentation that the code does not keep *)

\* daily_checkpoint.py:277, "Mark invalid zero-row business days and compacted
\* months repairable": no compacted month, which the bulk job will not touch
\* again, has a business day without rows.
NoSilentHole == disk.compacted => EmptyBusinessDays(disk) = {}
==============================================================================
