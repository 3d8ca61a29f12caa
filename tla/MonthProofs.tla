------------------------------ MODULE MonthProofs ------------------------------
(***************************************************************************)
(* Proofs about MonthCheckpoint, for every month, every calendar and every *)
(* set of jobs.  The invariants say, of each point a process may die at,   *)
(* how the copy it works on is related to the files:                       *)
(*                                                                         *)
(*   TypeInv    types, and which entries a manifest can have;              *)
(*   RowsInv    rows in the manifest, in the copy and in the day files;    *)
(*   FileInv    when the copy is the manifest, when a compacted flag is    *)
(*              down, and what the month file holds;                       *)
(*   HoleInv    the daily job's copy has no empty business day.            *)
(***************************************************************************)
EXTENDS MonthCheckpoint, FiniteSetTheorems, TLAPS

Entries == {Complete(0), Complete(1), ClosedDay, FailedDay(TRUE), FailedDay(FALSE)}

Written(m) ==
    /\ m \in Manifest
    /\ \A d \in DOMAIN m.days : m.days[d] \in Entries

Busy == pc \notin {"idle", "normalise"}

TypeInv ==
    /\ TypeOK
    /\ Written(Loaded)
    /\ Written(mem)
    /\ pc = "saveDay" => cur <= NumDays
    /\ pc \in {"fetch", "split", "saveSplit"} => job = "bulk"
    /\ job = "daily" => pc # "idle"

\* A file has what the manifest and the copy promise, and the copy what the
\* manifest promises: saving it gives nothing up.
RowsInv ==
    /\ RowsAreThere
    /\ Busy => \A d \in Days : HasRows(mem, d) => dayFile[d] = "data"
    /\ Busy => \A d \in Days : HasRows(disk, d) => HasRows(mem, d)

Whole(m) ==
    /\ IsCompleteNonfailed(m)
    /\ monthFile = {d \in Days : HasRows(m, d)}
    /\ m.compactedRows = Cardinality(monthFile)

\* A compacted month is not worked on, so a month file is written only while no
\* manifest vouches for the last one.
FileInv ==
    /\ CompactedIsWhole
    /\ \A d \in monthFile : HasRows(disk, d)
    /\ pc = "saveNormal" => mem = Normalised(Loaded)
    /\ pc \in {"days", "compact"} => mem = Loaded
    /\ pc \in {"fetch", "days", "saveDay", "split", "saveSplit", "compact"}
         => ~disk.compacted /\ ~mem.compacted
    /\ pc = "saveFinal" => /\ mem.days = disk.days
                           /\ ~disk.compacted
                           /\ mem.compacted => Whole(mem)

HoleInv == job = "daily" /\ pc # "normalise" => EmptyBusinessDays(mem) = {}

------------------------------------------------------------------------------
(* Manifests *)

LEMMA ManifestFields ==
    ASSUME NEW m, m \in Manifest
    PROVE  /\ DOMAIN m.days \subseteq Days
           /\ m.days \in [DOMAIN m.days -> DayEntry]
           /\ m.compacted \in BOOLEAN
           /\ m.compactedRows \in 0 .. NumDays
           /\ m = [days |-> m.days, compacted |-> m.compacted,
                   compactedRows |-> m.compactedRows]
  BY DEF Manifest

LEMMA ManifestIntro ==
    ASSUME NEW S \in SUBSET Days, NEW f \in [S -> DayEntry],
           NEW c \in BOOLEAN, NEW r \in 0 .. NumDays
    PROVE  [days |-> f, compacted |-> c, compactedRows |-> r] \in Manifest
  BY DEF Manifest

LEMMA EntriesAreTyped == Entries \subseteq DayEntry
  BY DEF Entries, DayEntry, Complete, ClosedDay, FailedDay

\* Only one kind of entry has rows.
LEMMA RowsEntry ==
    ASSUME NEW e \in Entries
    PROVE  e.status = "complete" /\ e.rows > 0 <=> e = Complete(1)
  BY DEF Entries, Complete, ClosedDay, FailedDay

LEMMA FreshManifest ==
    /\ NewManifest \in Manifest /\ NoManifest \notin Manifest
    /\ NoManifest.days = NewManifest.days
    /\ NoManifest.compacted = FALSE /\ NewManifest.compacted = FALSE
    /\ DOMAIN NewManifest.days = {}
    /\ Written(NewManifest)
  <1>1. 0 \in 0 .. NumDays
    BY MonthAssumption
  <1>2. [d \in {} |-> 0] \in [{} -> DayEntry]
    OBVIOUS
  <1>3. NewManifest \in Manifest
    BY <1>1, <1>2, ManifestIntro DEF NewManifest
  <1>4. NoManifest.compactedRows = -1
    BY DEF NoManifest, NewManifest
  <1>5. NoManifest \notin Manifest
    BY <1>4, ManifestFields, MonthAssumption
  <1>6. /\ NoManifest.days = NewManifest.days
        /\ NoManifest.compacted = FALSE /\ NewManifest.compacted = FALSE
        /\ DOMAIN NewManifest.days = {}
    BY DEF NoManifest, NewManifest
  <1> QED BY <1>3, <1>5, <1>6 DEF Written

\* What is on disk and what is loaded from it agree.
LEMMA LoadedIsDisk ==
    /\ Loaded.days = disk.days
    /\ Loaded.compacted = disk.compacted
    /\ \A d : HasRows(Loaded, d) <=> HasRows(disk, d)
  <1>1. Loaded.days = disk.days /\ Loaded.compacted = disk.compacted
    BY FreshManifest DEF Loaded
  <1> QED BY <1>1 DEF HasRows

\* A saved copy is what the next process loads.
LEMMA SavedIsLoaded ==
    ASSUME Written(mem), disk' = mem
    PROVE  Loaded' = mem
  BY FreshManifest DEF Loaded, Written

LEMMA WithDayFacts ==
    ASSUME NEW m, Written(m), NEW d \in Days, NEW e \in Entries
    PROVE  /\ Written(WithDay(m, d, e))
           /\ WithDay(m, d, e).compacted = m.compacted
           /\ \A x \in Days : x # d =>
                 (HasRows(WithDay(m, d, e), x) <=> HasRows(m, x))
           /\ HasRows(WithDay(m, d, e), d) <=> e = Complete(1)
           /\ EmptyBusinessDays(WithDay(m, d, e)) \subseteq
                 EmptyBusinessDays(m) \cup {x \in {d} : e = Complete(0)}
  <1> DEFINE S == DOMAIN m.days \cup {d}
             f == [x \in S |-> IF x = d THEN e ELSE m.days[x]]
             w == WithDay(m, d, e)
  <1>1. m \in Manifest /\ \A x \in DOMAIN m.days : m.days[x] \in Entries
    BY DEF Written
  <1>2. w = [days |-> f, compacted |-> m.compacted, compactedRows |-> m.compactedRows]
    BY <1>1, ManifestFields DEF WithDay
  <1>3. S \in SUBSET Days
    BY <1>1, ManifestFields
  <1>4. \A x \in S : f[x] \in Entries
    BY <1>1
  <1>5. f \in [S -> DayEntry]
    BY <1>4, EntriesAreTyped
  <1>6. w \in Manifest
    BY <1>1, <1>2, <1>3, <1>5, ManifestFields, ManifestIntro
  <1>7. w.days = f /\ w.compacted = m.compacted
    BY <1>2
  <1>8. Written(w)
    BY <1>4, <1>6, <1>7 DEF Written
  <1>9. \A x \in Days : x # d => (HasRows(w, x) <=> HasRows(m, x))
    BY <1>7 DEF HasRows
  <1>10. HasRows(w, d) <=> e = Complete(1)
    BY <1>7 DEF HasRows
  <1>11. EmptyBusinessDays(w) \subseteq
            EmptyBusinessDays(m) \cup {x \in {d} : e = Complete(0)}
    BY <1>7 DEF EmptyBusinessDays
  <1> QED BY <1>7, <1>8, <1>9, <1>10, <1>11

\* Normalising loses no rows and leaves no empty business day; a flag that
\* survives it is that of a manifest it did not change.
LEMMA NormalisedFacts ==
    ASSUME NEW m, Written(m)
    PROVE  /\ Written(Normalised(m))
           /\ \A d \in Days : HasRows(Normalised(m), d) <=> HasRows(m, d)
           /\ EmptyBusinessDays(Normalised(m)) = {}
           /\ Normalised(m).compacted => Normalised(m) = m
           /\ Normalised(m).compacted => IsValidCompacted(m)
  <1> DEFINE f == [d \in DOMAIN m.days |->
                     IF d \in EmptyBusinessDays(m) THEN FailedDay(FALSE)
                     ELSE m.days[d]]
             n == [m EXCEPT !.days = f]
             w == Normalised(m)
  <1>1. m \in Manifest /\ \A x \in DOMAIN m.days : m.days[x] \in Entries
    BY DEF Written
  <1>2. n = [days |-> f, compacted |-> m.compacted, compactedRows |-> m.compactedRows]
    <2>1. m = [days |-> m.days, compacted |-> m.compacted, compactedRows |-> m.compactedRows]
      BY <1>1, ManifestFields
    <2> HIDE DEF f
    <2> QED BY <2>1
  <1>3. w = IF m.compacted /\ ~IsValidCompacted(n)
            THEN [n EXCEPT !.compacted = FALSE, !.compactedRows = 0] ELSE n
    BY DEF Normalised
  <1>4. w.days = f
    BY <1>2, <1>3
  <1>5. \A x \in DOMAIN m.days : f[x] \in Entries
    BY <1>1 DEF Entries
  <1>6. f \in [DOMAIN m.days -> DayEntry]
    BY <1>5, EntriesAreTyped
  <1>7. \/ w = [days |-> f, compacted |-> FALSE, compactedRows |-> 0]
        \/ w = [days |-> f, compacted |-> m.compacted, compactedRows |-> m.compactedRows]
    BY <1>2, <1>3
  <1>8. w \in Manifest
    <2>1. DOMAIN m.days \in SUBSET Days /\ 0 \in 0 .. NumDays
          /\ m.compacted \in BOOLEAN /\ m.compactedRows \in 0 .. NumDays
      BY <1>1, ManifestFields, MonthAssumption
    <2> HIDE DEF f, w
    <2> QED BY <1>6, <1>7, <2>1, ManifestIntro
  <1>9. Written(w)
    BY <1>4, <1>5, <1>8 DEF Written
  <1>10. \A d \in Days : HasRows(w, d) <=> HasRows(m, d)
    BY <1>4 DEF HasRows, EmptyBusinessDays, FailedDay, Complete
  <1>11. EmptyBusinessDays(w) = {}
    BY <1>4 DEF EmptyBusinessDays, FailedDay, Complete
  <1>12. ASSUME w.compacted
         PROVE  w = m /\ IsValidCompacted(m)
    <2>1. m.compacted /\ IsValidCompacted(n) /\ w = n
      BY <1>2, <1>3, <1>12, <1>1, ManifestFields
    <2>2. \A d \in Days : d \in DOMAIN m.days /\ Ok(f[d])
      BY <1>2, <2>1 DEF IsValidCompacted, IsCompleteNonfailed, Settled
    <2>3. EmptyBusinessDays(m) = {}
      <3>1. \A d \in EmptyBusinessDays(m) : d \in Days /\ f[d] = FailedDay(FALSE)
        BY <1>1, ManifestFields DEF EmptyBusinessDays
      <3>2. ~Ok(FailedDay(FALSE))
        BY DEF Ok, FailedDay
      <3> QED BY <2>2, <3>1, <3>2
    <2>4. f = m.days
      BY <1>1, <2>3, ManifestFields
    <2>5. n = m
      BY <1>1, <1>2, <2>4, ManifestFields
    <2> QED BY <2>1, <2>5
  <1> QED BY <1>9, <1>10, <1>11, <1>12

------------------------------------------------------------------------------
(* TypeInv *)

LEMMA TypeInit == Init => TypeInv
  <1> SUFFICES ASSUME Init PROVE TypeInv
    OBVIOUS
  <1>1. Loaded = NewManifest
    BY DEF Init, Loaded
  <1>2. TypeOK
    BY FreshManifest, MonthAssumption DEF Init, TypeOK
  <1> QED BY <1>1, <1>2, FreshManifest DEF Init, TypeInv

\* What a save leaves well formed.
LEMMA SaveTypes ==
    ASSUME TypeInv, disk' = mem, mem' = mem
    PROVE  Written(Loaded') /\ Written(mem') /\ disk' \in Manifest \cup {NoManifest}
  BY SavedIsLoaded DEF TypeInv, Written

\* What an outcome recorded for the current day leaves well formed.
LEMMA RecordTypes ==
    ASSUME TypeInv, NEW e \in Entries, cur <= NumDays, Record(e)
    PROVE  /\ Written(Loaded') /\ Written(mem') /\ mem' \in Manifest
           /\ pc' = "saveDay" /\ cur' \in 1 .. NumDays
  <1>1. cur \in Days
    BY MonthAssumption DEF TypeInv, TypeOK, Days
  <1>2. Written(mem')
    BY <1>1, WithDayFacts DEF Record, TypeInv
  <1> QED BY <1>1, <1>2 DEF Record, TypeInv, Loaded, Written, Days

LEMMA RowsOfFacts ==
    ASSUME TypeInv
    PROVE  /\ RowsOf(mem) \subseteq Days
           /\ IsFiniteSet(RowsOf(mem))
           /\ Cardinality(RowsOf(mem)) \in 0 .. NumDays
  <1>1. RowsOf(mem) \subseteq Days
    BY ManifestFields DEF RowsOf, TypeInv, Written
  <1>2. IsFiniteSet(Days) /\ Cardinality(Days) = NumDays
    BY FS_Interval, MonthAssumption DEF Days
  <1>3. IsFiniteSet(RowsOf(mem)) /\ Cardinality(RowsOf(mem)) <= NumDays
    BY <1>1, <1>2, FS_Subset
  <1>4. Cardinality(RowsOf(mem)) \in Nat
    BY <1>3, FS_CardinalityType
  <1> QED BY <1>1, <1>3, <1>4, MonthAssumption

\* An unlink takes one small file away; no file with rows goes.
LEMMA UnlinkFacts ==
    ASSUME TypeOK, UnlinkSmall
    PROVE  /\ pc = "normalise"
           /\ UNCHANGED <<monthFile, disk, job, pc, mem, cur, got>> /\ Loaded' = Loaded
           /\ dayFile' \in [Days -> {"none", "empty", "data"}]
           /\ \A d \in Days : dayFile[d] = "data" => dayFile'[d] = "data"
           /\ \E d \in SmallFiles : SmallFiles' = SmallFiles \ {d}
  <1>1. PICK d \in SmallFiles : dayFile' = [dayFile EXCEPT ![d] = "none"]
    BY DEF UnlinkSmall
  <1>2. /\ pc = "normalise" /\ UNCHANGED <<monthFile, disk, job, pc, mem, cur, got>>
        /\ Loaded' = Loaded
    BY DEF UnlinkSmall, proc, Loaded
  <1>3. dayFile \in [Days -> {"none", "empty", "data"}] /\ dayFile[d] = "empty"
    BY <1>1 DEF TypeOK, SmallFiles
  <1>4. \A x : x # d => dayFile'[x] = dayFile[x] \/ x \notin Days
    BY <1>1, <1>3
  <1>5. EmptyBusinessDays(Loaded) \subseteq Days
    <2>1. DOMAIN Loaded.days \subseteq Days
      BY ManifestFields, FreshManifest DEF TypeOK, Loaded
    <2> QED BY <2>1 DEF EmptyBusinessDays
  <1>6. d \in Days /\ dayFile'[d] = "none"
    BY <1>1, <1>3, <1>5 DEF SmallFiles
  <1>7. SmallFiles' = {x \in EmptyBusinessDays(Loaded) : dayFile'[x] = "empty"}
    BY <1>2 DEF SmallFiles, EmptyBusinessDays
  <1>8. SmallFiles' = SmallFiles \ {d}
    BY <1>4, <1>5, <1>6, <1>7 DEF SmallFiles
  <1> QED BY <1>1, <1>2, <1>3, <1>4, <1>6, <1>8

LEMMA TypeStep ==
    ASSUME TypeInv, [Next]_vars
    PROVE  TypeInv'
  <1> USE MonthAssumption
  <1>0. /\ TypeOK /\ Written(Loaded) /\ Written(mem)
        /\ pc = "saveDay" => cur <= NumDays
        /\ pc \in {"fetch", "split", "saveSplit"} => job = "bulk"
        /\ job = "daily" => pc # "idle"
    BY DEF TypeInv
  <1>a. disk' = disk => Loaded' = Loaded
    BY DEF Loaded
  <1>b. NumDays \in Nat /\ Days = 1 .. NumDays
    BY DEF Days
  <1>1. ASSUME NEW j \in Jobs, StartNormalising(j) PROVE TypeInv'
    BY <1>0, <1>1, <1>a DEF StartNormalising, TypeInv, TypeOK, files
  <1>2. CASE StartBulk
    <2>1. mem' = Loaded /\ Loaded \in Manifest
      BY <1>0, <1>2 DEF StartBulk, Written
    <2>2. pc' \in {"compact", "fetch"} /\ job' = "bulk" /\ "bulk" \in Jobs
      BY <1>2 DEF StartBulk
    <2>3. TypeOK'
      BY <1>0, <1>2, <2>1, <2>2 DEF StartBulk, TypeOK, files
    <2> QED BY <1>0, <1>2, <1>a, <2>1, <2>2, <2>3 DEF StartBulk, TypeInv, files
  <1>u. CASE UnlinkSmall
    <2>1. TypeOK'
      BY <1>0, <1>u, UnlinkFacts DEF TypeOK
    <2> QED BY <1>0, <1>u, <2>1, UnlinkFacts DEF TypeInv
  <1>3. CASE Normalise
    <2>1. Written(mem')
      BY <1>0, <1>3, NormalisedFacts DEF Normalise
    <2>2. TypeOK'
      BY <1>0, <1>3, <2>1 DEF Normalise, TypeOK, Written, files
    <2> QED BY <1>0, <1>3, <1>a, <2>1, <2>2 DEF Normalise, TypeInv, files
  <1>4. CASE SaveNormal
    <2>1. /\ disk' = disk \/ disk' = mem
          /\ mem' = mem /\ cur' = 1 /\ pc' \in {"idle", "days"}
          /\ job' = IF pc' = "idle" THEN "none" ELSE job
          /\ UNCHANGED <<dayFile, monthFile, got>>
      BY <1>4 DEF SaveNormal
    <2>2. Written(Loaded')
      BY <1>0, <1>a, <2>1, SavedIsLoaded
    <2>3. TypeOK'
      BY <1>0, <2>1 DEF TypeOK
    <2> QED BY <1>0, <2>1, <2>2, <2>3 DEF TypeInv
  <1>5. CASE SkipDay
    <2>1. TypeOK'
      BY <1>0, <1>5, <1>b DEF SkipDay, TypeOK, files
    <2> QED BY <1>0, <1>5, <1>a, <2>1 DEF SkipDay, TypeInv, files
  <1>6. ASSUME NEW e \in Entries, Record(e), cur <= NumDays, pc = "days",
               dayFile' \in [Days -> {"none", "empty", "data"}]
        PROVE  TypeInv'
    <2>1. /\ Written(Loaded') /\ Written(mem') /\ mem' \in Manifest
          /\ pc' = "saveDay" /\ cur' \in 1 .. NumDays
      BY <1>6, RecordTypes
    <2>2. UNCHANGED <<monthFile, disk, job, cur, got>>
      BY <1>6 DEF Record
    <2>3. TypeOK'
      BY <1>0, <1>6, <2>1, <2>2 DEF TypeOK
    <2> QED BY <1>0, <2>1, <2>2, <2>3 DEF TypeInv
  <1>7. CASE FileIsThere
    BY <1>0, <1>6, <1>7 DEF FileIsThere, NeedsDay, Entries, TypeOK
  <1>8. CASE DayArrives
    BY <1>0, <1>6, <1>8 DEF DayArrives, NeedsDay, Entries, TypeOK
  <1>9. CASE DayIsEmpty
    BY <1>0, <1>6, <1>9 DEF DayIsEmpty, NeedsDay, Entries, TypeOK
  <1>10. CASE DayFails
    <2>1. PICK retry \in BOOLEAN : Record(FailedDay(retry))
      BY <1>10 DEF DayFails
    <2>2. FailedDay(retry) \in Entries
      BY DEF Entries
    <2> QED BY <1>0, <1>6, <1>10, <2>1, <2>2 DEF DayFails, NeedsDay, TypeOK
  <1>11. CASE SaveDay
    <2>1. Written(Loaded') /\ Written(mem') /\ disk' \in Manifest \cup {NoManifest}
      BY <1>11, SaveTypes DEF SaveDay
    <2>2. cur' \in 1 .. NumDays + 1
      BY <1>0, <1>11 DEF SaveDay, TypeOK
    <2>3. TypeOK'
      BY <1>0, <1>11, <2>1, <2>2 DEF SaveDay, TypeOK
    <2> QED BY <1>0, <1>11, <2>1, <2>3 DEF SaveDay, TypeInv
  <1>12. CASE AllDaysTried
    BY <1>0, <1>12, <1>a DEF AllDaysTried, TypeInv, TypeOK, files
  <1>13. CASE BulkArrives
    <2>1. TypeOK'
      BY <1>0, <1>13 DEF BulkArrives, TypeOK, files
    <2> QED BY <1>0, <1>13, <1>a, <2>1 DEF BulkArrives, TypeInv, files
  <1>14. CASE BulkFails
    <2>1. TypeOK'
      BY <1>0, <1>14 DEF BulkFails, TypeOK, files
    <2> QED BY <1>0, <1>14, <1>a, <2>1 DEF BulkFails, TypeInv, files
  <1>15. CASE SplitDay
    <2>0. /\ pc = "split" /\ cur <= NumDays /\ cur' = cur + 1
          /\ UNCHANGED <<monthFile, disk, job, pc, got>>
      BY <1>15 DEF SplitDay
    <2>1. cur \in Days /\ cur' \in 1 .. NumDays + 1
      BY <1>0, <1>b, <2>0 DEF TypeOK
    <2>2. Written(mem') /\ dayFile' \in [Days -> {"none", "empty", "data"}]
      <3>1. CASE Settled(mem, cur)
        BY <1>0, <1>15, <3>1 DEF SplitDay, TypeOK
      <3>2. CASE ~Settled(mem, cur)
        <4> DEFINE e == IF cur \in got THEN Complete(1)
                        ELSE IF cur \in Closed THEN ClosedDay ELSE Complete(0)
        <4>1. /\ mem' = WithDay(mem, cur, e)
              /\ dayFile' = CASE e = Complete(1) -> [dayFile EXCEPT ![cur] = "data"]
                              [] e = Complete(0) -> [dayFile EXCEPT ![cur] = "empty"]
                              [] e = ClosedDay   -> dayFile
          BY <1>15, <3>2 DEF SplitDay
        <4>2. e \in Entries /\ (e = Complete(1) \/ e = Complete(0) \/ e = ClosedDay)
          BY DEF Entries
        <4> HIDE DEF e
        <4>3. Written(mem')
          BY <1>0, <2>1, <4>1, <4>2, WithDayFacts
        <4>4. dayFile' \in [Days -> {"none", "empty", "data"}]
          BY <1>0, <2>1, <4>1, <4>2 DEF TypeOK, Complete, ClosedDay
        <4> QED BY <4>3, <4>4
      <3> QED BY <3>1, <3>2
    <2>3. TypeOK'
      BY <1>0, <2>0, <2>1, <2>2 DEF TypeOK, Written
    <2> QED BY <1>0, <1>a, <2>0, <2>2, <2>3 DEF TypeInv
  <1>16. CASE AllDaysSplit
    BY <1>0, <1>16, <1>a DEF AllDaysSplit, TypeInv, TypeOK, files
  <1>17. CASE SaveSplit
    <2>1. Written(Loaded') /\ Written(mem') /\ disk' \in Manifest \cup {NoManifest}
      BY <1>17, SaveTypes DEF SaveSplit
    <2>2. TypeOK'
      BY <1>0, <1>17, <2>1 DEF SaveSplit, TypeOK
    <2> QED BY <1>0, <1>17, <2>1, <2>2 DEF SaveSplit, TypeInv
  <1>18. CASE Compact
    <2>0. pc' = "saveFinal" /\ UNCHANGED <<dayFile, disk, job, cur, got>>
      BY <1>18 DEF Compact
    <2>1. Written(mem') /\ monthFile' \subseteq Days
      <3>1. CASE UNCHANGED <<monthFile, mem>>
        BY <1>0, <3>1 DEF TypeOK
      <3>2. ASSUME monthFile' = RowsOf(mem),
                   mem' = [mem EXCEPT !.compacted = TRUE,
                                      !.compactedRows = Cardinality(RowsOf(mem))]
            PROVE  Written(mem') /\ monthFile' \subseteq Days
        <4> DEFINE k == Cardinality(RowsOf(mem))
        <4>1. k \in 0 .. NumDays /\ RowsOf(mem) \subseteq Days
          BY RowsOfFacts
        <4> HIDE DEF k
        <4>2. mem' = [days |-> mem.days, compacted |-> TRUE, compactedRows |-> k]
          <5>1. mem = [days |-> mem.days, compacted |-> mem.compacted,
                       compactedRows |-> mem.compactedRows]
            BY <1>0, ManifestFields DEF Written
          <5>2. mem' = [mem EXCEPT !.compacted = TRUE, !.compactedRows = k]
            BY <3>2 DEF k
          <5> QED BY <5>1, <5>2
        <4>3. /\ DOMAIN mem.days \in SUBSET Days
              /\ mem.days \in [DOMAIN mem.days -> DayEntry]
          BY <1>0, ManifestFields DEF Written
        <4>4. mem' \in Manifest
          BY <4>1, <4>2, <4>3, ManifestIntro
        <4>5. mem'.days = mem.days
          BY <4>2
        <4> QED BY <1>0, <3>2, <4>1, <4>4, <4>5 DEF Written
      <3> QED BY <1>18, <3>1, <3>2 DEF Compact
    <2>2. TypeOK'
      BY <1>0, <2>0, <2>1 DEF TypeOK, Written
    <2> QED BY <1>0, <1>a, <2>0, <2>1, <2>2 DEF TypeInv
  <1>19. CASE SaveFinal
    <2>1. Written(Loaded') /\ Written(mem') /\ disk' \in Manifest \cup {NoManifest}
      BY <1>19, SaveTypes DEF SaveFinal
    <2>2. TypeOK'
      BY <1>0, <1>19, <2>1 DEF SaveFinal, Finish, TypeOK
    <2> QED BY <1>0, <1>19, <2>1, <2>2 DEF SaveFinal, Finish, TypeInv
  <1>20. CASE Crash
    <2>1. Written(mem')
      BY <1>20, FreshManifest DEF Crash
    <2>2. TypeOK'
      BY <1>0, <1>20, <2>1 DEF Crash, Finish, TypeOK, files, Written
    <2> QED BY <1>0, <1>20, <1>a, <2>1, <2>2 DEF Crash, Finish, TypeInv, files
  <1>21. CASE UNCHANGED vars
    <2>1. TypeOK'
      BY <1>0, <1>21 DEF vars, files, proc, TypeOK
    <2> QED BY <1>0, <1>21, <1>a, <2>1 DEF vars, files, proc, TypeInv
  <1> QED
    BY <1>u, <1>1, <1>2, <1>3, <1>4, <1>5, <1>7, <1>8, <1>9, <1>10, <1>11, <1>12, <1>13,
       <1>14, <1>15, <1>16, <1>17, <1>18, <1>19, <1>20, <1>21
    DEF Next, Start, Work, Day, Bulk

\* Files and processes are always well formed.
THEOREM TypeCorrect == Spec => []TypeOK
  <1>1. TypeInv /\ [Next]_vars => TypeInv'
    BY TypeStep
  <1>2. TypeInv => TypeOK
    BY DEF TypeInv
  <1> QED BY <1>1, <1>2, TypeInit, PTL DEF Spec

------------------------------------------------------------------------------
(* RowsInv *)

\* Only a process that holds the copy writes the manifest, and it writes the copy.
LEMMA DiskIsSaved ==
    ASSUME [Next]_vars
    PROVE  \/ disk' = disk
           \/ /\ disk' = mem /\ mem' = mem
              /\ pc \in {"saveNormal", "saveDay", "saveSplit", "saveFinal"}
              /\ pc = "saveNormal" => mem # Loaded
  BY DEF Next, Start, StartNormalising, StartBulk, Work, UnlinkSmall, Normalise, SaveNormal, Day,
         SkipDay, FileIsThere, DayArrives, DayIsEmpty, DayFails, Record, SaveDay,
         AllDaysTried, Bulk, BulkArrives, BulkFails, SplitDay, AllDaysSplit, SaveSplit,
         Compact, SaveFinal, Crash, files, proc, vars

LEMMA RowsInit == Init => RowsInv
  BY FreshManifest DEF Init, RowsInv, RowsAreThere, HasRows, Busy

\* A step that leaves the day files and a copy in hand, or puts the copy down.
LEMMA RowsKept ==
    ASSUME RowsInv, UNCHANGED dayFile, disk' = disk \/ (Busy /\ disk' = mem),
           Busy' => (Busy /\ UNCHANGED mem)
    PROVE  RowsInv'
  <1>1. RowsAreThere'
    BY DEF RowsInv, RowsAreThere
  <1>2. Busy' => \A d \in Days : HasRows(mem', d) => dayFile'[d] = "data"
    BY DEF RowsInv
  <1>3. Busy' => \A d \in Days : HasRows(disk', d) => HasRows(mem', d)
    BY DEF RowsInv
  <1> QED BY <1>1, <1>2, <1>3 DEF RowsInv

\* The current day's outcome: rows are recorded after they are in the file.
LEMMA RowsRecorded ==
    ASSUME TypeInv, RowsInv, Busy, Busy', UNCHANGED disk, NEW d \in Days,
           ~Settled(mem, d), NEW e \in Entries, mem' = WithDay(mem, d, e),
           \A x \in Days : x # d => dayFile'[x] = dayFile[x],
           e = Complete(1) => dayFile'[d] = "data"
    PROVE  RowsInv'
  <1>1. /\ \A x \in Days : x # d => (HasRows(mem', x) <=> HasRows(mem, x))
        /\ HasRows(mem', d) <=> e = Complete(1)
    BY WithDayFacts DEF TypeInv
  <1>2. ~HasRows(mem, d)
    BY DEF HasRows, Settled, Ok, Complete
  <1>3. ~HasRows(disk, d)
    BY <1>2 DEF RowsInv
  <1>4. \A x \in Days : HasRows(mem', x) => dayFile'[x] = "data"
    BY <1>1 DEF RowsInv
  <1>5. \A x \in Days : HasRows(disk', x) => HasRows(mem', x) /\ x # d
    BY <1>1, <1>3 DEF RowsInv
  <1>6. \A x \in Days : HasRows(disk', x) => dayFile'[x] = "data"
    BY <1>4, <1>5
  <1> QED BY <1>4, <1>5, <1>6 DEF RowsInv, RowsAreThere

LEMMA RowsStep ==
    ASSUME TypeInv, RowsInv, [Next]_vars
    PROVE  RowsInv'
  <1> USE DEF Busy
  <1>0. /\ dayFile \in [Days -> {"none", "empty", "data"}]
        /\ Written(Loaded) /\ Written(mem)
        /\ cur \in Int /\ (1 <= cur /\ cur <= NumDays => cur \in Days) /\ 1 <= cur
    BY MonthAssumption DEF TypeInv, TypeOK, Days
  <1>1. ASSUME NEW j \in Jobs, StartNormalising(j) PROVE RowsInv'
    BY <1>1, RowsKept DEF StartNormalising, files
  <1>2. CASE StartBulk
    <2>1. UNCHANGED <<dayFile, disk>> /\ mem' = Loaded
      BY <1>2 DEF StartBulk, files
    <2>2. \A d \in Days : HasRows(mem', d) <=> HasRows(disk, d)
      BY <2>1, LoadedIsDisk
    <2> QED BY <2>1, <2>2 DEF RowsInv, RowsAreThere
  <1>u. CASE UnlinkSmall
    <2>1. /\ pc = "normalise" /\ pc' = pc /\ UNCHANGED <<disk, mem>>
          /\ \A d \in Days : dayFile[d] = "data" => dayFile'[d] = "data"
      BY <1>u, UnlinkFacts DEF TypeInv
    <2> QED BY <2>1 DEF RowsInv, RowsAreThere
  <1>3. CASE Normalise
    <2>1. \A d \in Days : HasRows(mem', d) <=> HasRows(disk, d)
      BY <1>0, <1>3, NormalisedFacts, LoadedIsDisk DEF Normalise
    <2>2. UNCHANGED <<dayFile, disk>>
      BY <1>3 DEF Normalise, files
    <2> QED BY <2>1, <2>2 DEF RowsInv, RowsAreThere
  <1>4. CASE SaveNormal
    BY <1>4, RowsKept DEF SaveNormal
  <1>5. CASE SkipDay \/ AllDaysTried \/ AllDaysSplit
    BY <1>5, RowsKept DEF SkipDay, AllDaysTried, AllDaysSplit, files
  <1>6. CASE BulkArrives \/ BulkFails
    BY <1>6, RowsKept DEF BulkArrives, BulkFails, files
  <1>7. CASE FileIsThere
    BY <1>0, <1>7, RowsRecorded DEF FileIsThere, NeedsDay, Record, Entries
  <1>8. CASE DayArrives
    BY <1>0, <1>8, RowsRecorded DEF DayArrives, NeedsDay, Record, Entries
  <1>9. CASE DayIsEmpty
    <2> DEFINE e == IF cur \in Closed THEN ClosedDay ELSE FailedDay(FALSE)
    <2>1. e \in Entries /\ e # Complete(1)
      BY DEF Entries, Complete, ClosedDay, FailedDay
    <2>2. /\ pc = "days" /\ cur <= NumDays /\ ~Settled(mem, cur)
          /\ mem' = WithDay(mem, cur, e) /\ pc' = "saveDay" /\ UNCHANGED <<disk, dayFile>>
      BY <1>9 DEF DayIsEmpty, NeedsDay, Record
    <2> HIDE DEF e
    <2> QED BY <1>0, <2>1, <2>2, RowsRecorded
  <1>10. CASE DayFails
    <2>1. PICK retry \in BOOLEAN : Record(FailedDay(retry))
      BY <1>10 DEF DayFails
    <2>2. FailedDay(retry) \in Entries /\ FailedDay(retry) # Complete(1)
      BY DEF Entries, Complete, FailedDay
    <2>3. /\ pc = "days" /\ cur <= NumDays /\ ~Settled(mem, cur)
          /\ mem' = WithDay(mem, cur, FailedDay(retry))
          /\ pc' = "saveDay" /\ UNCHANGED <<disk, dayFile>>
      BY <1>10, <2>1 DEF DayFails, NeedsDay, Record
    <2> QED BY <1>0, <2>2, <2>3, RowsRecorded
  <1>11. CASE SaveDay \/ SaveSplit \/ SaveFinal
    BY <1>11, RowsKept DEF SaveDay, SaveSplit, SaveFinal, Finish
  <1>12. CASE SplitDay
    <2>0. /\ pc = "split" /\ pc' = "split" /\ cur <= NumDays /\ UNCHANGED disk
      BY <1>12 DEF SplitDay
    <2>1. CASE Settled(mem, cur)
      BY <1>12, <2>0, <2>1, RowsKept DEF SplitDay
    <2>2. CASE ~Settled(mem, cur)
      <3> DEFINE e == IF cur \in got THEN Complete(1)
                      ELSE IF cur \in Closed THEN ClosedDay ELSE Complete(0)
      <3>1. /\ mem' = WithDay(mem, cur, e)
            /\ dayFile' = CASE e = Complete(1) -> [dayFile EXCEPT ![cur] = "data"]
                            [] e = Complete(0) -> [dayFile EXCEPT ![cur] = "empty"]
                            [] e = ClosedDay   -> dayFile
        BY <1>12, <2>2 DEF SplitDay
      <3>2. /\ e \in Entries /\ (e = Complete(1) \/ e = Complete(0) \/ e = ClosedDay)
            /\ Complete(0) # Complete(1) /\ Complete(1) # ClosedDay /\ Complete(0) # ClosedDay
        BY DEF Entries, Complete, ClosedDay
      <3> HIDE DEF e
      <3>3. /\ \A x \in Days : x # cur => dayFile'[x] = dayFile[x]
            /\ e = Complete(1) => dayFile'[cur] = "data"
        BY <1>0, <2>0, <3>1, <3>2
      <3> QED BY <1>0, <2>0, <2>2, <3>1, <3>2, <3>3, RowsRecorded
    <2> QED BY <2>1, <2>2
  <1>13. CASE Compact
    <2>1. UNCHANGED <<dayFile, disk>> /\ pc = "compact" /\ pc' = "saveFinal"
      BY <1>13 DEF Compact
    <2>2. mem'.days = mem.days
      <3>1. mem = [days |-> mem.days, compacted |-> mem.compacted,
                   compactedRows |-> mem.compactedRows]
        BY <1>0, ManifestFields DEF Written
      <3> QED BY <1>13, <3>1 DEF Compact
    <2>3. \A d : HasRows(mem', d) <=> HasRows(mem, d)
      BY <2>2 DEF HasRows
    <2> QED BY <2>1, <2>3 DEF RowsInv, RowsAreThere
  <1>14. CASE Crash
    BY <1>14, RowsKept DEF Crash, Finish, files
  <1>15. CASE UNCHANGED vars
    BY <1>15, RowsKept DEF vars, files, proc
  <1> QED
    BY <1>u, <1>1, <1>2, <1>3, <1>4, <1>5, <1>6, <1>7, <1>8, <1>9, <1>10, <1>11, <1>12,
       <1>13, <1>14, <1>15
    DEF Next, Start, Work, Day, Bulk

\* Rows a manifest promises are on disk, wherever jobs were killed.
THEOREM PromisedRowsExist == Spec => []RowsAreThere
  <1>1. TypeInv /\ RowsInv /\ [Next]_vars => (TypeInv /\ RowsInv)'
    BY TypeStep, RowsStep
  <1>2. RowsInv => RowsAreThere
    BY DEF RowsInv
  <1> QED BY <1>1, <1>2, TypeInit, RowsInit, PTL DEF Spec

------------------------------------------------------------------------------
(* FileInv *)

LEMMA FileInit == Init => FileInv
  BY FreshManifest DEF Init, FileInv, CompactedIsWhole

\* A manifest that is normalised and still compacted is the one on disk.
LEMMA KeptFlag ==
    ASSUME TypeInv, FileInv, pc = "saveNormal"
    PROVE  mem # Loaded => ~mem.compacted
  BY NormalisedFacts DEF TypeInv, FileInv

\* The rows a compaction reads are the ones the copy promises.
LEMMA RowsOfPromised ==
    ASSUME TypeInv, RowsInv, Busy
    PROVE  RowsOf(mem) = {d \in Days : HasRows(mem, d)}
  <1>1. \A d \in DOMAIN mem.days : d \in Days /\ mem.days[d] \in Entries
    BY ManifestFields DEF TypeInv, Written
  <1>2. \A d \in Days : HasRows(mem, d) => dayFile[d] # "none"
    BY DEF RowsInv
  <1>3. \A d \in DOMAIN mem.days :
           mem.days[d].status = "complete" /\ mem.days[d].rows > 0 <=> HasRows(mem, d)
    BY <1>1, RowsEntry DEF HasRows
  <1>4. \A d : HasRows(mem, d) => d \in DOMAIN mem.days
    BY DEF HasRows
  <1> QED BY <1>1, <1>2, <1>3, <1>4 DEF RowsOf

LEMMA CompactRows ==
    ASSUME TypeInv, RowsInv, FileInv, Compact
    PROVE  /\ mem'.days = mem.days
           /\ \/ monthFile' = monthFile /\ mem' = mem
              \/ /\ monthFile' = {d \in Days : HasRows(mem, d)}
                 /\ IsCompleteNonfailed(mem)
                 /\ mem'.compactedRows = Cardinality(monthFile')
  <1>1. Written(mem) /\ pc = "compact"
    BY DEF TypeInv, Compact
  <1>2. mem = [days |-> mem.days, compacted |-> mem.compacted,
               compactedRows |-> mem.compactedRows]
    BY <1>1, ManifestFields DEF Written
  <1>3. RowsOf(mem) = {d \in Days : HasRows(mem, d)}
    BY <1>1, RowsOfPromised DEF Busy
  <1>4. CASE UNCHANGED <<monthFile, mem>>
    BY <1>4
  <1>5. ASSUME monthFile' = RowsOf(mem), IsCompleteNonfailed(mem),
               mem' = [mem EXCEPT !.compacted = TRUE,
                                  !.compactedRows = Cardinality(RowsOf(mem))]
        PROVE  /\ mem'.days = mem.days
               /\ monthFile' = {d \in Days : HasRows(mem, d)}
               /\ IsCompleteNonfailed(mem)
               /\ mem'.compactedRows = Cardinality(monthFile')
    <2> DEFINE k == Cardinality(RowsOf(mem))
    <2>1. mem' = [mem EXCEPT !.compacted = TRUE, !.compactedRows = k]
      BY <1>5
    <2>2. k = Cardinality(monthFile')
      BY <1>5
    <2> HIDE DEF k
    <2>3. mem'.days = mem.days /\ mem'.compactedRows = k
      BY <1>2, <2>1
    <2> QED BY <1>3, <1>5, <2>2, <2>3
  <1> QED BY <1>4, <1>5 DEF Compact

\* What a step does to the two files whose agreement matters.
LEMMA FilesStep ==
    ASSUME TypeInv, RowsInv, FileInv, [Next]_vars
    PROVE  /\ CompactedIsWhole'
           /\ \A d \in monthFile' : HasRows(disk', d)
           /\ monthFile \subseteq monthFile'
  <1>1. CASE Compact
    <2>1. /\ disk' = disk /\ mem = Loaded /\ ~disk.compacted
          /\ \A d \in monthFile : d \in Days /\ HasRows(disk, d)
      BY <1>1 DEF Compact, FileInv, TypeInv, TypeOK
    <2>2. \A d : HasRows(mem, d) <=> HasRows(disk, d)
      BY <2>1, LoadedIsDisk
    <2>3. monthFile' = monthFile \/ monthFile' = {d \in Days : HasRows(mem, d)}
      BY <1>1, CompactRows
    <2>4. \A d \in monthFile' : HasRows(disk', d)
      BY <2>1, <2>2, <2>3
    <2>5. monthFile \subseteq monthFile'
      BY <2>1, <2>2, <2>3
    <2>6. CompactedIsWhole'
      BY <2>1 DEF CompactedIsWhole
    <2> QED BY <2>4, <2>5, <2>6
  <1>2. CASE ~Compact
    <2>1. monthFile' = monthFile
      BY <1>2 DEF Next, Start, StartNormalising, StartBulk, Work, UnlinkSmall, Normalise, SaveNormal,
         Day, SkipDay, FileIsThere, DayArrives, DayIsEmpty, DayFails, Record, SaveDay,
         AllDaysTried, Bulk, BulkArrives, BulkFails, SplitDay, AllDaysSplit, SaveSplit,
         SaveFinal, Crash, files, proc, vars
    <2>2. CASE disk' = disk
      BY <2>1, <2>2 DEF FileInv, CompactedIsWhole
    <2>3. ASSUME disk' = mem, mem' = mem, pc = "saveNormal" => mem # Loaded,
                 pc \in {"saveNormal", "saveDay", "saveSplit", "saveFinal"}
          PROVE  CompactedIsWhole' /\ \A d \in monthFile' : HasRows(disk', d)
      <3>1. \A d \in monthFile : d \in Days /\ HasRows(disk, d)
        BY DEF FileInv, TypeInv, TypeOK
      <3>2. \A d \in Days : HasRows(disk, d) => HasRows(mem, d)
        BY <2>3 DEF RowsInv, Busy
      <3>3. mem.compacted => Whole(mem)
        BY <2>3, KeptFlag DEF FileInv
      <3>4. CompactedIsWhole'
        BY <2>1, <2>3, <3>3 DEF CompactedIsWhole, Whole
      <3> QED BY <2>1, <2>3, <3>1, <3>2, <3>4
    <2> QED BY <2>1, <2>2, <2>3, DiskIsSaved
  <1> QED BY <1>1, <1>2

LEMMA FileStep ==
    ASSUME TypeInv, RowsInv, FileInv, [Next]_vars
    PROVE  FileInv'
  <1>0. CompactedIsWhole' /\ \A d \in monthFile' : HasRows(disk', d)
    BY FilesStep
  <1>a. disk' = disk => Loaded' = Loaded
    BY DEF Loaded
  <1>b. disk' = mem => Loaded' = mem
    BY SavedIsLoaded DEF TypeInv
  <1>c. Loaded.days = disk.days /\ Loaded.compacted = disk.compacted
    BY LoadedIsDisk
  <1>d. /\ pc = "saveNormal" => mem = Normalised(Loaded)
        /\ pc \in {"days", "compact"} => mem = Loaded
        /\ pc \in {"fetch", "days", "saveDay", "split", "saveSplit", "compact"}
             => ~disk.compacted /\ ~mem.compacted
        /\ pc = "saveFinal" => /\ mem.days = disk.days
                               /\ ~disk.compacted
                               /\ mem.compacted => Whole(mem)
    BY DEF FileInv
  <1>1. ASSUME NEW j \in Jobs, StartNormalising(j) PROVE FileInv'
    BY <1>0, <1>1 DEF StartNormalising, FileInv
  <1>2. CASE StartBulk
    <2>1. disk' = disk /\ mem' = Loaded /\ ~Loaded.compacted /\ pc' \in {"compact", "fetch"}
      BY <1>2 DEF StartBulk, files
    <2> QED BY <1>0, <1>a, <1>c, <2>1 DEF FileInv
  <1>u. CASE UnlinkSmall
    <2>1. pc' = "normalise"
      BY <1>u, UnlinkFacts DEF TypeInv
    <2> QED BY <1>0, <2>1 DEF FileInv
  <1>3. CASE Normalise
    <2>1. disk' = disk /\ mem' = Normalised(Loaded) /\ pc' = "saveNormal"
      BY <1>3 DEF Normalise, files
    <2>2. (mem = Normalised(Loaded))'
      BY <1>a, <2>1
    <2> QED BY <1>0, <2>1, <2>2 DEF FileInv
  <1>4. CASE SaveNormal
    <2>1. /\ pc = "saveNormal" /\ mem' = mem /\ pc' \in {"idle", "days"}
          /\ disk' = IF mem = Loaded THEN disk ELSE mem
          /\ pc' = "days" => ~IsValidCompacted(mem)
      BY <1>4 DEF SaveNormal
    <2>2. Loaded' = mem'
      BY <1>a, <1>b, <2>1
    <2>3. mem.compacted => IsValidCompacted(mem)
      BY <1>d, <2>1, NormalisedFacts DEF TypeInv
    <2>4. pc' = "days" => ~mem'.compacted
      BY <2>1, <2>3
    <2>5. pc' = "days" => ~disk'.compacted
      BY <1>c, <2>1, <2>4
    <2> QED BY <1>0, <2>1, <2>2, <2>4, <2>5 DEF FileInv
  <1>5. CASE SkipDay \/ AllDaysTried
    <2>1. UNCHANGED <<disk, mem>> /\ pc = "days" /\ pc' \in {"days", "compact"}
      BY <1>5 DEF SkipDay, AllDaysTried, files
    <2> QED BY <1>0, <1>a, <1>d, <2>1 DEF FileInv
  <1>6. ASSUME NEW e \in Entries, Record(e), pc = "days", cur <= NumDays
        PROVE  FileInv'
    <2>1. cur \in Days
      BY <1>6, MonthAssumption DEF TypeInv, TypeOK, Days
    <2>2. mem' = WithDay(mem, cur, e) /\ pc' = "saveDay" /\ disk' = disk
      BY <1>6 DEF Record
    <2>3. mem'.compacted = mem.compacted
      BY <2>1, <2>2, WithDayFacts DEF TypeInv
    <2> QED BY <1>0, <1>6, <1>d, <2>2, <2>3 DEF FileInv
  <1>7. CASE FileIsThere \/ DayArrives
    BY <1>6, <1>7 DEF FileIsThere, DayArrives, NeedsDay, Entries
  <1>8. CASE DayIsEmpty
    BY <1>6, <1>8 DEF DayIsEmpty, NeedsDay, Entries
  <1>9. CASE DayFails
    <2>1. PICK retry \in BOOLEAN : Record(FailedDay(retry))
      BY <1>9 DEF DayFails
    <2>2. FailedDay(retry) \in Entries
      BY DEF Entries
    <2> QED BY <1>6, <1>9, <2>1, <2>2 DEF DayFails, NeedsDay
  <1>10. CASE SaveDay \/ SaveSplit
    <2>1. /\ pc \in {"saveDay", "saveSplit"} /\ pc' \in {"days", "compact"}
          /\ disk' = mem /\ mem' = mem
      BY <1>10 DEF SaveDay, SaveSplit
    <2>2. ~mem.compacted
      BY <1>d, <2>1
    <2> QED BY <1>0, <1>b, <2>1, <2>2 DEF FileInv
  <1>11. CASE BulkArrives \/ BulkFails \/ AllDaysSplit
    <2>1. /\ pc \in {"fetch", "split"} /\ pc' \in {"split", "normalise", "saveSplit"}
          /\ UNCHANGED <<disk, mem>>
      BY <1>11 DEF BulkArrives, BulkFails, AllDaysSplit, files
    <2> QED BY <1>0, <1>d, <2>1 DEF FileInv
  <1>12. CASE SplitDay
    <2>1. pc = "split" /\ pc' = "split" /\ disk' = disk /\ cur <= NumDays
      BY <1>12 DEF SplitDay
    <2>2. cur \in Days
      BY <2>1, MonthAssumption DEF TypeInv, TypeOK, Days
    <2>3. mem'.compacted = mem.compacted
      <3>1. CASE Settled(mem, cur)
        BY <1>12, <3>1 DEF SplitDay
      <3>2. CASE ~Settled(mem, cur)
        <4>1. PICK e \in Entries : mem' = WithDay(mem, cur, e)
          BY <1>12, <3>2 DEF SplitDay, Entries
        <4> QED BY <2>2, <4>1, WithDayFacts DEF TypeInv
      <3> QED BY <3>1, <3>2
    <2> QED BY <1>0, <1>d, <2>1, <2>3 DEF FileInv
  <1>13. CASE Compact
    <2>1. disk' = disk /\ pc = "compact" /\ pc' = "saveFinal"
      BY <1>13 DEF Compact
    <2>2. mem = Loaded /\ ~disk.compacted /\ ~mem.compacted
      BY <1>d, <2>1
    <2>3. mem'.days = mem.days
      BY <1>13, CompactRows
    <2>4. mem'.compacted => Whole(mem)'
      <3>1. CASE mem' = mem
        BY <2>2, <3>1
      <3>2. ASSUME monthFile' = {d \in Days : HasRows(mem, d)}, IsCompleteNonfailed(mem),
                   mem'.compactedRows = Cardinality(monthFile')
            PROVE  Whole(mem)'
        <4>1. \A d : HasRows(mem', d) <=> HasRows(mem, d)
          BY <2>3 DEF HasRows
        <4>2. IsCompleteNonfailed(mem')
          BY <2>3, <3>2 DEF IsCompleteNonfailed, Settled
        <4>3. monthFile' = {d \in Days : HasRows(mem', d)}
          BY <3>2, <4>1
        <4> QED BY <3>2, <4>2, <4>3 DEF Whole
      <3> QED BY <1>13, <3>1, <3>2, CompactRows
    <2> QED BY <1>0, <1>c, <2>1, <2>2, <2>3, <2>4 DEF FileInv
  <1>14. CASE SaveFinal \/ Crash
    <2>1. pc' = "idle"
      BY <1>14 DEF SaveFinal, Crash, Finish
    <2> QED BY <1>0, <2>1 DEF FileInv
  <1>15. CASE UNCHANGED vars
    BY <1>0, <1>15, <1>a, <1>d DEF vars, files, proc, FileInv, Whole
  <1> QED
    BY <1>u, <1>1, <1>2, <1>3, <1>4, <1>5, <1>7, <1>8, <1>9, <1>10, <1>11, <1>12, <1>13,
       <1>14, <1>15
    DEF Next, Start, Work, Day, Bulk

\* A compacted month is settled day by day, and the month file holds exactly
\* the days its manifest counts.
THEOREM CompactedMonthsAreWhole == Spec => []CompactedIsWhole
  <1>1. TypeInv /\ RowsInv /\ FileInv /\ [Next]_vars => (TypeInv /\ RowsInv /\ FileInv)'
    BY TypeStep, RowsStep, FileStep
  <1>2. FileInv => CompactedIsWhole
    BY DEF FileInv
  <1> QED BY <1>1, <1>2, TypeInit, RowsInit, FileInit, PTL DEF Spec

\* What was acquired stays acquired: no save drops a day with rows, and no
\* recompaction a day of the month file.
THEOREM NothingAcquiredIsLost == Spec => DurableProgress
  <1>1. TypeInv /\ RowsInv /\ FileInv /\ [Next]_vars => (TypeInv /\ RowsInv /\ FileInv)'
    BY TypeStep, RowsStep, FileStep
  <1>2. ASSUME TypeInv, RowsInv, FileInv, [Next]_vars
        PROVE  /\ \A d \in Days : HasRows(disk, d) => HasRows(disk', d)
               /\ monthFile \subseteq monthFile'
    <2>1. \A d \in Days : HasRows(disk, d) => HasRows(disk', d)
      BY <1>2, DiskIsSaved DEF RowsInv, Busy
    <2> QED BY <1>2, <2>1, FilesStep
  <1>3. TypeInv /\ RowsInv /\ FileInv /\ [Next]_vars
          => [/\ \A d \in Days : HasRows(disk, d) => HasRows(disk', d)
              /\ monthFile \subseteq monthFile']_vars
    BY <1>2
  <1> QED BY <1>1, <1>3, TypeInit, RowsInit, FileInit, PTL DEF Spec, DurableProgress

------------------------------------------------------------------------------
(* HoleInv *)

LEMMA HoleStep ==
    ASSUME TypeInv, FileInv, HoleInv, [Next]_vars
    PROVE  HoleInv'
  <1>0. job = "daily" /\ pc # "normalise" => EmptyBusinessDays(mem) = {}
    BY DEF HoleInv
  <1>1. CASE Normalise
    BY <1>1, NormalisedFacts DEF Normalise, HoleInv, TypeInv
  <1>u. CASE UnlinkSmall
    BY <1>u, UnlinkFacts DEF TypeInv, HoleInv
  <1>2. ASSUME NEW e \in Entries, e # Complete(0), Record(e), pc = "days", cur <= NumDays
        PROVE  HoleInv'
    <2>1. cur \in Days
      BY <1>2, MonthAssumption DEF TypeInv, TypeOK, Days
    <2>2. mem' = WithDay(mem, cur, e) /\ job' = job
      BY <1>2 DEF Record
    <2>3. EmptyBusinessDays(mem') \subseteq EmptyBusinessDays(mem)
      BY <1>2, <2>1, <2>2, WithDayFacts DEF TypeInv
    <2> QED BY <1>0, <1>2, <2>2, <2>3 DEF HoleInv
  <1>3. /\ Complete(1) # Complete(0) /\ ClosedDay # Complete(0)
        /\ \A r \in BOOLEAN : FailedDay(r) # Complete(0) /\ FailedDay(r) \in Entries
        /\ Complete(1) \in Entries /\ ClosedDay \in Entries
    <2>1. Complete(1) # Complete(0) /\ ClosedDay # Complete(0)
      BY DEF Complete, ClosedDay
    <2>2. \A r \in BOOLEAN : FailedDay(r).status # Complete(0).status
      BY DEF Complete, FailedDay
    <2>3. \A r \in BOOLEAN : FailedDay(r) \in Entries
      BY DEF Entries
    <2> QED BY <2>1, <2>2, <2>3 DEF Entries
  <1>4. CASE FileIsThere \/ DayArrives
    BY <1>2, <1>3, <1>4 DEF FileIsThere, DayArrives, NeedsDay
  <1>5. CASE DayIsEmpty
    BY <1>2, <1>3, <1>5 DEF DayIsEmpty, NeedsDay
  <1>6. CASE DayFails
    BY <1>2, <1>3, <1>6 DEF DayFails, NeedsDay
  <1>7. CASE Compact
    <2>1. mem = [days |-> mem.days, compacted |-> mem.compacted,
                 compactedRows |-> mem.compactedRows]
      BY ManifestFields DEF TypeInv, Written
    <2>2. mem'.days = mem.days /\ job' = job /\ pc # "normalise"
      BY <1>7, <2>1 DEF Compact
    <2> QED BY <1>0, <2>2 DEF HoleInv, EmptyBusinessDays
  <1>8. CASE SplitDay
    BY <1>8 DEF SplitDay, HoleInv, TypeInv
  <1>9. CASE StartBulk
    BY <1>9 DEF StartBulk, HoleInv
  <1>10. CASE BulkFails \/ \E j \in Jobs : StartNormalising(j)
    BY <1>10 DEF BulkFails, StartNormalising, HoleInv
  <1>11. CASE SaveFinal \/ Crash
    BY <1>11 DEF SaveFinal, Crash, Finish, HoleInv
  <1>12. CASE SaveNormal
    BY <1>0, <1>12 DEF SaveNormal, HoleInv
  <1>13. CASE SkipDay \/ AllDaysTried \/ AllDaysSplit \/ BulkArrives \/ SaveDay \/ SaveSplit
    BY <1>0, <1>13 DEF SkipDay, AllDaysTried, AllDaysSplit, BulkArrives, SaveDay,
       SaveSplit, HoleInv
  <1>14. CASE UNCHANGED vars
    BY <1>0, <1>14 DEF vars, files, proc, HoleInv
  <1> QED
    BY <1>u, <1>1, <1>4, <1>5, <1>6, <1>7, <1>8, <1>9, <1>10, <1>11, <1>12, <1>13, <1>14
    DEF Next, Start, Work, Day, Bulk

\* The daily job saves no month as compacted that has a business day without
\* rows, whatever the bulk jobs left.
THEOREM DailyJobLeavesNoHole == Spec => DailyLeavesNoHole
  <1> DEFINE Safe == TypeInv /\ RowsInv /\ FileInv /\ HoleInv
             Act  == job = "daily" /\ disk' # disk /\ disk'.compacted
                       => EmptyBusinessDays(disk') = {}
  <1>1. Init => Safe
    BY TypeInit, RowsInit, FileInit DEF HoleInv, Init
  <1>2. Safe /\ [Next]_vars => Safe'
    BY TypeStep, RowsStep, FileStep, HoleStep
  <1>3. ASSUME Safe, [Next]_vars
        PROVE  Act
    <2>1. CASE disk' = disk
      BY <2>1
    <2>2. ASSUME job = "daily", disk' = mem,
                 pc \in {"saveNormal", "saveDay", "saveSplit", "saveFinal"}
          PROVE  EmptyBusinessDays(disk') = {}
      BY <1>3, <2>2 DEF HoleInv
    <2> QED BY <1>3, <2>1, <2>2, DiskIsSaved
  <1>4. Safe /\ [Next]_vars => [Act]_vars
    BY <1>3
  <1> QED BY <1>1, <1>2, <1>4, PTL DEF Spec, DailyLeavesNoHole

------------------------------------------------------------------------------
(* The part of EventuallyWhole that needs no fairness: a job ends, and what  *)
(* it leaves behind.                                                         *)

\* The steps a job has left at most.
StepsLeft ==
    CASE pc = "idle"       -> 0
      [] pc = "saveFinal"  -> 1
      [] pc = "compact"    -> 2
      [] pc = "saveSplit"  -> 3
      [] pc = "split"      -> NumDays + 5 - cur
      [] pc = "saveDay"    -> 2 * (NumDays + 1 - cur) + 2
      [] pc = "days"       -> 2 * (NumDays + 1 - cur) + 3
      [] pc = "saveNormal" -> 2 * NumDays + 4
      [] pc = "normalise"  -> 2 * NumDays + 5 + Cardinality(SmallFiles)
      [] pc = "fetch"      -> 3 * NumDays + 6

\* There are at most as many small files as days.
LEMMA SmallFilesType ==
    ASSUME TypeInv
    PROVE  /\ IsFiniteSet(SmallFiles)
           /\ Cardinality(SmallFiles) \in Nat /\ Cardinality(SmallFiles) <= NumDays
  <1>1. NumDays \in Nat
    BY MonthAssumption
  <1>2. IsFiniteSet(Days) /\ Cardinality(Days) = NumDays
    BY <1>1, FS_Interval DEF Days
  <1>3. DOMAIN Loaded.days \subseteq Days
    BY ManifestFields DEF TypeInv, Written
  <1>4. SmallFiles \in SUBSET Days
    BY <1>3 DEF SmallFiles, EmptyBusinessDays
  <1> QED BY <1>1, <1>2, <1>4, FS_Subset, FS_CardinalityType

LEMMA StepsType == TypeInv => StepsLeft \in 0 .. 3 * NumDays + 6
  <1> SUFFICES ASSUME TypeInv PROVE StepsLeft \in 0 .. 3 * NumDays + 6
    OBVIOUS
  <1>1. NumDays \in Nat /\ cur \in 1 .. NumDays + 1
    BY MonthAssumption DEF TypeInv, TypeOK
  <1>2. pc \in {"idle", "normalise", "saveNormal", "fetch", "split", "saveSplit",
                "days", "saveDay", "compact", "saveFinal"}
    BY DEF TypeInv, TypeOK
  <1>3. CASE pc = "split"
    BY <1>1, <1>3 DEF StepsLeft
  <1>4. CASE pc = "days"
    BY <1>1, <1>4 DEF StepsLeft
  <1>5. CASE pc = "saveDay"
    BY <1>1, <1>5 DEF StepsLeft
  <1>6. CASE pc = "normalise"
    <2>1. StepsLeft = 2 * NumDays + 5 + Cardinality(SmallFiles)
      BY <1>6 DEF StepsLeft
    <2> QED BY <1>1, <2>1, SmallFilesType
  <1>7. CASE pc \notin {"split", "days", "saveDay", "normalise"}
    <2>1. StepsLeft \in {0, 1, 2, 3, 2 * NumDays + 4, 3 * NumDays + 6}
      BY <1>2, <1>7 DEF StepsLeft
    <2> QED BY <1>1, <2>1
  <1> QED BY <1>3, <1>4, <1>5, <1>6, <1>7

LEMMA StepsShrink ==
    ASSUME TypeInv, [Next]_vars, ~UNCHANGED vars, pc # "idle"
    PROVE  StepsLeft' < StepsLeft
  <1>0. NumDays \in Nat /\ cur \in 1 .. NumDays + 1
    BY MonthAssumption DEF TypeInv, TypeOK
  <1>1. CASE Start
    BY <1>1 DEF Start, StartNormalising, StartBulk
  <1>2. CASE Crash
    <2>1. StepsLeft' = 0
      BY <1>2 DEF Crash, Finish, StepsLeft
    <2>2. StepsLeft > 0
      BY <1>0, MonthAssumption, SmallFilesType DEF TypeInv, TypeOK, StepsLeft
    <2> QED BY <2>1, <2>2, StepsType
  <1>u. CASE UnlinkSmall
    <2>1. PICK d \in SmallFiles : SmallFiles' = SmallFiles \ {d}
      BY <1>u, UnlinkFacts DEF TypeInv
    <2>2. Cardinality(SmallFiles') = Cardinality(SmallFiles) - 1
      BY <2>1, SmallFilesType, FS_RemoveElement
    <2>3. pc = "normalise" /\ pc' = "normalise"
      BY <1>u, UnlinkFacts DEF TypeInv
    <2>4. /\ StepsLeft = 2 * NumDays + 5 + Cardinality(SmallFiles)
          /\ StepsLeft' = 2 * NumDays + 5 + Cardinality(SmallFiles')
      BY <2>3 DEF StepsLeft
    <2> QED BY <1>0, <2>2, <2>4, SmallFilesType
  <1>3. CASE Normalise
    <2>1. StepsLeft' = 2 * NumDays + 4
      BY <1>3 DEF Normalise, StepsLeft
    <2>2. StepsLeft = 2 * NumDays + 5 + Cardinality(SmallFiles)
      BY <1>3 DEF Normalise, StepsLeft
    <2> QED BY <1>0, <2>1, <2>2, SmallFilesType
  <1>4. CASE SaveNormal
    <2>1. pc = "saveNormal" /\ cur' = 1 /\ pc' \in {"idle", "days"}
      BY <1>4 DEF SaveNormal
    <2> QED BY <1>0, <2>1 DEF StepsLeft
  <1>5. CASE SkipDay
    BY <1>0, <1>5 DEF SkipDay, StepsLeft
  <1>6. CASE FileIsThere \/ DayArrives \/ DayIsEmpty \/ DayFails
    <2>1. pc = "days" /\ pc' = "saveDay" /\ cur' = cur /\ cur <= NumDays
      BY <1>6 DEF FileIsThere, DayArrives, DayIsEmpty, DayFails, NeedsDay, Record
    <2> QED BY <1>0, <2>1 DEF StepsLeft
  <1>7. CASE SaveDay
    BY <1>0, <1>7 DEF SaveDay, StepsLeft
  <1>8. CASE AllDaysTried
    BY <1>0, <1>8 DEF AllDaysTried, StepsLeft
  <1>9. CASE BulkArrives \/ BulkFails
    <2>1. pc = "fetch" /\ (pc' = "normalise" \/ (pc' = "split" /\ cur' = 1))
      BY <1>9 DEF BulkArrives, BulkFails
    <2>2. StepsLeft = 3 * NumDays + 6
      BY <2>1 DEF StepsLeft
    <2>3. CASE pc' = "normalise"
      <3>1. SmallFiles' = SmallFiles
        BY <1>9 DEF BulkArrives, BulkFails, files, SmallFiles, Loaded, EmptyBusinessDays
      <3>2. StepsLeft' = 2 * NumDays + 5 + Cardinality(SmallFiles)
        BY <2>3, <3>1 DEF StepsLeft
      <3> QED BY <1>0, <2>2, <3>2, SmallFilesType
    <2>4. CASE pc' = "split" /\ cur' = 1
      <3>1. StepsLeft' = NumDays + 4
        BY <1>0, <2>4 DEF StepsLeft
      <3> QED BY <1>0, <2>2, <3>1
    <2> QED BY <2>1, <2>3, <2>4
  <1>10. CASE SplitDay
    <2>1. pc = "split" /\ pc' = pc /\ cur' = cur + 1
      BY <1>10 DEF SplitDay
    <2> QED BY <1>0, <2>1 DEF StepsLeft
  <1>11. CASE AllDaysSplit
    BY <1>0, <1>11 DEF AllDaysSplit, StepsLeft
  <1>12. CASE SaveSplit
    BY <1>12 DEF SaveSplit, StepsLeft
  <1>13. CASE Compact
    BY <1>13 DEF Compact, StepsLeft
  <1>14. CASE SaveFinal
    BY <1>14 DEF SaveFinal, Finish, StepsLeft
  <1> QED
    BY <1>u, <1>1, <1>2, <1>3, <1>4, <1>5, <1>6, <1>7, <1>8, <1>9, <1>10, <1>11, <1>12,
       <1>13, <1>14 DEF Next, Work, Day, Bulk

\* A job of any kind, wherever it is, ends within 3 * NumDays + 6 steps of its
\* own, whatever the provider answers.
THEOREM JobsAreFinite ==
    Spec => /\ [](StepsLeft \in 0 .. 3 * NumDays + 6)
            /\ [][pc # "idle" => StepsLeft' < StepsLeft]_vars
  <1> DEFINE P == pc # "idle" => StepsLeft' < StepsLeft
             T == StepsLeft \in 0 .. 3 * NumDays + 6
  <1>1. TypeInv /\ [Next]_vars => TypeInv'
    BY TypeStep
  <1>2. TypeInv => T
    BY StepsType
  <1>3. TypeInv /\ [Next]_vars => [P]_vars
    BY StepsShrink
  <1> HIDE DEF P, T
  <1>4. Spec => []TypeInv
    BY <1>1, TypeInit, PTL DEF Spec
  <1>5. Spec => []T
    BY <1>2, <1>4, PTL
  <1>6. Spec => [][P]_vars
    BY <1>3, <1>4, PTL DEF Spec
  <1> QED BY <1>5, <1>6 DEF P, T

\* The days the job has an entry for at this point.
Tried ==
    CASE pc \in {"days", "split"}                      -> 1 .. cur - 1
      [] pc = "saveDay"                                -> 1 .. cur
      [] pc \in {"saveSplit", "compact", "saveFinal"}  -> Days
      [] pc \in {"idle", "normalise", "saveNormal", "fetch"} -> {}

FailedDays(m) == {d \in DOMAIN m.days : m.days[d].status = "failed"}

\* A job that is about to end without a compacted month has recorded why.
OutcomeInv ==
    /\ Tried \subseteq DOMAIN mem.days
    /\ pc = "saveFinal" => \/ mem.compacted \/ FailedDays(mem) # {}
                           \/ \A d \in Days : ~HasRows(mem, d)

LEMMA WithDayDomain ==
    ASSUME NEW m, NEW d, NEW e
    PROVE  DOMAIN WithDay(m, d, e).days = DOMAIN m.days \cup {d} \/ ~(m \in Manifest)
  <1> DEFINE f == [x \in DOMAIN m.days \cup {d} |-> IF x = d THEN e ELSE m.days[x]]
  <1>1. ASSUME m \in Manifest PROVE WithDay(m, d, e).days = f
    BY <1>1, ManifestFields DEF WithDay
  <1> QED BY <1>1

LEMMA OutcomeStep ==
    ASSUME TypeInv, RowsInv, FileInv, OutcomeInv, [Next]_vars
    PROVE  OutcomeInv'
  <1>0. /\ NumDays \in Nat /\ cur \in 1 .. NumDays + 1 /\ Days = 1 .. NumDays
        /\ mem \in Manifest /\ DOMAIN mem.days \subseteq Days
        /\ Tried \subseteq DOMAIN mem.days
    BY MonthAssumption, ManifestFields DEF TypeInv, TypeOK, Days, OutcomeInv
  <1>1. CASE StartBulk
    <2>1. mem' = Loaded /\ (pc' = "fetch" \/
             (pc' = "compact" /\ \A d \in Days : DoneForBulk(disk, d)))
      BY <1>1 DEF StartBulk
    <2>2. \A d \in Days : DoneForBulk(disk, d) => d \in DOMAIN disk.days
      BY DEF DoneForBulk, Settled
    <2>3. Loaded.days = disk.days
      BY LoadedIsDisk
    <2> QED BY <2>1, <2>2, <2>3 DEF OutcomeInv, Tried
  <1>u. CASE UnlinkSmall
    <2>1. pc' = "normalise"
      BY <1>u, UnlinkFacts DEF TypeInv
    <2> QED BY <2>1 DEF OutcomeInv, Tried
  <1>2. CASE \/ (\E j \in Jobs : StartNormalising(j)) \/ Normalise \/ SaveNormal
             \/ BulkFails \/ Crash
    <2>1. pc' \in {"idle", "normalise", "saveNormal", "fetch"}
            \/ (pc' = "days" /\ cur' = 1)
      BY <1>2 DEF StartNormalising, Normalise, SaveNormal, BulkFails, Crash, Finish
    <2>2. Tried' = {}
      BY <2>1 DEF Tried
    <2> QED BY <2>1, <2>2 DEF OutcomeInv
  <1>3. CASE BulkArrives
    <2>1. Tried' = {} /\ pc' = "split"
      BY <1>3 DEF BulkArrives, Tried
    <2> QED BY <2>1 DEF OutcomeInv
  <1>4. CASE SkipDay
    <2>1. /\ pc = "days" /\ pc' = "days" /\ cur' = cur + 1 /\ mem' = mem
          /\ cur \in DOMAIN mem.days
      BY <1>4 DEF SkipDay, Settled
    <2>2. Tried = 1 .. cur - 1 /\ Tried' = 1 .. (cur + 1) - 1
      BY <2>1 DEF Tried
    <2>3. Tried' \subseteq Tried \cup {cur}
      BY <1>0, <2>2
    <2> QED BY <1>0, <2>1, <2>3 DEF OutcomeInv
  <1>5. CASE FileIsThere \/ DayArrives \/ DayIsEmpty \/ DayFails
    <2>1. PICK e : mem' = WithDay(mem, cur, e)
      BY <1>5 DEF FileIsThere, DayArrives, DayIsEmpty, DayFails, Record
    <2>2. pc = "days" /\ pc' = "saveDay" /\ cur' = cur
      BY <1>5 DEF FileIsThere, DayArrives, DayIsEmpty, DayFails, NeedsDay, Record
    <2>3. DOMAIN mem'.days = DOMAIN mem.days \cup {cur}
      BY <1>0, <2>1, WithDayDomain
    <2>4. Tried = 1 .. cur - 1 /\ Tried' = 1 .. cur
      BY <2>2 DEF Tried
    <2>5. Tried' \subseteq Tried \cup {cur}
      BY <1>0, <2>4
    <2> QED BY <1>0, <2>2, <2>3, <2>5 DEF OutcomeInv
  <1>6. CASE SaveDay
    <2>1. pc = "saveDay" /\ pc' = "days" /\ cur' = cur + 1 /\ mem' = mem
      BY <1>6 DEF SaveDay
    <2>2. Tried = 1 .. cur /\ Tried' = 1 .. (cur + 1) - 1
      BY <2>1 DEF Tried
    <2>3. Tried' = Tried
      BY <1>0, <2>2
    <2> QED BY <1>0, <2>1, <2>3 DEF OutcomeInv
  <1>7. CASE AllDaysTried \/ AllDaysSplit
    <2>1. /\ pc \in {"days", "split"} /\ cur > NumDays /\ mem' = mem
          /\ pc' \in {"compact", "saveSplit"}
      BY <1>7 DEF AllDaysTried, AllDaysSplit
    <2>2. Tried = 1 .. cur - 1 /\ Tried' = Days
      BY <2>1 DEF Tried
    <2>3. Tried' = Tried
      BY <1>0, <2>1, <2>2
    <2> QED BY <1>0, <2>1, <2>3 DEF OutcomeInv
  <1>8. CASE SplitDay
    <2>1. pc = "split" /\ pc' = "split" /\ cur' = cur + 1
      BY <1>8 DEF SplitDay
    <2>2. DOMAIN mem'.days = DOMAIN mem.days \cup {cur}
      <3>1. CASE Settled(mem, cur)
        BY <1>8, <3>1 DEF SplitDay, Settled
      <3>2. CASE ~Settled(mem, cur)
        <4>1. \E e : mem' = WithDay(mem, cur, e)
          BY <1>8, <3>2 DEF SplitDay
        <4> QED BY <1>0, <4>1, WithDayDomain
      <3> QED BY <3>1, <3>2
    <2>3. Tried = 1 .. cur - 1 /\ Tried' = 1 .. (cur + 1) - 1
      BY <2>1 DEF Tried
    <2>4. Tried' \subseteq Tried \cup {cur}
      BY <1>0, <2>3
    <2> QED BY <1>0, <2>1, <2>2, <2>4 DEF OutcomeInv
  <1>9. CASE SaveSplit
    <2>1. pc = "saveSplit" /\ pc' = "compact" /\ mem' = mem
      BY <1>9 DEF SaveSplit
    <2> QED BY <1>0, <2>1 DEF OutcomeInv, Tried
  <1>10. CASE Compact
    <2>1. pc = "compact" /\ pc' = "saveFinal" /\ mem'.days = mem.days
      BY <1>10, CompactRows DEF Compact
    <2>2. Days \subseteq DOMAIN mem.days
      BY <1>0, <2>1 DEF Tried
    <2>3. RowsOf(mem) = {d \in Days : HasRows(mem, d)}
      BY <2>1, RowsOfPromised DEF Busy
    <2>4. CASE mem.compacted \/ (IsCompleteNonfailed(mem) /\ RowsOf(mem) # {})
      <3>1. mem'.compacted
        BY <1>0, <1>10, <2>4, ManifestFields DEF Compact
      <3> QED BY <2>1, <2>2, <3>1 DEF OutcomeInv, Tried
    <2>5. CASE ~IsCompleteNonfailed(mem)
      <3>1. PICK d \in Days : ~Settled(mem, d)
        BY <2>5 DEF IsCompleteNonfailed
      <3>2. mem.days[d] \in Entries /\ ~Ok(mem.days[d])
        BY <2>2, <3>1 DEF TypeInv, Written, Settled
      <3>3. mem.days[d].status = "failed"
        BY <3>2 DEF Entries, Ok, Complete, ClosedDay, FailedDay
      <3>4. FailedDays(mem') # {}
        BY <2>1, <2>2, <3>3 DEF FailedDays
      <3> QED BY <2>1, <2>2, <3>4 DEF OutcomeInv, Tried
    <2>6. CASE RowsOf(mem) = {}
      <3>1. \A d \in Days : ~HasRows(mem', d)
        BY <2>1, <2>3, <2>6 DEF HasRows
      <3> QED BY <2>1, <2>2, <3>1 DEF OutcomeInv, Tried
    <2> QED BY <2>4, <2>5, <2>6
  <1>11. CASE SaveFinal
    <2>1. pc' = "idle"
      BY <1>11 DEF SaveFinal, Finish
    <2> QED BY <2>1 DEF OutcomeInv, Tried
  <1>12. CASE UNCHANGED vars
    BY <1>12 DEF vars, files, proc, OutcomeInv, Tried, FailedDays, HasRows
  <1> QED
    BY <1>u, <1>1, <1>2, <1>3, <1>4, <1>5, <1>6, <1>7, <1>8, <1>9, <1>10, <1>11, <1>12
    DEF Next, Start, Work, Day, Bulk

\* No job ends, however the provider answered it, with a day of the month left
\* out of the manifest; and one that ends without a compacted month has a failed
\* day to show for it, which the next daily job asks for again, or nothing to compact.
THEOREM JobsAccountForEveryDay ==
    Spec => [][SaveFinal =>
                 /\ DOMAIN disk'.days = Days
                 /\ \/ disk'.compacted \/ FailedDays(disk') # {}
                    \/ \A d \in Days : ~HasRows(disk', d)]_vars
  <1> DEFINE Safe == TypeInv /\ RowsInv /\ FileInv /\ OutcomeInv
             P == SaveFinal =>
                    /\ DOMAIN disk'.days = Days
                    /\ \/ disk'.compacted \/ FailedDays(disk') # {}
                       \/ \A d \in Days : ~HasRows(disk', d)
  <1>1. Init => OutcomeInv
    BY DEF Init, OutcomeInv, Tried
  <1>2. Safe /\ [Next]_vars => Safe'
    BY TypeStep, RowsStep, FileStep, OutcomeStep
  <1>3. ASSUME Safe, SaveFinal PROVE P
    <2>1. pc = "saveFinal" /\ disk' = mem
      BY <1>3 DEF SaveFinal
    <2>2. DOMAIN mem.days = Days
      <3>1. DOMAIN mem.days \subseteq Days
        BY <1>3, ManifestFields DEF TypeInv, TypeOK
      <3> QED BY <1>3, <2>1, <3>1 DEF OutcomeInv, Tried
    <2> QED BY <1>3, <2>1, <2>2 DEF OutcomeInv
  <1>4. Safe /\ [Next]_vars => [P]_vars
    BY <1>3
  <1> HIDE DEF P
  <1>5. Spec => [][P]_vars
    BY <1>1, <1>2, <1>4, TypeInit, RowsInit, FileInit, PTL DEF Spec
  <1> QED BY <1>5 DEF P
==============================================================================
