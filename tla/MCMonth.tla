------------------------------- MODULE MCMonth -------------------------------
(***************************************************************************)
(* Instances of MonthCheckpoint: a month of business days and one closed   *)
(* day, worked on by every kind of job.                                    *)
(***************************************************************************)
EXTENDS MonthCheckpoint

Weekend   == {2}
AllJobs   == {"daily", "bulk", "inspect"}
==============================================================================
