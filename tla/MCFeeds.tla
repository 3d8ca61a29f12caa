------------------------------ MODULE MCFeeds -------------------------------
(***************************************************************************)
(* Instances of LiveFeeds: two LTF bars to an HTF bar, feeds that give up  *)
(* after a few failures in a row, buffers of a few bars.                   *)
(***************************************************************************)
EXTENDS LiveFeeds

AllFeeds   == {"live", "replay", "files"}
ReplayOnly == {"replay"}
LiveOnly == {"live"}
==============================================================================
