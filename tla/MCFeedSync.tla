----------------------------- MODULE MCFeedSync -----------------------------
(* FeedSync for TLC: contents named by their size, so that thresholds bite. *)
EXTENDS FeedSync, TLC

MCContent == {10, 11, 30}
MCSize == [c \in MCContent |-> c]

MCRunId == 1..(Cardinality(MCContent) + MaxFaults + MaxDryRuns)
=============================================================================
