--------------------------- MODULE MCAssessmentHub ---------------------------
(***************************************************************************)
(* AssessmentHub for TLC, with one bit of history: whether two runs ever   *)
(* were under way at the same time (a rescan asked for before the          *)
(* assessment it follows has ended).                                       *)
(***************************************************************************)
EXTENDS AssessmentHub, TLC

VARIABLE overlapped

UnderWay(r) == run[r].at \notin {"new", "ended"}

MCInit == Init /\ overlapped = FALSE

MCNext ==
    /\ Next
    /\ overlapped' = (overlapped \/ \E q, r \in Runs : q # r /\ UnderWay(q)' /\ UnderWay(r)')

MCSpec == MCInit /\ [][MCNext]_<<vars, overlapped>> /\ Fairness

\* As long as runs follow one another, a run keeps its stream, although the
\* clean-up of an earlier stream (EndStream's goroutine) may still be pending.
SerialRunKeepsStream == ~overlapped => RunKeepsStream
=============================================================================
