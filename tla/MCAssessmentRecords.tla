------------------------- MODULE MCAssessmentRecords -------------------------
(***************************************************************************)
(* AssessmentRecords for TLC, with a history of what has happened so far   *)
(* that the code does not guard against.                                   *)
(***************************************************************************)
EXTENDS AssessmentRecords, TLC

CONSTANT
    MaxIncidents   \* bound: kinds of incident in one history

VARIABLE seen

UnderWay == \E r \in Runs : flow[r].at \notin {"new", "ended"}

Starts == \E r \in Runs : Start(r)

\* A run goes from a place among "from" to a place among "to".
Goes(from, to) == \E r \in Runs : flow[r].at \in from /\ flow'[r].at \in to

Incidents == {"overlap", "again", "rescan", "redraft", "no totals", "not deleted", "stuck"}

Happens(i) ==
    \* A request of the page while a run or another request is under way.
    \/ i = "overlap" /\ (\/ Starts /\ (UnderWay \/ reset.at # "idle")
                         \/ BeginReset /\ UnderWay)
    \* A start without a reset before it, as the page does when it is opened.
    \/ i = "again" /\ Starts /\ profile # "absent"
    \* An attempt of a step that is not the last one.
    \/ i = "rescan" /\ Goes({"totals", "probes", "categories", "answer"}, {"search", "fail"})
    \/ i = "redraft" /\ Goes({"strategy"}, {"strategy"})
    \* Errors that are dropped.
    \/ i = "no totals" /\ Goes({"totals"}, {"answer"})
    \/ i = "not deleted" /\ (\/ reset.at = "probes" /\ probes' # {}
                             \/ reset.at = "categories" /\ categories' # {}
                             \/ reset.at = "fingerprint" /\ fingerprint' # None
                             \/ reset.at = "profile" /\ profile' # "absent")
    \* Errors that are reported while the status stays "running".
    \/ i = "stuck" /\ profile' = "running" /\ Goes({"trigger", "fail", "failing", "complete", "completing"}, {"ended"})

MCInit == Init /\ seen = {}

MCNext ==
    /\ Next
    /\ seen' = seen \cup {i \in Incidents : Happens(i)}
    /\ Cardinality(seen') <= MaxIncidents

MCSpec == MCInit /\ [][MCNext]_<<vars, seen>> /\ Fairness

Never(incidents) == seen \cap incidents = {}

\* What a tenant's rows tell is of one assessment, save for the incidents that the
\* code does not guard against, each of which spoils only what is named with it:
\* the results belong together, a completed assessment has results (repeated
\* steps do not matter for that), and a run drafts once, from its own scan.
CleanRecords ==
    /\ TypeOK
    /\ Never({"overlap", "again", "rescan", "not deleted"}) => ResultsOfOneScan
    /\ Never({"overlap", "not deleted", "no totals"}) => CompletedHasResults
    /\ Never({"overlap", "again", "rescan", "redraft", "not deleted"}) => DraftsFromOneScan

\* The status does not stay "running" for ever, unless the event that starts
\* the run is not sent or the write of the status fails: neither a lost answer
\* nor an overlap of runs and resets does it.
StatusSettles == (profile = "running") ~> (profile # "running" \/ ~Never({"stuck"}))
=============================================================================
