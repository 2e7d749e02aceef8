------------------------- MODULE MCStrategyVersions -------------------------
(***************************************************************************)
(* StrategyVersions for TLC, with two bits of history: whether requests    *)
(* ever overlapped or an error was dropped, and, until then, whether a     *)
(* request was cut short and no activation or rollback has been completed  *)
(* since.                                                                  *)
(***************************************************************************)
EXTENDS StrategyVersions, TLC

VARIABLES disturbed, interrupted

mcVars == <<vars, disturbed, interrupted>>

\* A statement of the request had no effect and the next one follows.
ErrorDropped(r) ==
    \/ /\ req[r].at = "archive" /\ req'[r].at = "set_active"
       /\ versions' = versions /\ ActiveVersions # {}
    \/ req[r].at = "get_active" /\ req'[r].at = "next_number" /\ GetActive # 0
    \/ req[r].at = "mark_rolled_back" /\ req'[r].at = "next_number" /\ versions' = versions

Overlapping == \E q, r \in Requests : q # r /\ req[q].at # "idle" /\ req[r].at # "idle"
CutShort(r) == req[r].at \notin {"idle", "insert_draft"} /\ req'[r].at = "idle" /\ versions' = versions
Completes(r) == req[r].at \in {"set_active", "insert_copy"} /\ req'[r].at = "idle" /\ versions' # versions

MCInit == Init /\ disturbed = FALSE /\ interrupted = FALSE
MCNext ==
    /\ Next
    /\ disturbed' = (disturbed \/ Overlapping' \/ \E r \in Requests : ErrorDropped(r))
    /\ interrupted' = /\ ~disturbed'
                      /\ \/ \E r \in Requests : CutShort(r)
                         \/ interrupted /\ ~\E r \in Requests : Completes(r)
MCSpec == MCInit /\ [][MCNext]_mcVars

\* Requests and contents are interchangeable.
Symmetry == Permutations(Requests) \cup Permutations(Contents)
-----------------------------------------------------------------------------
\* "Archives the previous active version" (strategy_service.go:69): never two are
\* active, as long as requests do not overlap and no error is dropped, even when
\* they are cut short between two statements.
SerialOneActive == ~disturbed => AtMostOneActive

\* "can only activate draft versions" (strategy_service.go:76), under the same
\* premise, although the check is made on a row read earlier.
SerialDraftsOnly ==
    [][~disturbed' => \A v \in DOMAIN versions :
          (versions'[v].status = "active" /\ versions[v].status # "active")
              => versions[v].status = "draft"]_mcVars

\* A tenant that ever had an active version is not left without a strategy:
\* whenever no request is under way exactly one version is active, unless a
\* request was cut short and no activation or rollback has been completed since
\* (ActivateVersion, RollbackToVersion).  So whatever an interrupted request
\* leaves behind, the next complete one repairs.
ActiveSurvives ==
    (/\ ~disturbed /\ ~interrupted
     /\ \E v \in DOMAIN versions : versions[v].activated
     /\ \A r \in Requests : req[r].at = "idle")
        => \E v \in ActiveVersions : ActiveVersions = {v}
=============================================================================
