------------------------- MODULE MCCampaignWorkflow -------------------------
(***************************************************************************)
(* CampaignWorkflow for TLC, with a history of the incidents so far that   *)
(* the functions do not recover from.                                      *)
(***************************************************************************)
EXTENDS CampaignWorkflow

CONSTANT
    MaxIncidents   \* bound: kinds of incident in one history

VARIABLE seen

Incidents == {"not sent", "not started", "started again", "not updated",
              "sent again", "not handed out", "saved again", "agent error"}

SentBy(c) == {e \in Evaluations : e[1] = c /\ evaluation'[e].at # "absent"}

Happens(i) ==
    \* The event that starts the workflow is not sent.
    \/ i = "not sent" /\ campaign = "absent" /\ workflow'.at = "absent"
    \* start-campaign fails in every attempt.
    \/ i = "not started" /\ workflow.at = "start" /\ workflow'.at = "failed"
    \* Steps that are repeated after their effect.
    \/ i = "started again" /\ workflow.at = "start" /\ campaign' # campaign /\ workflow'.at # "config"
    \/ i = "sent again" /\ \E c \in Candidates : Cardinality(SentBy(c)) > 1
    \/ i = "saved again" /\ deals' # deals
                         /\ \E e \in Evaluations : evaluation'[e].tries > evaluation[e].tries
    \* Errors that are dropped.
    \/ i = "not handed out" /\ \E c \in workflow.todo \ workflow'.todo : SentBy(c) = {}
    \/ i = "not updated" /\ workflow.at \in {"complete", "mark_failed"} /\ campaign' = "running"
                         /\ workflow'.at # workflow.at
    \* The error that an evaluation ends with.
    \/ i = "agent error" /\ \E e \in Evaluations :
                                evaluation[e].at # "errored" /\ evaluation'[e].at = "errored"

MCInit == Init /\ seen = {}

MCNext ==
    /\ Next
    /\ seen' = seen \cup {i \in Incidents : Happens(i)}
    /\ Cardinality(seen') <= MaxIncidents

MCSpec == MCInit /\ [][MCNext]_<<vars, seen>> /\ Fairness

Never(incidents) == seen \cap incidents = {}

\* A product has one deal in the campaign unless the event of its evaluation
\* was sent twice or the step save-deal was repeated after its insert
\* (client.go:187-205, 553-568); no other failure or repetition multiplies it.
DealsUnrepeated == Never({"sent again", "saved again"}) => OneDealPerCandidate

\* A campaign completes or fails, whatever fails or is repeated, unless its
\* workflow was not started, its start-campaign failed for good or was repeated
\* after its update, or the error of its last update was dropped.
CampaignSettles ==
    (campaign = "pending") ~>
        \/ campaign \in {"completed", "failed"}
        \/ ~Never({"not sent", "not started", "started again", "not updated"})

\* Every candidate the campaign found reaches a verdict, whatever is repeated,
\* whatever else fails and whatever becomes of the campaign itself, unless no
\* attempt of its dispatch sent its event, an error that is dropped
\* (client.go:190-204), or an agent gave an error (client.go:345-349, 422-507).
CandidatesJudged ==
    \A c \in Candidates :
        (workflow.at = "dispatch" /\ c \in workflow.todo) ~>
            \/ \E e \in Evaluations : e[1] = c /\ evaluation[e].at = "done"
            \/ ~Never({"not handed out", "agent error"})
=============================================================================
