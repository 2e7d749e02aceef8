--------------------------- MODULE CampaignWorkflow ---------------------------
(***************************************************************************)
(* One research campaign: created by CampaignService.Create, run by the    *)
(* Inngest function process-campaign, which hands every candidate product  *)
(* to an evaluate-candidate function that may save a deal                  *)
(* (internal/adapter/inngest/client.go).                                   *)
(*                                                                         *)
(* A step of a function is run at least once: it is tried again when it    *)
(* returns an error, and also when it worked but its answer was lost (the  *)
(* server stops writing an answer after 30 s, or is restarted).  A step    *)
(* that answered is never run again.  After Retries further attempts the   *)
(* step's error is given to the function.  Steps that only read or call    *)
(* an agent change nothing that is modelled, so their attempts are one.    *)
(***************************************************************************)
EXTENDS Naturals, FiniteSets

CONSTANTS
    Candidates,    \* products a campaign may find
    Retries,       \* attempts after the first one (2 in the code)
    Failing,       \* what may fail: some of "trigger", "start", "read", "agent", "send", "save", "update"
    Lossy          \* steps whose answer may be lost: some of Steps

Steps == {"start", "dispatch", "complete", "save"}

ASSUME RetriesAssumption == Retries \in Nat
ASSUME CandidatesAssumption == IsFiniteSet(Candidates)
ASSUME FaultsAssumption ==
    /\ Failing \subseteq {"trigger", "start", "read", "agent", "send", "save", "update"}
    /\ Lossy \subseteq Steps

VARIABLES
    campaign,      \* status of the campaign's row
    workflow,      \* the process-campaign function
    evaluation,    \* the evaluate-candidate functions
    deals          \* number of deals of the campaign, by product

vars == <<campaign, workflow, evaluation, deals>>

\* Of a candidate at most one event is sent by each attempt of its dispatch.
Evaluations == Candidates \X (0 .. Retries)

Statuses == {"pending", "running", "completed", "failed"}

TypeOK ==
    /\ campaign \in Statuses \cup {"absent"}
    /\ workflow \in [at : {"absent", "start", "config", "discover", "dispatch", "wait", "complete",
                           "mark_failed", "done", "failed"},
                     tries : 0 .. Retries,
                     todo : SUBSET Candidates]
    /\ evaluation \in [Evaluations -> [at : {"absent", "gate", "review", "save", "done", "errored"},
                                       tries : 0 .. Retries]]
    /\ deals \in [Candidates -> Nat]

Init ==
    /\ campaign = "absent"
    /\ workflow = [at |-> "absent", tries |-> 0, todo |-> {}]
    /\ evaluation = [e \in Evaluations |-> [at |-> "absent", tries |-> 0]]
    /\ deals = [c \in Candidates |-> 0]
-----------------------------------------------------------------------------
(* Variants with one slip in each, used by nothing.                        *)

AnsweredAgain(f, step, next, giveUp) == {f, [f EXCEPT !.at = next, !.tries = 0]}
AfterWaitTimedOut == "mark_failed"
AfterWaitForEver == "wait"
AllDispatchedButOne ==
    /\ workflow.at = "dispatch"
    /\ Cardinality(workflow.todo) <= 1
    /\ workflow' = [workflow EXCEPT !.at = "wait", !.tries = 0]
    /\ UNCHANGED <<campaign, evaluation, deals>>
-----------------------------------------------------------------------------
(* Campaign.Transition: the new status, or the old one when it is refused. *)

Transition(from, to) ==
    IF <<from, to>> \in {<<"pending", "running">>, <<"pending", "failed">>,
                         <<"running", "completed">>, <<"running", "failed">>}
    THEN to ELSE from

(* A function f whose step answered, or is to be tried again.  The attempt *)
(* after the last one hands the error to the function, which goes on at    *)
(* giveUp.                                                                 *)

Advanced(f, next) == [f EXCEPT !.at = next, !.tries = 0]

Retried(f, giveUp) ==
    IF f.tries < Retries THEN [f EXCEPT !.tries = @ + 1] ELSE Advanced(f, giveUp)

Answered(f, step, next, giveUp) ==
    {Advanced(f, next)} \cup (IF step \in Lossy THEN {Retried(f, giveUp)} ELSE {})
-----------------------------------------------------------------------------
(* CampaignService.Create.                                                 *)

Create ==
    /\ campaign = "absent"
    /\ campaign' = "pending"
    /\ \/ workflow' = [workflow EXCEPT !.at = "start"]
       \* The event is not sent, which is logged; or there is no Inngest
       \* client, and the call on the nil runtime panics.
       \/ "trigger" \in Failing /\ UNCHANGED workflow
    /\ UNCHANGED <<evaluation, deals>>
-----------------------------------------------------------------------------
(* The function process-campaign.                                          *)

\* A start that fails ends the function without markFailed.
Start ==
    /\ workflow.at = "start"
    /\ \/ /\ Transition(campaign, "running") # campaign
          /\ campaign' = Transition(campaign, "running")
          /\ workflow' \in Answered(workflow, "start", "config", "failed")
       \/ /\ Transition(campaign, "running") = campaign \/ "start" \in Failing
          /\ workflow' = Retried(workflow, "failed")
          /\ UNCHANGED campaign
    /\ UNCHANGED <<evaluation, deals>>

BuildConfig ==
    /\ workflow.at = "config"
    /\ \/ workflow' = Advanced(workflow, "discover")
       \/ "read" \in Failing /\ workflow' = Advanced(workflow, "mark_failed")
    /\ UNCHANGED <<campaign, evaluation, deals>>

Discover ==
    /\ workflow.at = "discover"
    /\ \/ \E found \in SUBSET Candidates :
             workflow' = [workflow EXCEPT !.at = IF found = {} THEN "complete" ELSE "dispatch",
                                          !.todo = found]
       \/ "read" \in Failing /\ workflow' = Advanced(workflow, "mark_failed")
    /\ UNCHANGED <<campaign, evaluation, deals>>

\* Candidates are dispatched in a fixed order, each in a step of its own.
NextCandidate == CHOOSE c \in workflow.todo : TRUE

Sent(c) == <<c, workflow.tries>>

\* The error of Send is dropped, and so is the error of the step.
Dispatch ==
    /\ workflow.at = "dispatch"
    /\ workflow.todo # {}
    /\ LET rest == [workflow EXCEPT !.todo = @ \ {NextCandidate}, !.tries = 0]
       IN  \/ workflow' = rest
           \/ /\ "dispatch" \in Lossy
              /\ workflow' = IF workflow.tries < Retries THEN [workflow EXCEPT !.tries = @ + 1]
                                                         ELSE rest
    /\ \/ evaluation' = [evaluation EXCEPT ![Sent(NextCandidate)].at = "gate"]
       \/ "send" \in Failing /\ UNCHANGED evaluation
    /\ UNCHANGED <<campaign, deals>>

AllDispatched ==
    /\ workflow.at = "dispatch"
    /\ workflow.todo = {}
    /\ workflow' = Advanced(workflow, "wait")
    /\ UNCHANGED <<campaign, evaluation, deals>>

AfterWait == "complete"

\* The sleep is as long as the number of candidates says, at most 5 minutes;
\* it watches nothing.
Wait ==
    /\ workflow.at = "wait"
    /\ workflow' = Advanced(workflow, AfterWait)
    /\ UNCHANGED <<campaign, evaluation, deals>>

\* completeCampaign drops every error, so its step answers whatever happened.
Complete ==
    /\ workflow.at = "complete"
    /\ \/ campaign' = Transition(campaign, "completed")
       \/ "update" \in Failing /\ UNCHANGED campaign
    /\ workflow' \in Answered(workflow, "complete", "done", "done")
    /\ UNCHANGED <<evaluation, deals>>

\* markFailed is no step and drops every error too.
MarkFailed ==
    /\ workflow.at = "mark_failed"
    /\ \/ campaign' = Transition(campaign, "failed")
       \/ "update" \in Failing /\ UNCHANGED campaign
    /\ workflow' = Advanced(workflow, "failed")
    /\ UNCHANGED <<evaluation, deals>>
-----------------------------------------------------------------------------
(* The function evaluate-candidate.                                        *)

\* From the first filter to the gating agent.  A filter that drops the candidate
\* ends the function with that verdict, an error of the agent without one.
Gate(e) ==
    /\ evaluation[e].at = "gate"
    /\ \/ evaluation' = [evaluation EXCEPT ![e] = Advanced(@, "review")]
       \/ evaluation' = [evaluation EXCEPT ![e] = Advanced(@, "done")]
       \/ "agent" \in Failing /\ evaluation' = [evaluation EXCEPT ![e] = Advanced(@, "errored")]
    /\ UNCHANGED <<campaign, workflow, deals>>

\* The agents after it, up to the reviewer, who may cut the candidate.  An error
\* of any of them ends the function without a verdict.
Review(e) ==
    /\ evaluation[e].at = "review"
    /\ \/ \E next \in {"save", "done"} :
             evaluation' = [evaluation EXCEPT ![e] = Advanced(@, next)]
       \/ "agent" \in Failing /\ evaluation' = [evaluation EXCEPT ![e] = Advanced(@, "errored")]
    /\ UNCHANGED <<campaign, workflow, deals>>

\* save-deal inserts a row with a new identity each time it runs.
Save(e) ==
    /\ evaluation[e].at = "save"
    /\ \/ /\ deals' = [deals EXCEPT ![e[1]] = @ + 1]
          /\ \E f \in Answered(evaluation[e], "save", "done", "done") :
                evaluation' = [evaluation EXCEPT ![e] = f]
       \/ /\ "save" \in Failing
          /\ evaluation' = [evaluation EXCEPT ![e] = Retried(@, "done")]
          /\ UNCHANGED deals
    /\ UNCHANGED <<campaign, workflow>>
-----------------------------------------------------------------------------
WorkflowStep ==
    \/ Start \/ BuildConfig \/ Discover \/ Dispatch \/ AllDispatched \/ Wait
    \/ Complete \/ MarkFailed

EvaluationStep(e) == Gate(e) \/ Review(e) \/ Save(e)

Next == Create \/ WorkflowStep \/ \E e \in Evaluations : EvaluationStep(e)

Spec == Init /\ [][Next]_vars

\* Inngest resumes a function until it has ended.
Fairness == WF_vars(WorkflowStep) /\ \A e \in Evaluations : WF_vars(EvaluationStep(e))

FairSpec == Spec /\ Fairness
-----------------------------------------------------------------------------
(* Properties.                                                             *)

\* Whatever fails or is repeated, a campaign that is marked as failed has handed
\* out no candidate and has no deals: markFailed is reached before the fan-out
\* only (process-campaign).
FailedIsEmpty ==
    campaign = "failed" =>
        /\ \A e \in Evaluations : evaluation[e].at = "absent"
        /\ \A c \in Candidates : deals[c] = 0

\* One event and one deal per candidate ("child - one per ASIN",
\* client.go:227): repeated attempts do not multiply the deals of a product.
OneDealPerCandidate == \A c \in Candidates : deals[c] <= 1
=============================================================================
