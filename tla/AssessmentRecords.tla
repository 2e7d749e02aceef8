--------------------------- MODULE AssessmentRecords ---------------------------
(***************************************************************************)
(* What an account assessment leaves in the database: the seller profile   *)
(* with its status, the fingerprint, its probe results and category        *)
(* eligibilities, and the strategy drafted from them.  Start and Reset are *)
(* requests of the onboarding page; the Inngest function run-assessment    *)
(* (internal/adapter/inngest/client.go) does the work in three steps, each *)
(* of which is run at least once.  One tenant is modelled: every statement *)
(* is restricted to one.                                                   *)
(*                                                                         *)
(* Each statement is an action of its own, no call opens a transaction.    *)
(* The fingerprint and its rows are named after the attempt that wrote     *)
(* them.  A batch insert (50 rows at a time) is one statement.             *)
(***************************************************************************)
EXTENDS Naturals, Sequences, FiniteSets

CONSTANTS
    Runs,          \* assessments the page asks for
    None,          \* no fingerprint
    Retries,       \* attempts of a step after the first one (2 in the code)
    Failing,       \* what may fail: some of Failures
    Lossy,         \* steps whose answer may be lost: some of Steps
    MaxResets      \* bound: resets the page asks for

Steps == {"search", "complete", "strategy"}
Failures == {"trigger", "client", "totals", "rows", "status", "draft"}

ASSUME RetriesAssumption == Retries \in Nat
ASSUME ResetsAssumption == MaxResets \in Nat
ASSUME FaultsAssumption == Failing \subseteq Failures /\ Lossy \subseteq Steps

VARIABLES
    profile,       \* assessment_status of the seller profile
    fingerprint,   \* the attempt whose totals the fingerprint holds
    probes,        \* attempts whose probe results are in the table
    categories,    \* attempts whose category eligibilities are in the table
    flow,          \* what each run is doing
    reset,         \* what the reset under way does next, and how many there were
    drafts         \* the strategies generated: by which run, from which categories

vars == <<profile, fingerprint, probes, categories, flow, reset, drafts>>

Attempts == Runs \X (0 .. Retries)

ASSUME NoneAssumption == None \notin Attempts

Profiles == {"absent", "running", "completed", "failed"}

TypeOK ==
    /\ profile \in Profiles
    /\ fingerprint \in Attempts \cup {None}
    /\ probes \subseteq Attempts
    /\ categories \subseteq Attempts
    /\ flow \in [Runs -> [at : {"new", "trigger", "search", "totals", "probes", "categories", "answer",
                                "fail", "failing", "complete", "completing",
                                "strategy", "ended"},
                          tries : 0 .. Retries]]
    /\ reset \in [at : {"idle", "probes", "categories", "fingerprint", "profile"}, count : 0 .. MaxResets]
    /\ drafts \in Seq([by : Runs, from : SUBSET Attempts])

Init ==
    /\ profile = "absent"
    /\ fingerprint = None
    /\ probes = {}
    /\ categories = {}
    /\ flow = [r \in Runs |-> [at |-> "new", tries |-> 0]]
    /\ reset = [at |-> "idle", count |-> 0]
    /\ drafts = <<>>
-----------------------------------------------------------------------------
(* Variants with one slip in each, used by nothing.                        *)

RetriedForEver(f, step, giveUp) == [f EXCEPT !.at = step]
AfterTotalsAlways(stored) == "probes"
-----------------------------------------------------------------------------
Attempt(r) == <<r, flow[r].tries>>

Advanced(f, next) == [f EXCEPT !.at = next, !.tries = 0]

\* A step at its beginning once more, or its error handed to the function.
Retried(f, step, giveUp) ==
    IF f.tries < Retries THEN [f EXCEPT !.at = step, !.tries = @ + 1] ELSE Advanced(f, giveUp)

Answered(f, step, next, giveUp) ==
    {Advanced(f, next)} \cup (IF step \in Lossy THEN {Retried(f, step, giveUp)} ELSE {})

Moves(r, at) == flow' = [flow EXCEPT ![r].at = at]

\* An update of the profile, which may have been deleted since it was read.
Marked(status) == IF profile = "absent" THEN "absent" ELSE status
-----------------------------------------------------------------------------
(* Start: StartAssessment, then TriggerAssessment.                         *)

\* The insert of a profile that exists overwrites it.
Start(r) ==
    /\ flow[r].at = "new"
    /\ profile' = "running"
    /\ Moves(r, "trigger")
    /\ UNCHANGED <<fingerprint, probes, categories, reset, drafts>>

Trigger(r) ==
    /\ flow[r].at = "trigger"
    /\ \/ Moves(r, "search")
       \/ "trigger" \in Failing /\ Moves(r, "ended")
    /\ UNCHANGED <<profile, fingerprint, probes, categories, reset, drafts>>
-----------------------------------------------------------------------------
(* The step search-categories: RunDiscoveryAssessment scans, stores the    *)
(* totals and then the rows.  It fails only when there is no client.       *)

Search(r) ==
    /\ flow[r].at = "search"
    /\ \/ Moves(r, "totals")
       \/ "client" \in Failing /\ Moves(r, "fail")
    /\ UNCHANGED <<profile, fingerprint, probes, categories, reset, drafts>>

\* When the totals cannot be stored the rows are not written and the step
\* answers all the same.
AfterTotals(stored) == IF stored THEN "probes" ELSE "answer"

\* One fingerprint per tenant: the insert replaces the totals.
StoreTotals(r) ==
    /\ flow[r].at = "totals"
    /\ \/ fingerprint' = Attempt(r) /\ Moves(r, AfterTotals(TRUE))
       \/ "totals" \in Failing /\ Moves(r, AfterTotals(FALSE)) /\ UNCHANGED fingerprint
    /\ UNCHANGED <<profile, probes, categories, reset, drafts>>

StoreProbes(r) ==
    /\ flow[r].at = "probes"
    /\ Moves(r, "categories")
    /\ \/ probes' = probes \cup {Attempt(r)}
       \/ "rows" \in Failing /\ UNCHANGED probes
    /\ UNCHANGED <<profile, fingerprint, categories, reset, drafts>>

StoreCategories(r) ==
    /\ flow[r].at = "categories"
    /\ Moves(r, "answer")
    /\ \/ categories' = categories \cup {Attempt(r)}
       \/ "rows" \in Failing /\ UNCHANGED categories
    /\ UNCHANGED <<profile, fingerprint, probes, reset, drafts>>

SearchGivenUp == "fail"

AnswerSearch(r) ==
    /\ flow[r].at = "answer"
    /\ \E f \in Answered(flow[r], "search", "complete", SearchGivenUp) : flow' = [flow EXCEPT ![r] = f]
    /\ UNCHANGED <<profile, fingerprint, probes, categories, reset, drafts>>

\* The server is restarted in the middle of the step.
Interrupt(r) ==
    /\ "search" \in Lossy
    /\ flow[r].at \in {"totals", "probes", "categories"}
    /\ flow' = [flow EXCEPT ![r] = Retried(@, "search", SearchGivenUp)]
    /\ UNCHANGED <<profile, fingerprint, probes, categories, reset, drafts>>
-----------------------------------------------------------------------------
(* The end of the function.                                                *)

\* FailAssessment and CompleteAssessment read the profile, then update it.
ReadProfile(r, at, next) ==
    /\ flow[r].at = at
    /\ profile # "absent"
    /\ Moves(r, next)
    /\ UNCHANGED <<profile, fingerprint, probes, categories, reset, drafts>>

\* The error of FailAssessment is logged.
Fail(r) ==
    \/ ReadProfile(r, "fail", "failing")
    \/ /\ \/ flow[r].at = "fail" /\ (profile = "absent" \/ "status" \in Failing) /\ UNCHANGED profile
          \/ flow[r].at = "failing" /\ profile' = Marked("failed")
          \/ flow[r].at = "failing" /\ "status" \in Failing /\ UNCHANGED profile
       /\ flow' = [flow EXCEPT ![r] = Advanced(@, "ended")]
       /\ UNCHANGED <<fingerprint, probes, categories, reset, drafts>>

\* The step complete-assessment.  When it has failed for good the function
\* ends with an error and the status stays.
Complete(r) ==
    \/ ReadProfile(r, "complete", "completing")
    \/ /\ \/ flow[r].at = "complete" /\ profile = "absent"
          \/ flow[r].at \in {"complete", "completing"} /\ "status" \in Failing
       /\ flow' = [flow EXCEPT ![r] = Retried(@, "complete", "ended")]
       /\ UNCHANGED <<profile, fingerprint, probes, categories, reset, drafts>>
    \/ /\ flow[r].at = "completing"
       /\ profile' = Marked("completed")
       /\ \E f \in Answered(flow[r], "complete", "strategy", "ended") : flow' = [flow EXCEPT ![r] = f]
       /\ UNCHANGED <<fingerprint, probes, categories, reset, drafts>>

Drafted(r) == Append(drafts, [by |-> r, from |-> categories])

\* The step build-strategy reads the fingerprint with every row of the tenant.
\* It does nothing when it cannot read one, and its error is dropped.
BuildStrategy(r) ==
    /\ flow[r].at = "strategy"
    /\ \/ /\ fingerprint = None \/ "draft" \in Failing
          /\ flow' = [flow EXCEPT ![r] = Advanced(@, "ended")]
          /\ UNCHANGED drafts
       \/ /\ fingerprint # None
          /\ drafts' = Drafted(r)
          /\ \E f \in Answered(flow[r], "strategy", "ended", "ended") :
                flow' = [flow EXCEPT ![r] = f]
       \/ /\ fingerprint # None
          /\ "draft" \in Failing
          /\ flow' = [flow EXCEPT ![r] = Retried(@, "strategy", "ended")]
          /\ UNCHANGED drafts
    /\ UNCHANGED <<profile, fingerprint, probes, categories, reset>>
-----------------------------------------------------------------------------
(* Reset: three deletes of the fingerprint, one of the profile.            *)

BeginReset ==
    /\ reset.at = "idle"
    /\ reset.count < MaxResets
    /\ reset' = [at |-> "probes", count |-> reset.count + 1]
    /\ UNCHANGED <<profile, fingerprint, probes, categories, flow, drafts>>

\* The errors of the first three statements are dropped.
DeleteProbes ==
    /\ reset.at = "probes"
    /\ reset' = [reset EXCEPT !.at = "categories"]
    /\ probes' = {} \/ ("rows" \in Failing /\ UNCHANGED probes)
    /\ UNCHANGED <<profile, fingerprint, categories, flow, drafts>>

DeleteCategories ==
    /\ reset.at = "categories"
    /\ reset' = [reset EXCEPT !.at = "fingerprint"]
    /\ categories' = {} \/ ("rows" \in Failing /\ UNCHANGED categories)
    /\ UNCHANGED <<profile, fingerprint, probes, flow, drafts>>

DeleteFingerprint ==
    /\ reset.at = "fingerprint"
    /\ reset' = [reset EXCEPT !.at = "profile"]
    /\ fingerprint' = None \/ ("totals" \in Failing /\ UNCHANGED fingerprint)
    /\ UNCHANGED <<profile, probes, categories, flow, drafts>>

DeleteProfile ==
    /\ reset.at = "profile"
    /\ reset' = [reset EXCEPT !.at = "idle"]
    /\ profile' = "absent" \/ ("status" \in Failing /\ UNCHANGED profile)
    /\ UNCHANGED <<fingerprint, probes, categories, flow, drafts>>
-----------------------------------------------------------------------------
RunStep(r) ==
    \/ Trigger(r) \/ Search(r) \/ StoreTotals(r) \/ StoreProbes(r) \/ StoreCategories(r)
    \/ AnswerSearch(r) \/ Interrupt(r) \/ Fail(r) \/ Complete(r) \/ BuildStrategy(r)

ResetStep == DeleteProbes \/ DeleteCategories \/ DeleteFingerprint \/ DeleteProfile

Next == \/ \E r \in Runs : Start(r) \/ RunStep(r)
        \/ BeginReset \/ ResetStep

Spec == Init /\ [][Next]_vars

\* Inngest resumes a function until it has ended, and a request that was begun
\* is served.
Fairness == WF_vars(ResetStep) /\ \A r \in Runs : WF_vars(RunStep(r))
-----------------------------------------------------------------------------
(* Properties; MCAssessmentRecords states in which histories they hold.    *)

\* What is stored is the result of one scan: the rows next to the fingerprint
\* were written by the attempt that wrote its totals (persistFingerprint, Delete).
ResultsOfOneScan == reset.at = "idle" => probes \cup categories \subseteq {fingerprint}

\* A completed assessment has results to show (CompleteAssessment).
CompletedHasResults == (profile = "completed" /\ reset.at = "idle") => fingerprint # None

\* A run drafts one strategy, from its own scan (the step build-strategy).
DraftsFromOneScan ==
    /\ \A i, j \in DOMAIN drafts : drafts[i].by = drafts[j].by => i = j
    /\ \A i \in DOMAIN drafts :
          \/ drafts[i].from = {}
          \/ \E n \in 0 .. Retries : drafts[i].from = {<<drafts[i].by, n>>}
=============================================================================
