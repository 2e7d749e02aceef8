----------------------- MODULE CampaignWorkflow_proofs -----------------------
(***************************************************************************)
(* Proofs about CampaignWorkflow, for any finite set of candidates, any    *)
(* number of retries and any faults; the single deal per candidate holds   *)
(* where no answer to a dispatch or a save is lost.                        *)
(***************************************************************************)
EXTENDS MCCampaignWorkflow, FiniteSetTheorems, TLAPS

WorkflowAts == {"absent", "start", "config", "discover", "dispatch", "wait", "complete",
                "mark_failed", "done", "failed"}

Workflow == [at : WorkflowAts, tries : 0 .. Retries, todo : SUBSET Candidates]

EvaluationAts == {"absent", "gate", "review", "save", "done", "errored"}

Evaluation == [at : EvaluationAts, tries : 0 .. Retries]

\* Nothing is handed out before the fan-out, and failures are marked before it.
BeforeFanOut == workflow.at \in {"absent", "start", "config", "discover", "mark_failed"}

NothingSent ==
    /\ \A e \in Evaluations : evaluation[e].at = "absent"
    /\ \A c \in Candidates : deals[c] = 0

QuietBefore ==
    /\ BeforeFanOut => NothingSent
    /\ campaign = "failed" => NothingSent /\ workflow.at = "failed"
    /\ workflow.at = "failed" => NothingSent
    /\ campaign = "absent" => workflow.at = "absent"

IInv == TypeOK /\ QuietBefore

LEMMA InitIInv == Init => IInv
BY RetriesAssumption DEF Init, IInv, TypeOK, QuietBefore, BeforeFanOut, NothingSent, Evaluations

\* The shapes a function takes after an attempt.
LEMMA WorkflowShapes ==
    ASSUME NEW f \in Workflow, NEW next \in WorkflowAts, NEW giveUp \in WorkflowAts
    PROVE  /\ Advanced(f, next) \in Workflow
           /\ Advanced(f, next).at = next
           /\ Retried(f, giveUp) \in Workflow
           /\ Retried(f, giveUp).at \in {f.at, giveUp}
<1>1. f.tries \in 0 .. Retries /\ Retries \in Nat /\ 0 \in 0 .. Retries
  BY RetriesAssumption DEF Workflow
<1>2. Advanced(f, next) \in Workflow /\ Advanced(f, next).at = next
  BY <1>1 DEF Advanced, Workflow
<1>3. CASE f.tries < Retries
  <2>. DEFINE n == f.tries + 1
  <2>1. n \in 0 .. Retries
    BY <1>1, <1>3
  <2>2. Retried(f, giveUp) = [f EXCEPT !.tries = n]
    BY <1>3 DEF Retried
  <2>. HIDE DEF n
  <2>3. [f EXCEPT !.tries = n] \in Workflow /\ [f EXCEPT !.tries = n].at = f.at
    BY <2>1 DEF Workflow
  <2>. QED  BY <1>2, <2>2, <2>3
<1>4. CASE ~(f.tries < Retries)
  BY <1>1, <1>2, <1>4 DEF Retried, Advanced, Workflow
<1>. QED  BY <1>2, <1>3, <1>4

LEMMA EvaluationShapes ==
    ASSUME NEW f \in Evaluation, NEW next \in EvaluationAts, NEW giveUp \in EvaluationAts
    PROVE  /\ Advanced(f, next) \in Evaluation
           /\ Advanced(f, next).at = next
           /\ Retried(f, giveUp) \in Evaluation
           /\ Retried(f, giveUp).at \in {f.at, giveUp}
<1>1. f.tries \in 0 .. Retries /\ Retries \in Nat /\ 0 \in 0 .. Retries
  BY RetriesAssumption DEF Evaluation
<1>2. Advanced(f, next) \in Evaluation /\ Advanced(f, next).at = next
  BY <1>1 DEF Advanced, Evaluation
<1>3. CASE f.tries < Retries
  <2>. DEFINE n == f.tries + 1
  <2>1. n \in 0 .. Retries
    BY <1>1, <1>3
  <2>2. Retried(f, giveUp) = [f EXCEPT !.tries = n]
    BY <1>3 DEF Retried
  <2>. HIDE DEF n
  <2>3. [f EXCEPT !.tries = n] \in Evaluation /\ [f EXCEPT !.tries = n].at = f.at
    BY <2>1 DEF Evaluation
  <2>. QED  BY <1>2, <2>2, <2>3
<1>4. CASE ~(f.tries < Retries)
  BY <1>1, <1>2, <1>4 DEF Retried, Advanced, Evaluation
<1>. QED  BY <1>2, <1>3, <1>4

\* What a step of the workflow other than a dispatch may do: it hands out
\* nothing, leaves the part before the fan-out for good, and fails only there.
QuietMove ==
    /\ campaign' \in Statuses /\ workflow' \in Workflow /\ UNCHANGED <<evaluation, deals>>
    /\ workflow'.at \in {"absent", "start", "config", "discover", "mark_failed", "failed"} => BeforeFanOut
    /\ campaign' = "failed" => BeforeFanOut /\ workflow'.at = "failed"

LEMMA QuietSteps ==
    ASSUME IInv,
           Create \/ Start \/ BuildConfig \/ Discover \/ AllDispatched \/ Wait \/ Complete \/ MarkFailed
    PROVE  QuietMove
<1>0. /\ campaign \in Statuses \cup {"absent"} /\ workflow \in Workflow
      /\ campaign = "failed" => workflow.at = "failed"
      /\ campaign = "absent" => workflow.at = "absent"
  BY DEF IInv, TypeOK, QuietBefore, Workflow, WorkflowAts
<1>s. \A next, giveUp \in WorkflowAts :
         /\ Advanced(workflow, next) \in Workflow /\ Advanced(workflow, next).at = next
         /\ Retried(workflow, giveUp) \in Workflow
         /\ Retried(workflow, giveUp).at \in {workflow.at, giveUp}
  BY <1>0, WorkflowShapes
<1>t. /\ Transition(campaign, "running") \in {campaign, "running"}
      /\ Transition(campaign, "completed") \in {campaign, "completed"}
      /\ Transition(campaign, "failed") \in {campaign, "failed"}
  BY DEF Transition
<1>1. CASE Create
  BY <1>0, <1>1 DEF Create, QuietMove, Workflow, WorkflowAts, Statuses, BeforeFanOut
<1>2. CASE Start
  <2>1. /\ workflow.at = "start" /\ campaign' \in {campaign, "running"} /\ UNCHANGED <<evaluation, deals>>
        /\ workflow' \in {Advanced(workflow, "config"), Retried(workflow, "failed")}
    BY <1>2, <1>t DEF Start, Answered
  <2>2. workflow' \in Workflow /\ workflow'.at \in {"config", "start", "failed"}
    BY <1>s, <2>1 DEF WorkflowAts
  <2>. QED  BY <1>0, <2>1, <2>2 DEF QuietMove, Statuses, BeforeFanOut
<1>3. CASE BuildConfig
  <2>1. /\ workflow.at = "config" /\ UNCHANGED <<campaign, evaluation, deals>>
        /\ workflow' \in {Advanced(workflow, "discover"), Advanced(workflow, "mark_failed")}
    BY <1>3 DEF BuildConfig
  <2>2. workflow' \in Workflow /\ workflow'.at \in {"discover", "mark_failed"}
    BY <1>s, <2>1 DEF WorkflowAts
  <2>. QED  BY <1>0, <2>1, <2>2 DEF QuietMove, Statuses, BeforeFanOut
<1>4. CASE Discover
  <2>1. /\ workflow.at = "discover" /\ UNCHANGED <<campaign, evaluation, deals>>
    BY <1>4 DEF Discover
  <2>2. workflow' \in Workflow /\ workflow'.at \in {"complete", "dispatch", "mark_failed"}
    <3>1. CASE workflow' = Advanced(workflow, "mark_failed")
      BY <1>s, <3>1 DEF WorkflowAts
    <3>2. CASE workflow' # Advanced(workflow, "mark_failed")
      <4>1. PICK found \in SUBSET Candidates, next \in {"complete", "dispatch"} :
               workflow' = [workflow EXCEPT !.at = next, !.todo = found]
        BY <1>4, <3>2 DEF Discover
      <4>. QED  BY <1>0, <4>1 DEF Workflow, WorkflowAts
    <3>. QED  BY <3>1, <3>2
  <2>. QED  BY <1>0, <2>1, <2>2 DEF QuietMove, Statuses, BeforeFanOut
<1>5. CASE AllDispatched \/ Wait
  <2>1. /\ workflow.at \in {"dispatch", "wait"} /\ UNCHANGED <<campaign, evaluation, deals>>
        /\ workflow' \in {Advanced(workflow, "wait"), Advanced(workflow, "complete")}
    BY <1>5 DEF AllDispatched, Wait, AfterWait
  <2>2. workflow' \in Workflow /\ workflow'.at \in {"wait", "complete"}
    BY <1>s, <2>1 DEF WorkflowAts
  <2>. QED  BY <1>0, <2>1, <2>2 DEF QuietMove, Statuses, BeforeFanOut
<1>6. CASE Complete
  <2>1. /\ workflow.at = "complete" /\ campaign' \in {campaign, "completed"}
        /\ UNCHANGED <<evaluation, deals>>
        /\ workflow' \in {Advanced(workflow, "done"), Retried(workflow, "done")}
    BY <1>6, <1>t DEF Complete, Answered
  <2>2. workflow' \in Workflow /\ workflow'.at \in {"complete", "done"}
    BY <1>s, <2>1 DEF WorkflowAts
  <2>. QED  BY <1>0, <2>1, <2>2 DEF QuietMove, Statuses, BeforeFanOut
<1>7. CASE MarkFailed
  <2>1. /\ workflow.at = "mark_failed" /\ campaign' \in {campaign, "failed"}
        /\ UNCHANGED <<evaluation, deals>> /\ workflow' = Advanced(workflow, "failed")
    BY <1>7, <1>t DEF MarkFailed
  <2>2. workflow' \in Workflow /\ workflow'.at = "failed"
    BY <1>s, <2>1 DEF WorkflowAts
  <2>. QED  BY <1>0, <2>1, <2>2 DEF QuietMove, Statuses, BeforeFanOut
<1>. QED  BY <1>1, <1>2, <1>3, <1>4, <1>5, <1>6, <1>7

\* What a step of an evaluation may do: only one that was started moves, and
\* only its candidate gains a deal.
LEMMA EvaluationMoves ==
    ASSUME IInv, NEW e \in Evaluations, EvaluationStep(e)
    PROVE  /\ evaluation[e].at # "absent" /\ UNCHANGED <<campaign, workflow>>
           /\ \E f \in Evaluation : evaluation' = [evaluation EXCEPT ![e] = f] /\ f.at # "absent"
           /\ deals' \in [Candidates -> Nat]
           /\ \/ deals' = deals
              \/ evaluation[e].at = "save" /\ deals' = [deals EXCEPT ![e[1]] = @ + 1]
<1>0. evaluation[e] \in Evaluation /\ deals \in [Candidates -> Nat] /\ e[1] \in Candidates
  BY DEF IInv, TypeOK, Evaluation, EvaluationAts, Evaluations
<1>s. \A next, giveUp \in EvaluationAts :
         /\ Advanced(evaluation[e], next) \in Evaluation /\ Advanced(evaluation[e], next).at = next
         /\ Retried(evaluation[e], giveUp) \in Evaluation
         /\ Retried(evaluation[e], giveUp).at \in {evaluation[e].at, giveUp}
  BY <1>0, EvaluationShapes
<1>1. CASE Gate(e)
  <2>1. PICK next \in {"review", "done", "errored"} :
           evaluation' = [evaluation EXCEPT ![e] = Advanced(evaluation[e], next)]
    BY <1>1 DEF Gate
  <2>. QED  BY <1>0, <1>1, <1>s, <2>1 DEF Gate, EvaluationAts
<1>2. CASE Review(e)
  <2>1. PICK next \in {"save", "done", "errored"} :
           evaluation' = [evaluation EXCEPT ![e] = Advanced(evaluation[e], next)]
    BY <1>2 DEF Review
  <2>. QED  BY <1>0, <1>2, <1>s, <2>1 DEF Review, EvaluationAts
<1>3. CASE Save(e)
  <2>1. PICK f \in {Advanced(evaluation[e], "done"), Retried(evaluation[e], "done")} :
           evaluation' = [evaluation EXCEPT ![e] = f]
    BY <1>3 DEF Save, Answered
  <2>2. f \in Evaluation /\ f.at \in {"save", "done"}
    BY <1>3, <1>s, <2>1 DEF Save, EvaluationAts
  <2>3. /\ evaluation[e].at = "save" /\ UNCHANGED <<campaign, workflow>>
        /\ deals' = deals \/ deals' = [deals EXCEPT ![e[1]] = @ + 1]
    BY <1>3 DEF Save
  <2>4. deals' \in [Candidates -> Nat]
    BY <1>0, <2>3
  <2>. QED  BY <2>1, <2>2, <2>3, <2>4
<1>. QED  BY <1>1, <1>2, <1>3 DEF EvaluationStep

\* What a dispatch may do: start at most the evaluation of this attempt.
LEMMA DispatchMoves ==
    ASSUME IInv, Dispatch
    PROVE  /\ workflow.at = "dispatch" /\ UNCHANGED <<campaign, deals>>
           /\ NextCandidate \in workflow.todo /\ workflow.tries \in 0 .. Retries
           /\ workflow' \in Workflow /\ workflow'.at = "dispatch"
           /\ \/ workflow'.todo = workflow.todo \ {NextCandidate} /\ workflow'.tries = 0
              \/ "dispatch" \in Lossy
           /\ workflow'.todo \subseteq workflow.todo
           /\ \/ evaluation' = evaluation
              \/ evaluation' = [evaluation EXCEPT ![Sent(NextCandidate)].at = "gate"]
<1>0. workflow \in Workflow /\ 0 \in 0 .. Retries
  BY RetriesAssumption DEF IInv, TypeOK, Workflow, WorkflowAts
<1>1. /\ workflow.at = "dispatch" /\ workflow.todo # {} /\ UNCHANGED <<campaign, deals>>
      /\ \/ evaluation' = evaluation
         \/ evaluation' = [evaluation EXCEPT ![Sent(NextCandidate)].at = "gate"]
  BY DEF Dispatch
<1>2. NextCandidate \in workflow.todo
  BY <1>1, Zenon DEF NextCandidate
<1>. DEFINE left == workflow.todo \ {NextCandidate}
            n == workflow.tries + 1
<1>3. \/ workflow' = [workflow EXCEPT !.todo = left, !.tries = 0]
      \/ /\ "dispatch" \in Lossy /\ workflow.tries < Retries
         /\ workflow' = [workflow EXCEPT !.tries = n]
  BY DEF Dispatch
<1>4. left \subseteq Candidates /\ left \subseteq workflow.todo
  BY <1>0 DEF Workflow
<1>5. workflow.tries < Retries => n \in 0 .. Retries
  BY <1>0, RetriesAssumption DEF Workflow
<1>. HIDE DEF left, n
<1>6. CASE workflow' = [workflow EXCEPT !.todo = left, !.tries = 0]
  <2>1. workflow' \in Workflow /\ workflow'.at = "dispatch" /\ workflow'.todo = left /\ workflow'.tries = 0
    BY <1>0, <1>1, <1>4, <1>6 DEF Workflow
  <2>. QED  BY <1>0, <1>1, <1>2, <1>4, <2>1 DEF Workflow, left
<1>7. CASE /\ "dispatch" \in Lossy /\ workflow.tries < Retries
           /\ workflow' = [workflow EXCEPT !.tries = n]
  <2>1. workflow' \in Workflow /\ workflow'.at = "dispatch" /\ workflow'.todo = workflow.todo
    BY <1>0, <1>1, <1>5, <1>7 DEF Workflow
  <2>. QED  BY <1>0, <1>1, <1>2, <1>7, <2>1 DEF Workflow
<1>. QED  BY <1>3, <1>6, <1>7

LEMMA NextIInv == IInv /\ [Next]_vars => IInv'
<1>. SUFFICES ASSUME IInv, [Next]_vars PROVE IInv'
  OBVIOUS
<1>0. /\ workflow \in Workflow /\ evaluation \in [Evaluations -> Evaluation]
      /\ deals \in [Candidates -> Nat] /\ campaign \in Statuses \cup {"absent"}
  BY DEF IInv, TypeOK, Workflow, WorkflowAts, Evaluation, EvaluationAts
<1>t. ASSUME workflow' \in Workflow, evaluation' \in [Evaluations -> Evaluation],
             deals' \in [Candidates -> Nat], campaign' \in Statuses \cup {"absent"}
      PROVE  TypeOK'
  BY <1>t DEF TypeOK, Workflow, WorkflowAts, Evaluation, EvaluationAts, Evaluations
<1>1. CASE Create \/ Start \/ BuildConfig \/ Discover \/ AllDispatched \/ Wait \/ Complete \/ MarkFailed
  <2>1. QuietMove
    BY <1>1, QuietSteps
  <2>2. TypeOK'
    BY <1>0, <1>t, <2>1 DEF QuietMove
  <2>3. QuietBefore'
    BY <2>1 DEF QuietMove, IInv, QuietBefore, BeforeFanOut, NothingSent, Statuses
  <2>. QED  BY <2>2, <2>3 DEF IInv
<1>2. CASE Dispatch
  <2>1. /\ workflow.at = "dispatch" /\ UNCHANGED <<campaign, deals>>
        /\ workflow' \in Workflow /\ workflow'.at = "dispatch"
        /\ \/ evaluation' = evaluation
           \/ evaluation' = [evaluation EXCEPT ![Sent(NextCandidate)].at = "gate"]
    BY <1>2, DispatchMoves
  <2>2. evaluation' \in [Evaluations -> Evaluation]
    BY <1>0, <2>1 DEF Evaluation, EvaluationAts
  <2>3. TypeOK'
    BY <1>0, <1>t, <2>1, <2>2
  <2>4. QuietBefore'
    BY <2>1 DEF IInv, QuietBefore, BeforeFanOut
  <2>. QED  BY <2>3, <2>4 DEF IInv
<1>3. ASSUME NEW e \in Evaluations, EvaluationStep(e)
      PROVE  IInv'
  <2>1. /\ evaluation[e].at # "absent" /\ UNCHANGED <<campaign, workflow>>
        /\ \E f \in Evaluation : evaluation' = [evaluation EXCEPT ![e] = f]
        /\ deals' \in [Candidates -> Nat]
    BY <1>3, EvaluationMoves
  <2>2. TypeOK'
    BY <1>0, <1>t, <2>1
  <2>3. ~NothingSent
    BY <2>1 DEF NothingSent
  <2>4. QuietBefore'
    BY <2>1, <2>3 DEF IInv, QuietBefore, BeforeFanOut
  <2>. QED  BY <2>2, <2>4 DEF IInv
<1>4. CASE UNCHANGED vars
  BY <1>4 DEF vars, IInv, TypeOK, QuietBefore, BeforeFanOut, NothingSent
<1>. QED  BY <1>1, <1>2, <1>3, <1>4 DEF Next, WorkflowStep

THEOREM Invariance == Spec => []IInv
BY InitIInv, NextIInv, PTL DEF Spec

\* The variables keep their types, attempts stay within their bound.
THEOREM TypeCorrect == Spec => []TypeOK
<1>1. IInv => TypeOK
  BY DEF IInv
<1>. QED  BY <1>1, Invariance, PTL

\* A failed campaign has handed out nothing and has no deals, whatever fails and
\* whatever is repeated (markFailed, process-campaign).
THEOREM FailedCampaignsEmpty == Spec => []FailedIsEmpty
<1>1. IInv => FailedIsEmpty
  BY DEF IInv, QuietBefore, NothingSent, FailedIsEmpty
<1>. QED  BY <1>1, Invariance, PTL
-----------------------------------------------------------------------------
(* Where the answers of dispatch and save arrive, each candidate has one    *)
(* evaluation, the one of the first attempt, and its deal is saved as that  *)
(* evaluation ends.                                                         *)

FirstAttempts ==
    /\ workflow.at \in {"config", "discover", "dispatch"} => workflow.tries = 0
    /\ \A e \in Evaluations : e[2] # 0 => evaluation[e].at = "absent"
    /\ workflow.at = "dispatch" => \A c \in workflow.todo : evaluation[<<c, 0>>].at = "absent"
    /\ \A c \in Candidates : \/ deals[c] = 0
                             \/ deals[c] = 1 /\ evaluation[<<c, 0>>].at = "done"

SingleInv == IInv /\ FirstAttempts

Answering == Lossy \cap {"dispatch", "save"} = {}

LEMMA SingleInit == Init => SingleInv
<1>. SUFFICES ASSUME Init PROVE SingleInv
  OBVIOUS
<1>1. IInv
  BY InitIInv
<1>2. FirstAttempts
  BY DEF Init, FirstAttempts
<1>. QED  BY <1>1, <1>2 DEF SingleInv

LEMMA SingleNext == Answering /\ SingleInv /\ [Next]_vars => SingleInv'
<1>. SUFFICES ASSUME Answering, SingleInv, [Next]_vars PROVE SingleInv'
  OBVIOUS
<1>i. IInv /\ IInv' /\ FirstAttempts
  BY NextIInv DEF SingleInv
<1>0. /\ workflow \in Workflow /\ evaluation \in [Evaluations -> Evaluation]
      /\ deals \in [Candidates -> Nat]
      /\ \A c \in Candidates : <<c, 0>> \in Evaluations
  BY <1>i, RetriesAssumption DEF IInv, TypeOK, Workflow, WorkflowAts, Evaluation, EvaluationAts, Evaluations
<1>1. CASE Create \/ Start \/ BuildConfig \/ Discover \/ AllDispatched \/ Wait \/ Complete \/ MarkFailed
  <2>1. UNCHANGED <<evaluation, deals>>
    BY <1>1, <1>i, QuietSteps DEF QuietMove
  <2>2. /\ workflow'.at \in {"config", "discover", "dispatch"} => workflow'.tries = 0
        /\ workflow'.at = "dispatch" => BeforeFanOut
    <3>1. CASE Create
      <4>1. /\ workflow.at = "absent"
            /\ workflow' = workflow \/ workflow' = [workflow EXCEPT !.at = "start"]
        BY <1>i, <3>1 DEF Create, IInv, QuietBefore
      <4>2. workflow'.at \in {"absent", "start"}
        BY <1>0, <4>1 DEF Workflow
      <4>. QED  BY <4>2
    <3>2. CASE Start
      <4>1. /\ workflow.at = "start"
            /\ workflow' \in {Advanced(workflow, "config"), Retried(workflow, "failed")}
        BY <3>2 DEF Start, Answered
      <4>2. CASE workflow' = Advanced(workflow, "config")
        BY <1>0, <4>2 DEF Advanced, Workflow
      <4>3. CASE workflow' = Retried(workflow, "failed")
        <5>1. Retried(workflow, "failed").at \in {"start", "failed"}
          BY <1>0, <4>1, WorkflowShapes DEF WorkflowAts
        <5>. QED  BY <4>3, <5>1
      <4>. QED  BY <4>1, <4>2, <4>3
    <3>3. CASE BuildConfig
      BY <1>0, <3>3 DEF BuildConfig, Advanced, Workflow
    <3>4. CASE Discover
      <4>1. workflow.at = "discover" /\ workflow.tries = 0 /\ BeforeFanOut
        BY <1>i, <3>4 DEF Discover, FirstAttempts, BeforeFanOut
      <4>2. CASE workflow' = Advanced(workflow, "mark_failed")
        BY <1>0, <4>2 DEF Advanced, Workflow
      <4>3. CASE workflow' # Advanced(workflow, "mark_failed")
        <5>1. PICK found \in SUBSET Candidates, next \in {"complete", "dispatch"} :
                 workflow' = [workflow EXCEPT !.at = next, !.todo = found]
          BY <3>4, <4>3 DEF Discover
        <5>2. workflow'.tries = 0
          BY <1>0, <4>1, <5>1 DEF Workflow
        <5>. QED  BY <4>1, <5>2
      <4>. QED  BY <4>2, <4>3
    <3>5. CASE AllDispatched \/ Wait
      BY <1>0, <3>5 DEF AllDispatched, Wait, AfterWait, Advanced, Workflow
    <3>6. CASE Complete
      <4>1. /\ workflow.at = "complete"
            /\ workflow' \in {Advanced(workflow, "done"), Retried(workflow, "done")}
        BY <3>6 DEF Complete, Answered
      <4>2. workflow'.at \in {"complete", "done"}
        BY <1>0, <4>1, WorkflowShapes DEF WorkflowAts
      <4>. QED  BY <4>2
    <3>7. CASE MarkFailed
      BY <1>0, <3>7 DEF MarkFailed, Advanced, Workflow
    <3>. QED  BY <1>1, <3>1, <3>2, <3>3, <3>4, <3>5, <3>6, <3>7
  <2>3. BeforeFanOut => \A e \in Evaluations : evaluation[e].at = "absent"
    BY <1>i DEF IInv, QuietBefore, NothingSent
  <2>4. workflow'.todo \subseteq Candidates
    BY <1>i DEF IInv, TypeOK
  <2>5. FirstAttempts'
    BY <1>0, <1>i, <2>1, <2>2, <2>3, <2>4 DEF FirstAttempts
  <2>. QED  BY <1>i, <2>5 DEF SingleInv
<1>2. CASE Dispatch
  <2>. DEFINE c0 == NextCandidate
  <2>1. /\ workflow.at = "dispatch" /\ UNCHANGED deals
        /\ c0 \in workflow.todo /\ workflow'.at = "dispatch"
        /\ workflow'.todo = workflow.todo \ {c0} /\ workflow'.tries = 0
        /\ \/ evaluation' = evaluation
           \/ evaluation' = [evaluation EXCEPT ![Sent(c0)].at = "gate"]
    BY <1>2, <1>i, DispatchMoves DEF Answering
  <2>2. Sent(c0) = <<c0, 0>> /\ c0 \in Candidates
    BY <1>0, <1>i, <2>1 DEF Sent, FirstAttempts, Workflow
  <2>. HIDE DEF c0
  <2>3. \A e \in Evaluations : e # <<c0, 0>> => evaluation'[e] = evaluation[e]
    BY <1>0, <2>1, <2>2
  <2>4. deals[c0] = 0
    BY <1>i, <2>1, <2>2 DEF FirstAttempts
  <2>5. \A e \in Evaluations : e[2] # 0 => evaluation'[e].at = "absent"
    BY <1>i, <2>3 DEF FirstAttempts
  <2>6. \A c \in workflow'.todo : evaluation'[<<c, 0>>].at = "absent"
    BY <1>0, <1>i, <2>1, <2>3, ZenonT(60) DEF FirstAttempts, Workflow
  <2>7. \A c \in Candidates : \/ deals'[c] = 0
                              \/ deals'[c] = 1 /\ evaluation'[<<c, 0>>].at = "done"
    BY <1>0, <1>i, <2>1, <2>3, <2>4 DEF FirstAttempts
  <2>. QED  BY <1>i, <2>1, <2>5, <2>6, <2>7 DEF FirstAttempts, SingleInv
<1>3. ASSUME NEW e \in Evaluations, EvaluationStep(e)
      PROVE  SingleInv'
  <2>1. PICK f \in Evaluation : evaluation' = [evaluation EXCEPT ![e] = f] /\ f.at # "absent"
    BY <1>3, <1>i, EvaluationMoves
  <2>2. /\ evaluation[e].at # "absent" /\ UNCHANGED <<campaign, workflow>>
        /\ \/ deals' = deals
           \/ evaluation[e].at = "save" /\ deals' = [deals EXCEPT ![e[1]] = @ + 1]
    BY <1>3, <1>i, EvaluationMoves
  <2>3. e = <<e[1], 0>> /\ e[1] \in Candidates
    BY <1>i, <2>2 DEF FirstAttempts, Evaluations
  <2>4. evaluation'[e] = f /\ \A d \in Evaluations : d # e => evaluation'[d] = evaluation[d]
    BY <1>0, <2>1
  <2>5. \A d \in Evaluations : d[2] # 0 => evaluation'[d].at = "absent"
    BY <1>i, <2>3, <2>4 DEF FirstAttempts
  <2>6. workflow'.at = "dispatch" => \A c \in workflow'.todo : evaluation'[<<c, 0>>].at = "absent"
    <3>. SUFFICES ASSUME workflow.at = "dispatch", NEW c \in workflow.todo
                  PROVE  evaluation'[<<c, 0>>].at = "absent"
      BY <2>2
    <3>1. evaluation[<<c, 0>>].at = "absent" /\ <<c, 0>> \in Evaluations
      BY <1>0, <1>i DEF FirstAttempts, Workflow
    <3>. QED  BY <2>2, <2>4, <3>1
  <2>7. \A c \in Candidates : \/ deals'[c] = 0
                              \/ deals'[c] = 1 /\ evaluation'[<<c, 0>>].at = "done"
    <3>. SUFFICES ASSUME NEW c \in Candidates
                  PROVE  \/ deals'[c] = 0
                         \/ deals'[c] = 1 /\ evaluation'[<<c, 0>>].at = "done"
      OBVIOUS
    <3>1. CASE c # e[1]
      BY <1>0, <1>i, <2>2, <2>3, <2>4, <3>1 DEF FirstAttempts
    <3>2. CASE c = e[1] /\ Save(e)
      <4>1. deals[c] = 0
        BY <1>i, <2>3, <3>2 DEF FirstAttempts, Save
      <4>2. CASE deals' = deals
        BY <4>1, <4>2
      <4>3. CASE deals' # deals
        <5>1. deals' = [deals EXCEPT ![c] = @ + 1]
          BY <2>2, <3>2, <4>3
        <5>2. deals'[c] = 1
          BY <1>0, <4>1, <5>1
        <5>3. evaluation' = [evaluation EXCEPT ![e] = Advanced(evaluation[e], "done")]
          BY <3>2, <4>3 DEF Save, Answered, Answering
        <5>4. evaluation'[e].at = "done"
          BY <1>0, <5>3 DEF Advanced, Evaluation
        <5>. QED  BY <2>3, <3>2, <5>2, <5>4
      <4>. QED  BY <4>2, <4>3
    <3>3. CASE c = e[1] /\ ~Save(e)
      <4>1. evaluation[e].at \in {"gate", "review"} /\ deals' = deals
        BY <1>3, <3>3 DEF EvaluationStep, Gate, Review
      <4>2. deals[c] = 0
        BY <1>i, <2>3, <3>3, <4>1 DEF FirstAttempts
      <4>. QED  BY <4>1, <4>2
    <3>. QED  BY <3>1, <3>2, <3>3
  <2>8. workflow'.at \in {"config", "discover", "dispatch"} => workflow'.tries = 0
    BY <1>i, <2>2 DEF FirstAttempts
  <2>. QED  BY <1>i, <2>5, <2>6, <2>7, <2>8 DEF FirstAttempts, SingleInv
<1>4. CASE UNCHANGED vars
  BY <1>4, <1>i DEF vars, FirstAttempts, SingleInv
<1>. QED  BY <1>1, <1>2, <1>3, <1>4 DEF Next, WorkflowStep

\* As long as the answers of dispatch and save are not lost, a product gets at
\* most one deal, whatever fails otherwise (the dispatch and save-deal steps).
THEOREM SingleDeals ==
    ASSUME Answering
    PROVE  Spec => []OneDealPerCandidate
<1>1. SingleInv /\ [Next]_vars => SingleInv'
  BY SingleNext
<1>2. SingleInv => OneDealPerCandidate
  <2>. SUFFICES ASSUME SingleInv, NEW c \in Candidates PROVE deals[c] <= 1
    BY DEF OneDealPerCandidate
  <2>1. deals[c] = 0 \/ deals[c] = 1
    BY DEF SingleInv, FirstAttempts
  <2>. QED  BY <2>1
<1>. QED  BY <1>1, <1>2, SingleInit, PTL DEF Spec
-----------------------------------------------------------------------------
(* With repetitions, as long as none has sent a second event for a product *)
(* or saved a deal a second time.                                          *)

\* An attempt of a dispatch is the first to use its number.
FreshEvents ==
    workflow.at = "dispatch" =>
        \A e \in Evaluations :
            e[1] \in workflow.todo /\ evaluation[e].at # "absent"
               => e[1] = NextCandidate /\ e[2] < workflow.tries

\* A product has one evaluation, and a deal once that one is done.
OneSent ==
    \A d, e \in Evaluations :
        d[1] = e[1] /\ evaluation[d].at # "absent" /\ evaluation[e].at # "absent" => d = e

Judged == {c \in Candidates : \E e \in Evaluations : e[1] = c /\ evaluation[e].at = "done"}

Unrepeated == Never({"sent again", "saved again"})

DoneOnce ==
    Unrepeated =>
        /\ OneSent
        /\ \A c \in Candidates : deals[c] = 0 \/ (deals[c] = 1 /\ c \in Judged)

UnrepeatedInv == IInv /\ FreshEvents /\ DoneOnce

\* A set with two elements counts more than one.
LEMMA TwoCounted ==
    ASSUME NEW S, IsFiniteSet(S), NEW d \in S, NEW e \in S, d # e
    PROVE  Cardinality(S) > 1
<1>. DEFINE D == {d}
            T == D \cup {e}
<1>1. IsFiniteSet(D) /\ Cardinality(D) = 1 /\ e \notin D
  BY FS_Singleton
<1>2. T \in SUBSET S
  OBVIOUS
<1>. HIDE DEF D
<1>3. Cardinality(T) = Cardinality(D) + 1
  BY <1>1, FS_AddElement
<1>4. T \in SUBSET S /\ Cardinality(T) = 2
  BY <1>1, <1>2, <1>3
<1>. HIDE DEF T
<1>5. Cardinality(T) <= Cardinality(S) /\ Cardinality(S) \in Nat
  BY <1>4, FS_Subset, FS_CardinalityType
<1>. QED  BY <1>4, <1>5

\* What no step may have done when nothing was sent or saved again.
LEMMA NotAgain ==
    ASSUME [MCNext]_<<vars, seen>>, Unrepeated'
    PROVE  /\ Unrepeated
           /\ vars' # vars =>
                 /\ \A d, e \in Evaluations :
                       d[1] = e[1] /\ e[1] \in Candidates
                          /\ evaluation'[d].at # "absent" /\ evaluation'[e].at # "absent" => d = e
                 /\ deals' # deals => \A e \in Evaluations : ~(evaluation'[e].tries > evaluation[e].tries)
<1>1. CASE UNCHANGED <<vars, seen>>
  BY <1>1 DEF Unrepeated, Never
<1>2. CASE MCNext
  <2>1. seen' = seen \cup {i \in Incidents : Happens(i)}
    BY <1>2 DEF MCNext
  <2>2. ~Happens("sent again") /\ ~Happens("saved again") /\ Unrepeated
    BY <2>1 DEF Unrepeated, Never, Incidents
  <2>3. deals' # deals => \A e \in Evaluations : ~(evaluation'[e].tries > evaluation[e].tries)
    BY <2>2 DEF Happens
  <2>4. ASSUME NEW d \in Evaluations, NEW e \in Evaluations, d[1] = e[1], e[1] \in Candidates,
               evaluation'[d].at # "absent", evaluation'[e].at # "absent", d # e
        PROVE  FALSE
    <3>1. d \in SentBy(e[1]) /\ e \in SentBy(e[1])
      BY <2>4 DEF SentBy
    <3>2. IsFiniteSet(SentBy(e[1]))
      <4>1. IsFiniteSet(Candidates \X (0 .. Retries))
        <5>1. IsFiniteSet(0 .. Retries)
          <6>1. 0 \in Int /\ Retries \in Int
            BY RetriesAssumption
          <6>. QED  BY <6>1, FS_Interval
        <5>. QED  BY <5>1, CandidatesAssumption, FS_Product
      <4>2. SentBy(e[1]) \subseteq Candidates \X (0 .. Retries)
        BY DEF SentBy, Evaluations
      <4>. QED  BY <4>1, <4>2, FS_Subset
    <3>3. Cardinality(SentBy(e[1])) > 1
      BY <2>4, <3>1, <3>2, TwoCounted
    <3>. QED  BY <2>2, <2>4, <3>3 DEF Happens
  <2>. QED  BY <2>2, <2>3, <2>4
<1>. QED  BY <1>1, <1>2

LEMMA FreshNext == IInv /\ FreshEvents /\ [Next]_vars => FreshEvents'
<1>. SUFFICES ASSUME IInv, FreshEvents, [Next]_vars, workflow'.at = "dispatch",
                     NEW e \in Evaluations, e[1] \in workflow'.todo, evaluation'[e].at # "absent"
              PROVE  e[1] = NextCandidate' /\ e[2] < workflow'.tries
  BY DEF FreshEvents
<1>0. /\ workflow \in Workflow /\ evaluation \in [Evaluations -> Evaluation] /\ IInv'
  BY NextIInv DEF IInv, TypeOK, Workflow, WorkflowAts, Evaluation, EvaluationAts
<1>1. CASE Create \/ Start \/ BuildConfig \/ Discover \/ AllDispatched \/ Wait \/ Complete \/ MarkFailed
  <2>1. evaluation' = evaluation /\ workflow'.at = "dispatch"
    BY <1>1, QuietSteps DEF QuietMove
  <2>2. BeforeFanOut
    <3>1. CASE Create
      BY <1>0, <3>1 DEF Create, Workflow, BeforeFanOut, IInv, QuietBefore
    <3>2. CASE Start
      BY <3>2 DEF Start, BeforeFanOut
    <3>3. CASE BuildConfig
      BY <3>3 DEF BuildConfig, BeforeFanOut
    <3>4. CASE Discover
      BY <3>4 DEF Discover, BeforeFanOut
    <3>5. CASE AllDispatched \/ Wait
      BY <1>0, <2>1, <3>5 DEF AllDispatched, Wait, AfterWait, Advanced, Workflow
    <3>6. CASE Complete
      <4>1. workflow.at = "complete" /\ workflow' \in {Advanced(workflow, "done"), Retried(workflow, "done")}
        BY <3>6 DEF Complete, Answered
      <4>2. workflow'.at \in {"complete", "done"}
        BY <1>0, <4>1, WorkflowShapes DEF WorkflowAts
      <4>. QED  BY <2>1, <4>2
    <3>7. CASE MarkFailed
      BY <3>7 DEF MarkFailed, BeforeFanOut
    <3>. QED  BY <1>1, <3>1, <3>2, <3>3, <3>4, <3>5, <3>6, <3>7
  <2>. QED  BY <2>1, <2>2 DEF IInv, QuietBefore, NothingSent
<1>2. CASE Dispatch
  <2>. DEFINE c == NextCandidate
              left == workflow.todo \ {c}
  <2>1. /\ workflow.at = "dispatch" /\ c \in workflow.todo /\ workflow.tries \in 0 .. Retries
        /\ \/ evaluation' = evaluation
           \/ evaluation' = [evaluation EXCEPT ![Sent(c)].at = "gate"]
    BY <1>2, DispatchMoves
  <2>2. \/ workflow' = [workflow EXCEPT !.todo = left, !.tries = 0]
        \/ workflow' = [workflow EXCEPT !.tries = @ + 1]
    BY <1>2 DEF Dispatch
  <2>3. \/ workflow'.todo = left
        \/ workflow'.todo = workflow.todo /\ workflow'.tries = workflow.tries + 1
    BY <1>0, <2>2 DEF Workflow
  <2>4. e = Sent(c) \/ (evaluation[e].at # "absent")
    BY <1>0, <2>1
  <2>5. Sent(c)[1] = c /\ Sent(c)[2] = workflow.tries
    BY DEF Sent
  <2>6. e[1] \in workflow.todo
    BY <2>3
  <2>7. e[1] = c
    BY <2>1, <2>4, <2>5, <2>6 DEF FreshEvents
  <2>8. workflow'.todo = workflow.todo /\ workflow'.tries = workflow.tries + 1
    BY <2>3, <2>7
  <2>9. NextCandidate' = c
    BY <2>8, Zenon DEF NextCandidate
  <2>10. e[2] = workflow.tries \/ e[2] < workflow.tries
    BY <2>1, <2>4, <2>5, <2>6 DEF FreshEvents
  <2>11. e[2] \in Nat /\ workflow.tries \in Nat
    BY <2>1, RetriesAssumption DEF Evaluations
  <2>. QED  BY <2>7, <2>8, <2>9, <2>10, <2>11
<1>3. ASSUME NEW f \in Evaluations, EvaluationStep(f)
      PROVE  e[1] = NextCandidate' /\ e[2] < workflow'.tries
  <2>1. /\ evaluation[f].at # "absent" /\ UNCHANGED <<campaign, workflow>>
        /\ \E g \in Evaluation : evaluation' = [evaluation EXCEPT ![f] = g]
    BY <1>3, EvaluationMoves
  <2>2. evaluation[e].at # "absent"
    BY <1>0, <2>1
  <2>3. NextCandidate' = NextCandidate
    BY <2>1 DEF NextCandidate
  <2>. QED  BY <2>1, <2>2, <2>3 DEF FreshEvents
<1>4. CASE UNCHANGED vars
  BY <1>4 DEF vars, FreshEvents, NextCandidate
<1>. QED  BY <1>1, <1>2, <1>3, <1>4 DEF Next, WorkflowStep

LEMMA DoneOnceNext == UnrepeatedInv /\ [MCNext]_<<vars, seen>> => DoneOnce'
<1>. SUFFICES ASSUME UnrepeatedInv, [MCNext]_<<vars, seen>>, Unrepeated'
              PROVE  OneSent' /\ \A c \in Candidates : deals'[c] = 0 \/ (deals'[c] = 1 /\ c \in Judged')
  BY DEF DoneOnce
<1>0. /\ workflow \in Workflow /\ evaluation \in [Evaluations -> Evaluation]
      /\ deals \in [Candidates -> Nat] /\ IInv /\ FreshEvents
      /\ \A e \in Evaluations : e[1] \in Candidates
  BY DEF UnrepeatedInv, IInv, TypeOK, Workflow, WorkflowAts, Evaluation, EvaluationAts, Evaluations
<1>1. Unrepeated
  BY NotAgain
<1>2. OneSent /\ \A c \in Candidates : deals[c] = 0 \/ (deals[c] = 1 /\ c \in Judged)
  BY <1>1 DEF UnrepeatedInv, DoneOnce
\* Where the deals stay and what is done stays done, nothing changes.
<1>3. ASSUME deals' = deals,
             \A e \in Evaluations : evaluation[e].at = "done" => evaluation'[e].at = "done"
      PROVE  \A c \in Candidates : deals'[c] = 0 \/ (deals'[c] = 1 /\ c \in Judged')
  <2>1. ASSUME NEW c \in Judged  PROVE c \in Judged'
    BY <1>3, <2>1 DEF Judged
  <2>. QED  BY <1>2, <1>3, <2>1
<1>4. CASE vars' = vars
  <2>1. evaluation' = evaluation /\ deals' = deals
    BY <1>4 DEF vars
  <2>2. OneSent'
    BY <1>2, <2>1 DEF OneSent
  <2>. QED  BY <1>3, <2>1, <2>2
<1>5. CASE vars' # vars
  <2>1. OneSent'
    <3>1. \A d, e \in Evaluations :
             d[1] = e[1] /\ e[1] \in Candidates
                /\ evaluation'[d].at # "absent" /\ evaluation'[e].at # "absent" => d = e
      BY <1>5, NotAgain
    <3>. QED  BY <1>0, <3>1 DEF OneSent
  <2>2. deals' # deals => \A e \in Evaluations : ~(evaluation'[e].tries > evaluation[e].tries)
    BY <1>5, NotAgain
  <2>3. Next
    BY <1>5 DEF MCNext, vars
  <2>4. CASE Create \/ Start \/ BuildConfig \/ Discover \/ AllDispatched \/ Wait \/ Complete \/ MarkFailed
    <3>1. evaluation' = evaluation /\ deals' = deals
      BY <1>0, <2>4, QuietSteps DEF QuietMove
    <3>. QED  BY <1>3, <2>1, <3>1
  <2>5. CASE Dispatch
    <3>. DEFINE s == Sent(NextCandidate)
    <3>1. /\ workflow.at = "dispatch" /\ UNCHANGED deals
          /\ NextCandidate \in workflow.todo
          /\ \/ evaluation' = evaluation
             \/ evaluation' = [evaluation EXCEPT ![s].at = "gate"]
          /\ workflow.tries \in 0 .. Retries
      BY <1>0, <2>5, DispatchMoves
    <3>2. s[1] = NextCandidate /\ s[2] = workflow.tries /\ s \in Evaluations
      BY <1>0, <3>1 DEF Sent, Evaluations, Workflow
    <3>. HIDE DEF s
    <3>3. ~(workflow.tries < workflow.tries)
      BY <3>1, RetriesAssumption
    <3>4. evaluation[s].at = "absent"
      BY <1>0, <3>1, <3>2, <3>3 DEF FreshEvents
    <3>5. \A e \in Evaluations : evaluation[e].at = "done" => evaluation'[e].at = "done"
      BY <1>0, <3>1, <3>2, <3>4
    <3>. QED  BY <1>3, <2>1, <3>1, <3>5
  <2>6. ASSUME NEW e \in Evaluations, EvaluationStep(e)
        PROVE  \A c \in Candidates : deals'[c] = 0 \/ (deals'[c] = 1 /\ c \in Judged')
    <3>1. PICK f \in Evaluation : evaluation' = [evaluation EXCEPT ![e] = f]
      BY <1>0, <2>6, EvaluationMoves
    <3>2. /\ evaluation[e].at \in {"gate", "review", "save"}
          /\ \/ deals' = deals
             \/ evaluation[e].at = "save" /\ deals' = [deals EXCEPT ![e[1]] = @ + 1]
      BY <1>0, <2>6, EvaluationMoves DEF EvaluationStep, Gate, Review, Save
    <3>3. evaluation'[e] = f /\ \A d \in Evaluations : d # e => evaluation'[d] = evaluation[d]
      BY <1>0, <3>1
    <3>4. \A d \in Evaluations : evaluation[d].at = "done" => evaluation'[d].at = "done"
      BY <3>2, <3>3
    <3>5. CASE deals' = deals
      BY <1>3, <3>4, <3>5
    <3>6. CASE deals' # deals
      <4>1. evaluation[e].at = "save" /\ e[1] \in Candidates /\ deals' = [deals EXCEPT ![e[1]] = @ + 1]
        BY <1>0, <3>2, <3>6
      \* What saves has not been judged before, and is the only one of its product.
      <4>2. e[1] \notin Judged
        <5>1. ASSUME NEW d \in Evaluations, d[1] = e[1], evaluation[d].at = "done"  PROVE FALSE
          <6>1. d = e
            BY <1>2, <4>1, <5>1 DEF OneSent
          <6>. QED  BY <4>1, <5>1, <6>1
        <5>. QED  BY <5>1 DEF Judged
      <4>3. deals[e[1]] = 0
        BY <1>2, <4>1, <4>2
      <4>4. deals'[e[1]] = 1 /\ \A c \in Candidates : c # e[1] => deals'[c] = deals[c]
        BY <1>0, <4>1, <4>3
      <4>5. f.at = "done"
        <5>1. f \in {Advanced(evaluation[e], "done"), Retried(evaluation[e], "done")}
          <6>1. Save(e)
            BY <2>6, <4>1 DEF EvaluationStep, Gate, Review
          <6>2. PICK g \in {Advanced(evaluation[e], "done"), Retried(evaluation[e], "done")} :
                   evaluation' = [evaluation EXCEPT ![e] = g]
            BY <6>1 DEF Save, Answered
          <6>. QED  BY <1>0, <3>3, <6>2
        <5>2. ~(f.tries > evaluation[e].tries)
          BY <2>2, <3>3, <3>6
        <5>3. evaluation[e] \in Evaluation
          BY <1>0
        <5>4. evaluation[e].tries \in 0 .. Retries
          BY <5>3 DEF Evaluation
        <5>5. evaluation[e].tries \in Nat
          BY <5>4, RetriesAssumption
        <5>6. f = Advanced(evaluation[e], "done")
          <6>1. CASE f = Retried(evaluation[e], "done") /\ evaluation[e].tries < Retries
            <7>. DEFINE n == evaluation[e].tries + 1
            <7>1. f = [evaluation[e] EXCEPT !.tries = n]
              BY <6>1 DEF Retried
            <7>2. n > evaluation[e].tries
              BY <5>5
            <7>. HIDE DEF n
            <7>3. f.tries = n
              BY <5>3, <7>1 DEF Evaluation
            <7>. QED  BY <5>2, <7>2, <7>3
          <6>2. CASE f = Retried(evaluation[e], "done") /\ ~(evaluation[e].tries < Retries)
            BY <6>2 DEF Retried
          <6>. QED  BY <5>1, <6>1, <6>2
        <5>7. Advanced(evaluation[e], "done").at = "done"
          BY <5>3, EvaluationShapes DEF EvaluationAts
        <5>. QED  BY <5>6, <5>7
      <4>6. e[1] \in Judged'
        BY <3>3, <4>1, <4>5 DEF Judged
      <4>7. ASSUME NEW c \in Judged  PROVE c \in Judged'
        BY <3>4, <4>7 DEF Judged
      <4>8. ASSUME NEW c \in Candidates, c # e[1]
            PROVE  deals'[c] = 0 \/ (deals'[c] = 1 /\ c \in Judged')
        BY <1>2, <4>4, <4>7, <4>8
      <4>. QED  BY <4>4, <4>6, <4>8
    <3>. QED  BY <3>5, <3>6
  <2>. QED  BY <2>1, <2>3, <2>4, <2>5, <2>6 DEF Next, WorkflowStep
<1>. QED  BY <1>4, <1>5

\* Whatever is lost, tried again or dropped, a product has one deal unless its
\* event was sent twice or its deal was saved by an attempt that was repeated
\* (the dispatch and save-deal steps).
THEOREM UnrepeatedDeals == MCSpec => []DealsUnrepeated
<1>1. MCInit => UnrepeatedInv
  <2>. SUFFICES ASSUME MCInit  PROVE UnrepeatedInv
    OBVIOUS
  <2>1. Init
    BY DEF MCInit
  <2>2. IInv
    BY <2>1, InitIInv
  <2>3. FreshEvents /\ DoneOnce
    BY <2>1 DEF Init, FreshEvents, DoneOnce, OneSent
  <2>. QED  BY <2>2, <2>3 DEF UnrepeatedInv
<1>2. UnrepeatedInv /\ [MCNext]_<<vars, seen>> => UnrepeatedInv'
  <2>1. [MCNext]_<<vars, seen>> => [Next]_vars
    BY DEF MCNext
  <2>. QED  BY <2>1, NextIInv, FreshNext, DoneOnceNext DEF UnrepeatedInv
<1>3. UnrepeatedInv => DealsUnrepeated
  <2>1. ASSUME UnrepeatedInv, Unrepeated, NEW c \in Candidates
        PROVE  deals[c] <= 1
    <3>1. deals[c] = 0 \/ deals[c] = 1
      BY <2>1 DEF UnrepeatedInv, DoneOnce
    <3>. QED  BY <3>1
  <2>. QED  BY <2>1 DEF DealsUnrepeated, Unrepeated, OneDealPerCandidate
<1>. QED  BY <1>1, <1>2, <1>3, PTL DEF MCSpec
-----------------------------------------------------------------------------
(* The safety half of CampaignSettles.                                     *)

Strandings == {"not sent", "not started", "started again", "not updated"}

\* The places of the workflow from which it still writes the last status.
Owing == {"config", "discover", "dispatch", "wait", "complete", "mark_failed"}

\* A campaign that is neither completed nor failed has a workflow that will say so.
CampaignIsOwed ==
    Never(Strandings) =>
        /\ campaign = "pending" => workflow.at = "start"
        /\ campaign = "running" => workflow.at \in Owing

\* What a step did not do when the campaign is not stranded after it.
LEMMA NotStranded ==
    ASSUME MCNext, seen' \cap Strandings = {}
    PROVE  /\ seen \cap Strandings = {}
           /\ campaign = "absent" => workflow'.at # "absent"
           /\ workflow.at = "start" => workflow'.at # "failed"
           /\ workflow.at = "start" /\ campaign' # campaign => workflow'.at = "config"
           /\ workflow.at \in {"complete", "mark_failed"} /\ campaign' = "running" => workflow'.at = workflow.at
<1>1. seen' = seen \cup {i \in Incidents : Happens(i)}
  BY DEF MCNext
<1>2. \A i \in Strandings : ~Happens(i)
  BY <1>1 DEF Strandings, Incidents
<1>3. ~Happens("not sent") /\ ~Happens("not started") /\ ~Happens("started again") /\ ~Happens("not updated")
  BY <1>2 DEF Strandings
<1>. QED  BY <1>1, <1>3 DEF Happens

LEMMA OwedKept ==
    ASSUME IInv, CampaignIsOwed, MCNext
    PROVE  CampaignIsOwed'
<1>. SUFFICES ASSUME seen' \cap Strandings = {}
              PROVE  /\ campaign' = "pending" => workflow'.at = "start"
                     /\ campaign' = "running" => workflow'.at \in Owing
  BY DEF CampaignIsOwed, Never
<1>0. /\ workflow \in Workflow /\ campaign \in Statuses \cup {"absent"}
      /\ campaign = "absent" => workflow.at = "absent"
      /\ campaign = "pending" => workflow.at = "start"
      /\ campaign = "running" => workflow.at \in Owing
  BY NotStranded DEF IInv, TypeOK, QuietBefore, Workflow, WorkflowAts, CampaignIsOwed, Never
<1>s. \A next, giveUp \in WorkflowAts :
         /\ Advanced(workflow, next).at = next
         /\ Retried(workflow, giveUp).at \in {workflow.at, giveUp}
  BY <1>0, WorkflowShapes
<1>1. CASE Create
  BY <1>0, <1>1, NotStranded DEF Create, Workflow
<1>2. CASE Start
  <2>1. /\ workflow.at = "start" /\ campaign \in {"pending", "completed", "failed"}
        /\ campaign' \in {campaign, "running"}
        /\ workflow' \in {Advanced(workflow, "config"), Retried(workflow, "failed")}
        /\ campaign' = campaign => workflow' = Retried(workflow, "failed")
    BY <1>0, <1>2 DEF Start, Answered, Transition, Statuses, Owing
  <2>2. workflow'.at \in {"config", "start"} /\ (campaign' = campaign => workflow'.at = "start")
    BY <1>s, <2>1, NotStranded DEF WorkflowAts
  <2>. QED  BY <2>1, <2>2, NotStranded DEF Owing
<1>3. CASE BuildConfig
  BY <1>0, <1>3, <1>s DEF BuildConfig, WorkflowAts, Owing
<1>4. CASE Discover
  <2>1. workflow.at = "discover" /\ campaign' = campaign
    BY <1>4 DEF Discover
  <2>2. workflow'.at \in Owing
    <3>1. CASE workflow' = Advanced(workflow, "mark_failed")
      BY <1>s, <3>1 DEF WorkflowAts, Owing
    <3>2. CASE workflow' # Advanced(workflow, "mark_failed")
      <4>1. PICK found \in SUBSET Candidates, next \in {"complete", "dispatch"} :
               workflow' = [workflow EXCEPT !.at = next, !.todo = found]
        BY <1>4, <3>2 DEF Discover
      <4>. QED  BY <1>0, <4>1 DEF Workflow, Owing
    <3>. QED  BY <3>1, <3>2
  <2>. QED  BY <1>0, <2>1, <2>2
<1>5. CASE Dispatch
  BY <1>0, <1>5, DispatchMoves DEF Owing
<1>6. CASE AllDispatched \/ Wait
  BY <1>0, <1>6, <1>s DEF AllDispatched, Wait, AfterWait, WorkflowAts, Owing
<1>7. CASE Complete \/ MarkFailed
  <2>1. workflow.at \in {"complete", "mark_failed"} /\ campaign' \in {campaign, "completed", "failed"}
    BY <1>7 DEF Complete, MarkFailed, Transition
  <2>. QED  BY <1>0, <2>1, NotStranded DEF Owing
<1>8. CASE \E e \in Evaluations : EvaluationStep(e)
  <2>1. UNCHANGED <<campaign, workflow>>
    BY <1>8, EvaluationMoves
  <2>. QED  BY <1>0, <2>1
<1>. QED  BY <1>1, <1>2, <1>3, <1>4, <1>5, <1>6, <1>7, <1>8 DEF MCNext, Next, WorkflowStep

\* Whatever else fails or is repeated, no campaign is left pending or running by a
\* workflow that is over (process-campaign, completeCampaign, markFailed).
THEOREM CampaignEnds == MCSpec => []CampaignIsOwed
<1>1. MCInit => IInv /\ CampaignIsOwed
  <2>1. MCInit => Init
    BY DEF MCInit
  <2>2. Init => CampaignIsOwed
    BY DEF Init, CampaignIsOwed
  <2>. QED  BY <2>1, <2>2, InitIInv
<1>2. IInv /\ CampaignIsOwed /\ [MCNext]_<<vars, seen>> => (IInv /\ CampaignIsOwed)'
  <2>. SUFFICES ASSUME IInv, CampaignIsOwed, [MCNext]_<<vars, seen>>
                PROVE  IInv' /\ CampaignIsOwed'
    OBVIOUS
  <2>1. [Next]_vars
    BY DEF MCNext
  <2>2. UNCHANGED <<vars, seen>> => CampaignIsOwed'
    BY DEF CampaignIsOwed, Never, vars
  <2>. QED  BY <2>1, <2>2, NextIInv, OwedKept
<1>. QED  BY <1>1, <1>2, PTL DEF MCSpec
=============================================================================
