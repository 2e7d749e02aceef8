------------------------------ MODULE DealReview ------------------------------
(***************************************************************************)
(* The human review of a deal: DealService.Approve and Reject, asked for   *)
(* by several users of the dashboard at once.  A request reads the row,    *)
(* checks the transition on its copy, writes the row back and logs a       *)
(* domain event: three calls to the database, of which the last one's      *)
(* error is dropped.  It may also stop between two of them when the client *)
(* goes away.  Deals do not depend on each other, so one is modelled, from *)
(* the moment CreateFromResearch has inserted it.                          *)
(***************************************************************************)
EXTENDS Naturals, Sequences

CONSTANTS
    Reviewers,     \* whoever may decide
    Overlap,       \* whether two requests may be under way at once
    MayFail,       \* whether a call to the database may fail and a request stop
    MaxRequests    \* bound: requests of a reviewer

ASSUME OverlapAssumption == Overlap \in BOOLEAN /\ MayFail \in BOOLEAN
ASSUME MaxRequestsAssumption == MaxRequests \in Nat

VARIABLES
    deal,          \* status of the deal's row
    request,       \* what each reviewer's request is doing
    events         \* the decisions logged as domain events, in order

reviewVars == <<deal, request, events>>

Decisions == {"approved", "rejected"}

TypeOK ==
    /\ deal \in {"needs_review"} \cup Decisions
    /\ request \in [Reviewers -> [at : {"idle", "update", "emit"},
                                  decision : Decisions,
                                  count : 0 .. MaxRequests]]
    /\ events \in Seq([by : Reviewers, decision : Decisions])

ReviewInit ==
    /\ deal = "needs_review"
    /\ request = [r \in Reviewers |-> [at |-> "idle", decision |-> "approved", count |-> 0]]
    /\ events = <<>>
-----------------------------------------------------------------------------
(* Variants with one slip in each, used by nothing.                        *)

AllowedUnlessSame(from, to) == from # to
-----------------------------------------------------------------------------
\* Deal.Transition, of the transitions that review can meet.
Allowed(from, to) == from = "needs_review" /\ to \in Decisions

Stopped(r) == [request EXCEPT ![r].at = "idle"]

\* GetByID and Transition on the copy.
Read(r, decision) ==
    /\ request[r].at = "idle"
    /\ request[r].count < MaxRequests
    /\ Overlap \/ \A q \in Reviewers : request[q].at = "idle"
    /\ request' = [request EXCEPT ![r] =
                     [at |-> IF Allowed(deal, decision) THEN "update" ELSE "idle",
                      decision |-> decision,
                      count |-> @.count + 1]]
    /\ UNCHANGED <<deal, events>>

\* The whole row is written, whatever it holds by now.
Update(r) ==
    /\ request[r].at = "update"
    /\ deal' = request[r].decision
    /\ request' = [request EXCEPT ![r].at = "emit"]
    /\ UNCHANGED events

Logged(r) == Append(events, [by |-> r, decision |-> request[r].decision])

Emit(r) ==
    /\ request[r].at = "emit"
    /\ events' = Logged(r)
    /\ request' = Stopped(r)
    /\ UNCHANGED deal

\* A call fails, or the request's context is cancelled.
Stop(r) ==
    /\ MayFail
    /\ request[r].at # "idle"
    /\ request' = Stopped(r)
    /\ UNCHANGED <<deal, events>>

ReviewNext ==
    \E r \in Reviewers :
        \/ \E decision \in Decisions : Read(r, decision)
        \/ Update(r) \/ Emit(r) \/ Stop(r)

ReviewSpec == ReviewInit /\ [][ReviewNext]_reviewVars
-----------------------------------------------------------------------------
(* Properties.                                                             *)

\* A decision is final for the review: "rejected is terminal"
\* (domain/deal_test.go:107), and an approved deal goes on to sourcing.
DecisionsFinal == [][(deal \in Decisions) => (deal' = deal)]_reviewVars

\* The log tells one story: at most one decision is logged, and it is the one
\* the row holds.
LogAgrees ==
    /\ TypeOK
    /\ Len(events) <= 1
    /\ \A i \in DOMAIN events : events[i].decision = deal
=============================================================================
