---------------------------- MODULE CandidatePaths ----------------------------
(***************************************************************************)
(* The two ways a candidate of a campaign is judged, side by side on the   *)
(* same candidate and the same answers: the loop of RunPipeline in the     *)
(* goroutine that CampaignService starts when there is no Inngest client   *)
(* (campaign_service.go, pipeline_service.go, pipeline_orchestrator.go),   *)
(* with the status of its campaign, and the steps of the Inngest function  *)
(* evaluate-candidate (client.go), which also block brands for later       *)
(* campaigns.  How the steps are tried again, and the status of their      *)
(* campaign, is CampaignWorkflow.                                          *)
(*                                                                         *)
(* What the pricing call, Amazon and the agents answer is chosen when one  *)
(* of the two asks first, and kept for the other.  One candidate stands    *)
(* for all of a campaign: each is judged by itself.                        *)
(***************************************************************************)
EXTENDS CandidateRules, FiniteSets

CONSTANTS
    Brands,
    Products,      \* candidates
    Wishes,        \* criteria of campaigns: [own, prefers], sets of brands
    Answers,       \* what each of Calls can be answered
    MaxFaults      \* bound: failures of statements and expired deadlines

Calls == {"enrich", "sourcing", "listing", "gating", "profit", "demand", "supplier", "review"}

\* found: by discovery.  A sourcing agent's map may also hold a price of its own
\* (quoted), a wholesale cost, the margin of an fba_calculation (calculated), and
\* a net margin and a risk score, which the rules read (margin, risk).
Candidates ==
    [brand : Brands \cup {NoBrand}, sellers : Nat, price : Nat, found : BOOLEAN, titled : BOOLEAN,
     quoted : Nat, wholesale : Nat, calculated : Int \cup {NoValue},
     margin : Int \cup {NoValue}, risk : Int \cup {NoValue}]

\* What discovery found has its calculation, which is 0 without a price.
Discovered(p) ==
    /\ p.quoted = 0 /\ p.wholesale = 0 /\ p.margin = NoValue /\ p.risk = NoValue
    /\ p.calculated = IF p.price > 0 THEN NetMargin(p.price, 0) ELSE 0

\* The pricing call answers something, be it that nothing is known.
ASSUME PathsAssumption ==
    /\ DOMAIN Answers = Calls /\ MaxFaults \in Nat
    /\ Products \subseteq Candidates /\ \A p \in Products : p.found => Discovered(p)
    /\ Answers["enrich"] \subseteq [sellers : Nat, price : Nat] /\ Error \notin Answers["enrich"]

VARIABLES
    learned,       \* brand_blocklist of the tenant
    campaign,      \* the criteria, the block list the steps were given, the status of
                   \* RunCampaign's campaign; broken: its scoring configuration could
                   \* not be read or a status not be written; late: its time is over
    answers,       \* what was answered so far
    loop,          \* RunCampaign
    steps,         \* evaluate-candidate
    faults         \* failures so far

vars == <<learned, campaign, answers, loop, steps, faults>>

None == <<>>

\* What was answered before, and now.
Noted(before, call, a) == [c \in DOMAIN before \cup {call} |-> IF c = call THEN a ELSE before[c]]

NoDeal == [tier |-> "cut"]

\* item: the candidate, with the answers of the pricing call from "gating" on.
Idle == [at |-> "ended", item |-> None, got |-> None, deal |-> NoDeal]

Init ==
    /\ learned = {} /\ answers = None /\ faults = 0
    /\ campaign = [own |-> {}, prefers |-> {}, block |-> {}, known |-> {}, status |-> "none",
                   late |-> FALSE, broken |-> FALSE]
    /\ loop = Idle /\ steps = Idle

Fails == faults < MaxFaults /\ faults' = faults + 1
Works == UNCHANGED faults

-----------------------------------------------------------------------------
(* Variants with one slip each, used by nothing.                           *)

\* The tenant's block list is not merged into the campaign's.
OwnBlocksOnly == [allow |-> {}, block |-> campaign.own]

\* The agent's own margin is kept.
MarginAsAnswered ==
    CASE steps.item.price = 0 /\ steps.item.found -> 0
      [] steps.got["profit"].margin # NoValue -> steps.got["profit"].margin
      [] OTHER -> Calculated(steps.item)

\* An error of the sourcing agent is returned at once.
SourcingGivesUp ==
    /\ loop.at = "sourcing" /\ UNCHANGED faults
    /\ \E a \in Answers["sourcing"] :
          /\ answers' = Noted(answers, "sourcing", a)
          /\ loop' = [loop EXCEPT !.at = CASE a = Error -> "ended" [] a = "nothing" -> "save"
                                           [] OTHER -> "enrich"]
    /\ UNCHANGED <<learned, steps, campaign>>

-----------------------------------------------------------------------------
(* A campaign.                                                             *)

LoopFilter == [allow |-> campaign.prefers, block |-> campaign.own]
StepsFilter == [allow |-> {}, block |-> campaign.block]

\* CampaignService.Create, and the block list of step build-config, which goes
\* without the tenant's list when that cannot be read.
Create(p, wish) ==
    /\ loop.at = "ended" /\ steps.at = "ended"
    /\ \E list \in {learned, {}} :
          /\ IF list = learned THEN Works ELSE Fails
          /\ campaign' = [own |-> wish.own, prefers |-> wish.prefers, block |-> wish.own \cup list,
                          known |-> list, status |-> "pending", late |-> FALSE,
                          broken |-> FALSE]
          /\ p.found => Qualified(p, [allow |-> {}, block |-> wish.own \cup list])
    /\ answers' = None
    /\ loop' = [Idle EXCEPT !.at = "start", !.item = p]
    /\ steps' = [Idle EXCEPT !.at = "enrich", !.item = p]
    /\ UNCHANGED learned

\* The user edits the list.
EditBlocklist(b) ==
    /\ learned' \in {learned \cup {b}, learned \ {b}}
    /\ learned' # learned
    /\ UNCHANGED <<campaign, answers, loop, steps, faults>>

\* What a call is answered, now and to whoever asks later.
Heard(call, a) ==
    /\ a \in IF call \in DOMAIN answers THEN {answers[call]} ELSE Answers[call]
    /\ answers' = Noted(answers, call, a)

-----------------------------------------------------------------------------
(* The loop: RunCampaign and RunPipeline.                                  *)

LoopTo(at) == loop' = [loop EXCEPT !.at = at]
LoopOnly == UNCHANGED <<learned, steps>>

\* The status is written, which fails too once the deadline has passed.
Settle(status) ==
    /\ \/ ~campaign.late /\ Works /\ campaign' = [campaign EXCEPT !.status = status]
       \/ ~campaign.late /\ Fails /\ campaign' = [campaign EXCEPT !.broken = TRUE]
       \/ campaign.late /\ Works /\ UNCHANGED campaign

\* Nothing is answered any more after the deadline.
LoopHears(call, a) ==
    IF campaign.late THEN a = Error /\ UNCHANGED answers ELSE Heard(call, a)

\* The 30 minutes of the goroutine are over.
Expire ==
    /\ loop.at # "ended" /\ ~campaign.late /\ Fails
    /\ campaign' = [campaign EXCEPT !.late = TRUE]
    /\ UNCHANGED <<learned, answers, loop, steps>>

LoopStart ==
    /\ loop.at = "start"
    /\ Settle("running")
    /\ LoopTo(IF campaign'.status = "running" THEN "config" ELSE "ended")
    /\ UNCHANGED answers /\ LoopOnly

\* Without its scoring configuration the campaign is left running.
LoopConfig ==
    /\ loop.at = "config"
    /\ \/ ~campaign.late /\ Works /\ LoopTo("sourcing") /\ UNCHANGED campaign
       \/ campaign.late /\ Works /\ LoopTo("ended") /\ UNCHANGED campaign
       \/ Fails /\ LoopTo("ended") /\ campaign' = [campaign EXCEPT !.broken = TRUE]
    /\ UNCHANGED answers /\ LoopOnly

LoopSourcing ==
    /\ loop.at = "sourcing" /\ Works
    /\ \E a \in Answers["sourcing"] \cup {Error} :
          /\ LoopHears("sourcing", a)
          /\ LoopTo(CASE a = Error -> "fail" [] a = "nothing" -> "save" [] OTHER -> "enrich")
    /\ UNCHANGED campaign /\ LoopOnly

LoopFilters ==
    /\ loop.at = "enrich" /\ Works
    /\ \E a \in Answers["enrich"] \cup {Error} :
          LET item == IF a = Error THEN loop.item ELSE Enriched(loop.item, a)
          IN /\ LoopHears("enrich", a)
             /\ loop' = [loop EXCEPT !.item = item,
                           !.at = IF EnoughSellers(item.sellers) /\ IsBrandAllowed(item.brand, LoopFilter)
                                  THEN "gating" ELSE "save"]
    /\ UNCHANGED campaign /\ LoopOnly

\* Profitability is decided before its agent is asked: no price, no margin.
LoopMargin == IF CalcPrice(loop.item) > 0 THEN Calculated(loop.item) ELSE 0

LoopGating ==
    /\ loop.at = "gating" /\ Works
    /\ \E a \in Answers["gating"] \cup {Error} :
          /\ LoopHears("gating", a)
          /\ loop' = [loop EXCEPT !.got = Noted(None, "gating", a),
                        !.at = IF a # Error /\ PassesLoop(a) /\ LoopMargin >= MinMargin
                               THEN "profit" ELSE "save"]
    /\ UNCHANGED campaign /\ LoopOnly

\* An agent's answer is kept; without one the candidate is dropped, except that
\* the calculation stands in for the answer on profitability.
LoopAgent(call, next) ==
    /\ loop.at = call /\ Works
    /\ \E a \in Answers[call] \cup {Error} :
          /\ LoopHears(call, a)
          /\ loop' = [loop EXCEPT !.got = Noted(@, call, a),
                                  !.at = IF a # Error \/ call = "profit" THEN next ELSE "save"]
    /\ UNCHANGED campaign /\ LoopOnly

\* The calculation's margin is part of the profitability answer when there is a price.
ProfitMargin(item, answer) ==
    IF CalcPrice(item) > 0 THEN Calculated(item)
    ELSE IF answer = Error THEN NoValue ELSE answer.margin

ProfitRisk(answer) == IF answer = Error THEN NoValue ELSE answer.risk

Scored(got, item, margin, profit, review) ==
    LET margins == <<item.margin, profit, got["demand"].margin, got["supplier"].margin>>
        risks == <<item.risk, ProfitRisk(got["profit"]), got["demand"].risk, got["supplier"].risk>>
        verdict == Review(RulesPass(Merged(margins), Merged(risks), item.titled), review)
        safety == 10 - got["gating"].risk
        d == got["demand"]
    IN IF verdict.tier = "cut" THEN NoDeal
       ELSE [tier |-> verdict.tier, demand |-> d.demand, competition |-> d.competition,
             margin |-> ScoreFromMargin(margin), risk |-> safety, sourcing |-> verdict.sourcing,
             composite |-> verdict.composite,
             overall |-> Overall(d.demand, d.competition, ScoreFromMargin(margin), safety, verdict.sourcing)]

LoopReview ==
    /\ loop.at = "review" /\ Works
    /\ \E a \in Answers["review"] \cup {Error} :
          /\ LoopHears("review", a)
          /\ loop' = [loop EXCEPT !.at = "save",
                        !.deal = Scored(loop.got, loop.item, LoopMargin,
                                        ProfitMargin(loop.item, loop.got["profit"]), a)]
    /\ UNCHANGED campaign /\ LoopOnly

\* CreateFromResearch: no statement without a deal.
LoopSave ==
    /\ loop.at = "save"
    /\ \/ (loop.deal = NoDeal \/ ~campaign.late) /\ Works /\ LoopTo("complete")
       \/ /\ loop.deal # NoDeal
          /\ IF campaign.late THEN Works ELSE Fails
          /\ loop' = [loop EXCEPT !.at = "fail", !.deal = NoDeal]
    /\ UNCHANGED <<campaign, answers>> /\ LoopOnly

LoopEnd ==
    /\ \/ loop.at = "complete" /\ Settle("completed")
       \/ loop.at = "fail" /\ Settle("failed")
    /\ LoopTo("ended")
    /\ UNCHANGED answers /\ LoopOnly

LoopStep ==
    \/ LoopStart \/ LoopConfig \/ LoopSourcing \/ LoopFilters \/ LoopGating
    \/ LoopAgent("profit", "demand") \/ LoopAgent("demand", "supplier")
    \/ LoopAgent("supplier", "review") \/ LoopReview \/ LoopSave \/ LoopEnd

-----------------------------------------------------------------------------
(* The steps: evaluate-candidate.                                          *)

StepsTo(at) == steps' = [steps EXCEPT !.at = at]
StepsOnly == UNCHANGED <<campaign, loop>>

StepsEnrich ==
    /\ steps.at = "enrich" /\ Works
    /\ \E a \in Answers["enrich"] :
          /\ Heard("enrich", a)
          /\ steps' = [steps EXCEPT !.at = "pregate", !.item = Enriched(@, a)]
    /\ UNCHANGED learned /\ StepsOnly

\* AutoBlock, whose errors are dropped.
AutoBlock(brand) ==
    \/ learned' = learned \cup ({brand} \ {NoBrand}) /\ Works
    \/ brand # NoBrand /\ UNCHANGED learned /\ Fails

StepsPreGate ==
    /\ steps.at = "pregate"
    /\ LET item == steps.item
       IN IF ~EnoughSellers(item.sellers)
          THEN AutoBlock(item.brand) /\ StepsTo("ended")
          ELSE /\ UNCHANGED learned /\ Works
               /\ StepsTo(IF IsBrandAllowed(item.brand, StepsFilter) /\ MarginMet(item.price)
                          THEN "listing" ELSE "ended")
    /\ UNCHANGED answers /\ StepsOnly

\* The client reports a check that failed as "allowed".
StepsListing ==
    /\ steps.at = "listing"
    /\ \E a \in Answers["listing"] :
          /\ Heard("listing", a)
          /\ IF a = "refused" THEN AutoBlock(steps.item.brand) /\ StepsTo("ended")
             ELSE UNCHANGED learned /\ Works /\ StepsTo("gating")
    /\ StepsOnly

StepsGating ==
    /\ steps.at = "gating" /\ Works
    /\ \E a \in Answers["gating"] :
          /\ Heard("gating", a)
          /\ steps' = [steps EXCEPT !.got = Noted(None, "gating", a),
                         !.at = IF a # Error /\ PassesSteps(a) THEN "profit" ELSE "ended"]
    /\ UNCHANGED learned /\ StepsOnly

\* After the last attempt an agent's error ends the function.
StepsAgent(call, next) ==
    /\ steps.at = call /\ Works
    /\ \E a \in Answers[call] :
          /\ Heard(call, a)
          /\ steps' = [steps EXCEPT !.got = Noted(@, call, a), !.at = IF a = Error THEN "ended" ELSE next]
    /\ UNCHANGED learned /\ StepsOnly

\* Without any price, a calculation that the candidate holds replaces the agent's
\* margin, as that of discovery does.
StepsMargin ==
    IF CalcPrice(steps.item) = 0 /\ steps.item.calculated # NoValue THEN steps.item.calculated
    ELSE ProfitMargin(steps.item, steps.got["profit"])

StepsReview ==
    /\ steps.at = "review" /\ Works
    /\ \E a \in Answers["review"] :
          /\ Heard("review", a)
          /\ LET deal == Scored(steps.got, steps.item, StepsMargin, StepsMargin, a)
             IN steps' = [steps EXCEPT !.at = IF deal = NoDeal THEN "ended" ELSE "save", !.deal = deal]
    /\ UNCHANGED learned /\ StepsOnly

\* The error of save-deal is dropped; a deal's overall score is the reviewer's.
StepsSave ==
    /\ steps.at = "save"
    /\ \/ Works /\ steps' = [steps EXCEPT !.at = "ended", !.deal.overall = steps.deal.composite]
       \/ Fails /\ steps' = [steps EXCEPT !.at = "ended", !.deal = NoDeal]
    /\ UNCHANGED <<learned, answers>> /\ StepsOnly

StepsStep ==
    \/ StepsEnrich \/ StepsPreGate \/ StepsListing \/ StepsGating
    \/ StepsAgent("profit", "demand") \/ StepsAgent("demand", "supplier")
    \/ StepsAgent("supplier", "review") \/ StepsReview \/ StepsSave

Next ==
    \/ \E p \in Products, wish \in Wishes : Create(p, wish)
    \/ \E b \in Brands : EditBlocklist(b)
    \/ Expire \/ LoopStep
    \/ StepsStep

Spec == Init /\ [][Next]_vars
-----------------------------------------------------------------------------
(* Properties.                                                             *)

Done == loop.at = "ended" /\ steps.at = "ended"
Claimed(got) == Merged(<<got["demand"].margin, got["supplier"].margin>>)

\* What a deal of either path went through: enough sellers as far as known, no
\* brand that its campaign was told to leave out, and a margin.  In the loop that
\* is the margin calculated from Amazon's price, or else the candidate's, and the
\* candidate's wholesale cost, or else 40 %, whatever the agents asked later claim:
\* without any price there is no deal, unless the campaign asks for no margin.  In
\* the steps it is the margin at 40 % of Amazon's price, when that is known, and
\* then what demand or supplier agent claims or, when they claim nothing, the
\* calculated one: a discovered product without a price needs such a claim.  The
\* steps make no deal of what Amazon refuses (pipeline_orchestrator.go:86-162,
\* tool_resolver.go:90-117, client.go:267-337, 385-419, reviewer.go:43-61).
GatesHold ==
    /\ loop.deal # NoDeal =>
          /\ EnoughSellers(loop.item.sellers) /\ loop.item.titled
          /\ IF campaign.prefers # {} THEN loop.item.brand \in campaign.prefers \cup {NoBrand}
                                      ELSE loop.item.brand \notin campaign.own \ {NoBrand}
          /\ CalcPrice(loop.item) > 0 => Calculated(loop.item) >= MinMargin
          /\ MinMargin > 0 => CalcPrice(loop.item) > 0
          /\ loop.got["gating"].said = "passed"
    /\ steps.deal # NoDeal =>
          /\ EnoughSellers(steps.item.sellers) /\ steps.item.titled
          /\ steps.item.brand \notin (campaign.own \cup campaign.known) \ {NoBrand}
          /\ answers["listing"] # "refused"
          /\ MarginMet(steps.item.price)
          /\ IF Claimed(steps.got) # NoValue THEN Claimed(steps.got) >= MinMargin
             ELSE /\ CalcPrice(steps.item) > 0 => Calculated(steps.item) >= MinMargin
                  /\ steps.item.found /\ steps.item.price = 0 => MinMargin = 0

\* The goroutine leaves its campaign completed or failed, unless the scoring
\* configuration cannot be read, the status cannot be written, or its 30 minutes
\* are over: those leave a campaign pending or running for ever, as nothing looks
\* for it again (pipeline_service.go:22-74, campaign_service.go:69-78).
EndSettles ==
    loop.at = "ended" =>
        campaign.status \in {"none", "completed", "failed"} \/ campaign.broken \/ campaign.late

\* With the same answers, and no failure, both paths make a deal of the same
\* candidates with a price, Amazon's or their own, and give it the same tier and
\* scores, the overall one apart.  The steps alone drop what Amazon refuses, a
\* brand on the tenant's list, a candidate without an answer on profitability, and
\* one that pays at the wholesale cost it names but not at 40 % of the price.  The
\* loop alone drops what lacks a price, the plain word "passed" or a preferred
\* brand, everything when its first agent names nothing, and what does not pay at
\* the cost or price that the candidate names when a later agent claims that it does
\* (pipeline_orchestrator.go:65-318, tool_resolver.go:90-117, client.go:241-569).
PathsAgree ==
    Done /\ faults = 0 /\ campaign.status # "none" =>
        /\ loop.deal # NoDeal /\ steps.deal # NoDeal /\ CalcPrice(loop.item) > 0 =>
              [loop.deal EXCEPT !.overall = 0] = [steps.deal EXCEPT !.overall = 0]
        /\ loop.deal # NoDeal /\ steps.deal = NoDeal /\ CalcPrice(loop.item) > 0 =>
              \/ "listing" \in DOMAIN answers /\ answers["listing"] = "refused"
              \/ answers["profit"] = Error
              \/ loop.item.brand \in campaign.block
              \/ loop.item.wholesale > 0 /\ ~MarginMet(loop.item.price)
        /\ loop.deal = NoDeal /\ steps.deal # NoDeal =>
              \/ answers["sourcing"] \in {"nothing", Error}
              \/ answers["gating"].said # "passed"
              \/ CalcPrice(steps.item) = 0
              \/ /\ steps.item.wholesale > 0 \/ steps.item.price = 0
                 /\ Calculated(steps.item) < MinMargin
                 /\ Claimed(steps.got) # NoValue /\ Claimed(steps.got) >= MinMargin
              \/ ~IsBrandAllowed(steps.item.brand, LoopFilter)
=============================================================================
