---------------------------- MODULE CandidateRules ----------------------------
(***************************************************************************)
(* The rules by which a candidate product becomes a deal: the filters      *)
(* before the first agent, the fee calculation, what an answer of an agent *)
(* is taken to say, and the hybrid reviewer (reviewer.go, fees.go,         *)
(* pipeline.go and the helpers of pipeline_orchestrator.go and client.go). *)
(*                                                                         *)
(* Prices are whole dollars, 0 when unknown; scores are the whole numbers  *)
(* the agents are asked for.  A field that a map lacks has the value       *)
(* NoValue, an agent that cannot be had the answer Error.                  *)
(***************************************************************************)
EXTENDS Integers, Sequences, SequencesExt

CONSTANTS
    NoBrand,                \* the empty brand name
    NoValue, Error,
    MinMargin, MinSellers,  \* thresholds: percent, sellers
    MaxRisk,                \* RiskMaxScore, 7 in the code
    TierA, TierB, TierC     \* hundredths: 800, 650 and 500 in the code

ASSUME RulesAssumption ==
    /\ MinMargin \in Nat /\ MinSellers \in Nat /\ MaxRisk \in Nat
    /\ TierA > TierB /\ TierB > TierC /\ TierC > 0
    /\ NoValue \notin Int /\ Error # NoValue

-----------------------------------------------------------------------------
(* Before the agents.                                                      *)

\* Percent of the price: 15 % referral, $3.22 fulfilment, $0.87 storage and 10 %
\* on top of the cost, which is 40 % of the price when it is not known.
NetMargin(price, cost) ==
    LET spend == IF cost > 0 THEN 110 * cost ELSE 44 * price
    IN (85 * price - spend - 409) \div price

EnoughSellers(sellers) == sellers = 0 \/ sellers >= MinSellers

\* A list of preferred brands, when there is one, replaces the block list.
IsBrandAllowed(brand, filter) ==
    \/ brand = NoBrand
    \/ IF filter.allow # {} THEN brand \in filter.allow ELSE brand \notin filter.block

\* The filters before the agents estimate the cost, whatever else is known of it.
MarginMet(price) == price > 0 => NetMargin(price, 0) >= MinMargin

\* What discovery lets through: the filter of DiscoverAndPreQualify.
Qualified(p, filter) ==
    /\ EnoughSellers(p.sellers) /\ IsBrandAllowed(p.brand, filter)
    /\ MinMargin = 0 \/ MarginMet(p.price)

\* ResolveForGating: known values of the pricing call replace the candidate's.
Enriched(p, answer) ==
    [p EXCEPT !.sellers = IF answer.sellers > 0 THEN answer.sellers ELSE @,
              !.price = IF answer.price > 0 THEN answer.price ELSE @]

\* ResolveForProfitability: without Amazon's price the one that the candidate
\* quotes, and at the wholesale cost that it names.
CalcPrice(p) == IF p.price > 0 THEN p.price ELSE p.quoted
Calculated(p) == NetMargin(CalcPrice(p), p.wholesale)

-----------------------------------------------------------------------------
(* What the answers of the agents are taken to say.                        *)

\* A gating answer says "passed" (the key passed is true), "approved" (another
\* key, or a word for true), "refused", or neither ("silent").
PassesLoop(answer) == answer.said = "passed"
PassesSteps(answer) == answer.said \in {"passed", "approved"} \/ answer.risk > 0

\* The last map that has the field decides.
Merged(values) ==
    LET i == SelectLastInSeq(values, LAMBDA v : v # NoValue)
    IN IF i = 0 THEN NoValue ELSE values[i]

ScoreFromMargin(margin) ==
    CASE margin = NoValue -> 3
      [] margin >= 50 -> 10
      [] margin >= 40 -> 9
      [] margin >= 30 -> 8
      [] margin >= 25 -> 7
      [] margin >= 20 -> 6
      [] margin >= 15 -> 5
      [] margin >= 10 -> 4
      [] OTHER -> 3

-----------------------------------------------------------------------------
(* The reviewer.                                                           *)

\* The rules see the candidate merged with the answers on profit, demand and
\* supply.  The risk of the gating answer is not among them, and neither are the
\* reviewer's own scores, whose range is therefore never looked at.  That an
\* answer brings a title, or a score of the reviewer, of its own is left out.
RulesPass(margin, risk, titled) ==
    /\ margin # NoValue => margin >= MinMargin
    /\ risk # NoValue => risk <= MaxRisk
    /\ titled

Composite(r) == 35 * r.viability + 35 * r.confidence + 30 * r.sourcing

TierOf(composite) ==
    CASE composite >= TierA -> "A"
      [] composite >= TierB -> "B"
      [] composite >= TierC -> "C"
      [] OTHER -> "cut"

Review(passes, answer) ==
    CASE ~passes -> [tier |-> "cut", composite |-> 0, sourcing |-> 0]
      [] passes /\ answer = Error -> [tier |-> "B", composite |-> 0, sourcing |-> 0]
      [] OTHER -> [tier |-> TierOf(Composite(answer)), composite |-> Composite(answer),
                   sourcing |-> answer.sourcing]

\* Weighted with the default weights, in hundredths.
Overall(demand, competition, margin, risk, sourcing) ==
    25 * demand + 20 * competition + 25 * margin + 15 * risk + 15 * sourcing
=============================================================================
