--------------------------- MODULE MCCandidatePaths ---------------------------
(* CandidatePaths for TLC: candidates and answers around every threshold. *)
EXTENDS CandidatePaths

CONSTANTS x, y    \* brands

Found(brand, sellers, price) ==
    [brand |-> brand, sellers |-> sellers, price |-> price, found |-> TRUE, titled |-> TRUE, quoted |-> 0,
     wholesale |-> 0, calculated |-> IF price > 0 THEN NetMargin(price, 0) ELSE 0,
     margin |-> NoValue, risk |-> NoValue]

Named(brand, sellers, price, quoted, wholesale) ==
    [Found(brand, sellers, price) EXCEPT !.found = FALSE, !.quoted = quoted, !.wholesale = wholesale,
                                         !.calculated = NoValue]

\* Discovered ones; ones with a price that pays only at the cost they name (12 and
\* 2) and only at 40 % of it (20 and 15); and ones without Amazon's price, which
\* quote one that pays or does not, hold a calculation, or nothing, not even a title.
MCProducts ==
    {Found(x, 0, 0), Found(y, 3, 20),
     Named(NoBrand, 3, 12, 0, 2), Named(x, 3, 20, 0, 15), Named(x, 0, 0, 11, 2),
     Named(x, 3, 0, 11, 0),
     [Named(y, 0, 0, 0, 0) EXCEPT !.calculated = 30, !.margin = 5, !.risk = 9],
     [Named(y, 3, 0, 0, 0) EXCEPT !.titled = FALSE]}

MCWishes == {[own |-> {}, prefers |-> {}], [own |-> {y}, prefers |-> {}], [own |-> {}, prefers |-> {x}]}

MCAnswers == [c \in Calls |->
    CASE c = "enrich" -> {[sellers |-> 0, price |-> 0], [sellers |-> 1, price |-> 20],
                          [sellers |-> 3, price |-> 30]}
      [] c = "sourcing" -> {"products", "nothing", Error}
      [] c = "listing" -> {"allowed", "refused"}
      [] c = "gating" -> {Error, [said |-> "passed", risk |-> 0], [said |-> "approved", risk |-> 5],
                          [said |-> "refused", risk |-> 0], [said |-> "silent", risk |-> 9]}
      [] c = "profit" -> {Error, [margin |-> 55, risk |-> NoValue]}
      [] c = "demand" -> {Error, [demand |-> 7, competition |-> 4, margin |-> NoValue, risk |-> NoValue],
                          [demand |-> 9, competition |-> 9, margin |-> 12, risk |-> 9]}
      [] c = "supplier" -> {Error, [margin |-> NoValue, risk |-> NoValue], [margin |-> 15, risk |-> 5]}
      [] c = "review" -> {Error, [viability |-> 8, confidence |-> 8, sourcing |-> 8],
                          [viability |-> 5, confidence |-> 5, sourcing |-> 4]}]

\* The goroutine ends with a settled campaign, and until it ends it always has a
\* next step (pipeline_service.go:22-74, campaign_service.go:69-78).
FallbackSettles == EndSettles /\ (loop.at # "ended" => ENABLED LoopStep)
=============================================================================
