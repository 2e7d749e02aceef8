---------------------------- MODULE ProductFunnel ----------------------------
(***************************************************************************)
(* The elimination funnel FunnelService.ProcessBatch (funnel_service.go),  *)
(* the product catalog it reads and writes, and the per-brand eligibility  *)
(* cache (brand_eligibility_service.go).  A caller pushes a sequence of    *)
(* offers through four tiers: T0 drops what the catalog has a fresh price  *)
(* of, T1 what the estimated price rules out, T2 blocked and restricted    *)
(* brands, T3 what the price and the sellers Amazon answers rule out.  The *)
(* survivors are written to the catalog row by row.                        *)
(*                                                                         *)
(* Every query, call and statement is an action of its own, so that the    *)
(* batches of several callers interleave.  Prices are whole dollars; ages  *)
(* are whether the row's price is within the 24 h the code calls fresh.    *)
(* A caller without a brand service or without SP-API behaves as one whose *)
(* brand checks or pricing calls all fail.                                 *)
(***************************************************************************)
EXTENDS Integers, Sequences, FiniteSets, SequencesExt, Selections

CONSTANTS
    Callers,       \* who runs batches
    Asins, Brands,
    NoBrand,       \* the empty brand name
    Blocked,       \* brands of the tenant's block list
    Restricted,    \* products Amazon refuses to let the tenant list
    Quotes,        \* answers of the pricing call: [price, sellers], 0 when absent
    NoQuote,       \* no answer for a product
    BatchSize,     \* products of a pricing call (20 in the code)
    MinMargin, MinSellers,  \* thresholds
    MaxFaults      \* bound: failures in one history

ASSUME FunnelAssumption ==
    /\ NoBrand \notin Brands /\ NoQuote \notin Quotes
    /\ Blocked \subseteq Brands /\ Restricted \subseteq Asins
    /\ Quotes \subseteq [price : Nat, sellers : Nat]
    /\ BatchSize \in Nat /\ BatchSize > 0
    /\ MinMargin \in Nat /\ MinSellers \in Nat /\ MaxFaults \in Nat

VARIABLES
    catalog,       \* discovered_products: a row or NoRow, by product
    eligibility,   \* brand_eligibility: [status, fresh], by brand; an "eligible" that
                   \* Amazon did not say is written "presumed" here
    batch,         \* the batch of each caller
    faults,        \* failures so far
    told,          \* history: the last price Amazon gave of a product, 0 if none
    unsure         \* history: products a pricing call left out, or one batch asked for twice

\* Offers as a caller finds them: without a price, a cost or sellers a 0.
Offers == [asin : Asins, brand : Brands \cup {NoBrand}, est : Nat, cost : Nat, sellers : Nat]
\* What is left of one that passed, with Amazon's price and sellers if it was asked.
Survivors == [asin : Asins, cost : Nat, checked : BOOLEAN, buyBox : Nat, sellers : Nat]

funnelVars == <<catalog, eligibility, batch, faults, told, unsure>>

NoRow == [buyBox |-> 0, sellers |-> 0, age |-> "absent"]
Empty == <<>>
NoStats == [input |-> 0, deduped |-> 0, margin |-> 0, brand |-> 0, enrich |-> 0]
NoBatch == [at |-> "idle", left |-> Empty, verdict |-> Empty, out |-> Empty,
            passed |-> 0, stats |-> NoStats]

FunnelInit ==
    /\ catalog = [a \in Asins |-> NoRow]
    /\ eligibility = [b \in Brands |-> [status |-> "unknown", fresh |-> FALSE]]
    /\ batch = [c \in Callers |-> NoBatch]
    /\ faults = 0
    /\ told = [a \in Asins |-> 0]
    /\ unsure = {}

\* Something fails, within the bound.
Fault == faults < MaxFaults /\ faults' = faults + 1
NoFault == UNCHANGED faults

FreshRows == {a \in Asins : catalog[a].age = "fresh"}

-----------------------------------------------------------------------------
(* The arithmetic of the tiers.                                            *)

\* Net profit in cents: 15 % referral, $3.22 fulfilment and $0.87 storage, and
\* 10 % on top of the cost, which is 40 % of the price when it is unknown.
Profit(price, cost) == 85 * price - (IF cost > 0 THEN 110 * cost ELSE 44 * price) - 409

\* A margin of a product without a price is 0.
MarginMet(price, cost) ==
    MinMargin > 0 => price > 0 /\ Profit(price, cost) >= MinMargin * price

PassesEstimate(o) == o.est <= 0 \/ (o.est \in 10 .. 200 /\ MarginMet(o.est, o.cost))
Estimated == {o \in Offers : PassesEstimate(o)}

\* Of several offers of one product the last one counts from T3 on.
LastOffer(offers, a) == SelectLastInSeq(offers, LAMBDA o : o.asin = a)
OfferOf(offers, a) == offers[LastOffer(offers, a)]

\* The verdicts of a batch, by brand, with one more.
With(verdict, b, status) == [d \in DOMAIN verdict \cup {b} |-> IF d = b THEN status ELSE verdict[d]]

-----------------------------------------------------------------------------
(* Variants with one slip in each, used by nothing.                        *)

\* The price of an answer without its sellers is not used.
PricedWithSellers(o, q) ==
    [asin |-> o.asin, cost |-> o.cost, checked |-> TRUE,
     buyBox |-> IF q # NoQuote /\ q.sellers > 0 THEN q.price ELSE o.est,
     sellers |-> IF q # NoQuote /\ q.sellers > 0 THEN q.sellers ELSE o.sellers]

\* T0 counts the products it knows instead of their offers.
DedupByProduct(c) ==
    /\ batch[c].at = "dedup"
    /\ LET stale == Selected(batch[c].left, {o \in Offers : o.asin \notin FreshRows})
           good == Selected(stale, Estimated)
           known == {o.asin : o \in ToSet(batch[c].left)} \cap FreshRows
       IN batch' = [batch EXCEPT ![c].at = "brands", ![c].left = good,
                                 ![c].stats.deduped = Cardinality(known),
                                 ![c].stats.margin = Len(stale) - Len(good)]
    /\ UNCHANGED <<catalog, eligibility, faults, told, unsure>>

\* A check that failed is cached as a pass.
CheckFailedCached(c, b) ==
    /\ batch[c].at = "brands" /\ b \notin DOMAIN batch[c].verdict
    /\ \E o \in ToSet(batch[c].left) : o.brand = b
    /\ Fault
    /\ batch' = [batch EXCEPT ![c].verdict = With(@, b, "failed")]
    /\ eligibility' = [eligibility EXCEPT ![b] = [status |-> "eligible", fresh |-> TRUE]]
    /\ UNCHANGED <<catalog, told, unsure>>

-----------------------------------------------------------------------------
(* What a pricing answer and an upsert do.                                 *)

\* What a pricing answer leaves of an offer.
Priced(o, q) ==
    [asin |-> o.asin, cost |-> o.cost, checked |-> TRUE,
     buyBox |-> IF q # NoQuote /\ q.price > 0 THEN q.price ELSE o.est,
     sellers |-> IF q # NoQuote /\ q.sellers > 0 THEN q.sellers ELSE o.sellers]
Unpriced(o) == [asin |-> o.asin, cost |-> o.cost, checked |-> FALSE, buyBox |-> 0, sellers |-> 0]

Survives(s) ==
    /\ ~(MinSellers > 0 /\ s.sellers > 0 /\ s.sellers < MinSellers)
    /\ MarginMet(s.buyBox, s.cost)
Surviving == {s \in Survivors : Survives(s)}

\* INSERT ... ON CONFLICT: known values survive unknown ones, and a price that
\* is not 0 is as of now.  A new row takes the survivor's own time stamp.
Upserted(row, s) ==
    [buyBox |-> IF s.buyBox > 0 THEN s.buyBox ELSE row.buyBox,
     sellers |-> IF s.sellers > 0 THEN s.sellers ELSE row.sellers,
     age |-> IF row = NoRow THEN (IF s.checked THEN "fresh" ELSE "never")
             ELSE IF s.buyBox > 0 THEN "fresh" ELSE row.age]

-----------------------------------------------------------------------------
(* A batch, tier by tier.                                                  *)

\* The caller's offers enter the funnel (an operator for the caller's action).
Entered(offers) ==
    [NoBatch EXCEPT !.at = IF offers = Empty THEN "done" ELSE "dedup", !.left = offers,
                    !.stats = [NoStats EXCEPT !.input = Len(offers)]]

\* T0 and T1: one query, then local arithmetic.  The query's error is dropped.
Dedup(c) ==
    /\ batch[c].at = "dedup"
    /\ \E known \in {FreshRows, {}} :
          /\ IF known = FreshRows THEN NoFault ELSE Fault
          /\ LET b == batch[c]
                 stale == Selected(b.left, {o \in Offers : o.asin \notin known})
                 good == Selected(stale, Estimated)
             IN batch' = [batch EXCEPT ![c] =
                            [b EXCEPT !.at = "brands", !.left = good,
                                      !.stats = [b.stats EXCEPT !.deduped = Len(b.left) - Len(stale),
                                                                !.margin = Len(stale) - Len(good)]]]
    /\ UNCHANGED <<catalog, eligibility, told, unsure>>

BrandsOf(offers) == {o.brand : o \in ToSet(offers)} \ {NoBrand}
Unchecked(c) == BrandsOf(batch[c].left) \ DOMAIN batch[c].verdict

\* The product a brand is checked by: the first one of the batch.
Sample(offers, b) == offers[SelectInSeq(offers, LAMBDA o : o.brand = b)].asin
StatusOf(a) == IF a \in Restricted THEN "restricted" ELSE "eligible"

Judge(c, b, status) == batch' = [batch EXCEPT ![c].verdict = With(@, b, status)]

CacheHit(b) == eligibility[b].fresh
Cached(status) == [status |-> status, fresh |-> TRUE]

\* T2, one brand: the cache, else Amazon, whose answer is cached.
CheckCached(c, b) ==
    /\ b \in Unchecked(c) /\ batch[c].at = "brands"
    /\ CacheHit(b)
    /\ Judge(c, b, eligibility[b].status)
    /\ UNCHANGED <<catalog, eligibility, faults, told, unsure>>

CheckAmazon(c, b) ==
    /\ b \in Unchecked(c) /\ batch[c].at = "brands"
    /\ ~CacheHit(b)
    /\ LET status == StatusOf(Sample(batch[c].left, b))
       IN /\ Judge(c, b, status)
          /\ \/ eligibility' = [eligibility EXCEPT ![b] = Cached(status)] /\ NoFault
             \/ UNCHANGED eligibility /\ Fault
    /\ UNCHANGED <<catalog, told, unsure>>

\* The brand's row cannot be had: the brand passes, nothing is cached.
CheckFailed(c, b) ==
    /\ b \in Unchecked(c) /\ batch[c].at = "brands"
    /\ Fault
    /\ Judge(c, b, "failed")
    /\ UNCHANGED <<catalog, eligibility, told, unsure>>

\* Amazon does not answer: the client reports the sample as allowed without an
\* error, and that is cached like an answer.
CheckUnanswered(c, b) ==
    /\ b \in Unchecked(c) /\ batch[c].at = "brands"
    /\ ~CacheHit(b)
    /\ Fault
    /\ Judge(c, b, "presumed")
    /\ eligibility' = [eligibility EXCEPT ![b] = Cached("presumed")]
    /\ UNCHANGED <<catalog, told, unsure>>

\* The verdicts are by product: its last brand decides for all its offers.
BrandFor(offers, a) ==
    LET i == SelectLastInSeq(offers, LAMBDA o : o.asin = a /\ o.brand # NoBrand)
    IN IF i = 0 THEN NoBrand ELSE offers[i].brand

EligibleBrand(offers, verdict, a) ==
    LET b == BrandFor(offers, a) IN b = NoBrand \/ verdict[b] # "restricted"

BrandGate(c) ==
    /\ batch[c].at = "brands" /\ Unchecked(c) = {}
    /\ LET b == batch[c]
           kept == Selected(b.left, {o \in Offers : /\ o.brand \notin Blocked
                                                    /\ EligibleBrand(b.left, b.verdict, o.asin)})
       IN batch' = [batch EXCEPT ![c] =
                      [b EXCEPT !.at = "pricing", !.left = kept,
                                !.stats = [b.stats EXCEPT !.brand = Len(b.left) - Len(kept)]]]
    /\ UNCHANGED <<catalog, eligibility, faults, told, unsure>>

Asked(c) == LET done == batch[c].passed
                last == IF done + BatchSize < Len(batch[c].left) THEN done + BatchSize ELSE Len(batch[c].left)
            IN SubSeq(batch[c].left, done + 1, last)
AsinsOf(offers) == {o.asin : o \in ToSet(offers)}
AskedBefore(c) == AsinsOf(SubSeq(batch[c].left, 1, batch[c].passed))
Quoted(q) == q # NoQuote /\ q.price > 0

\* T3, one call: the batch is judged by the answers, which may leave products out.
PriceBatch(c) ==
    /\ batch[c].at = "pricing" /\ batch[c].passed < Len(batch[c].left)
    /\ \E answer \in [AsinsOf(Asked(c)) -> Quotes \cup {NoQuote}] :
          LET b == batch[c]
              asked == Asked(c)
              judged == [i \in DOMAIN asked |->
                           Priced(OfferOf(b.left, asked[i].asin), answer[asked[i].asin])]
              kept == Selected(judged, Surviving)
          IN /\ batch' = [batch EXCEPT ![c] =
                            [b EXCEPT !.passed = b.passed + Len(asked), !.out = b.out \o kept,
                                      !.stats = [b.stats EXCEPT
                                                   !.enrich = @ + (Len(judged) - Len(kept))]]]
             /\ told' = [a \in Asins |-> IF a \in DOMAIN answer /\ Quoted(answer[a])
                                         THEN answer[a].price ELSE told[a]]
             /\ unsure' = unsure \cup {a \in DOMAIN answer : ~Quoted(answer[a]) \/ a \in AskedBefore(c)}
    /\ UNCHANGED <<catalog, eligibility, faults>>

\* The call fails: its products survive with what was estimated.
PriceFailed(c) ==
    /\ batch[c].at = "pricing" /\ batch[c].passed < Len(batch[c].left)
    /\ Fault
    /\ LET b == batch[c]
           asked == Asked(c)
           rest == [i \in DOMAIN asked |-> Unpriced(OfferOf(b.left, asked[i].asin))]
       IN batch' = [batch EXCEPT ![c] = [b EXCEPT !.passed = b.passed + Len(asked),
                                                  !.out = b.out \o rest]]
    /\ UNCHANGED <<catalog, eligibility, told, unsure>>

\* Survivors are written one by one; passed now counts the rows written.
EndPricing(c) ==
    /\ batch[c].at = "pricing" /\ batch[c].passed = Len(batch[c].left)
    /\ batch' = [batch EXCEPT ![c] = [@ EXCEPT !.at = "writing", !.left = Empty, !.passed = 0]]
    /\ UNCHANGED <<catalog, eligibility, faults, told, unsure>>

WriteRow(c) ==
    /\ batch[c].at = "writing" /\ batch[c].passed < Len(batch[c].out)
    /\ LET s == batch[c].out[batch[c].passed + 1]
       IN catalog' = [catalog EXCEPT ![s.asin] = Upserted(@, s)]
    /\ batch' = [batch EXCEPT ![c].passed = @ + 1]
    /\ UNCHANGED <<eligibility, faults, told, unsure>>

\* All are written, or one statement fails and the rest is not tried.
EndBatch(c) ==
    /\ batch[c].at = "writing"
    /\ IF batch[c].passed = Len(batch[c].out) THEN NoFault ELSE Fault
    /\ batch' = [batch EXCEPT ![c] = [@ EXCEPT !.at = "done", !.passed = 0]]
    /\ UNCHANGED <<catalog, eligibility, told, unsure>>

FunnelStep(c) ==
    \/ Dedup(c)
    \/ \E b \in Brands : CheckCached(c, b) \/ CheckAmazon(c, b) \/ CheckUnanswered(c, b)
                      \/ CheckFailed(c, b)
    \/ BrandGate(c)
    \/ PriceBatch(c) \/ PriceFailed(c) \/ EndPricing(c)
    \/ WriteRow(c) \/ EndBatch(c)

\* Time passes: prices are fresh for a day, eligibility for seven days.
PriceAges(a) ==
    /\ catalog[a].age = "fresh"
    /\ catalog' = [catalog EXCEPT ![a].age = "stale"]
    /\ UNCHANGED <<eligibility, batch, faults, told, unsure>>
EligibilityAges(b) ==
    /\ eligibility[b].fresh
    /\ eligibility' = [eligibility EXCEPT ![b].fresh = FALSE]
    /\ UNCHANGED <<catalog, batch, faults, told, unsure>>

-----------------------------------------------------------------------------
(* Properties of one batch.                                                *)

\* Every offer is accounted for: in the batch, eliminated in one tier or a survivor.
Accounted(c) ==
    LET s == batch[c].stats
        pending == CASE batch[c].at = "pricing" -> Len(batch[c].left) - batch[c].passed
                     [] batch[c].at \in {"dedup", "brands"} -> Len(batch[c].left)
                     [] OTHER -> 0
    IN s.input = s.deduped + s.margin + s.brand + s.enrich + pending + Len(batch[c].out)

=============================================================================
