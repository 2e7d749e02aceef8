---------------------------- MODULE AssessmentScan ----------------------------
(***************************************************************************)
(* Phase 1 of an account assessment: phase1SearchCategories and            *)
(* scanOneCategory of internal/service/assessment_service.go.  One         *)
(* goroutine scans categories of products, one SP-API call after the       *)
(* other, under four circuit breakers: a budget of calls, a limit of time, *)
(* an early success and a streak of restricted products.  Time passes and  *)
(* the request is cancelled at any moment; calls answer anything or fail.  *)
(*                                                                         *)
(* The cap on calls is documented as hard, but calls and time are looked   *)
(* at between calls only, and what is counted is not what is sent: the     *)
(* properties say how far the scan may go past its limits.                 *)
(***************************************************************************)
EXTENDS Integers, FiniteSets

CONSTANTS
    Last,              \* number of categories (20 in the code)
    ExpectedOpen,      \* their expected open rates
    ProductsPerCategory,
    PerCategoryLimit,  \* restricted products in a row that end a category
    EmptyLimit,        \* empty categories in a row that are a repeated failure
    EarlySuccess,      \* eligible products that are enough
    Budget             \* calls that are enough

Categories == 1 .. Last

\* A batch of identifiers is one call up to 20 of them.
ASSUME LimitsAssumption ==
    /\ Last \in Nat /\ Budget \in Nat
    /\ EarlySuccess \in Nat /\ PerCategoryLimit \in Nat /\ EmptyLimit \in Nat
    /\ EarlySuccess > 0 /\ PerCategoryLimit > 0 /\ EmptyLimit > 0
    /\ ProductsPerCategory \in Nat /\ ProductsPerCategory <= 20

\* DiscoveryCategories: the highest open rate first.
ASSUME SortedAssumption ==
    /\ ExpectedOpen \in [Categories -> Nat]
    /\ \A c, d \in Categories : c < d => ExpectedOpen[c] >= ExpectedOpen[d]

VARIABLES
    at,            \* what the goroutine does next
    category,      \* category the loop over scanOrder is at
    left,          \* products of the category still to check
    streak,        \* restricted products in a row
    open,          \* eligible products of the category
    accessible,    \* those, and the ungatable ones
    scanned,       \* categories whose scan was begun
    emptyRun,      \* empty categories in a row
    totalEligible,
    calls,         \* apiCalls: calls as they are counted
    late,          \* whether the time is over
    canceled,      \* whether the context is
    fired,         \* kinds of breakers recorded
    sent,          \* history: requests made to Amazon
    over,          \* history: calls counted that were begun when the scan should have stopped
    cut            \* history: categories left by the check of the limits before a product

categoryVars == <<left, streak, open, accessible>>
totalVars == <<scanned, emptyRun, totalEligible, fired>>
callVars == <<calls, sent, over>>
scanVars == <<at, category, categoryVars, totalVars, callVars, late, canceled, cut>>

Stops == {"api_budget_exhausted", "time_budget_exceeded", "early_success"}

Breakers == Stops \cup {"context_canceled", "per_category_skip", "repeated_failure"}

ScanTypeOK ==
    /\ at \in {"next", "search", "lookup", "product", "check", "details", "after", "done"}
    /\ category \in 1 .. Last + 1
    /\ left \in 0 .. ProductsPerCategory
    /\ streak \in 0 .. PerCategoryLimit
    /\ open \in 0 .. ProductsPerCategory /\ accessible \in 0 .. ProductsPerCategory
    /\ open <= accessible /\ accessible + left <= ProductsPerCategory
    /\ scanned \subseteq Categories
    /\ emptyRun \in 0 .. EmptyLimit - 1
    /\ totalEligible \in Nat /\ calls \in Nat /\ sent \in Nat /\ over \in Nat
    /\ late \in BOOLEAN /\ canceled \in BOOLEAN
    /\ fired \subseteq Breakers
    /\ cut \subseteq Categories
-----------------------------------------------------------------------------
(* Variants with one slip in each, used by nothing.                        *)

ScanInitAtSecond ==
    /\ at = "next" /\ category = 2
    /\ left = 0 /\ streak = 0 /\ open = 0 /\ accessible = 0
    /\ scanned = {} /\ emptyRun = 0 /\ totalEligible = 0 /\ fired = {}
    /\ calls = 0 /\ sent = 0 /\ over = 0
    /\ late = FALSE /\ canceled = FALSE /\ cut = {}
BudgetExceeded == calls > Budget
ReachedWithoutTime ==
    {s \in Stops : \/ s = "api_budget_exhausted" /\ calls >= Budget
                   \/ s = "early_success" /\ totalEligible >= EarlySuccess}
-----------------------------------------------------------------------------
ScanInit ==
    /\ at = "next" /\ category = 1
    /\ left = 0 /\ streak = 0 /\ open = 0 /\ accessible = 0
    /\ scanned = {} /\ emptyRun = 0 /\ totalEligible = 0 /\ fired = {}
    /\ calls = 0 /\ sent = 0 /\ over = 0
    /\ late = FALSE /\ canceled = FALSE /\ cut = {}

BudgetExhausted == calls >= Budget

EarlySuccessReached == totalEligible >= EarlySuccess

ShouldStop == BudgetExhausted \/ late \/ EarlySuccessReached

Reached ==
    {s \in Stops : \/ s = "api_budget_exhausted" /\ BudgetExhausted
                   \/ s = "time_budget_exceeded" /\ late
                   \/ s = "early_success" /\ EarlySuccessReached}

\* n calls are counted for a call of the client that made that many requests.
\* None is made when the limiter is cancelled or no token is given.
Call(n, requests) ==
    /\ sent' = sent + requests
    /\ calls' = calls + n
    /\ over' = IF Reached # {} THEN over + n ELSE over
-----------------------------------------------------------------------------
(* phase1SearchCategories.                                                 *)

\* The head of the loop.
Stop ==
    /\ at = "next" /\ category <= Last
    /\ ShouldStop
    /\ at' = "done"
    /\ fired' = fired \cup Reached
    /\ UNCHANGED <<category, categoryVars, scanned, emptyRun, totalEligible, callVars, late, canceled, cut>>

StopCanceled ==
    /\ at = "next" /\ category <= Last
    /\ ~ShouldStop /\ canceled
    /\ at' = "done"
    /\ fired' = fired \cup {"context_canceled"}
    /\ UNCHANGED <<category, categoryVars, scanned, emptyRun, totalEligible, callVars, late, canceled, cut>>

\* A category that was scanned before would be skipped: there is none, by NothingBetter.
Begin ==
    /\ at = "next" /\ category <= Last
    /\ ~ShouldStop /\ ~canceled /\ category \notin scanned
    /\ at' = "search"
    /\ scanned' = scanned \cup {category}
    /\ left' = 0 /\ streak' = 0 /\ open' = 0 /\ accessible' = 0
    /\ UNCHANGED <<category, emptyRun, totalEligible, fired, callVars, late, canceled, cut>>

Finish ==
    /\ at = "next" /\ category > Last
    /\ at' = "done"
    /\ UNCHANGED <<category, categoryVars, totalVars, callVars, late, canceled, cut>>

RepeatedFailure == open = 0 /\ emptyRun + 1 >= EmptyLimit

\* After repeated failures the code jumps to the first category that is expected
\* to be more open and was not scanned yet: there is none, by NothingBetter.
After ==
    /\ at = "after"
    /\ at' = "next"
    /\ category' = category + 1
    /\ \/ /\ RepeatedFailure
          /\ fired' = fired \cup {"repeated_failure"}
          /\ emptyRun' = 0
       \/ /\ ~RepeatedFailure
          /\ emptyRun' = IF open = 0 THEN emptyRun + 1 ELSE 0
          /\ UNCHANGED fired
    /\ UNCHANGED <<categoryVars, scanned, totalEligible, callVars, late, canceled, cut>>
-----------------------------------------------------------------------------
(* scanOneCategory.                                                        *)

\* SearchProducts fails, finds nothing, or finds products, of which it asks for
\* the prices that it lacks by a request of its own (enrichPricing).
SearchCategory ==
    /\ at = "search"
    /\ \/ /\ \E requests \in {0, 1} : Call(1, requests)
          /\ left' = 0
          /\ at' = "after"
       \/ /\ \E requests \in {1, 2} : Call(1, requests)
          /\ left' \in 1 .. ProductsPerCategory
          /\ at' = "lookup"
    /\ UNCHANGED <<category, streak, open, accessible, totalVars, late, canceled, cut>>

\* LookupByIdentifier: an answer with products is counted a second time, and is
\* the one whose prices are asked for.
Lookup ==
    /\ at = "lookup"
    /\ at' = "product"
    /\ \/ \E requests \in {0, 1} : Call(1, requests)
       \/ \E requests \in {1, 2} : Call(2, requests)
    /\ UNCHANGED <<category, categoryVars, totalVars, late, canceled, cut>>

NextProduct ==
    /\ at = "product"
    /\ \/ left > 0 /\ ~ShouldStop /\ at' = "check" /\ UNCHANGED cut
       \/ left = 0 /\ at' = "details" /\ UNCHANGED cut
       \/ left > 0 /\ ShouldStop /\ at' = "details" /\ cut' = cut \cup {category}
    /\ UNCHANGED <<category, categoryVars, totalVars, callVars, late, canceled>>

\* CheckListingEligibility of one product is one request at most.
CallCheck == \E requests \in {0, 1} : Call(1, requests)

CheckFails ==
    /\ at = "check"
    /\ CallCheck
    /\ at' = "product"
    /\ left' = left - 1
    /\ UNCHANGED <<category, streak, open, accessible, totalVars, late, canceled, cut>>

\* Eligible or ungatable.  The client of the SP-API reports a call that failed
\* as eligible.
CheckFinds(ungatable) ==
    /\ at = "check"
    /\ CallCheck
    /\ at' = "product"
    /\ left' = left - 1
    /\ streak' = 0
    /\ open' = IF ungatable THEN open ELSE open + 1
    /\ accessible' = accessible + 1
    /\ totalEligible' = totalEligible + 1
    /\ UNCHANGED <<category, scanned, emptyRun, fired, late, canceled, cut>>

Skipped(n) == n >= PerCategoryLimit

CheckRestricted ==
    /\ at = "check"
    /\ CallCheck
    /\ left' = left - 1
    /\ streak' = streak + 1
    /\ \/ Skipped(streak + 1) /\ at' = "details" /\ fired' = fired \cup {"per_category_skip"}
       \/ ~Skipped(streak + 1) /\ at' = "product" /\ UNCHANGED fired
    /\ UNCHANGED <<category, open, accessible, scanned, emptyRun, totalEligible, late, canceled, cut>>

\* GetProductDetails of what is accessible.
Details ==
    /\ at = "details"
    /\ at' = "after"
    /\ IF accessible > 0 THEN \E requests \in {0, 1} : Call(1, requests) ELSE UNCHANGED callVars
    /\ UNCHANGED <<category, categoryVars, totalVars, late, canceled, cut>>
-----------------------------------------------------------------------------
TimePasses ==
    /\ ~late /\ at # "done"
    /\ late' = TRUE
    /\ UNCHANGED <<at, category, categoryVars, totalVars, callVars, canceled, cut>>

Cancel ==
    /\ ~canceled /\ at # "done"
    /\ canceled' = TRUE
    /\ UNCHANGED <<at, category, categoryVars, totalVars, callVars, late, cut>>

ScanNext ==
    \/ Stop \/ StopCanceled \/ Begin \/ Finish \/ After
    \/ SearchCategory \/ Lookup \/ NextProduct \/ CheckFails \/ (\E u \in BOOLEAN : CheckFinds(u))
    \/ CheckRestricted \/ Details
    \/ TimePasses \/ Cancel

ScanSpec == ScanInit /\ [][ScanNext]_scanVars
-----------------------------------------------------------------------------
(* Properties.                                                             *)

\* The scan counts at most two calls more than the budget, and makes at most one
\* request more for each category than it counted, as the prices that SearchProducts
\* asks for are not counted: the "hard cap on total SP-API calls" (cbAPIBudget) may
\* be passed, by two and one for each category scanned at most.
CapHolds == calls <= Budget + 2 /\ sent <= calls + Cardinality(scanned)

\* Once the scan should stop, for whatever reason, at most three more calls are
\* counted before it does: the search, the lookup and its second count.
StopsSoon == over <= 3

\* No more products than needed are found eligible (cbEarlySuccessThreshold).
EnoughIsEnough == totalEligible <= EarlySuccess

\* How far a scan goes past its limits, whichever of them it meets first and
\* however calls fail (shouldStop, checkCategory and the breakers).
LimitsHold == ScanTypeOK /\ CapHolds /\ StopsSoon /\ EnoughIsEnough

\* When a category has been scanned, none that is expected to be more open is
\* left, so that the jump after repeated failures (phase1SearchCategories) never
\* finds one.
NothingBetter ==
    at = "after" =>
        \A c \in Categories \ scanned : ExpectedOpen[c] <= ExpectedOpen[category]

\* A scan that left a category or products out has recorded why, unless that
\* happened to products of the last category (fireBreaker is called at the head
\* of the loop).
StopsRecorded ==
    (at = "done" /\ (scanned # Categories \/ cut \ {Last} # {})) =>
        fired \cap (Stops \cup {"context_canceled"}) # {}
=============================================================================
