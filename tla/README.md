# Verification of the FBA agent orchestrator

TLA+ specifications of the Go server (`src/apps/api`, `src/internal`) and of the part of the web
application that follows it, model-checked with TLC and proved in part with TLAPS. The source is the
reference: every definition of a component's module is translated from the lines that
`PROJECT.json` ("map") names for it.

1. The system
2. Components: state, operations, what makes them correct
3. The modules and how they correspond to the code
4. The runs: what is asked, bounds, fairness
5. What is proved
6. Where the code departs from what it says
7. What is only model-checked, and what is not modelled
8. Plan

## 1. The system

A tenant is a seller. The server assesses the seller's account (which categories may it sell in?),
drafts a growth strategy from the result, and runs research campaigns whose candidate products are
evaluated by agents and end up as deals, which people approve or reject.

```
 browser ──HTTP──> handlers ──calls──> services ──SQL──> PostgreSQL (one row set per tenant)
    ^                  │                   ^  │
    │ SSE              │ Send(event)       │  └──> SP-API, agents, web search
    │                  v                   │
 AssessmentHub <─── Inngest functions ─────┘     (steps, each run at least once)
```

How the parts interact:

* **Calls.** A handler runs in a goroutine per request and calls services. No service opens a
  transaction, and one repository method does (`SetActive` of the scoring configuration). So requests of
  one tenant interleave between any two SQL statements.
* **Rows.** Components meet in the database: the assessment's fingerprint is read by the strategy,
  the active strategy by the discovery queue, the catalog by the funnel. Every query is restricted to one
  tenant or one row of it, which is why each module models one tenant.
* **Inngest events.** `assessment/requested`, `campaign/requested`, `candidate/evaluate`, `scan/category`, `pricelist/uploaded` and
  two crons start functions. A function is a sequence of steps; a step that answered is never run again, one that failed or whose
  answer was lost is, up to two more times. A step may therefore run *after it already took effect*. The
  server cuts every answer after 30 s (`WriteTimeout`), so long steps lose theirs in normal operation.
* **Shared memory.** Requests share two objects: the hub, a stream of events per tenant with channels that runs write
  to and handlers read from, and the SP-API client with its token and its rate per endpoint.
* **Dropped errors.** Many calls ignore the error of a statement (`_ = …`) or log it. The modules say
  which: a dropped error is an alternative in which the statement has no effect and the next one runs.

The hard behaviours follow: statements of two requests interleaving (strategy, deals, reset against a
run, credits, daily discovery), values read in one statement and used in a later one, steps repeated after their effect
(campaign, assessment, price list), streams ended by somebody else or swept late, bounded channels, and limits that
are looked at between calls only.

## 2. Components: state, operations, what makes them correct

| Component | State | Operations | Correct when |
|---|---|---|---|
| Strategy versions (`strategy_service.go`) | rows of `strategy_versions` with number, content, parent, status, time stamps | generate a draft, activate, roll back | at most one version is active; numbers follow creation; a rollback is a copy; history is never rewritten; an interrupted request is repaired by the next |
| Progress hub (`assessment_hub.go`) | a stream per tenant: history, subscribers, done; clean-up goroutines | StartStream, Publish, EndStream, Subscribe, unsubscribe, clean up | no send on a closed channel; nobody waits on a stream that nobody ends; events in order, once, complete up to the buffers |
| Campaign workflow (`campaign_service.go`, Inngest) | campaign status, progress of two functions, deals | Create, process-campaign, evaluate-candidate | one deal per product; a campaign ends; a failed one is empty |
| Goroutine fallback, pipeline, reviewer, product discovery, tool resolver | campaign status; otherwise what is held between two agents | RunCampaign, RunPipeline, Review, ResolveForGating | a deal went through every gate; both implementations agree on a candidate; the campaign ends |
| Deal review (`deal_service.go`) | deal status, domain events | Approve, Reject | a decision is final and the log agrees with it |
| Assessment records (`assessment_service.go`, Inngest) | profile status, fingerprint, probe and category rows, strategy drafts | Start, run-assessment, Reset | stored rows belong to one scan; a completed assessment has results; the status settles; one draft per run |
| Assessment scan (`assessment_service.go`) | counters and circuit breakers of one goroutine | phase 1 and the scan of a category | limits are overshot by a known amount; what is left out has a recorded reason |
| Elimination funnel, product catalog | tiers, catalog rows with prices fresh for 24 h | ProcessBatch, Upsert, refresh | each offer is counted in one tier; a fresh row holds what Amazon said |
| Category scan, catalog refresh | browse nodes by age, scan jobs | ScanNextNodes, catalog-refresh | no node starves |
| Brands | block list, eligibility of a brand for 7 days | edit, auto-block, check, cache | a refused brand does not survive on a verdict Amazon never gave |
| Credits | balance row, ledger | spend, grant, change of tier, reset by month | balance and ledger agree; nothing is spent beyond the limit; the reset comes next month |
| Shared catalog | products shared by tenants, eligibility per tenant | enrich, check, record from a scan | a fresh result is not paid for again |
| Discovery queue, suggestions | suggestions per day | daily discovery, accept, dismiss | the daily cap; suggestions follow a version that was in force |
| SP-API client, rate limiter | token, its mutex, a rate per endpoint | five methods, halve on 429, recover | no request with a dead token; the mutex is given back; the rate stays in bounds and recovers |
| Price lists | none of their own | parse, look up, filter, send to the agents | a product is calculated with its own cost; what the list made fresh was sent |
| Scoring configuration | configurations, one active | get, update | exactly one active, versions distinct |
| Seller accounts | one row per tenant, credentials encrypted | connect, disconnect, read | the row is connected only with valid credentials |
| Migrations | `schema_migrations` | run pending ones at start | each runs once |
| Events and analytics, tenant settings, HTTP and auth, agent runtimes, other adapters, start-up, web pages, deployment | rows or nothing | pass through | — |

`PROJECT.json` ("components") says which are modelled; "hazards" lists what can go wrong in each at its line.

## 3. The modules and how they correspond to the code

Two conventions hold throughout.

*One action is one statement.* Where the code makes several calls to the database or to Amazon, each is an
action and a variable of the request says which comes next. What a request holds in Go variables between two
statements (a version read earlier, a number taken) is part of its state, so that it can be stale when used.

*Variants.* A component's module may have a short section of definitions "with one slip in each". They model
nothing. Each is substituted for the definition it varies to see that a property then fails
("mutants" in `PROJECT.json`).

| Extends | Module | MC module | Proofs |
|---|---|---|---|
| | `VersionJournal` (abstract), `StrategyVersions` | `MCStrategyVersions` | `StrategyVersions_proofs` |
| `StrategyVersions`, `Selections` | `DiscoveryQueue` | `MCDiscoveryQueue` | `StrategyVersions_proofs` |
| | `AssessmentHub` | `MCAssessmentHub` | `AssessmentHub_proofs` |
| | `AssessmentRecords` | `MCAssessmentRecords` | `AssessmentRecords_proofs` |
| | `AssessmentScan` | `MCAssessmentScan` | `AssessmentRecords_proofs` |
| | `CampaignWorkflow` | `MCCampaignWorkflow` | `CampaignWorkflow_proofs` |
| | `DealReview` | `MCDealReview` | `CandidatePaths_proofs` |
| `CandidateRules` (operators) | `CandidatePaths` | `MCCandidatePaths` | `CandidatePaths_proofs` |
| `ProductFunnel` (on `Selections`) | `CategoryScan` | `MCCategoryScan` | `CategoryScan_proofs` |
| `Credits` | `SharedCatalog` | `MCSharedCatalog` | `SharedCatalog_proofs` |
| `AmazonClient`, `Selections` | `PriceList` | `MCPriceList` | `PriceList_proofs` |

`Selections` has the one loop that filters of scans and sheets share: go through a list, keep the members that are in a set.

### StrategyVersions, VersionJournal

`versions` is the table, a row's position its identity. `req[r]` is what a request has done: the
statement it executes next (`at`), the version it names, the active version it read, the number it
took. `BeginGenerate`/`InsertDraft` are `GenerateInitialStrategy`; `BeginActivate`/`ArchivePrevious`/
`ActivateTarget` are `ActivateVersion` with the two statements of `SetActive`; `BeginRollback`/`ReadCurrent`/
`MarkRolledBack`/`TakeNumber`/`InsertCopy` are `RollbackToVersion`. The unique index on the number makes an insert
fail (`NumberFree`). `Faults` has "abort", a request that stops between two statements, and "ignored",
a statement whose dropped error hides that it did nothing.

`VersionJournal` is what the comments of `domain/strategy.go` and migration 013 promise: an append-only
sequence of snapshots in which a rollback is a copy. `StrategyVersions` implements it by the mapping
`SnapshotOf`, which forgets the status. `MCStrategyVersions` adds two bits of history: whether requests ever
overlapped or an error was dropped (`disturbed`), and whether a request was cut short and none was completed since
(`interrupted`). So one run asks for what survives everything and for what holds of serial requests only.

### DiscoveryQueue

`RunDailyDiscovery` over the versions of `StrategyVersions`, which go on changing: `Count` and `CapReached`, `ReadStrategy`,
`Search` (one per category), `Filter`, `Catalog` (one row of `UpsertBatch`, which stops at the first row that fails; after the last one `CutOff` applies the cap), `Store`, with `Stop` anywhere.
`Elsewhere` is every other writer of the catalog (category scans, price lists, the refresh), which may store a price of a product in `Shared` at any moment. `Dismiss` and `AcceptRefused` are
the user's answers; `Midnight` makes today's rows yesterday's, `Expire` ages a price. Accepting is always refused: the
service writes "pending" into `deal_id`, a UUID, so the statement fails.

### AssessmentHub

A hub method looks up the tenant's stream under one lock and works on it under another, so these are two
actions (`LookupToPublish`/`Publish`, `LookupToEnd`/`EndStream`, `Connect`/`Subscribe`); `StartStream` holds the
hub's lock throughout and is one. A Go channel is the viewer's `chan` and `open`; a stream is named after the run that
started it, and `current` is the map's entry. `Sweep` is the goroutine that `EndStream` leaves for 30 s. The
browser (`use-assessment-sse.ts`) is `Connect`, `Receive`, `TellDone`, `Lose`, `TurnOff`: the catch-up replaces what is shown, "done"
closes the connection for good. `MCAssessmentHub` adds one bit: whether two runs ever overlapped.

### CampaignWorkflow

`campaign` is the row's status, `workflow` the function process-campaign, `evaluation` the functions
evaluate-candidate (a candidate has one for each attempt of its dispatch that sent an event), `deals` the number of rows per product. A step of a
function is an action whose outcome is `Answered` (it worked; its answer may be lost, so that it runs
again) or `Retried` (it returned an error). `Failing` and `Lossy` say what may go wrong, so that one cfg can ask for all faults
and another for one. Agents' verdicts are arbitrary, and an agent whose last attempt fails ends the evaluation without a verdict, at the gate or behind it. `MCCampaignWorkflow` records which kinds of incident
have happened (`seen`), and its properties say exactly which of them lead to which damage.

### CandidateRules, CandidatePaths

What an evaluation decides, twice: `Loop…` is `RunPipeline` in the goroutine that replaces Inngest
(`pipeline_orchestrator.go`), `Steps…` are the steps of evaluate-candidate (`client.go`). Both
see the same candidate and the same answers of Amazon and the agents (`Heard` draws an answer for whoever asks first and keeps it
for the other), so that their deals can be compared. `CandidateRules` has what they share: filters, margin, what an
answer is taken to say, the reviewer's rules, composite and tiers. `EditBlocklist` and `AutoBlock` change the tenant's block list,
A candidate that the sourcing agent names may bring more than its identity: a price of its own (`quoted`), a wholesale cost, a calculation, a margin and a risk, which both paths read
at different places (`Calculated`, `StepsMargin`, `Scored`); the filters before the agents always take the cost for 40 % of the price (`MarginMet`). Left out are a title or reviewer's scores that an answer
might add. `Expire` ends the 30 minutes of the goroutine, `LoopEnd` and `Settle` write the campaign's status. `Noted` is an answer joining what
a path has been told; the margin of a campaign may be 0, in which case a price of 0 passes both gates.

### DealReview

`Approve` and `Reject`: `Read` (GetByID and the transition on the copy), `Update` (the whole row), `Emit` (the
domain event, whose error is dropped), `Stop`. `Overlap` and `MayFail` are constants: the guarantee is one of requests that do not
overlap, and the theorems name that premise.

### AssessmentRecords

The database side of an assessment. Rows are named after the attempt that wrote them
(`<<run, attempt>>`): nothing else about them matters to the properties. `Start`/`Trigger` are the
handler; `Search`, `StoreTotals`, `StoreProbes`, `StoreCategories`, `AnswerSearch` and `Interrupt` are the step search-categories;
`Complete`, `Fail` and `BuildStrategy` end the function; `BeginReset` to `DeleteProfile` are the statements of
`ResetAssessment`. A profile update touches nothing when the profile was deleted in between (`Marked`). As for campaigns,
`MCAssessmentRecords` keeps the incidents of a history.

### AssessmentScan

Phase 1 as one goroutine: `Stop`, `StopCanceled`, `Begin`, `After`, `Finish` are the loop over the categories, `Search` to
`Details` the scan of one. Time running out and cancellation are actions that may happen at any moment. `calls` is the
code's counter; `sent`, `over` and `cut` are history variables that the properties need and the code does not keep: the requests made
to Amazon, what was counted after a limit was reached, the categories left early. A method of the client counts as one call, an answered lookup as two; it makes one request, or none when it is cancelled before,
and a search or lookup that finds products without a price a second one (`enrichPricing`). A client without credentials, which makes none, is left out. The jump after repeated failures has no action: `NothingBetter`
says, and a theorem proves, that it never finds a target.

### ProductFunnel, CategoryScan

`batch[c]` is a call of `ProcessBatch`: `Dedup` (T0 and T1), `CheckCached`/`CheckAmazon`/`CheckFailed`/`CheckUnanswered` for a brand and `BrandGate`
(T2), `PriceBatch`/`PriceFailed`/`EndPricing` (T3), `WriteRow` and `EndBatch`. `stats` are the code's counters. The maps that the code builds by ASIN or by brand
are the operators `OfferOf`, `Sample` and `BrandFor`, which say which of several offers of a product counts. Ages are one bit (fresh or not),
and `PriceAges`/`EligibilityAges` are the passing of 24 h and 7 days. `told` and `unsure` are history: the last price Amazon gave, and the products it did not price.

`CategoryScan` puts `ScanNextNodes` around it: `rotation` is `browse_nodes` in the order of `last_scanned_at`, nulls first; `Pick`, `Search`/`SearchFailed`,
`EnterFunnel`, `Complete`, `Answer`; `Lost` is a server that stops or an answer that is lost, after which the step begins again. The
nightly `Refresh…` shares the catalog.

### Credits, SharedCatalog

`account` is the row with limit, use and reset day. `Spend` is two statements: the debit, which checks and counts at once, and the
ledger row, whose error is dropped. Reading the balance may find the reset due and renew the account, by a statement of its own that does
not look again. The calendar is a sequence of months of a few days, so that the last day of a month may be one the next month lacks (`Overhangs`; Go's
`AddDate` carries it over). `SharedCatalog` adds the requests that pay: `Lookup`, `Pay`, `CallFailed`/`NoDetails`/`Store`, `Mark` (a refused product gates its brand), `Die`; `RecordScan` is
what a scan stores for free.

### AmazonClient, PriceList

`call[c]` is one of the client's methods as the requests it has still to make. `Wait` is the limiter, `TakeToken`/`AskToken`/`TokenBack`/`TokenRefused` the
token behind its mutex (`holder`), `Answered`/`Throttled`/`Broken` the request itself, `Missed` and `Onward` what a request that failed does to the method's
result: a search reports it, a lookup goes on without the chunk, details and eligibility never report anything. What an answer adds
to the result is `Searched`, `Browsed`, `LookedUp`, `Priced` and `Checked`, one for each method. A `Tick` is 30 s, the time-out of an HTTP request; no request is under way
for longer than that. `Halved` and `Recovered` are the limiter's arithmetic, in thousandths of a request per second.

`PriceList` uses the client: `Upload` parses a sheet (`ParseCSV`, `DetectColumn`, `ParsePrice`, `IdType`), the lookup runs in the client while others probe it
(`Probe`), `Match` pairs what was found with items by position (`Paired`), `RunFunnel` keeps what suits and is not fresh, `Configure`, `Dispatch`, `Waited`,
`CompleteCampaign` and `MarkFailed` are the steps of process-pricelist, with `MatchLost` and `FunnelLost` for the answers of steps that are lost.

### How they fit together

The run of `AssessmentHub` is the search step of `AssessmentRecords`: same code, once for what is published and once for
what is stored. `AssessmentScan` is the inside of that step's first action. A draft of
`AssessmentRecords` is a `BeginGenerate`/`InsertDraft` of `StrategyVersions`. An evaluation of `CampaignWorkflow` is one pass of the steps of
`CandidatePaths`; its `Save` makes the deal that `DealReview` starts from. `DiscoveryQueue` and `PriceList` take of `ProductFunnel` only
the outcome: what is fresh is dropped, what survives becomes fresh. Where modules are kept apart, they share one row
or one verdict each. Verdicts are arbitrary to the module that reads them, and in `DiscoveryQueue` others may make any product of `Shared` fresh at any moment.
In `PriceList` and `CategoryScan` freshness has no writers but those of the module: the former is about the products that a list itself made fresh, the latter contains its second writer, the refresh.

## 4. The runs

| Run | Question | Instance and states | Why the bounds are enough |
|---|---|---|---|
| `strategy_concurrent` | What survives any overlap, stop and dropped error (`VersionHistory`, `ImplementsJournal`), and what holds of requests that follow one another and may be cut short (`SerialOneActive`, `ActiveSurvives`, `SerialDraftsOnly`)? | 2 requests, 2 contents, 3 rows, all faults; 99 122 states up to symmetry | conflicts are between two requests; with three rows a rollback can name an older version while another is active, be interrupted, and be repaired by a later activation; the theorems cover the rest |
| `strategy_concurrent_activation` | violation of `AtMostOneActive` when two requests overlap | 2 requests, no faults | |
| `hub_overlap` | `ChannelsSound`, `ShownFaithfully` (order, no repetition, nothing lost below the buffers), `SerialRunKeepsStream`, `EveryViewerReleased`, `StreamsForgotten` | 2 runs, 1 viewer that connects twice, 2 events a run, history 3, buffer 2; 94 070 states | both the history and the channel can fill up within the events of two runs (a run can publish into the other's stream); two runs are enough for a stream to be ended by the other's EndStream or met by a late clean-up; viewers meet only through a stream's set, and the safety theorems have any number |
| `campaign_faults` | Which incident leads to which damage? `FailedIsEmpty`, `DealsUnrepeated`, `CampaignSettles`, `CandidatesJudged` (which incidents leave a candidate without a verdict) | 2 candidates, 1 retry, every fault, 2 kinds of incident in a history; 51 598 states | two candidates allow one to be sent and the other lost; one retry has a repetition after the effect and the give-up after the last attempt; two kinds of incident let one excuse nothing for the other |
| `candidate_paths` | Did a deal pass every gate (`GatesHold`), do both implementations agree (`PathsAgree`), does the goroutine's campaign end (`FallbackSettles`)? | 8 candidates (brands, sellers, prices, with and without title, discovered or named by an agent, with a price, cost, margin or risk of their own), 3 kinds of criteria, answers on both sides of every threshold, 1 fault; 2 815 772 states | candidates are judged one by one; the candidates and answers include every reading that the two paths treat differently, and without any one of the reasons that `PathsAgree` lists TLC finds a difference |
| `review_serial` | Is a decision final, does the log agree? | 3 reviewers, 2 requests each, failures anywhere; 307 states up to symmetry | a third reviewer sees what two interrupted ones left; theorems for any number |
| `records_faults` | Which incident spoils results, completion, drafts (`CleanRecords`), status (`StatusSettles`)? | 2 runs, 1 reset, 1 retry, every fault, 2 kinds of incident; 291 105 states | an assessment, a reset in between and a second one is the longest story of the page; more than two incidents only add damage |
| `scan_breakers` | How far past its limits, and what is recorded? `LimitsHold`, `NothingBetter`, `StopsRecorded` | 4 categories of up to 3 products, streak 2, empty run 2, early success 3, budget 10; 617 347 states | every breaker is in reach, several of them within one category; two categories share a rate |
| `catalog_scans` | Do the tiers add up (`FunnelSound`), is a fresh price one Amazon gave (`FreshIsTold`), is a refused brand stopped (`RestrictedStopped`), is every node scanned again and again (`RotationReachesAll`)? | 1 caller, 2 products, 3 nodes of which one always fails, 2 nodes a scan, pricing calls of 2, 1 fault, 1 retry, the refresh beside it; 574 983 states | a product occurs twice within a node, with two prices, and in two nodes, so that pricing calls ask twice; one failing node is fewer than a scan takes; one fault is enough to repeat the whole step |
| `credits_overlap` | `AllowanceKept`, `LedgerAgrees`, `ResetNextMonth`, `BoughtOnce` | 2 requests, limits 1 and 2, months of 2, 1, 1 and 2 days, 1 fault; 2 548 400 states up to symmetry | races are between two requests; the first month has a day the second lacks; a limit of 1 is reached by one debit |
| `discovery_days` | `DailyCap`, `FromStrategy`, `FreshAccountedFor` | 2 runs of the discovery beside 1 request on strategies, 2 versions, 2 categories that share a product, one product that other scans store too, cap 2, 1 fault; 4 730 828 states up to symmetry | the cap is reached within a run and over two; a product can be made fresh by others before, during and after a run; a version can be activated or replaced between the read and the insert |
| `pricelists` | `TokenAlive`, `LockedWhileAsking`, `RatesRecover`, `CostBelongs`, `FreshAreSent` | 2 callers, one of which hands lists to the agents, 3 sheets (one of two chunks, one with an unknown identifier, one that mixes UPC and EAN), chunks of 2, a token of 4 ticks with a margin of 2, 2 faults; 2 875 784 states | a token can run out during a wait, and its mutex be wanted by both; costs can shift at a chunk's border; theorems for any number of callers |

All passing runs check types too, most within a larger invariant, which for the hub includes that a history and a channel never exceed
their capacity. The actions that end everything (`MaxVersions` rows, `MaxConnects` connections, ...) are bounds of the
instance or the end of the work, so those cfgs that can reach such an end switch the check for deadlocks off.

**Incidents.** Several components have faults that the code does not recover from. Leaving them out would make
the properties empty, leaving them in would make them false. So history variables record what has happened
(`seen` of campaigns and assessments, `disturbed` of strategies, `loose` of discovery and catalog, `renewedEarly`, `overhang`, `spoilt`, `kept`, `excused`, `unsure`), and a property says, for each damage, the
complete list of what can cause it: `DealsUnrepeated` holds whatever else goes wrong, and a new way to duplicate a deal would be found.

**Fairness.** Weak fairness only. A run of the assessment ends because its phases are bounded and `EndStream` is deferred; a handler
serves its connection because it does nothing else; the clean-up goroutine wakes up (`AssessmentHub`).
Inngest resumes a function until it has ended, and the server runs a request it has begun
(`CampaignWorkflow`, `AssessmentRecords`). Cron and Inngest start every scan of categories and give its steps their turn
(`CategoryScan`); that a step is cut short is not excluded, only bounded by `MaxFaults`, and nodes in `Broken` fail for ever. Nothing is assumed of people, browsers, time, or a fault
not happening. Fairness is on the disjunction of a process's steps and never on the favourable alternative of one, so no
attempt is assumed to succeed eventually; attempts are bounded by `Retries` as in the code. That the goroutine of `CandidatePaths` ends
is stated without fairness (`FallbackSettles`): until it has ended a step of it is enabled, and its steps only lead forward.

## 5. What is proved

TLAPS proves the following for every number of requests, runs, viewers, candidates, retries, categories, callers, lists and every value of the
limits, from the assumptions that the modules state about their constants. Each invariant was checked by TLC first.

**StrategyVersions** (`StrategyVersions_proofs`). `TypeCorrect`, `NumbersAreOrdered`, `CopiesAreFaithful`, `AuditTrailHolds`, together
`HistoryHolds` (`VersionHistory`), and `Refinement`. The properties are not inductive: `InsertCopy` appends what a request put together several statements
ago. The inductive invariant adds `InFlight`: what a request holds is still true of the rows it read
(target, current and content name rows that exist and have that content, the active version it read was activated once), which survives other
requests because rows are only appended, contents never change and time stamps are never cleared. That a number read
earlier cannot break the order needs the unique index: an insert with a taken number fails, and by `NextNumber` a number that
is still free is the next one. `Refinement` follows: an insert appends the row's snapshot, every other step leaves the snapshots alone.
`OneActive` and `ActivatedFromDraft` hold for a single request whose errors are not dropped: between its
archive and its activation nothing is active (`Alone`), which the run `strategy_concurrent_activation` shows to be lost with two.
The same of any number of requests that follow one another is `SerialOneActiveHolds`, `SerialDraftsOnlyHolds` and `ActiveVersionSurvives`. Their invariant `MCInv` says
that undisturbed requests are one at a time (`Serially`), so that `Alone` carries over, and that a version stays active but between the two statements
of a request under way, or after one that was cut short (`Survival`).

**DiscoveryQueue** (in the same module, on top of the invariant above). `CapHolds`, `SuggestionsFollowStrategy`, `FreshIsAccountedFor`. What a run holds (`RunsSound`) names a version that was put
in force, whose row other requests cannot take away; `RoomKept` says that without overlap the room a run has counted is still there
when it stores. `FreshIsAccountedFor` counts on what a run awaits (`Awaiting`): the rows it wrote to the catalog and has room for, until the insert or until it ends. `QueueLeavesVersions` is the composition itself: the queue's steps are stutters of `StrategyVersions`, so its theorems hold beside the queue.

**AssessmentHub** (`AssessmentHub_proofs`). `TypeCorrect`, `ChannelsSafe`, `SubscribersReachable`, together `ChannelsHold` (`ChannelsSound`). A method acts on a stream it looked up
before; that this is safe rests on `Locked`: a done stream has no subscribers, a stream that is not done is the one
in the map, and whatever was looked up was started. So `Publish` and `Subscribe` either find their stream
done and do nothing, or find it current. `PagesFaithful` (`ShownFaithfully`) adds what a page is owed: what is shown and what waits in its channel is in order and behind the run that publishes (`InOrder`),
its connection is registered with a stream that was started as long as that one is live (`Attached`), and below the buffers nothing is lost (`NothingLost`). `SerialRunsKeepStreams` is about runs that do not overlap.
`NobodyWaitsInVain` is the safety half of `EveryViewerReleased` and `StreamsForgotten`: an open channel is registered with the stream in the map (`OpenIsKnown`), and that stream
has somebody left who takes it out, its run, a run about to end it or the sleeping goroutine (`StreamIsOwed`), also when runs end each other's streams.

**CampaignWorkflow** (`CampaignWorkflow_proofs`). `TypeCorrect` and `FailedCampaignsEmpty`, from `QuietBefore`: until the fan-out nothing
was sent, and only a function that never reached it marks the campaign as failed. `SingleDeals`: where
the answers of dispatch and save-deal arrive, a product has at most one deal whatever else fails. It needs `FirstAttempts`: only
evaluations of first attempts exist, and a product with a deal has its evaluation done. `UnrepeatedDeals` (`DealsUnrepeated`) is the same with every fault
allowed, for histories in which nothing was sent or saved again: an attempt of a dispatch is the first to use its number
(`FreshEvents`), so a product has one evaluation, and a deal once that one is done (`DoneOnce`). `CampaignEnds` is the safety half of `CampaignSettles`: unless one of its four
incidents happened, a pending campaign has its workflow at the start and a running one at a place from which it still writes the last status (`CampaignIsOwed`).

**CandidatePaths** (`CandidatePaths_proofs`). `DealsPassTheGates` (`GatesHold`), `PathsDecideAlike` (`PathsAgree`) and `LoopSettles` (`EndSettles`, the invariant in
`FallbackSettles`), for any products, answers, thresholds, scores, edits of the block list and faults. `GatesHold` is about a deal, and is not inductive: the gates were passed
several agents earlier, and a product's price and the block list may have changed since. `LoopGates` and `StepsGates` therefore say at which place, or with which deal, each gate is behind a path, and of what it then read
that fact is; for the margin of the steps also which agent claimed it, and for the loop's which price and cost it was calculated from. `PathsAgree` compares two programs that take their steps in any order, so it needs to know of each
one separately what it does with the answers: where nothing failed a path has been told what was answered, its deal is the one the rules make of that,
and a candidate it dropped was dropped for a reason in a list (`LoopTold` with `LoopDropped`, `StepsTold` with `StepsDropped`), and both began with the same candidate and read the same about it (`SameItem`). The
comparison itself is then about the rules alone: later answers replace earlier ones (`MergedTwo`, `MergedFour`), a tier and a composite are functions of the answers (`ScoredAlike`),
and the reviewer's rules follow from them (`RulesOfDeal`). `LoopSettles` adds `StatusOfPlace`, the status a campaign has while the goroutine is at a place.

**AssessmentRecords** (`AssessmentRecords_proofs`). `RecordsClean` (`CleanRecords`), for any runs, attempts, resets and faults. Each of its three parts has an invariant that says what the
tables hold by where the run and the reset have got to, under the incidents that the part excludes. `Single` (with `Clean`): a run finds empty tables, the totals carry its attempt before a row does, and a reset
empties rows, totals and profile in this order, so that whatever is in the tables is of one attempt. `Kept`: the totals are there from the moment they are stored until the reset deletes them,
which is just before it deletes the profile, so a completed status without totals needs an incident. `DraftsOnce`: a run that has drafted has ended. All of them rest on `Alone`: without an
overlap at most one run is active and none during a reset. `RunningEnds` is the safety half of `StatusSettles`, and excludes no overlap: as long as the status is running, some run is at a place from
which it will write the status (`RunningIsOwed`), unless the event was not sent or a write failed.

**AssessmentScan** (in the same module). `ScanTypeCorrect`, `BudgetHolds`, `ScanStopsSoon`, `EligibleBounded`, together `LimitsAreHeld` (`LimitsHold`), `JumpIsDead`,
`ReasonsRecorded`. `Limits` follows the count through one category: a search or a check begins below every limit, a lookup
follows a search, details follow at most one call past the limit. So at most two calls are counted beyond the budget; and a step makes at most one request more than it counts only
where a category's search asks for prices, so the requests exceed the count by at most the categories scanned. `Order` says that the scanned categories are a
prefix; as the rates are sorted (`SortedAssumption`, the order in which `DiscoveryCategories` lists them) no better one is left.

**DealReview** (in `CandidatePaths_proofs`). `OneStory` (`LogAgrees`) and `DecidedForGood` (`DecisionsFinal`), both from `Overlap = FALSE`. The invariant says that a
request that goes on is alone (`Alone`), that what it checked still holds when it writes and nothing was logged since (`UnderWay`), and that nothing is
logged before a decision (`Undecided`). Failures need no clause: a request that stops leaves a row in review or a decision without a log entry.

**PriceList** (`PriceList_proofs`). `TokensAreAlive`, `OneAsks` and `RatesAreBounded`, of the client as everything that uses it drives it. The invariant
has five parts: the calls under way are well formed (`Calls`), the mutex belongs to whoever asks for a token (`Lock`), rates are within their
bounds (`Rates`), a job has a call under way only while it looks something up or probes (`Jobs`), and the age of a token and what is left of it add up to at most its
life less the margin, plus one tick for the answer that was late (`Token`). So a request that starts with a token of which a tick is left and takes up to a tick ends before the
token does, if the margin is at least two time-outs (`TokenMargin > 1`, 60 s and 30 s in the code). `RatesAreBounded` needs a floor of at least 10 thousandths: below, a
tenth rounds to nothing and the rate would never recover.
`CostsBelong` (`CostBelongs`) and `FreshSent` (`FreshAreSent`) are about the lists. While a lookup is under way its call has asked for the first chunks and found their
products in order (`LookingUp`), so that an undisturbed lookup of items that Amazon knows once pairs each with its own (`Right`). What a list has sent and has still to send does not
shrink while it is worked on.

**CategoryScan with ProductFunnel** (`CategoryScan_proofs`). `FunnelAddsUp` (`FunnelSound`), `FreshPricesTold` (`FreshIsTold`), `RefusedStopped` (`RestrictedStopped`), for any listing, products, batch size,
callers and faults. The invariant has four parts: rows, cache and rotation are what the statements leave (`Stored`), scans are well formed (`Scans`), and every batch is sound
(`Batches`): its counters add up (`Adds`), it stands where its counter says (`Position`), a verdict that passes a refused brand is one Amazon did not give (`Verdicts`), and what is past the gate of a refused
brand is excused (`Gated`). `Prices` says who may differ from the catalog: unless `loose` one function is under way (`Serial`), its survivors carry what Amazon told last of a product
asked once (`Honest`), and the answers of the refresh are the last ones (`Renews`). What a filter returns is `SelectedMeans`; that the rotation keeps every node once (`Rotates`) follows from it. That it keeps the order is
`SelectedKeepsOrder`, and `TurnsComeNearer` follows, the safety half of `RotationReachesAll`: whatever fails or is repeated and whoever else scans, a node is passed by another only after it has been searched itself.

**SharedCatalog with Credits** (`SharedCatalog_proofs`). `AllowanceHolds`, `LedgerHolds`, `ResetsInTime`, `AnswersBoughtOnce`, for any number of requests, tiers and any calendar. `Founded` says that an account that is
there has a tier's limit and a day of reset, and that nobody is about to reset one that is not, `OneBuyer` says that without a mishap one request at a time is past the cache and no answer is stored twice. `ResetsInTime` needs the calendar: `FirstDay` is a recursive function, and the lemmas about it go by
induction over the months.

*Induction.* The library's induction theorems take an operator, which the provers cannot instantiate. The lemmas `AllNumbers` (a set of numbers that has 0 and with each its successor has all) and `Least` take a *set*
instead, and follow from `WFMin` or from the natural numbers' order; with them and the equation of a recursive function (`Recursion`) facts about the loops of `Selections` and about the calendar are proved for every length.

Out of the prover's reach, and left to TLC: everything about fairness (`EveryViewerReleased`, `StreamsForgotten`, `CampaignSettles`,
`CandidatesJudged`, `StatusSettles`, `RotationReachesAll`), and the half of `FallbackSettles` that mentions ENABLED. Of most of them the safety half is a theorem (`NobodyWaitsInVain`,
`CampaignEnds`, `RunningEnds`, `TurnsComeNearer`, `LoopSettles`): the state in which nobody is left who could do what is promised is not reached. That whoever is left does it is what TLC adds.

## 6. Where the code departs from what it says

One departure has a run of its own that ends in a violation: two overlapping activations or rollbacks leave two active versions
(`strategy_concurrent_activation`; `strategy_service.go:79`, `strategy_version_repo.go:148`).

Others are excused by name in a property of a passing run, whose history variable shows the way to them:

* A repeated start-campaign is refused by its own effect, and the campaign stays running (`CampaignSettles`; `inngest/client.go:85`). A dispatch or save-deal repeated
  after its effect duplicates deals (`DealsUnrepeated`); errors dropped by `completeCampaign` and `markFailed` leave a campaign running; an untriggered
  campaign stays pending.
* A repeated search-categories adds its rows to those of the attempt before (`CleanRecords`; `assessment_service.go:927`). A reset that overlaps a run mixes
  results; totals that cannot be stored end in a completed assessment without results; a status that cannot be written stays running (`StatusSettles`).
* The "hard cap on total SP-API calls" (`assessment_service.go:56`) is not hard (`LimitsHold`): it is looked at between calls, and the prices that a search or lookup asks for by
  a request of its own (`spapi/client.go:251`, `739`, `387`) are not counted as calls, so that a scan may pass it, by at most two requests and one for each category scanned, 22 in the code. TLC finds a
  history that passes it as soon as `sent <= Budget` is asked for.
* Of two overlapping decisions about a deal the later one replaces the earlier (`deal_service.go:75`): the theorems `OneStory` and `DecidedForGood` need `Overlap = FALSE`.
* A page that connects before the workflow starts its stream is told "done" (`assessment_hub.go:145`): nothing it is then shown is wrong, but it shows nothing.
* Two requests that find a balance due at once both reset it, and the second reset forgets what was spent since the first (`AllowanceKept`; `credit_service.go:36`).
  A reset on the 29th to 31st may skip a month (`ResetNextMonth`; `credit_repo.go:63`). Two requests for the same product both pay (`BoughtOnce`; `shared_catalog_service.go:62`).
* Overlapping runs of the daily discovery exceed the cap (`DailyCap`; `discovery_queue_service.go:45`); a survivor that is cut off by the cap is fresh in the catalog
  and therefore dropped by the next run, and so is a product that only a scan, a price list or the refresh has stored, without ever being suggested (`FreshAccountedFor`).
* A product that the pricing call leaves out is stored as fresh with its estimated price (`FreshIsTold`; `funnel_service.go:270`), and a failed eligibility check counts as a
  pass that is remembered for a week (`RestrictedStopped`; `spapi/client.go:560`).
* As many browse nodes with a failing search as a scan takes would keep all others from being scanned (`RotationReachesAll`; `category_scan_service.go:89`).
* Products of a price list are paired with its items by position, which an identifier Amazon does not know, or knows twice, and a failed chunk shift
  (`CostBelongs`; `pricelist_scanner.go:502`). A funnel step that is repeated finds nothing, as its first attempt made everything fresh (`FreshAreSent`).
* The goroutine cannot write the failed status when its 30 minutes are over, since the context it would write with is the one that expired (`FallbackSettles`; `pipeline_service.go:58`).

The two ways of judging a candidate differ, which `PathsAgree` lists: the loop takes preferred brands into account and not the tenant's block list, the steps the reverse;
the loop drops a candidate without a price, the steps only a discovered one, unless another agent claims a margin; words like "approved" pass in the steps only.
A wholesale cost that the sourcing agent names replaces the 40 % in the loop's margin (`tool_resolver.go:111`) and not in the filter of the steps (`client.go:296`), so each may drop what the other
makes a deal of; so may the loop, of a candidate that quotes a price of its own, where a later agent claims the margin.

Met while reading, not modelled or true by inspection:

* `main.go:187` passes a `*inngest.DurableRuntime` that may be nil as an interface, which is then never nil: without Inngest
  `campaign_service.go:69` panics instead of falling back to a goroutine.
* `main.go` seeds a seller account when `GetAccount` returns an error, but it returns `nil, nil` for a tenant that is not connected.
* The campaign is completed by a timer (`client.go:207`), so its deals may arrive afterwards.
* `strategy_service.go:92` says that a rollback makes a draft; it makes an active version.
* The scan's breakers are recorded at the head of the loop only, so a limit reached in the last category leaves no trace; the jump
  to another category after repeated failures is dead code.
* The gating agent's risk never reaches the reviewer's risk rule (`reviewer.go:49`), whose plausibility check looks at the input it was given (`reviewer.go:61`). A reviewer whose
  agent fails gives tier B and a composite of 0. A later answer may replace `net_margin_pct` of an earlier one.
* `ScanWithFunnel` gives every product the cost of the first item (`pricelist_scanner.go:410`), against its comment at line 382; "12,99" is read as 1299; one item without
  a UPC turns the lookup of the whole list into one of EANs; no scan job is ever stored, as "pl-" and the tenant make no UUID; nothing sends `pricelist/uploaded`.
* `DiscoveredProductRepo.Upsert` inserts the text `COALESCE(NULLIF($1, ''), gen_random_uuid()::text)` into the column `id` of type UUID (`discovered_product_repo.go:30`, migration 005), which
  PostgreSQL rejects: as written every statement fails, nothing reaches the catalog and nothing becomes fresh. The models say what holds when it works as meant; that it fails is among their faults.
* Accepting a suggestion always fails (`deal_id` is a UUID and gets "pending").
* No production code calls `EnrichProduct`, `CheckEligibility`, `RecordFromScan`, `GrantMonthly`, `UpdateTier`, `RunDailyDiscovery` or `EvaluateCandidate`. They are modelled, the last one excepted, as the
  rows and rules are there.
* Two callers that wait at once for an endpoint without a limiter would each make one; the endpoints in use all have theirs from the start.

## 7. What is only model-checked, and what is not modelled

Only model-checked: liveness, and that the goroutine of `CandidatePaths` always has a next step (section 5). Every other invariant and action property of a passing run is a theorem.

Abstracted in the modules: what a strategy, an event, a product or a fingerprint contains (a value, a number, the attempt
that wrote it); agents' verdicts and SP-API answers (arbitrary, or a small set around the thresholds); chunks of a batch insert (one statement); the browser's batching of events per
animation frame; ids (places and model values); money but for the margins that decide.

Not modelled:

* *Scoring configuration* (`scoring_service.go:42`): what happens to it when two requests update it, since candidates are scored with the default weights. It is on the list of hazards.
* *Migrations* (`db.go:81`): they concern the start of the server alone. On the list of hazards, too.
* *Phases 2 and 3 of the assessment run*: what `AssessmentService` does with the categories found, apart from what it publishes (`AssessmentHub`) and stores (`AssessmentRecords`).
* *Price history, refresh priorities, brand intelligence*: statistics that nothing decides by.
* *`EstimateFees`, the mock data of an unconfigured client, profit amounts, CSV cell splitting*: arithmetic or text without state.
* *Seller accounts and encryption, domain events and analytics, tenant settings*: single rows that are read and upserted.
* *HTTP and authentication, agent runtimes, the other adapters, start-up, web pages, deployment*: input and output without state of their own; what matters of them (concurrent requests, cancelled contexts,
  arbitrary answers) is in the modules.

## 8. Plan

Modelled, checked and proved: everything that keeps state and interleaves, in the order of this list: strategy versions, hub, campaigns and deal review, assessment
records and scan, funnel and category scan, credits and shared catalog, discovery queue, candidate paths, SP-API client and price lists. A change to one of these components starts with its
module and its run; the theorems then say which step of which invariant it breaks. What could be added is listed as not modelled in section 7, the update of the scoring configuration first.
