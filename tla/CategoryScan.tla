---------------------------- MODULE CategoryScan ----------------------------
(***************************************************************************)
(* The background scans of Amazon categories (category_scan_service.go,    *)
(* run by the cron and the manual Inngest function of client.go) and the   *)
(* nightly refresh of stale prices, which meet in the product catalog.     *)
(*                                                                         *)
(* A scan takes the leaf nodes that were scanned longest ago, searches     *)
(* each, marks it, and pushes what it found through the funnel.  It runs   *)
(* within one step of an Inngest function: when the server stops in the    *)
(* middle, or the step's answer is lost, the step is run again from the    *)
(* start.  A scan job's row that such an attempt leaves behind keeps the   *)
(* status "running".                                                       *)
(***************************************************************************)
EXTENDS ProductFunnel

CONSTANTS
    Nodes,         \* leaf browse nodes
    Broken,        \* nodes whose search always fails
    Listing,       \* what a node's search finds, as offers, by node
    MaxNodes,      \* nodes of one scan (100 by cron, 50 by hand)
    RefreshLimit,  \* products of one refresh (500 in the code)
    Retries        \* attempts of a step after its first one (2 in the code)

ASSUME ScanAssumption ==
    /\ IsFiniteSet(Nodes) /\ Nodes # {} /\ Broken \subseteq Nodes
    /\ Listing \in [Nodes -> Seq(Offers)]
    /\ MaxNodes \in Nat /\ MaxNodes > 0
    /\ RefreshLimit \in Nat /\ Retries \in Nat

VARIABLES
    rotation,      \* browse_nodes in the order of last_scanned_at, nulls first
    scan,          \* the scan of each caller
    refresh,       \* the refresh: products still to be asked for, and answers to be stored
    loose          \* history: two of the functions were under way at once, or a
                   \* failure kept a batch from seeing the catalog

scanVars == <<rotation, scan, refresh, loose>>
vars == <<funnelVars, scanVars>>

NoScan == [at |-> "idle", nodes |-> Empty, found |-> Empty, job |-> "none", tries |-> 0]
NoRefresh == [at |-> "idle", todo |-> {}, answers |-> Empty]

Init ==
    /\ FunnelInit
    /\ rotation \in {s \in [1 .. Cardinality(Nodes) -> Nodes] : ToSet(s) = Nodes}
    /\ scan = [c \in Callers |-> NoScan]
    /\ refresh = NoRefresh
    /\ loose = FALSE

Busy(c) == scan[c].at # "idle"
NothingElse == UNCHANGED loose

-----------------------------------------------------------------------------
(* A variant with one slip, used by nothing: nodes are taken by the latest scan first. *)

MarkScannedFirst(order, n) == <<n>> \o Selected(order, Nodes \ {n})

-----------------------------------------------------------------------------
(* A scan.                                                                 *)

\* The cron or the event scan/category.
Trigger(c) ==
    /\ ~Busy(c)
    /\ scan' = [scan EXCEPT ![c].at = "pick"]
    /\ loose' = (loose \/ refresh.at # "idle" \/ \E d \in Callers : Busy(d))
    /\ UNCHANGED <<funnelVars, rotation, refresh>>

\* GetNextForScan and Create.  The error of Create is dropped: no job's row then.
Pick(c) ==
    /\ scan[c].at = "pick"
    /\ LET n == IF MaxNodes < Len(rotation) THEN MaxNodes ELSE Len(rotation)
       IN \E job \in {"running", "none"} :
             /\ IF job = "running" THEN NoFault ELSE Fault
             /\ scan' = [scan EXCEPT ![c] = [@ EXCEPT !.at = "search", !.job = job,
                                                      !.nodes = SubSeq(rotation, 1, n)]]
    /\ UNCHANGED <<catalog, eligibility, batch, told, unsure, rotation, refresh>> /\ NothingElse

\* The nodes cannot be read: the step fails, and is tried again or given up.
Again(s) == IF s.tries < Retries THEN [NoScan EXCEPT !.at = "pick", !.tries = s.tries + 1]
            ELSE NoScan

PickFailed(c) ==
    /\ scan[c].at = "pick"
    /\ Fault
    /\ scan' = [scan EXCEPT ![c] = Again(@)]
    /\ UNCHANGED <<catalog, eligibility, batch, told, unsure, rotation, refresh>> /\ NothingElse

\* A node's last_scanned_at becomes the latest one.
MarkScanned(order, n) == Append(Selected(order, Nodes \ {n}), n)

\* One node is searched, all its pages; the error of MarkScanned is dropped.
Search(c) ==
    /\ scan[c].at = "search" /\ scan[c].nodes # Empty
    /\ Head(scan[c].nodes) \notin Broken
    /\ LET s == scan[c]
           n == Head(s.nodes)
       IN /\ \/ rotation' = MarkScanned(rotation, n) /\ NoFault
             \/ UNCHANGED rotation /\ Fault
          /\ scan' = [scan EXCEPT ![c] = [s EXCEPT !.nodes = Tail(s.nodes),
                                                   !.found = s.found \o Listing[n]]]
    /\ UNCHANGED <<catalog, eligibility, batch, told, unsure, refresh>> /\ NothingElse

\* A page of a node fails: the pages before it are dropped and the node is not marked.
SearchFailed(c) ==
    /\ scan[c].at = "search" /\ scan[c].nodes # Empty
    /\ IF Head(scan[c].nodes) \in Broken THEN NoFault ELSE Fault
    /\ scan' = [scan EXCEPT ![c].nodes = Tail(@)]
    /\ UNCHANGED <<catalog, eligibility, batch, told, unsure, rotation, refresh>> /\ NothingElse

EnterFunnel(c) ==
    /\ scan[c].at = "search" /\ scan[c].nodes = Empty
    /\ scan' = [scan EXCEPT ![c] = [@ EXCEPT !.at = "funnel", !.found = Empty]]
    /\ batch' = [batch EXCEPT ![c] = Entered(scan[c].found)]
    /\ UNCHANGED <<catalog, eligibility, faults, told, unsure, rotation, refresh>> /\ NothingElse

Funnel(c) ==
    /\ scan[c].at = "funnel"
    /\ FunnelStep(c)
    /\ loose' = (loose \/ (batch[c].at = "dedup" /\ faults' # faults))
    /\ UNCHANGED <<rotation, scan, refresh>>

\* UpdateProgress and Complete, whose errors are dropped.
Complete(c) ==
    /\ scan[c].at = "funnel" /\ batch[c].at = "done"
    /\ \E job \in {"completed", scan[c].job} :
          /\ IF job = "completed" \/ scan[c].job = "none" THEN NoFault ELSE Fault
          /\ scan' = [scan EXCEPT ![c] =
                        [@ EXCEPT !.at = "answer",
                                  !.job = IF scan[c].job = "none" THEN "none" ELSE job]]
    /\ UNCHANGED <<catalog, eligibility, batch, told, unsure, rotation, refresh>> /\ NothingElse

Answer(c) ==
    /\ scan[c].at = "answer"
    /\ scan' = [scan EXCEPT ![c] = NoScan]
    /\ batch' = [batch EXCEPT ![c] = NoBatch]
    /\ UNCHANGED <<catalog, eligibility, faults, told, unsure, rotation, refresh>> /\ NothingElse

\* The server stops within the step, or the step's answer is lost.
Lost(c) ==
    /\ scan[c].at \in {"search", "funnel", "answer"}
    /\ Fault
    /\ scan' = [scan EXCEPT ![c] = Again(@)]
    /\ batch' = [batch EXCEPT ![c] = NoBatch]
    /\ UNCHANGED <<catalog, eligibility, told, unsure, rotation, refresh>> /\ NothingElse

ScanStep(c) ==
    \/ Pick(c) \/ PickFailed(c) \/ Search(c) \/ SearchFailed(c)
    \/ EnterFunnel(c) \/ Funnel(c) \/ Complete(c) \/ Answer(c)

-----------------------------------------------------------------------------
(* The refresh of prices: function catalog-refresh.                        *)

StaleRows == {a \in Asins : catalog[a].age \in {"stale", "never"}}

\* Up to RefreshLimit stale rows, by priorities that are estimates of their worth.
RefreshList ==
    /\ refresh.at = "idle"
    /\ \E S \in SUBSET StaleRows :
          /\ S # {}
          /\ Cardinality(S) = RefreshLimit \/ (Cardinality(S) < RefreshLimit /\ S = StaleRows)
          /\ refresh' = [at |-> "pricing", todo |-> S, answers |-> Empty]
    /\ loose' = (loose \/ \E c \in Callers : Busy(c))
    /\ UNCHANGED <<funnelVars, rotation, scan>>

\* One pricing call.  Products without a price in the answer keep their row.
RefreshBatch ==
    /\ refresh.todo # {} /\ DOMAIN refresh.answers = {}
    /\ \E B \in SUBSET refresh.todo :
          /\ Cardinality(B) = BatchSize \/ (Cardinality(B) < BatchSize /\ B = refresh.todo)
          /\ \E answer \in [B -> Quotes \cup {NoQuote}] :
                LET priced == {a \in B : Quoted(answer[a])}
                IN /\ refresh' = [at |-> "pricing", todo |-> refresh.todo \ B,
                                  answers |-> [a \in priced |-> answer[a]]]
                   /\ told' = [a \in Asins |-> IF a \in priced THEN answer[a].price ELSE told[a]]
    /\ UNCHANGED <<catalog, eligibility, batch, faults, unsure, rotation, scan>> /\ NothingElse

RefreshFailed ==
    /\ refresh.todo # {} /\ DOMAIN refresh.answers = {}
    /\ Fault
    /\ \E B \in SUBSET refresh.todo :
          /\ Cardinality(B) = BatchSize \/ (Cardinality(B) < BatchSize /\ B = refresh.todo)
          /\ refresh' = [refresh EXCEPT !.todo = @ \ B]
    /\ UNCHANGED <<catalog, eligibility, batch, told, unsure, rotation, scan>> /\ NothingElse

\* UpdatePricing sets the price and the sellers, an unknown number of sellers too.
Repriced(q) == [buyBox |-> q.price, sellers |-> q.sellers, age |-> "fresh"]

RefreshStore ==
    /\ \E a \in DOMAIN refresh.answers :
          /\ \/ catalog' = [catalog EXCEPT ![a] = Repriced(refresh.answers[a])] /\ NoFault
             \/ UNCHANGED catalog /\ Fault
          /\ refresh' = [refresh EXCEPT
                           !.answers = [b \in DOMAIN @ \ {a} |-> @[b]]]
    /\ UNCHANGED <<eligibility, batch, told, unsure, rotation, scan>> /\ NothingElse

\* The function ends, or its step is cut short; a later run lists again.
RefreshEnd ==
    /\ refresh.at # "idle"
    /\ IF refresh.todo = {} /\ DOMAIN refresh.answers = {} THEN NoFault ELSE Fault
    /\ refresh' = NoRefresh
    /\ UNCHANGED <<catalog, eligibility, batch, told, unsure, rotation, scan>> /\ NothingElse

RefreshStep ==
    \/ RefreshList \/ RefreshBatch \/ RefreshFailed
    \/ RefreshStore \/ RefreshEnd

Aging ==
    /\ \/ \E a \in Asins : PriceAges(a)
       \/ \E b \in Brands : EligibilityAges(b)
    /\ UNCHANGED scanVars

Next ==
    \/ \E c \in Callers : Trigger(c) \/ ScanStep(c) \/ Lost(c)
    \/ RefreshStep
    \/ Aging

\* Cron and Inngest start every scan and give every step its turn.
Fairness == \A c \in Callers : WF_vars(Trigger(c) \/ ScanStep(c))
Spec == Init /\ [][Next]_vars /\ Fairness

-----------------------------------------------------------------------------
(* Properties.                                                             *)

TypeOK ==
    /\ catalog \in [Asins -> [buyBox : Nat, sellers : Nat, age : {"absent", "never", "fresh", "stale"}]]
    /\ eligibility \in [Brands -> [status : {"unknown", "eligible", "presumed", "restricted"}, fresh : BOOLEAN]]
    /\ ToSet(rotation) = Nodes /\ Len(rotation) = Cardinality(Nodes)
    /\ \A c \in Callers : scan[c].job \in {"none", "running", "completed"}

\* Variables keep their types, and at every point of a batch each offer that came
\* in is still under way, eliminated in one counted tier, or a survivor: the
\* statistics of the funnel add up, with products offered twice, failed calls and
\* calls that leave products out (funnel_service.go:63-300).
FunnelSound == TypeOK /\ \A c \in Callers : Accounted(c)

\* A row whose price counts as fresh holds the last price Amazon gave of that
\* product, whatever fails or is repeated, if pricing calls gave one each time, once per batch, and as
\* long as scan and refresh did not overlap and T0 could read the catalog
\* (funnel_service.go:92-106, 239-281; client.go:851-885).
FreshIsTold ==
    ~loose =>
        \A a \in FreshRows \ unsure : catalog[a].buyBox = told[a]

\* Brands all of whose products Amazon refuses, and products that are only offered under such brands.
Refused == {b \in Brands : \A n \in Nodes : \A o \in ToSet(Listing[n]) :
                              o.brand = b => o.asin \in Restricted}
RefusedProducts == {a \in Asins : \A n \in Nodes : \A o \in ToSet(Listing[n]) :
                                    o.asin = a => o.brand \in Refused}

\* The batch could not look the product's brand up, or met a verdict Amazon never gave.
Excused(b, a) ==
    \E o \in UNION {ToSet(Listing[n]) : n \in Nodes} :
        /\ o.asin = a /\ o.brand \in DOMAIN b.verdict
        /\ b.verdict[o.brand] \in {"failed", "presumed"}

\* A product that is only offered under brands Amazon refuses survives only a batch in
\* which such a brand could not be looked up, or that met a verdict Amazon never gave: the
\* client takes a failed check for a pass, and the cache keeps it for a week
\* (brand_eligibility_service.go:46-100, spapi/client.go:556-571).
RestrictedStopped ==
    \A c \in Callers : \A i \in DOMAIN batch[c].out :
        batch[c].out[i].asin \in RefusedProducts => Excused(batch[c], batch[c].out[i].asin)
=============================================================================
