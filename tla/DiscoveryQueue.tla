--------------------------- MODULE DiscoveryQueue ---------------------------
(***************************************************************************)
(* The daily discovery queue of one tenant: RunDailyDiscovery              *)
(* (discovery_queue_service.go) reads the day's count and the active       *)
(* strategy, searches the strategy's categories, sends what it finds       *)
(* through the funnel and stores the survivors as suggestions.  It runs    *)
(* while StrategyVersions activates and rolls back versions.               *)
(*                                                                         *)
(* Of the funnel (ProductFunnel) only the outcome matters here: it drops   *)
(* products whose price is fresh in the catalog and those that do not suit *)
(* the strategy's thresholds, and writes the survivors to the catalog row  *)
(* by row.  The category scan, the price lists and the nightly refresh     *)
(* write to the same catalog at any moment (Elsewhere).                    *)
(***************************************************************************)
EXTENDS StrategyVersions, SequencesExt, Selections

CONSTANTS
    Callers,       \* runs that can be under way at once
    Products,      \* ASINs
    Categories,    \* the eligible categories of a strategy, by content
    Offers,        \* what the search of a category finds, by category
    Suits,         \* products that pass a strategy's thresholds, by content
    Shared,        \* products that scans, price lists or the refresh find as well
    Cap,           \* MaxDailySuggestions, 20 in the code
    MaxFaults,     \* bound: failures of calls and statements
    MaxQueue       \* bound: no run is begun with this many suggestions stored

ASSUME QueueAssumption ==
    /\ Cap \in Nat /\ MaxFaults \in Nat /\ MaxQueue \in Nat
    /\ Categories \in [Contents -> Seq(DOMAIN Offers)]
    /\ Offers \in [DOMAIN Offers -> Seq(Products)]
    /\ Suits \in [Contents -> SUBSET Products]
    /\ Shared \subseteq Products

VARIABLES
    queue,         \* the rows of discovery_suggestions
    fresh,         \* products with a price of the last 24 hours in the catalog
    run,           \* the run of each caller
    faults,        \* failures so far
    loose,         \* history: two runs overlapped, or a count failed
    kept           \* history: fresh products that no run is to suggest, as they were kept
                   \* out by the cap, a failed insert or a stop, or stored by others

queueVars == <<queue, fresh, run, faults, loose, kept>>
allVars == <<vars, queueVars>>

\* room: the rest of the day's cap; todo: categories still to be searched;
\* found: the funnel's input, and later its survivors; row: those of them that
\* are written to the catalog.
NoRun == [at |-> "idle", room |-> 0, version |-> 0, todo |-> <<>>, found |-> <<>>, row |-> 0]

Suggestion(p, v) == [asin |-> p, version |-> v, status |-> "pending", today |-> TRUE]

QueueInit ==
    /\ Init
    /\ queue = <<>> /\ fresh = {} /\ run = [c \in Callers |-> NoRun]
    /\ faults = 0 /\ loose = FALSE /\ kept = {}

Fails == faults < MaxFaults /\ faults' = faults + 1
Works == UNCHANGED faults
Leave(c) == run' = [run EXCEPT ![c] = NoRun]
-----------------------------------------------------------------------------
(* Variants with one slip each, used by nothing. *)

PendingToday == Cardinality({i \in DOMAIN queue : queue[i].today /\ queue[i].status = "pending"})
NewestVersion == Len(versions)
StoreAllButLast(found, room) == SubSeq(found, 1, room - 1)
-----------------------------------------------------------------------------
\* CountToday: whatever became of them, suggestions of the day count.
CountToday == Cardinality({i \in DOMAIN queue : queue[i].today})

\* GetActive of the strategy service.
Directing == GetActive

\* Survivors beyond the rest of the cap are cut off.
Capped(found, room) == IF Len(found) > room THEN SubSeq(found, 1, room) ELSE found

\* A count that fails is a count of nothing.
Count(c) ==
    /\ run[c].at = "idle" /\ Len(queue) < MaxQueue
    /\ \E n \in {CountToday, 0} :
          /\ IF n = CountToday THEN Works ELSE Fails
          /\ n < Cap
          /\ run' = [run EXCEPT ![c].at = "strategy", ![c].room = Cap - n]
          /\ loose' = (loose \/ n # CountToday \/ \E d \in Callers : run[d].at # "idle")
    /\ UNCHANGED <<queue, fresh, kept>>

CapReached(c) ==
    /\ run[c].at = "idle" /\ CountToday >= Cap
    /\ UNCHANGED queueVars

ReadStrategy(c) ==
    /\ run[c].at = "strategy"
    /\ \/ /\ Directing # 0 /\ Works
          /\ run' = [run EXCEPT ![c].at = "search", ![c].version = Directing,
                                ![c].todo = Categories[versions[Directing].content]]
       \/ Directing = 0 /\ Works /\ Leave(c)
       \/ Fails /\ Leave(c)
    /\ UNCHANGED <<queue, fresh, loose, kept>>

\* A search that fails is left out.
Search(c) ==
    /\ run[c].at = "search" /\ run[c].todo # <<>>
    /\ \/ Works /\ run' = [run EXCEPT ![c].todo = Tail(@), ![c].found = @ \o Offers[Head(run[c].todo)]]
       \/ Fails /\ run' = [run EXCEPT ![c].todo = Tail(@)]
    /\ UNCHANGED <<queue, fresh, loose, kept>>

\* The first tier reads the catalog; without an answer it drops nothing.
Survivors(c, known) == Selected(run[c].found, Suits[versions[run[c].version].content] \ known)

Filter(c) ==
    /\ run[c].at = "search" /\ run[c].todo = <<>>
    /\ \E known \in {fresh, {}} :
          /\ IF known = fresh THEN Works ELSE Fails
          /\ run' = [run EXCEPT ![c] = IF Survivors(c, known) = <<>> THEN NoRun
                                       ELSE [@ EXCEPT !.at = "catalog", !.found = Survivors(c, known)]]
    /\ UNCHANGED <<queue, fresh, loose, kept>>

\* The cap is applied after all survivors were written.
CutOff(l) == [l EXCEPT !.at = "store", !.found = Capped(@, l.room), !.row = 0]

\* UpsertBatch: the next row.  The first one that fails ends the batch, which is
\* logged.  A survivor that Amazon did not price does not become fresh.
Catalog(c) ==
    LET l == run[c]
        n == l.row + 1
    IN  /\ l.at = "catalog"
        /\ \/ /\ Works
              /\ run' = [run EXCEPT ![c] = IF n = Len(l.found) THEN CutOff(l) ELSE [l EXCEPT !.row = n]]
              /\ \/ UNCHANGED <<fresh, kept>>
                 \/ /\ fresh' = fresh \cup {l.found[n]}
                    /\ kept' = IF n > l.room THEN kept \cup {l.found[n]} ELSE kept \ {l.found[n]}
           \/ Fails /\ run' = [run EXCEPT ![c] = CutOff(l)] /\ UNCHANGED <<fresh, kept>>
        /\ UNCHANGED <<queue, loose>>

\* What a run wrote to the catalog, and is still to suggest.
Awaits(l, n) ==
    \/ l.at = "store"
    \/ l.at = "catalog" /\ n <= l.row /\ n <= l.room

Awaiting(l) == {l.found[n] : n \in {m \in DOMAIN l.found : Awaits(l, m)}}

\* CreateBatch: one INSERT, the cap being below the size of a chunk.
Store(c) ==
    /\ run[c].at = "store"
    /\ \/ /\ Works /\ UNCHANGED kept
          /\ queue' = queue \o [i \in DOMAIN run[c].found |-> Suggestion(run[c].found[i], run[c].version)]
       \/ Fails /\ UNCHANGED queue /\ kept' = kept \cup (Awaiting(run[c]) \cap fresh)
    /\ Leave(c)
    /\ UNCHANGED <<fresh, loose>>

\* The server stops, or the caller's context ends, between two calls.
Stop(c) ==
    /\ run[c].at # "idle" /\ Fails /\ Leave(c)
    /\ kept' = kept \cup (Awaiting(run[c]) \cap fresh)
    /\ UNCHANGED <<queue, fresh, loose>>

\* The user resolves a pending suggestion.  An acceptance is refused by the
\* database: the handler passes "pending" for deal_id, a UUID column.
Dismiss(i) ==
    /\ queue[i].status = "pending"
    /\ queue' = [queue EXCEPT ![i].status = "dismissed"]
    /\ UNCHANGED <<fresh, run, faults, loose, kept>>
AcceptRefused(i) == queue[i].status = "pending" /\ UNCHANGED queueVars

Midnight ==
    /\ \E i \in DOMAIN queue : queue[i].today
    /\ queue' = [i \in DOMAIN queue |-> [queue[i] EXCEPT !.today = FALSE]]
    /\ UNCHANGED <<fresh, run, faults, loose, kept>>

\* 24 hours after a product's price was stored.
Expire(p) ==
    /\ p \in fresh
    /\ fresh' = fresh \ {p} /\ kept' = kept \ {p}
    /\ UNCHANGED <<queue, run, faults, loose>>

\* A scan, a price list or the nightly refresh stores a price of the product.
Elsewhere(p) ==
    /\ p \notin fresh
    /\ fresh' = fresh \cup {p} /\ kept' = kept \cup {p}
    /\ UNCHANGED <<queue, run, faults, loose>>

RunStep(c) ==
    \/ Count(c) \/ CapReached(c) \/ ReadStrategy(c) \/ Search(c)
    \/ Filter(c) \/ Catalog(c) \/ Store(c) \/ Stop(c)

QueueNext ==
    \/ Next /\ UNCHANGED queueVars
    \/ /\ \/ \E c \in Callers : RunStep(c)
          \/ \E i \in DOMAIN queue : Dismiss(i) \/ AcceptRefused(i)
          \/ Midnight
          \/ \E p \in Products : Expire(p)
          \/ \E p \in Shared : Elsewhere(p)
       /\ UNCHANGED vars

QueueSpec == QueueInit /\ [][QueueNext]_allVars
-----------------------------------------------------------------------------
\* No day has more than the cap of suggestions, whatever is dismissed, cut
\* short or repeated, over midnight too, as long as runs do not overlap and the
\* count is answered (discovery_queue_service.go:45-54, 107-110).
DailyCap == ~loose => Cardinality({i \in DOMAIN queue : queue[i].today}) <= Cap

\* A suggestion names a version that was put in force, not a mere draft, and its
\* product is one that this version's categories and thresholds ask for,
\* whichever versions are activated or rolled back while a run is under way
\* (discovery_queue_service.go:57-60, 70-98, 118).
FromStrategy ==
    \A i \in DOMAIN queue :
        LET version == versions[queue[i].version]
        IN /\ version.activated
           /\ queue[i].asin \in Suits[version.content]
           /\ \E n \in DOMAIN Categories[version.content] :
                 queue[i].asin \in ToSet(Offers[Categories[version.content][n]])

\* A product that a discovery run made fresh, so that the next runs drop it, was
\* suggested, is about to be, or was kept out by the cap, a failed insert or a
\* stop: nothing else swallows a survivor, whichever rows of the catalog fail and
\* whoever else writes to it (funnel_service.go:286-297,
\* discovered_product_repo.go:61-68, discovery_queue_service.go:112-144).
\* Products that only others made fresh are dropped without any suggestion.
FreshAccountedFor ==
    \A p \in fresh \ kept :
        \/ \E i \in DOMAIN queue : queue[i].asin = p
        \/ \E c \in Callers : p \in Awaiting(run[c])
=============================================================================
