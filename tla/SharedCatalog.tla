---------------------------- MODULE SharedCatalog ----------------------------
(***************************************************************************)
(* The platform's product catalog (shared_catalog_service.go): what is     *)
(* cached and fresh is free, anything else costs one credit before Amazon  *)
(* is asked.  Product data is shared by all tenants and fresh for a day;   *)
(* eligibility is the tenant's own and lasts 14 days.  A refused product   *)
(* marks its brand as gated for everybody.                                 *)
(*                                                                         *)
(* A request reads the cache, pays (Credits), calls, and stores, in        *)
(* separate steps; it may die in any of them.                              *)
(***************************************************************************)
EXTENDS Credits

CONSTANTS
    Refused        \* whether Amazon refuses the product to the tenant

Kinds == {"enrich", "eligibility"}

VARIABLES
    cache,         \* the product's row, by kind of data: [known, fresh]
    gating,        \* brand_catalog.typical_gating of the product's brand
    bought         \* history: paid answers of this window, and whether one was not stored

vars == <<creditVars, cache, gating, bought>>

Unknown == [known |-> FALSE, fresh |-> FALSE]
Nothing == [times |-> 0, spoilt |-> FALSE]

Init ==
    /\ CreditsInit
    /\ cache = [k \in Kinds |-> Unknown]
    /\ gating = "unknown"
    /\ bought = [k \in Kinds |-> Nothing]

Catalogs == <<cache, gating, bought>>
Kind(r) == req[r].kind
Spoil(k) == bought' = [bought EXCEPT ![k].spoilt = TRUE]

\* A slip, used by nothing: the answer is stored without the time of the call.
StoredUndated == [known |-> TRUE, fresh |-> FALSE]

-----------------------------------------------------------------------------
(* Requests.                                                               *)

\* Arrivals: a look at the balance, a grant, a product, an eligibility check.
Arrive(r) ==
    /\ req[r] = Idle
    /\ \E k \in Kinds \cup {"balance", "grant"} :
          req' = [req EXCEPT ![r] = [kind |-> k, at |-> CASE k = "balance" -> "read"
                                                        [] k = "grant" -> "grant"
                                                        [] OTHER -> "lookup"]]
    /\ UNCHANGED <<account, today, faults, History, Catalogs>>

\* EnrichProduct and CheckEligibility begin alike.  A failed query is a miss.
Lookup(r) ==
    /\ req[r].at = "lookup"
    /\ \/ cache[Kind(r)].fresh /\ Done(r) /\ NoFault
       \/ ~cache[Kind(r)].fresh /\ Goto(r, "debit") /\ NoFault
       \/ cache[Kind(r)].fresh /\ Goto(r, "debit") /\ Fault
    /\ bought' = [bought EXCEPT ![Kind(r)].spoilt =
                     @ \/ (faults' # faults)
                       \/ (\E q \in Requests \ {r} : Kind(q) = Kind(r) /\ req[q].at # "lookup")]
    /\ UNCHANGED <<account, today, History, cache, gating>>

Pay(r) ==
    /\ \/ Spend(r, Done(r)) \/ DebitFailed(r, Done(r)) \/ Record(r, "call")
    /\ UNCHANGED Catalogs

\* The credit is not given back.
CallFailed(r) ==
    /\ req[r].at = "call"
    /\ Fault
    /\ Spoil(Kind(r)) /\ Done(r)
    /\ UNCHANGED <<account, today, History, cache, gating>>

\* Amazon knows nothing of the product: nothing is stored.
NoDetails(r) ==
    /\ req[r].at = "call" /\ Kind(r) = "enrich"
    /\ Spoil("enrich") /\ Done(r)
    /\ UNCHANGED <<account, today, faults, History, cache, gating>>

Stored == [known |-> TRUE, fresh |-> TRUE]

\* The answer is stored; the errors of the store are dropped.
Store(r) ==
    /\ req[r].at = "call"
    /\ \/ /\ NoFault
          /\ cache' = [cache EXCEPT ![Kind(r)] = Stored]
          /\ bought' = [bought EXCEPT ![Kind(r)].times = @ + 1]
       \/ /\ Fault /\ UNCHANGED cache /\ Spoil(Kind(r))
    /\ Goto(r, "mark")
    /\ UNCHANGED <<account, today, History, gating>>

\* After an answer: the brand of a refused product that the catalog knows is gated.
Mark(r) ==
    /\ req[r].at = "mark"
    /\ \/ /\ Kind(r) = "eligibility" /\ Refused /\ cache["enrich"].known
          /\ gating' = "brand_gated" /\ NoFault
       \/ UNCHANGED <<gating, faults>> /\ (Kind(r) # "eligibility" \/ ~Refused \/ ~cache["enrich"].known)
       \/ UNCHANGED gating /\ Fault
    /\ Done(r)
    /\ UNCHANGED <<account, today, History, cache, bought>>

\* The server dies with a request under way.
Die(r) ==
    /\ req[r] # Idle
    /\ Fault
    /\ Done(r)
    /\ dropped' = dropped + (IF req[r].at = "record" THEN 1 ELSE 0)
    /\ bought' = IF Kind(r) \in Kinds THEN [bought EXCEPT ![Kind(r)].spoilt = TRUE] ELSE bought
    /\ UNCHANGED <<account, today, spent, unrecorded, renewedEarly, overhang, cache, gating>>

Account(r) ==
    /\ BalanceRead(r) \/ BalanceReset(r) \/ GrantMonthly(r)
    /\ UNCHANGED Catalogs

-----------------------------------------------------------------------------
(* What else writes the catalogs.                                          *)

\* RecordFromScan and RecordEligibility: answers a scan paid nobody for.
RecordScan(k) ==
    /\ cache' = [cache EXCEPT ![k] = Stored]
    /\ UNCHANGED <<creditVars, gating, bought>>

\* A day, or 14 days, after the answer.
Age(k) ==
    /\ cache[k].fresh
    /\ cache' = [cache EXCEPT ![k].fresh = FALSE]
    /\ bought' = [bought EXCEPT ![k] = [times |-> 0, spoilt |-> \E r \in Requests : Kind(r) = k]]
    /\ UNCHANGED <<creditVars, gating>>

Administer ==
    /\ \/ \E l \in Limits : Ensure(l) \/ UpdateTier(l)
       \/ NextDay
    /\ UNCHANGED Catalogs

Next ==
    \/ \E r \in Requests :
          \/ Arrive(r) \/ Account(r) \/ Die(r)
          \/ Lookup(r) \/ Pay(r) \/ CallFailed(r) \/ NoDetails(r) \/ Store(r) \/ Mark(r)
    \/ \E k \in Kinds : RecordScan(k) \/ Age(k)
    \/ Administer

Spec == Init /\ [][Next]_vars
=============================================================================
