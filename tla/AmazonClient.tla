---------------------------- MODULE AmazonClient ----------------------------
(***************************************************************************)
(* The SP-API client that the whole server shares (spapi/client.go) and    *)
(* its adaptive rate limiter (rate_limiter.go).  A method makes its        *)
(* requests one after the other; each waits for its endpoint's limiter,    *)
(* takes the access token, which at most one caller renews at a time, and  *)
(* is answered, throttled or broken off.  What a failed request does to    *)
(* the method's result differs from method to method.                      *)
(*                                                                         *)
(* A tick is 30 s, the time-out of an HTTP request; nothing but a request  *)
(* takes time.  Rates are in thousandths of a request per second.          *)
(***************************************************************************)
EXTENDS Integers, Sequences, FiniteSets, SequencesExt

CONSTANTS
    Callers,       \* goroutines that use the client
    Asins,
    NewRate,       \* EndpointRates, by endpoint
    Floor,         \* 500
    ChunkSize,     \* identifiers of a request, and its page size: 20
    TokenLife, TokenMargin,  \* ticks: how long a token is good, and the 60 s taken off it
    Listings,      \* the products of an identifier, by identifier and its type
    ListPriced,    \* products a keyword search gives the list price of
    Unpriced,      \* products without a competitive price
    Refused,       \* products the seller may not list
    MaxFaults      \* bound: failures in one history

Endpoints == {"catalog_search", "catalog_items", "competitive_pricing", "listing_restrictions"}

ASSUME ClientAssumption ==
    /\ Floor \in Nat /\ Floor >= 10 /\ ChunkSize \in Nat /\ ChunkSize > 0
    /\ NewRate \in [Endpoints -> Nat] /\ \A e \in Endpoints : NewRate[e] >= Floor
    /\ TokenMargin \in Nat /\ TokenMargin > 1 /\ TokenLife \in Nat /\ TokenLife > TokenMargin
    /\ ListPriced \cup Unpriced \cup Refused \subseteq Asins /\ MaxFaults \in Nat

VARIABLES
    rate,          \* currentRate of each endpoint
    quiet,         \* ticks since its last 429, up to 2; 2 as well if there was none
    token,         \* the cached token: its age, and the ticks until tokenExpiry
    holder,        \* who holds the client's mutex, {} or one caller
    call,          \* the method call of each caller
    faults         \* failures so far

clientVars == <<rate, quiet, token, holder, call, faults>>

NoToken == [age |-> 0, left |-> 0]
\* todo: requests still to be made; age: of the token sent; since: ticks the request takes.
NoCall == [at |-> "idle", method |-> "none", type |-> "none", todo |-> <<>>, found |-> <<>>,
           priced |-> {}, denied |-> {}, error |-> FALSE, whole |-> TRUE, age |-> 0, since |-> 0]

ClientInit ==
    /\ rate = NewRate /\ quiet = [e \in Endpoints |-> 2]
    /\ token = NoToken /\ holder = {}
    /\ call = [c \in Callers |-> NoCall]
    /\ faults = 0

Fails == faults < MaxFaults /\ faults' = faults + 1
Works == UNCHANGED faults
AtMost(n, s) == IF Len(s) > n THEN SubSeq(s, 1, n) ELSE s
-----------------------------------------------------------------------------
(* Variants with one slip each, used by nothing.                           *)

\* Recovery stops short of the initial rate.
RecoveredBelow(e, r) == LET faster == (11 * r) \div 10 IN IF faster > NewRate[e] THEN r ELSE faster

\* The whole life of the token is used.
Lasting == [age |-> 0, left |-> TokenLife]

\* A chunk begins with the last identifier of the one before.
OverlappingChunks(ids) ==
    LET n == (Len(ids) + ChunkSize - 1) \div ChunkSize
    IN [k \in 1 .. n |-> AtMost(ChunkSize, SubSeq(ids, IF k = 1 THEN 1 ELSE (k - 1) * ChunkSize, Len(ids)))]

\* The mutex is not unlocked when Amazon refuses a token.
KeptLocked(c) == holder
-----------------------------------------------------------------------------
(* The methods: their requests and what the answers make of the result.    *)

Recovered(e, r) == LET faster == (11 * r) \div 10 IN IF faster > NewRate[e] THEN NewRate[e] ELSE faster
Halved(r) == IF r \div 2 < Floor THEN Floor ELSE r \div 2

Request(e, about) == [ep |-> e, about |-> about]

Chunks(ids) ==
    LET n == (Len(ids) + ChunkSize - 1) \div ChunkSize
    IN [k \in 1 .. n |-> AtMost(ChunkSize, SubSeq(ids, (k - 1) * ChunkSize + 1, Len(ids)))]

Called(method, todo) == [NoCall EXCEPT !.at = "limit", !.method = method, !.todo = todo]

\* A search is about what it will find.
SearchProducts(found) == Called("search", <<Request("catalog_search", found)>>)
SearchByBrowseNode(found) == Called("browse", <<Request("catalog_search", found)>>)
GetProductDetails(asins) == Called("details", <<Request("competitive_pricing", asins)>>)
CheckListingEligibility(asins) ==
    Called("eligibility", [i \in DOMAIN asins |-> Request("listing_restrictions", <<asins[i]>>)])
LookupByIdentifier(ids, type) ==
    LET chunks == Chunks(ids)
    IN [Called("lookup", [k \in DOMAIN chunks |-> Request("catalog_items", chunks[k])]) EXCEPT !.type = type]

\* One page of what the identifiers of a chunk stand for, in their order.
ItemsOf(r) ==
    AtMost(ChunkSize, FlattenSeq([i \in DOMAIN Head(r.todo).about |-> Listings[Head(r.todo).about[i]][r.type]]))

\* What each answer that has what was asked for adds to the result.
Searched(r) ==
    [r EXCEPT !.found = Head(r.todo).about, !.priced = ToSet(Head(r.todo).about) \cap ListPriced]
Browsed(r) == [r EXCEPT !.found = Head(r.todo).about]
LookedUp(r) == [r EXCEPT !.found = @ \o ItemsOf(r)]
Priced(r) == [r EXCEPT !.priced = @ \cup (ToSet(Head(r.todo).about) \ Unpriced)]
Checked(r) == [r EXCEPT !.denied = @ \cup (ToSet(Head(r.todo).about) \cap Refused)]

Taken(r) ==
    LET ep == Head(r.todo).ep
    IN CASE ep = "catalog_search" -> IF r.method = "search" THEN Searched(r) ELSE Browsed(r)
         [] ep = "catalog_items" -> LookedUp(r)
         [] ep = "competitive_pricing" -> Priced(r)
         [] OTHER -> Checked(r)

\* Only a search that fails is an error; the rest of a result just lacks something.
Missed(r) == [r EXCEPT !.whole = FALSE, !.error = Head(r.todo).ep = "catalog_search"]

\* enrichPricing asks once for the prices of all products found without one.
Enrichment(r) ==
    LET bare == SelectSeq(r.found, LAMBDA a : a \notin r.priced)
    IN IF Head(r.todo).ep \in {"catalog_search", "catalog_items"} /\ ~r.error /\ bare # <<>>
       THEN <<Request("competitive_pricing", bare)>> ELSE <<>>

\* On to the next request, with the result r of the one that is over.
Onward(r) ==
    LET rest == IF Len(r.todo) > 1 THEN Tail(r.todo) ELSE Enrichment(r)
    IN [r EXCEPT !.todo = rest, !.at = IF rest = <<>> THEN "back" ELSE "limit", !.age = 0, !.since = 0]
-----------------------------------------------------------------------------
(* One request.                                                            *)

Asking(c) == Head(call[c].todo).ep
Over(c, r) == call' = [call EXCEPT ![c] = Onward(r)]

\* Wait: the rate recovers by a tenth when the last 429 is more than 30 s ago.
Wait(c) ==
    /\ call[c].at = "limit"
    /\ rate' = IF quiet[Asking(c)] > 1 THEN [rate EXCEPT ![Asking(c)] = Recovered(Asking(c), @)] ELSE rate
    /\ call' = [call EXCEPT ![c].at = "token"]
    /\ UNCHANGED <<quiet, token, holder, faults>>

\* The caller's context ends while it waits.
WaitCanceled(c) ==
    /\ call[c].at = "limit" /\ Fails
    /\ Over(c, Missed(call[c]))
    /\ UNCHANGED <<rate, quiet, token, holder>>

\* What the cache keeps of a token that has just come, without the age it came with.
Cached == [age |-> 0, left |-> TokenLife - TokenMargin]

TakeToken(c) ==
    /\ call[c].at = "token" /\ holder = {} /\ token.left > 0
    /\ call' = [call EXCEPT ![c].at = "sent", ![c].age = token.age]
    /\ UNCHANGED <<rate, quiet, token, holder, faults>>

\* The mutex is held during the HTTP request for a new token.
AskToken(c) ==
    /\ call[c].at = "token" /\ holder = {} /\ token.left = 0
    /\ holder' = {c}
    /\ call' = [call EXCEPT ![c].at = "asking"]
    /\ UNCHANGED <<rate, quiet, token, faults>>

Unlocked(c) == {}

\* The token is as old as the request took; it is used whatever is left of it.
TokenBack(c) ==
    /\ call[c].at = "asking"
    /\ token' = [Cached EXCEPT !.age = call[c].since]
    /\ holder' = {}
    /\ call' = [call EXCEPT ![c].at = "sent", ![c].age = call[c].since, ![c].since = 0]
    /\ UNCHANGED <<rate, quiet, faults>>

TokenRefused(c) ==
    /\ call[c].at = "asking" /\ Fails
    /\ holder' = Unlocked(c)
    /\ Over(c, Missed(call[c]))
    /\ UNCHANGED <<rate, quiet, token>>

Answered(c) ==
    /\ call[c].at = "sent"
    /\ Over(c, Taken(call[c]))
    /\ UNCHANGED <<rate, quiet, token, holder, faults>>

Throttled(c) ==
    /\ call[c].at = "sent" /\ Fails
    /\ rate' = [rate EXCEPT ![Asking(c)] = Halved(@)]
    /\ quiet' = [quiet EXCEPT ![Asking(c)] = 0]
    /\ Over(c, Missed(call[c]))
    /\ UNCHANGED <<token, holder>>

\* No answer, or one of another status.
Broken(c) ==
    /\ call[c].at = "sent" /\ Fails
    /\ Over(c, Missed(call[c]))
    /\ UNCHANGED <<rate, quiet, token, holder>>

ClientStep(c) ==
    \/ Wait(c) \/ WaitCanceled(c)
    \/ TakeToken(c) \/ AskToken(c) \/ TokenBack(c) \/ TokenRefused(c)
    \/ Answered(c) \/ Throttled(c) \/ Broken(c)

\* 30 s pass; no HTTP request lasts longer.
OnTheWire == {c \in Callers : call[c].at \in {"asking", "sent"}}
Tick ==
    /\ \A c \in OnTheWire : call[c].since = 0
    /\ quiet' = [e \in Endpoints |-> IF quiet[e] < 2 THEN quiet[e] + 1 ELSE 2]
    /\ token' = IF token.left > 1 THEN [age |-> token.age + 1, left |-> token.left - 1] ELSE NoToken
    /\ call' = [c \in Callers |-> IF c \in OnTheWire THEN [call[c] EXCEPT !.since = 1] ELSE call[c]]
    /\ UNCHANGED <<rate, holder, faults>>
-----------------------------------------------------------------------------
\* A request never reaches Amazon with a token that has run out there, however
\* late the answer of the token request was and however long the request takes
\* (client.go:61 and :99: the 60 s cover two time-outs; :111: the token is taken
\* after the wait for the limiter).
TokenAlive == \A c \in Callers : call[c].at = "sent" => call[c].age + call[c].since < TokenLife

\* However its callers were throttled, an endpoint is neither starved nor driven
\* above its initial rate, and calm alone brings it back to that rate
\* (rate_limiter.go:69 and :98).
RatesRecover ==
    \A e \in Endpoints :
        /\ rate[e] \in Floor .. NewRate[e]
        /\ rate[e] < NewRate[e] => Recovered(e, rate[e]) \in rate[e] + 1 .. NewRate[e]

\* The mutex is held by exactly the caller whose token request is under way, so that
\* tokens are renewed one at a time and nobody who gives up leaves the client locked
\* (client.go:57: it is held across the HTTP request, whose failures return early).
LockedWhileAsking ==
    holder = {c \in Callers : call[c].at = "asking"} /\ Cardinality(holder) <= 1

=============================================================================
