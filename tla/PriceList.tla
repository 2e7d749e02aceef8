------------------------------ MODULE PriceList ------------------------------
(***************************************************************************)
(* Distributors' price lists (pricelist_scanner.go): a sheet is parsed,    *)
(* its identifiers are looked up through the shared AmazonClient, each     *)
(* product found is paired with an item of the list for its cost, and the  *)
(* products go to the uploader (ScanPriceList), through the funnel         *)
(* (ScanWithFunnel), or through the funnel to the agents (the Inngest      *)
(* function process-pricelist).  Other callers use the client meanwhile.   *)
(*                                                                         *)
(* Of the funnel (ProductFunnel) only the outcome matters here, as in      *)
(* DiscoveryQueue.  No scan job is kept: the id "pl-<tenant>" is no UUID,  *)
(* so its row is always refused, which is only logged.                     *)
(***************************************************************************)
EXTENDS AmazonClient, Selections

CONSTANTS
    Ids, NoId,     \* identifiers, and an empty one
    Sheets,        \* files to upload: [header, rows], rows of cells
    Paths,         \* what each caller does
    Probes,        \* calls of other users of the client
    Suits,         \* products that pass the funnel's later tiers
    MaxLLM,        \* candidates sent to the agents: 200
    Attempts       \* of an Inngest step: 3

Cells == [id : Ids \cup {NoId}, cents : Nat, comma : BOOLEAN]

ASSUME ListAssumption ==
    /\ NoId \notin Ids /\ Suits \subseteq Asins
    /\ Listings \in [Ids -> [{"UPC", "EAN"} -> Seq(Asins)]]
    /\ \A sheet \in Sheets : sheet.rows \in Seq(Seq(Cells))
    /\ Paths \in [Callers -> SUBSET {"scan", "funnel", "agents", "probe"}]
    /\ \A probe \in Probes : probe = Called(probe.method, probe.todo)
    /\ MaxLLM \in Nat /\ Attempts \in Nat /\ Attempts > 0

VARIABLES
    list,          \* the job of each caller
    campaign,      \* the status of the campaign the lists' candidates go to
    fresh,         \* products with a price of the last 24 hours in the catalog
    excused        \* history: fresh products whose candidate was lost, cut off or not sent

listVars == <<list, campaign, fresh, excused>>
vars == <<clientVars, listVars>>

\* pairs: products found, with the item whose cost they carry; todo: survivors to send.
NoList == [at |-> "idle", path |-> "none", items |-> <<>>, pairs |-> <<>>, whole |-> TRUE,
           todo |-> <<>>, sent |-> {}, tries |-> 0]

Init ==
    /\ ClientInit
    /\ list = [c \in Callers |-> NoList]
    /\ campaign = "pending" /\ fresh = {} /\ excused = {}

-----------------------------------------------------------------------------
(* Parsing.                                                                *)

Blank == [id |-> NoId, cents |-> 0, comma |-> FALSE]
ColumnNames == [upc |-> {"upc", "barcode"}, ean |-> {"ean", "ean13"}, cost |-> {"cost", "wholesale", "price"}]

\* Of several columns of one meaning the last one counts; 0 if there is none.
DetectColumn(header, meaning) == SelectLastInSeq(header, LAMBDA name : name \in ColumnNames[meaning])
CellAt(row, i) == IF i \in DOMAIN row THEN row[i] ELSE Blank

\* Commas are dropped, so that a decimal comma makes a price a hundred times as high.
ParsePrice(cell) == IF cell.comma THEN 100 * cell.cents ELSE cell.cents

\* What an item of a list must have: an identifier and a cost.
Items == [upc : Ids \cup {NoId}, ean : Ids \cup {NoId}, cost : Nat]
Listed == {item \in Items : (item.upc # NoId \/ item.ean # NoId) /\ item.cost > 0}

ParseCSV(sheet) ==
    LET upc == DetectColumn(sheet.header, "upc")
        ean == DetectColumn(sheet.header, "ean")
        cost == DetectColumn(sheet.header, "cost")
        parsed == [i \in DOMAIN sheet.rows |->
                     [upc |-> CellAt(sheet.rows[i], upc).id, ean |-> CellAt(sheet.rows[i], ean).id,
                      cost |-> ParsePrice(CellAt(sheet.rows[i], cost))]]
    IN IF upc + ean = 0 \/ cost = 0 THEN <<>>
       ELSE Selected(parsed, Listed)

IdOf(item) == IF item.upc # NoId THEN item.upc ELSE item.ean

\* One item without a UPC makes the whole lookup one of EANs.
IdType(items) == IF \A i \in DOMAIN items : items[i].upc # NoId THEN "UPC" ELSE "EAN"
-----------------------------------------------------------------------------
(* A variant with a slip, used by nothing: the last survivor is not sent.  *)

SentButLast(survivors) == AtMost(MaxLLM - 1, survivors)
-----------------------------------------------------------------------------
\* By position: the i-th product found is taken for the i-th item.
NoItem == [upc |-> NoId, ean |-> NoId, cost |-> 0]
Paired(items, found) ==
    [i \in DOMAIN found |-> [asin |-> found[i], item |-> IF i \in DOMAIN items THEN items[i] ELSE NoItem]]

\* ScanWithFunnel takes the first item with a cost for every product; all have one.
PairedWithFirst(items, found) == [i \in DOMAIN found |-> [asin |-> found[i], item |-> items[1]]]

Finish(c, at) == list' = [list EXCEPT ![c].at = at]

\* A file without items is refused, which changes nothing.  The event that starts
\* process-pricelist carries the items of such a file.
Uploads == {ParseCSV(sheet) : sheet \in Sheets} \ {<<>>}
Upload(c) ==
    /\ list[c].at = "idle"
    /\ \E items \in Uploads, path \in Paths[c] \ {"probe"} :
          /\ call' = [call EXCEPT ![c] =
                        LookupByIdentifier([i \in DOMAIN items |-> IdOf(items[i])], IdType(items))]
          /\ list' = [list EXCEPT ![c] = [NoList EXCEPT !.at = "lookup", !.path = path, !.items = items]]
    /\ UNCHANGED <<rate, quiet, token, holder, faults, campaign, fresh, excused>>

\* Another user of the client makes one call.
Probe(c) ==
    /\ list[c].at = "idle" /\ "probe" \in Paths[c]
    /\ \E probe \in Probes : call' = [call EXCEPT ![c] = probe]
    /\ list' = [list EXCEPT ![c].at = "probing", ![c].path = "probe"]
    /\ UNCHANGED <<rate, quiet, token, holder, faults, campaign, fresh, excused>>

Probed(c) ==
    /\ list[c].at = "probing" /\ call[c].at = "back"
    /\ call' = [call EXCEPT ![c] = NoCall]
    /\ Finish(c, "done")
    /\ UNCHANGED <<rate, quiet, token, holder, faults, campaign, fresh, excused>>

\* The lookup's result becomes matches or the funnel's input.
Match(c) ==
    /\ list[c].at = "lookup" /\ call[c].at = "back"
    /\ LET job == list[c]
           found == IF job.path = "scan" THEN AtMost(Len(job.items), call[c].found) ELSE call[c].found
           pairs == IF job.path = "funnel" THEN PairedWithFirst(job.items, found) ELSE Paired(job.items, found)
       IN list' = [list EXCEPT ![c].pairs = pairs, ![c].whole = call[c].whole, ![c].tries = 0,
                     ![c].at = CASE job.path = "scan" -> "done"
                                 [] job.path = "agents" /\ pairs = <<>> -> "close"
                                 [] OTHER -> "funnel"]
    /\ call' = [call EXCEPT ![c] = NoCall]
    /\ UNCHANGED <<rate, quiet, token, holder, faults, campaign, fresh, excused>>

\* The answer of an Inngest step is lost: it is run again, at last the campaign fails.
Retried(c) ==
    [list EXCEPT ![c].tries = @ + 1, ![c].at = IF list[c].tries + 1 = Attempts THEN "fail" ELSE @]

MatchLost(c) ==
    /\ list[c].at = "lookup" /\ list[c].path = "agents" /\ call[c].at = "back" /\ Fails
    /\ LET items == list[c].items
       IN call' = [call EXCEPT ![c] = IF Retried(c)[c].at = "fail" THEN NoCall
                     ELSE LookupByIdentifier([i \in DOMAIN items |-> IdOf(items[i])], IdType(items))]
    /\ list' = Retried(c)
    /\ UNCHANGED <<rate, quiet, token, holder, campaign, fresh, excused>>

\* The first tier drops what is fresh, the last one makes the survivors fresh.
Surviving(c) == Selected(list[c].pairs, {p \in ToSet(list[c].pairs) : p.asin \in Suits \ fresh})
AsinsOf(pairs) == {p.asin : p \in ToSet(pairs)}
ToSend(survivors) == AtMost(MaxLLM, survivors)
CutOff(survivors) == SubSeq(survivors, MaxLLM + 1, Len(survivors))

RunFunnel(c) ==
    /\ list[c].at = "funnel"
    /\ fresh' = fresh \cup AsinsOf(Surviving(c))
    /\ IF list[c].path = "agents"
       THEN /\ list' = [list EXCEPT ![c].at = IF Surviving(c) = <<>> THEN "close" ELSE "config",
                                    ![c].todo = ToSend(Surviving(c)), ![c].tries = 0]
            /\ excused' = excused \cup AsinsOf(CutOff(Surviving(c)))
       ELSE Finish(c, "done") /\ excused' = excused \cup AsinsOf(Surviving(c))
    /\ UNCHANGED <<clientVars, campaign>>

FunnelLost(c) ==
    /\ list[c].at = "funnel" /\ list[c].path = "agents" /\ Fails
    /\ fresh' = fresh \cup AsinsOf(Surviving(c))
    /\ excused' = excused \cup AsinsOf(Surviving(c))
    /\ list' = Retried(c)
    /\ UNCHANGED <<rate, quiet, token, holder, call, campaign>>

Configure(c) ==
    /\ list[c].at = "config"
    /\ \/ Works /\ Finish(c, "send") /\ UNCHANGED excused
       \/ /\ Fails /\ list' = Retried(c)
          /\ excused' = IF Retried(c)[c].at = "fail" THEN excused \cup AsinsOf(list[c].todo) ELSE excused
    /\ UNCHANGED <<rate, quiet, token, holder, call, campaign, fresh>>

\* One step for each survivor; whether the event could be sent is not looked at.
Dispatch(c) ==
    /\ list[c].at = "send" /\ list[c].todo # <<>>
    /\ LET asin == Head(list[c].todo).asin
           rest == [list EXCEPT ![c].todo = Tail(@)]
       IN \/ Works /\ list' = [rest EXCEPT ![c].sent = @ \cup {asin}] /\ UNCHANGED excused
          \/ Fails /\ list' = rest /\ excused' = excused \cup {asin}
    /\ UNCHANGED <<rate, quiet, token, holder, call, campaign, fresh>>

\* The wait for the agents is over.
Waited(c) ==
    /\ list[c].at = "send" /\ list[c].todo = <<>>
    /\ Finish(c, "close")
    /\ UNCHANGED <<clientVars, campaign, fresh, excused>>

\* Transition refuses what is not allowed; neither its error nor that of the update is looked at.
CompleteCampaign(c) ==
    /\ list[c].at = "close"
    /\ \/ Works /\ campaign' = IF campaign = "running" THEN "completed" ELSE campaign
       \/ Fails /\ UNCHANGED campaign
    /\ Finish(c, "done")
    /\ UNCHANGED <<rate, quiet, token, holder, call, fresh, excused>>

MarkFailed(c) ==
    /\ list[c].at = "fail"
    /\ \/ Works /\ campaign' = IF campaign \in {"pending", "running"} THEN "failed" ELSE campaign
       \/ Fails /\ UNCHANGED campaign
    /\ Finish(c, "done")
    /\ UNCHANGED <<rate, quiet, token, holder, call, fresh, excused>>

\* The campaign's own workflow starts it.
StartCampaign ==
    /\ campaign = "pending" /\ campaign' = "running"
    /\ UNCHANGED <<clientVars, list, fresh, excused>>

ListStep(c) ==
    \/ Upload(c) \/ Match(c) \/ Probe(c) \/ Probed(c)
    \/ MatchLost(c) \/ RunFunnel(c) \/ FunnelLost(c) \/ Configure(c)
    \/ Dispatch(c) \/ Waited(c) \/ CompleteCampaign(c) \/ MarkFailed(c)

ClientRuns(c) == ClientStep(c) /\ UNCHANGED listVars
TimePasses == Tick /\ UNCHANGED listVars

Next ==
    \/ \E c \in Callers : ListStep(c) \/ ClientRuns(c)
    \/ TimePasses \/ StartCampaign

Spec == Init /\ [][Next]_vars
-----------------------------------------------------------------------------
(* Properties.                                                             *)

\* Amazon has exactly one product for each identifier of a list, under the type asked for.
OneEach(items) == \A i \in DOMAIN items : Len(Listings[IdOf(items[i])][IdType(items)]) = 1

\* A product is calculated with the cost of the item that lists it, provided that
\* every request was answered and Amazon has one product for each identifier: the
\* pairing by position is right over the borders of chunks (pricelist_scanner.go:204
\* and :502, "SP-API returns results in order").
CostBelongs ==
    \A c \in Callers :
        list[c].path \in {"scan", "agents"} /\ list[c].whole /\ OneEach(list[c].items) =>
            \A i \in DOMAIN list[c].pairs :
                LET p == list[c].pairs[i] IN p.item # NoItem /\ Listings[IdOf(p.item)][IdType(list[c].items)] = <<p.asin>>

\* What a price list made fresh, and thereby hides from every other scan of the day,
\* has been sent to the agents or is being sent, unless an answer or an event was
\* lost, it was beyond the 200, or nobody meant to send it (inngest/client.go:630 and :679).
FreshAreSent ==
    fresh \subseteq excused \cup UNION {list[c].sent \cup AsinsOf(list[c].todo) : c \in Callers}

=============================================================================
