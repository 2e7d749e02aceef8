----------------------------- MODULE MCPriceList -----------------------------
(* PriceList for TLC: a list of three that needs two chunks, one that has  *)
(* an unknown identifier, and one that mixes UPCs and EANs.                *)
EXTENDS PriceList, TLC

CONSTANTS agents, other, p1, p2, p3, i1, i2, i3, lost

MCIds == {i1, i2, i3, lost}
MCListings == (i1 :> [UPC |-> <<p1>>, EAN |-> <<>>]) @@ (i2 :> [UPC |-> <<p2>>, EAN |-> <<p2>>])
              @@ (i3 :> [UPC |-> <<p3>>, EAN |-> <<>>]) @@ (lost :> [UPC |-> <<>>, EAN |-> <<>>])
Id(i) == [Blank EXCEPT !.id = i]
Cost(n) == [Blank EXCEPT !.cents = n]
Plain == <<"upc", "cost">>
MCSheets == {[header |-> Plain, rows |-> <<<<Id(i1), Cost(1)>>, <<Id(i2), Cost(2)>>, <<Id(i3), Cost(3)>>>>],
             [header |-> Plain, rows |-> <<<<Id(lost), Cost(1)>>, <<Id(i2), Cost(2)>>, <<Id(i3)>>>>],
             [header |-> <<"ean", "name", "barcode", "price">>,
              rows |-> <<<<Id(i2), Blank, Id(NoId), [Cost(2) EXCEPT !.comma = TRUE]>>,
                         <<Id(NoId), Blank, Id(i1), Cost(1)>>>>]}
MCPaths == [c \in {agents, other} |-> IF c = agents THEN {"agents"} ELSE {"scan", "funnel", "probe"}]
MCProbes == {SearchProducts(<<p1, p2>>), SearchByBrowseNode(<<p1>>), GetProductDetails(<<p1>>),
             CheckListingEligibility(<<p1, p2>>)}
MCNewRate == [e \in Endpoints |-> IF e = "competitive_pricing" THEN 1200 ELSE 700]
=============================================================================
