--------------------------- MODULE MCCategoryScan ---------------------------
(* CategoryScan for TLC: two products in three nodes. *)
EXTENDS CategoryScan

CONSTANTS
    p, q,          \* products
    bad,           \* a brand whose products Amazon refuses
    n1, n2, n3     \* nodes: the third one's search always fails

Offer(a, b, est) == [asin |-> a, brand |-> b, est |-> est, cost |-> 0, sellers |-> 0]
MCListing == [n \in Nodes |-> CASE n = n1 -> <<Offer(p, NoBrand, 20), Offer(p, NoBrand, 12)>>
                                [] n = n2 -> <<Offer(q, bad, 20), Offer(p, NoBrand, 20)>>
                                [] OTHER -> Empty]
MCQuotes == {[price |-> 30, sellers |-> 1], [price |-> 30, sellers |-> 0]}

\* Every node whose search can work is scanned again and again, as long as fewer
\* nodes than a scan takes can never be marked: those stay at the head of the
\* rotation for ever (browse_node_repo.go:47-53, category_scan_service.go:86-95).
RotationReachesAll == \A n \in Nodes \ Broken : []<>(rotation[Len(rotation)] = n)
=============================================================================
