-------------------------- MODULE MCDiscoveryQueue --------------------------
(* DiscoveryQueue for TLC: two strategies that share a category, and a     *)
(* product listed in both categories.                                      *)
EXTENDS DiscoveryQueue, TLC

CONSTANTS c1, c2, p1, p2, k1, k2

MCCategories == [c \in Contents |-> IF c = c1 THEN <<k1, k2>> ELSE <<k2>>]
MCOffers == [k \in {k1, k2} |-> IF k = k1 THEN <<p1, p2>> ELSE <<p2>>]
MCSuits == [c \in Contents |-> IF c = c1 THEN {p1, p2} ELSE {p2}]
\* The callers are interchangeable.
Symmetry == Permutations(Callers)
=============================================================================
