--------------------------- MODULE MCAssessmentScan ---------------------------
(* An instance of AssessmentScan for TLC: few categories, of which two are   *)
(* expected to be as open as each other.                                     *)
EXTENDS AssessmentScan

MCExpectedOpen == [c \in 1 .. 4 |-> IF c = 1 THEN 8 ELSE IF c = 4 THEN 2 ELSE 5]
=============================================================================
