------------------------------ MODULE MCSocket ------------------------------
(* Messages of one, two and three bytes.                                   *)
EXTENDS Socket

CONSTANTS a, b, c

Lengths == [m \in {a, b, c} |-> IF m = a THEN 1 ELSE IF m = b THEN 2 ELSE 3]

=============================================================================
