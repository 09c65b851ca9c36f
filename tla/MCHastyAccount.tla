--------------------------- MODULE MCHastyAccount ---------------------------
(* Constants of HastyAccount for TLC.                                      *)
EXTENDS HastyAccount

CONSTANTS c1, c2, d1, d2

MCValue == [c \in Challenge |-> IF c = c1 THEN 1 ELSE 2]
=============================================================================
