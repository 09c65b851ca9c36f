--------------------------- MODULE MCUserAccount ---------------------------
(* Constants of UserAccount for TLC.                                       *)
EXTENDS UserAccount

CONSTANTS c1, c2, d1

\* The catalogue's value of each challenge; different, so that coins tell
\* the challenges apart.
MCValue == [c \in Challenge |-> IF c = c1 THEN 1 ELSE 2]
=============================================================================
