----------------------------- MODULE MCSignUp ------------------------------
(* Constants of SignUp for TLC: two of the addresses are still free, and     *)
(* nothing tells them, or the challenges, apart.                             *)
EXTENDS SignUp, TLC

CONSTANTS x, y, z, c1, c2

Same == Permutations({y, z}) \cup Permutations(Challenge)
=============================================================================
