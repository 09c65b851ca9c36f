----------------------------- MODULE MCAppStart -----------------------------
(* Constants of AppStart for TLC: two rewards on either side of the middle   *)
(* of the slider.                                                            *)
EXTENDS AppStart

CONSTANTS x, y, c1, c2, food, outdoor, cheap, dear

Prices == cheap :> 100 @@ dear :> 600
=============================================================================
