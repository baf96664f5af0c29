----------------------------- MODULE MCWebChart -----------------------------
(* WebChart on two keys; shields at the edges, around the limits at which the *)
(* card changes sides, and in the middle.                                     *)
EXTENDS WebChart

MCShieldX == {0, 134, 135, 265, 266, 335, 336, 500, 865, 866, 935, 936}
MCShieldY == {0, 164, 165, 215, 216, 380}
=============================================================================
