------------------------------ MODULE MCTimer ------------------------------
(* Instances of Timer for TLC. *)
EXTENDS Timer

(* A pair of channels on one interrupt, and one channel of the other. *)
PairAndOne == {<<1, 0>>, <<1, 1>>, <<1, 3>>}
One == {<<1, 3>>}
=============================================================================
